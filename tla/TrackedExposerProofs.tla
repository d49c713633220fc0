------------------------ MODULE TrackedExposerProofs ------------------------
(***************************************************************************)
(* Proofs about TrackedExposer, for any number of goroutines and instances, *)
(* any configuration and any bounds.                                        *)
(***************************************************************************)
EXTENDS TrackedExposer, SumTheorems

-----------------------------------------------------------------------------
(* The configuration *)

LEMMA SetupFacts ==
    ASSUME setup \in Setups
    PROVE  /\ type \in {"counter", "histogram"} /\ IdleScrapes \in Nat
           /\ HeartbeatScrapes \in Nat /\ HeartbeatScrapes > 0
           /\ ShardBucket \in Nat /\ FamilyBucket \in Nat
           /\ MaxWrites \in Nat /\ MaxLookups \in Nat /\ MaxDeletes \in Nat /\ MaxRounds \in Nat
           /\ Kinds \subseteq {"ack", "final", "plain", "peek"}
<1>1. setup.heartbeatScrapes \in Nat \ {0} /\ setup.shardBucket \in 0..(setup.heartbeatScrapes - 1)
      /\ setup.familyBucket \in 0..(setup.heartbeatScrapes - 1)
  BY SetupsAssumption
<1> QED  BY <1>1, SetupsAssumption
         DEF type, IdleScrapes, HeartbeatScrapes, ShardBucket, FamilyBucket, MaxWrites, MaxLookups,
             MaxDeletes, MaxRounds, Kinds

\* The configuration does not change.
LEMMA SetupKept ==
    ASSUME setup' = setup
    PROVE  /\ type' = type /\ IdleScrapes' = IdleScrapes /\ DisableHeartbeat' = DisableHeartbeat
           /\ HeartbeatScrapes' = HeartbeatScrapes /\ ShardBucket' = ShardBucket
           /\ FamilyBucket' = FamilyBucket /\ Kinds' = Kinds /\ MaxWrites' = MaxWrites
           /\ MaxLookups' = MaxLookups /\ MaxDeletes' = MaxDeletes /\ MaxRounds' = MaxRounds
           /\ (HeldStays' <=> HeldStays) /\ (TurnsMeet' <=> TurnsMeet)
  BY DEF type, IdleScrapes, HeartbeatScrapes, ShardBucket, FamilyBucket, MaxWrites, MaxLookups,
         MaxDeletes, MaxRounds, Kinds, DisableHeartbeat, HeldStays, TurnsMeet

-----------------------------------------------------------------------------
(* What a step leaves alone *)

LEMMA PassKept ==
    ASSUME PassInv, pc' = pc, picking' = picking, dead' = dead, target' = target, batch' = batch,
           took' = took, picks' = picks, beats' = beats, rows' = rows, pending' = pending,
           round' = round, idle' = idle
    PROVE  PassInv'
  BY DEF PassInv

LEMMA EntryKept ==
    ASSUME NEW i, EntryInv(i), pc' = pc, took' = took, picks' = picks, rows' = rows,
           pending' = pending, round' = round, idle' = idle, entry' = entry, held' = held,
           created \subseteq created'
    PROVE  EntryInv(i)'
  BY DEF EntryInv

LEMMA ValueKept ==
    ASSUME NEW i, ValueInv(i), setup' = setup, atCut' = atCut, before' = before, value' = value,
           pending' = pending, entry' = entry, held' = held
    PROVE  ValueInv(i)' /\ Cur(i)' = Cur(i) /\ Base(i)' = Base(i)
  BY SetupKept DEF ValueInv, Cur, Base

LEMMA LiveKept ==
    ASSUME LiveInv, live' = live, created' = created, entry' = entry, dead' = dead, idle' = idle,
           picking' = picking, pc' = pc, deletes' = deletes, took' = took
    PROVE  LiveInv'
<1>1. Counted' = Counted  BY DEF Counted
<1> QED  BY <1>1 DEF LiveInv

LEMMA RoundKept ==
    ASSUME RoundInv, heldRound' = heldRound, held' = held, heldGot' = heldGot, pc' = pc,
           processed' = processed, round' = round, kind' = kind, had' = had, idle' = idle
    PROVE  RoundInv'
  BY DEF RoundInv

LEMMA HeldKept ==
    ASSUME NEW i, HeldInv(i), setup' = setup, held' = held, entry' = entry, dead' = dead, pc' = pc,
           pending' = pending, round' = round, kind' = kind, picking' = picking
    PROVE  HeldInv(i)'
<1>1. Base(i)' = Base(i)  BY DEF Base
<1>2. IdleAt(i, round)' <=> IdleAt(i, round)  BY SetupKept DEF IdleAt
<1> QED  BY <1>1, <1>2, SetupKept DEF HeldInv

LEMMA RowKept ==
    ASSUME NEW i, RowInv(i), setup' = setup, rows' = rows, pending' = pending, entry' = entry
    PROVE  RowInv(i)'
  BY SetupKept DEF RowInv, Told, Base

LEMMA BeatKept ==
    ASSUME BeatInv, setup' = setup, beats' = beats, round' = round
    PROVE  BeatInv'
  BY SetupKept DEF BeatInv, BucketDue

LEMMA SumKept ==
    ASSUME SumInv, setup' = setup, excused' = excused, written' = written, got' = got,
           value' = value, held' = held, heldGot' = heldGot, entry' = entry
    PROVE  SumInv'
<1>1. [i \in Instances |-> value[i] - Received(i)]' = [i \in Instances |-> value[i] - Received(i)]
  BY DEF Received, Base
<1>2. Conserved' <=> Conserved  BY <1>1 DEF Conserved
<1> QED  BY <1>2, SetupKept DEF SumInv

LEMMA DueKept ==
    ASSUME NEW i, DueInv(i), setup' = setup, value' = value, atCut' = atCut, dirty' = dirty,
           marking' = marking, hold' = hold, held' = held, entry' = entry, batch' = batch,
           took' = took, picks' = picks, picking' = picking, pc' = pc, dead' = dead,
           deletes' = deletes, atDeath' = atDeath, pending' = pending
    PROVE  DueInv(i)'
<1>1. /\ Settled(i)' = Settled(i) /\ Told(i)' = Told(i) /\ (Enlisting(i)' <=> Enlisting(i))
      /\ (Excused(i)' <=> Excused(i)) /\ (Taken(i)' <=> Taken(i))
  BY DEF Settled, Told, Base, Enlisting, Excused, Taken
<1> QED  BY <1>1, SetupKept DEF DueInv, Listed

\* Between two steps that settle, nothing that is due is forgotten.
LEMMA DueGrows ==
    ASSUME NEW i, DueInv(i), setup' = setup, value'[i] = value[i], atCut'[i] = atCut[i],
           Settled(i)' = Settled(i), Told(i)' = Told(i), took' = took, picks' = picks,
           i \in dirty \/ Enlisting(i) => i \in dirty' \/ Enlisting(i)',
           Listed(i) => Listed(i)', Taken(i) => Taken(i)' \/ Listed(i)'
    PROVE  DueInv(i)'
  BY SetupKept DEF DueInv

LEMMA CountedFinite ==
    ASSUME TypeOK
    PROVE  IsFiniteSet(created) /\ IsFiniteSet(Counted) /\ Cardinality(Counted) \in Nat
<1>1. created \in SUBSET Instances /\ Counted \in SUBSET created  BY DEF TypeOK, Counted
<1> QED  BY <1>1, InstancesAssumption, FS_Subset, FS_CardinalityType

\* What the scraper has received was written.
LEMMA ReceivedBound ==
    ASSUME TypeOK, \A i \in Instances : ValueInv(i)
    PROVE  [i \in Instances |-> value[i] - Received(i)] \in [Instances -> Nat]
<1>1. ASSUME NEW i \in Instances PROVE value[i] - Received(i) \in Nat
  <2>1. /\ value[i] \in Nat /\ before[i] \in Nat /\ atCut[i] \in Nat /\ held[i] \in Nat
        /\ entry[i] \in Entries \cup {Nil}
    BY DEF TypeOK
  <2>2. Base(i) \in Nat  BY <2>1 DEF Base, Entries
  <2>3. Cur(i) <= value[i] /\ Base(i) <= Cur(i) /\ held[i] <= Cur(i) /\ Cur(i) \in Nat
    BY <2>1 DEF ValueInv, Cur
  <2> QED  BY <2>1, <2>2, <2>3 DEF Received
<1> QED  BY <1>1

-----------------------------------------------------------------------------
(* Writers and users *)

LEMMA ReleaseKeeps ==
    ASSUME ExposerInv, setup' = setup, NEW w \in Writers, Release(w)
    PROVE  ExposerInv'
<1>1. /\ TypeOK /\ OneChild /\ PassInv /\ LiveInv /\ RoundInv /\ BeatInv /\ SumInv
      /\ \A i \in Instances : EntryInv(i) /\ ValueInv(i) /\ HeldInv(i) /\ RowInv(i)
      /\ \A i \in created : DueInv(i)
  BY DEF ExposerInv
<1>2. /\ hold[w] # Nil /\ w \notin marking /\ hold' = [hold EXCEPT ![w] = Nil]
      /\ UNCHANGED <<vecVars, trackVars, marking, lookups, deletes, written, pc, kind,
                     round, live, entry, ackVars, passVars, idle, scraperVars>>
  BY DEF Release
<1>3. TypeOK'
  <2>1. hold' \in [Writers -> created \cup {Nil}]  BY <1>1, <1>2 DEF TypeOK
  <2>2. marking \subseteq {x \in Writers : hold'[x] # Nil}  BY <1>1, <1>2 DEF TypeOK
  <2> QED  BY <1>1, <1>2, <2>1, <2>2, SetupKept
           DEF TypeOK, vecVars, trackVars, ackVars, passVars, scraperVars
<1>4. OneChild' /\ PassInv' /\ LiveInv' /\ RoundInv' /\ BeatInv' /\ SumInv'
  BY <1>1, <1>2, PassKept, LiveKept, RoundKept, BeatKept, SumKept
     DEF OneChild, vecVars, trackVars, ackVars, passVars, scraperVars
<1>5. ASSUME NEW i \in Instances PROVE EntryInv(i)' /\ ValueInv(i)' /\ HeldInv(i)' /\ RowInv(i)'
  BY <1>1, <1>2, EntryKept, ValueKept, HeldKept, RowKept
     DEF vecVars, trackVars, ackVars, passVars, scraperVars
<1>6. ASSUME NEW i \in created' PROVE DueInv(i)'
  <2>1. i \in created /\ DueInv(i)  BY <1>1, <1>2 DEF vecVars
  <2>2. Enlisting(i)' <=> Enlisting(i)
    <3>1. \A x \in marking : hold'[x] = hold[x]  BY <1>1, <1>2 DEF TypeOK
    <3> QED  BY <1>2, <3>1 DEF Enlisting
  <2>3. /\ Settled(i)' = Settled(i) /\ Told(i)' = Told(i) /\ (Excused(i)' <=> Excused(i))
        /\ (Taken(i)' <=> Taken(i)) /\ dirty' = dirty /\ value' = value /\ atCut' = atCut
        /\ took' = took /\ picks' = picks
    BY <1>2 DEF Settled, Told, Base, Excused, Taken, vecVars, trackVars, ackVars, passVars
  <2> QED  BY <2>1, <2>2, <2>3, SetupKept DEF DueInv, Listed
<1> QED  BY <1>3, <1>4, <1>5, <1>6 DEF ExposerInv

LEMMA LookupKeeps ==
    ASSUME ExposerInv, setup' = setup, NEW w \in Writers, Lookup(w)
    PROVE  ExposerInv'
<1>1. /\ TypeOK /\ OneChild /\ PassInv /\ LiveInv /\ RoundInv /\ BeatInv /\ SumInv
      /\ \A i \in Instances : EntryInv(i) /\ ValueInv(i) /\ HeldInv(i) /\ RowInv(i)
      /\ \A i \in created : DueInv(i)
  BY DEF ExposerInv
<1>2. /\ hold[w] = Nil /\ lookups < MaxLookups /\ lookups' = lookups + 1
      /\ UNCHANGED <<dead, atDeath, value, before, atCut, marking, deletes, written, pc,
                     kind, round, live, entry, ackVars, passVars, idle, scraperVars>>
  BY DEF Lookup
<1>3. PICK j \in Instances : /\ j \notin dead /\ hold' = [hold EXCEPT ![w] = j] /\ child' = j
                             /\ created' = created \cup {j} /\ dirty \subseteq dirty'
                             /\ dirty' \subseteq dirty \cup {j}
                             /\ j \notin created => j \in dirty' /\ child = Nil
                             /\ j \in created => child = j
  <2>1. CASE child # Nil  BY <1>1, <2>1 DEF Lookup, TypeOK
  <2>2. CASE child = Nil  BY <1>1, <2>2 DEF Lookup, TypeOK
  <2> QED  BY <2>1, <2>2
<1>4. TypeOK'
  <2>1. hold' \in [Writers -> created' \cup {Nil}]  BY <1>1, <1>3 DEF TypeOK
  <2>2. marking \subseteq {x \in Writers : hold'[x] # Nil}  BY <1>1, <1>2, <1>3 DEF TypeOK
  <2>3. child' \in (created' \ dead) \cup {Nil}  BY <1>3
  <2>4. lookups' \in 0..MaxLookups  BY <1>1, <1>2, SetupFacts DEF TypeOK
  <2>5. dirty' \subseteq created' /\ created' \subseteq Instances /\ created \subseteq created'
    BY <1>1, <1>3 DEF TypeOK
  <2> QED  BY <1>1, <1>2, <2>1, <2>2, <2>3, <2>4, <2>5, SetupKept
           DEF TypeOK, ackVars, passVars, scraperVars
<1>5. OneChild'
  <2>1. j # Nil  BY InstancesAssumption
  <2> QED  BY <1>1, <1>2, <1>3, <2>1 DEF OneChild
<1>6. LiveInv'
  <2>1. ASSUME j \notin created PROVE entry[j] = Nil  BY <1>1, <2>1 DEF EntryInv
  <2>2. Counted' = Counted
    BY <1>2, <1>3, <2>1 DEF Counted, passVars
  <2> QED  BY <1>1, <1>2, <2>2 DEF LiveInv, passVars
<1>7. PassInv' /\ RoundInv' /\ BeatInv' /\ SumInv'
  BY <1>1, <1>2, PassKept, RoundKept, BeatKept, SumKept DEF ackVars, passVars, scraperVars
<1>8. ASSUME NEW i \in Instances PROVE EntryInv(i)' /\ ValueInv(i)' /\ HeldInv(i)' /\ RowInv(i)'
  BY <1>1, <1>2, <1>3, EntryKept, ValueKept, HeldKept, RowKept DEF ackVars, passVars, scraperVars
<1>9. ASSUME NEW i \in created' PROVE DueInv(i)'
  <2>1. CASE i \in created
    <3>1. DueInv(i)  BY <1>1, <2>1
    <3>2. \A x \in marking : hold'[x] = hold[x]  BY <1>1, <1>2, <1>3 DEF TypeOK
    <3>3. i \in dirty \/ Enlisting(i) => i \in dirty' \/ Enlisting(i)'
      BY <1>2, <1>3, <3>2 DEF Enlisting
    <3>4. /\ Settled(i)' = Settled(i) /\ Told(i)' = Told(i) /\ (Excused(i)' <=> Excused(i))
          /\ (Taken(i)' <=> Taken(i)) /\ value' = value /\ atCut' = atCut
          /\ took' = took /\ picks' = picks
      BY <1>2 DEF Settled, Told, Base, Excused, Taken, ackVars, passVars
    <3>5. Listed(i) => Listed(i)'  BY <3>3, <3>4 DEF Listed
    <3> QED  BY <3>1, <3>3, <3>4, <3>5, DueGrows
  <2>2. CASE i \notin created
    <3>1. i \in dirty'  BY <1>3, <2>2
    <3> QED  BY <3>1 DEF DueInv, Listed
  <2> QED  BY <2>1, <2>2
<1> QED  BY <1>4, <1>5, <1>6, <1>7, <1>8, <1>9 DEF ExposerInv

LEMMA WriteKeeps ==
    ASSUME ExposerInv, setup' = setup, NEW w \in Writers, Write(w)
    PROVE  ExposerInv'
<1>1. /\ TypeOK /\ OneChild /\ PassInv /\ LiveInv /\ RoundInv /\ BeatInv /\ SumInv
      /\ \A i \in Instances : EntryInv(i) /\ ValueInv(i) /\ HeldInv(i) /\ RowInv(i)
      /\ \A i \in created : DueInv(i)
  BY DEF ExposerInv
<1>2. /\ w \notin marking /\ written < MaxWrites /\ written' = written + 1
      /\ marking' = marking \cup {w}
      /\ UNCHANGED <<vecVars, before, atCut, dirty, hold, lookups, deletes, pc, kind, round,
                     live, entry, ackVars, passVars, idle, scraperVars>>
  BY DEF Write
<1>3. PICK x \in created : /\ x = hold[w] /\ x \in Instances
                           /\ value' = [value EXCEPT ![x] = @ + 1]
  BY <1>1 DEF Write, TypeOK
<1>4. /\ value'[x] = value[x] + 1 /\ value[x] \in Nat /\ value' \in [Instances -> Nat]
      /\ \A i \in Instances : i # x => value'[i] = value[i]
  BY <1>1, <1>3 DEF TypeOK
<1>5. TypeOK'
  <2>1. marking' \subseteq {y \in Writers : hold[y] # Nil}
    BY <1>1, <1>2, <1>3, InstancesAssumption DEF TypeOK
  <2>2. written' \in 0..MaxWrites  BY <1>1, <1>2, SetupFacts DEF TypeOK
  <2> QED  BY <1>1, <1>2, <1>4, <2>1, <2>2, SetupKept
           DEF TypeOK, vecVars, ackVars, passVars, scraperVars
<1>6. OneChild' /\ PassInv' /\ LiveInv' /\ RoundInv' /\ BeatInv'
  BY <1>1, <1>2, PassKept, LiveKept, RoundKept, BeatKept
     DEF OneChild, vecVars, ackVars, passVars, scraperVars
<1>7. ASSUME NEW i \in Instances PROVE EntryInv(i)' /\ ValueInv(i)' /\ HeldInv(i)' /\ RowInv(i)'
  <2>1. EntryInv(i)' /\ HeldInv(i)' /\ RowInv(i)'
    BY <1>1, <1>2, EntryKept, HeldKept, RowKept DEF vecVars, ackVars, passVars
  <2>2. value[i] <= value'[i] /\ value[i] \in Nat /\ value'[i] \in Nat  BY <1>1, <1>3, <1>4 DEF TypeOK
  <2>3. Base(i)' = Base(i) /\ Base(i) \in Nat  BY <1>1, <1>2 DEF Base, TypeOK, Entries
  <2>4. /\ held'[i] = held[i] /\ held[i] \in Nat /\ pending'[i] = pending[i] /\ pending[i] \in Nat
        /\ atCut'[i] = atCut[i] /\ atCut[i] \in Nat /\ before'[i] = before[i] /\ before[i] \in Nat
    BY <1>1, <1>2 DEF TypeOK, ackVars, passVars
  <2>5. ValueInv(i)'  BY <1>1, <2>2, <2>3, <2>4, SetupKept DEF ValueInv, Cur
  <2> QED  BY <2>1, <2>5
<1>8. SumInv'
  <2> DEFINE F == [i \in Instances |-> value[i] - Received(i)]
  <2>1. \A i \in Instances : Received(i)' = Received(i)  BY <1>2 DEF Received, Base, ackVars
  <2> DEFINE G == [i \in Instances |-> value'[i] - Received(i)]
  <2>2. [i \in Instances |-> value[i] - Received(i)]' = G  BY <2>1
  <2>3. F \in [Instances -> Nat]  BY <1>1, ReceivedBound
  <2>4. F[x] \in Nat /\ F[x] = value[x] - Received(x) /\ G[x] = (value[x] + 1) - Received(x)
    <3>1. F[x] = value[x] - Received(x) /\ G[x] = value'[x] - Received(x)  BY <1>3
    <3> HIDE DEF F, G
    <3>2. F[x] \in Nat  BY <1>3, <2>3
    <3>3. G[x] = (value[x] + 1) - Received(x)  BY <1>4, <3>1
    <3> QED  BY <3>1, <3>2, <3>3
  <2>5. \A i \in Instances : i # x => G[i] = F[i]  BY <1>4
  <2>6. Received(x) \in Nat /\ G[x] = F[x] + 1
    <3>1. Received(x) \in Nat  BY <1>1, <1>3 DEF Received, Base, TypeOK, Entries
    <3> QED  BY <1>4, <2>4, <3>1
  <2>7. G \in [Instances -> Nat]
    <3>1. ASSUME NEW i \in Instances PROVE G[i] \in Nat
      <4>1. CASE i = x  BY <2>4, <2>6, <4>1
      <4>2. CASE i # x  BY <2>3, <2>5, <4>2
      <4> QED  BY <4>1, <4>2
    <3> QED  BY <3>1
  <2> HIDE DEF F, G
  <2>8. SumFunction(G) + F[x] = SumFunction(F) + G[x] /\ SumFunction(F) \in Nat /\ SumFunction(G) \in Nat
    BY <1>3, <2>3, <2>5, <2>7, InstancesAssumption, SumFunctionChanged, SumFunctionType
  <2>9. SumFunction(G) = SumFunction(F) + 1  BY <2>4, <2>6, <2>8
  <2>10. excused' = excused /\ got' = got /\ got \in Nat /\ written \in Nat
    BY <1>1, <1>2, SetupFacts DEF TypeOK, scraperVars
  <2>11. Conserved => Conserved'
    <3>1. Conserved' <=> (~excused' => written' = got' + SumFunction(G))  BY <2>2 DEF Conserved
    <3>2. Conserved <=> (~excused => written = got + SumFunction(F))  BY DEF Conserved, F
    <3> QED  BY <1>2, <2>8, <2>9, <2>10, <3>1, <3>2
  <2> QED  BY <1>1, <2>11, SetupKept DEF SumInv
<1>9. ASSUME NEW i \in created' PROVE DueInv(i)'
  <2>1. i \in created /\ i \in Instances /\ DueInv(i)  BY <1>1, <1>2 DEF vecVars, TypeOK
  <2>2. CASE i = x
    <3>1. Enlisting(i)'  BY <1>2, <1>3, <2>2 DEF Enlisting
    <3> QED  BY <3>1 DEF DueInv, Listed
  <2>3. CASE i # x
    <3>1. Enlisting(i) => Enlisting(i)'  BY <1>2 DEF Enlisting
    <3>2. value'[i] = value[i]  BY <1>4, <2>1, <2>3
    <3>3. /\ Settled(i)' = Settled(i) /\ Told(i)' = Told(i) /\ (Excused(i)' <=> Excused(i))
          /\ (Taken(i)' <=> Taken(i)) /\ atCut' = atCut /\ took' = took /\ picks' = picks
          /\ dirty' = dirty
      BY <1>2, <3>2 DEF Settled, Told, Base, Excused, Taken, ackVars, passVars, vecVars
    <3>4. Listed(i) => Listed(i)'  BY <3>1, <3>3 DEF Listed
    <3> QED  BY <2>1, <3>1, <3>2, <3>3, <3>4, DueGrows
  <2> QED  BY <2>2, <2>3
<1> QED  BY <1>5, <1>6, <1>7, <1>8, <1>9 DEF ExposerInv

LEMMA MarkKeeps ==
    ASSUME ExposerInv, setup' = setup, NEW w \in Writers, Mark(w)
    PROVE  ExposerInv'
<1>1. /\ TypeOK /\ OneChild /\ PassInv /\ LiveInv /\ RoundInv /\ BeatInv /\ SumInv
      /\ \A i \in Instances : EntryInv(i) /\ ValueInv(i) /\ HeldInv(i) /\ RowInv(i)
      /\ \A i \in created : DueInv(i)
  BY DEF ExposerInv
<1>2. /\ w \in marking /\ marking' = marking \ {w} /\ dirty' = dirty \cup {hold[w]}
      /\ UNCHANGED <<vecVars, value, before, atCut, hold, lookups, deletes, written, pc,
                     kind, round, live, entry, ackVars, passVars, idle, scraperVars>>
  BY DEF Mark
<1>3. hold[w] \in created  BY <1>1, <1>2 DEF TypeOK
<1>4. TypeOK'
  BY <1>1, <1>2, <1>3, SetupKept DEF TypeOK, vecVars, ackVars, passVars, scraperVars
<1>5. OneChild' /\ PassInv' /\ LiveInv' /\ RoundInv' /\ BeatInv' /\ SumInv'
  BY <1>1, <1>2, PassKept, LiveKept, RoundKept, BeatKept, SumKept
     DEF OneChild, vecVars, ackVars, passVars, scraperVars
<1>6. ASSUME NEW i \in Instances PROVE EntryInv(i)' /\ ValueInv(i)' /\ HeldInv(i)' /\ RowInv(i)'
  BY <1>1, <1>2, EntryKept, ValueKept, HeldKept, RowKept DEF vecVars, ackVars, passVars
<1>7. ASSUME NEW i \in created' PROVE DueInv(i)'
  <2>1. i \in created /\ DueInv(i)  BY <1>1, <1>2 DEF vecVars
  <2>2. i \in dirty \/ Enlisting(i) => i \in dirty' \/ Enlisting(i)'  BY <1>2 DEF Enlisting
  <2>3. /\ Settled(i)' = Settled(i) /\ Told(i)' = Told(i) /\ (Excused(i)' <=> Excused(i))
        /\ (Taken(i)' <=> Taken(i)) /\ value' = value /\ atCut' = atCut
        /\ took' = took /\ picks' = picks
    BY <1>2 DEF Settled, Told, Base, Excused, Taken, ackVars, passVars, vecVars
  <2>4. Listed(i) => Listed(i)'  BY <2>2, <2>3 DEF Listed
  <2> QED  BY <2>1, <2>2, <2>3, <2>4, DueGrows
<1> QED  BY <1>4, <1>5, <1>6, <1>7 DEF ExposerInv

LEMMA UserDeleteKeeps ==
    ASSUME ExposerInv, setup' = setup, UserDelete
    PROVE  ExposerInv'
<1>1. /\ TypeOK /\ OneChild /\ PassInv /\ LiveInv /\ RoundInv /\ BeatInv /\ SumInv
      /\ \A i \in Instances : EntryInv(i) /\ ValueInv(i) /\ HeldInv(i) /\ RowInv(i)
      /\ \A i \in created : DueInv(i)
  BY DEF ExposerInv
<1>2. /\ deletes < MaxDeletes /\ deletes' = deletes + 1 /\ child' = Nil
      /\ UNCHANGED <<created, trackVars, hold, marking, lookups, written, pc, kind, round,
                     live, entry, ackVars, passVars, idle, scraperVars>>
  BY DEF UserDelete, Remove
<1>3. PICK x \in created : /\ x = child /\ x \in Instances /\ x \notin dead /\ x # Nil
                           /\ dead' = dead \cup {x} /\ atDeath' = [atDeath EXCEPT ![x] = value[x]]
  BY <1>1 DEF UserDelete, Remove, TypeOK
<1>4. deletes \in Nat /\ deletes' \in 0..MaxDeletes /\ deletes' > 0 /\ MaxDeletes # 0
  BY <1>1, <1>2, SetupFacts DEF TypeOK
<1>5. TypeOK'
  <2>1. atDeath' \in [Instances -> Nat]  BY <1>1, <1>3 DEF TypeOK
  <2>2. dead' \subseteq created  BY <1>1, <1>3 DEF TypeOK
  <2> QED  BY <1>1, <1>2, <1>4, <2>1, <2>2, SetupKept
           DEF TypeOK, trackVars, ackVars, passVars, scraperVars
<1>6. OneChild'  BY <1>1, <1>2, <1>3 DEF OneChild
<1>7. PassInv'  BY <1>1, <1>2, <1>3 DEF PassInv, passVars
<1>8. LiveInv'
  <2>1. Counted' \subseteq Counted  BY <1>2, <1>3 DEF Counted, passVars
  <2>2. Cardinality(Counted') <= Cardinality(Counted) /\ Cardinality(Counted') \in Nat
    BY <1>1, <2>1, CountedFinite, FS_Subset, FS_CardinalityType
  <2>3. live \in Nat /\ live >= Cardinality(Counted) /\ Cardinality(Counted) \in Nat
    BY <1>1, CountedFinite DEF TypeOK, LiveInv
  <2>4. live' >= Cardinality(Counted')  BY <1>2, <2>2, <2>3
  <2> QED  BY <1>1, <1>2, <1>4, <2>4 DEF LiveInv, passVars
<1>9. RoundInv' /\ BeatInv' /\ SumInv'
  BY <1>1, <1>2, RoundKept, BeatKept, SumKept DEF trackVars, ackVars, passVars, scraperVars
<1>10. ASSUME NEW i \in Instances PROVE EntryInv(i)' /\ ValueInv(i)' /\ HeldInv(i)' /\ RowInv(i)'
  <2>1. EntryInv(i)' /\ ValueInv(i)' /\ RowInv(i)'
    BY <1>1, <1>2, EntryKept, ValueKept, RowKept DEF trackVars, ackVars, passVars
  <2>2. /\ Base(i)' = Base(i) /\ (IdleAt(i, round)' <=> IdleAt(i, round))
        /\ held' = held /\ pending' = pending /\ picking' = picking
    BY <1>2, SetupKept DEF Base, IdleAt, ackVars, passVars
  <2>3. HeldStays /\ held[i] # 0 => "peek" \notin Kinds /\ pc \notin Passes
    <3>1. ASSUME HeldStays, held[i] # 0 PROVE "peek" \notin Kinds /\ pc \notin Passes
      <4>1. "peek" \notin Kinds  BY <1>4, <3>1 DEF HeldStays
      <4>2. kind # "peek"  BY <1>1, <4>1 DEF TypeOK
      <4>3. heldRound # 0  BY <1>1, <3>1 DEF RoundInv, None
      <4> QED  BY <1>1, <4>1, <4>2, <4>3 DEF RoundInv
    <3> QED  BY <3>1
  <2>4. HeldInv(i)'  BY <1>1, <1>2, <2>2, <2>3, SetupKept DEF HeldInv
  <2> QED  BY <2>1, <2>4
<1>11. ASSUME NEW i \in created' PROVE DueInv(i)'
  <2>1. i \in created /\ i \in Instances /\ DueInv(i)  BY <1>1, <1>2 DEF TypeOK
  <2>2. /\ Settled(i)' = Settled(i) /\ Told(i)' = Told(i) /\ (Enlisting(i)' <=> Enlisting(i))
        /\ value' = value /\ atCut' = atCut /\ took' = took /\ picks' = picks /\ dirty' = dirty
    BY <1>2 DEF Settled, Told, Base, Enlisting, trackVars, ackVars, passVars
  <2>3. CASE i = x
    <3>1. Excused(i)'  BY <1>1, <1>3, <1>4, <2>1, <2>2, <2>3 DEF Excused, TypeOK
    <3>2. Listed(i)'  BY <3>1 DEF Listed
    <3> QED  BY <2>1, <2>2, <3>2, DueGrows
  <2>4. CASE i # x
    <3>1. (Excused(i) => Excused(i)') /\ (Taken(i)' <=> Taken(i))
      BY <1>1, <1>2, <1>3, <1>4, <2>1, <2>4 DEF Excused, Taken, TypeOK, trackVars, passVars
    <3>2. Listed(i) => Listed(i)'  BY <2>2, <3>1 DEF Listed
    <3> QED  BY <2>1, <2>2, <3>1, <3>2, DueGrows
  <2> QED  BY <2>3, <2>4
<1> QED  BY <1>5, <1>6, <1>7, <1>8, <1>9, <1>10, <1>11 DEF ExposerInv

-----------------------------------------------------------------------------
(* The cut, and what Take hands out *)

LEMMA RestartKeeps ==
    ASSUME ExposerInv, setup' = setup, Restart
    PROVE  ExposerInv'
<1>1. /\ TypeOK /\ OneChild /\ PassInv /\ LiveInv /\ RoundInv /\ BeatInv /\ SumInv
      /\ \A i \in Instances : EntryInv(i) /\ ValueInv(i) /\ HeldInv(i) /\ RowInv(i)
      /\ \A i \in created : DueInv(i)
  BY DEF ExposerInv
<1>2. /\ pc = "rest" /\ had' = FALSE /\ processed' = 0
      /\ UNCHANGED <<vecVars, trackVars, userVars, pc, kind, round, live, entry, ackVars,
                     passVars, idle, got, excused>>
  BY DEF Restart
<1>3. TypeOK'
  <2>1. round \in Nat  BY <1>1, SetupFacts DEF TypeOK
  <2>2. processed' \in 0..round'  BY <1>2, <2>1
  <2>3. had' \in BOOLEAN  BY <1>2
  <2> QED  BY <1>1, <1>2, <2>2, <2>3, SetupKept
           DEF TypeOK, vecVars, trackVars, userVars, ackVars, passVars
<1>4. OneChild' /\ PassInv' /\ LiveInv' /\ BeatInv' /\ SumInv'
  BY <1>1, <1>2, PassKept, LiveKept, BeatKept, SumKept
     DEF OneChild, vecVars, trackVars, userVars, ackVars, passVars
<1>5. RoundInv'  BY <1>1, <1>2 DEF RoundInv, ackVars, Passes, Picking, Dropping
<1>6. ASSUME NEW i \in Instances PROVE EntryInv(i)' /\ ValueInv(i)' /\ HeldInv(i)' /\ RowInv(i)'
  BY <1>1, <1>2, EntryKept, ValueKept, HeldKept, RowKept DEF vecVars, trackVars, ackVars, passVars
<1>7. ASSUME NEW i \in created' PROVE DueInv(i)'
  <2>1. i \in created /\ DueInv(i)  BY <1>1, <1>2 DEF vecVars
  <2> QED  BY <1>2, <2>1, DueKept DEF vecVars, trackVars, userVars, ackVars, passVars
<1> QED  BY <1>3, <1>4, <1>5, <1>6, <1>7 DEF ExposerInv

LEMMA CutKeeps ==
    ASSUME ExposerInv, setup' = setup, Cut
    PROVE  ExposerInv'
<1>1. /\ TypeOK /\ OneChild /\ PassInv /\ LiveInv /\ RoundInv /\ BeatInv /\ SumInv
      /\ \A i \in Instances : EntryInv(i) /\ ValueInv(i) /\ HeldInv(i) /\ RowInv(i)
      /\ \A i \in created : DueInv(i)
  BY DEF ExposerInv
<1>2. /\ pc = "cut" /\ pc' = "take" /\ before' = value
      /\ UNCHANGED <<vecVars, value, atCut, dirty, userVars, kind, round, live, entry,
                     ackVars, passVars, idle, scraperVars>>
  BY DEF Cut, Goto
<1>3. /\ pc \in Passes /\ pc' \in Passes /\ pc' \notin Picking /\ pc \notin Picking
      /\ pc' \notin Dropping
  BY <1>2 DEF Passes, Picking, Dropping
<1>4. TypeOK'
  BY <1>1, <1>2, SetupKept DEF TypeOK, vecVars, userVars, ackVars, passVars, scraperVars
<1>5. OneChild' /\ BeatInv' /\ SumInv'
  BY <1>1, <1>2, BeatKept, SumKept DEF OneChild, vecVars, userVars, ackVars, passVars, scraperVars
<1>6. PassInv'  BY <1>1, <1>2, <1>3 DEF PassInv, passVars, vecVars
<1>7. LiveInv'
  <2>1. Counted' = Counted  BY <1>2 DEF Counted, vecVars, passVars
  <2> QED  BY <1>1, <1>2, <1>3, <2>1 DEF LiveInv, vecVars, userVars, passVars
<1>8. RoundInv'  BY <1>1, <1>2, <1>3 DEF RoundInv, ackVars, scraperVars
<1>9. ASSUME NEW i \in Instances PROVE EntryInv(i)' /\ ValueInv(i)' /\ HeldInv(i)' /\ RowInv(i)'
  <2>1. EntryInv(i)'  BY <1>1, <1>2, <1>3 DEF EntryInv, vecVars, ackVars, passVars
  <2>2. RowInv(i)'  BY <1>1, <1>2, RowKept DEF passVars
  <2>3. /\ Base(i)' = Base(i) /\ Cur(i)' = Cur(i) /\ held' = held /\ pending' = pending
        /\ dead' = dead
    BY <1>2, SetupKept DEF Base, Cur, ackVars, passVars, vecVars
  <2>4. atCut[i] \in Nat /\ before[i] \in Nat /\ value[i] \in Nat  BY <1>1 DEF TypeOK
  <2>5. ValueInv(i)'  BY <1>1, <1>2, <2>3, <2>4 DEF ValueInv
  <2>6. HeldInv(i)'  BY <1>1, <1>2, <1>3, <2>3, SetupKept DEF HeldInv
  <2> QED  BY <2>1, <2>2, <2>5, <2>6
<1>10. ASSUME NEW i \in created' PROVE DueInv(i)'
  <2>1. i \in created /\ DueInv(i)  BY <1>1, <1>2 DEF vecVars
  <2>2. /\ Settled(i)' = Settled(i) /\ Told(i)' = Told(i) /\ (Enlisting(i)' <=> Enlisting(i))
        /\ value' = value /\ atCut' = atCut /\ took' = took /\ picks' = picks /\ dirty' = dirty
        /\ (Excused(i)' <=> Excused(i)) /\ (Taken(i)' <=> Taken(i))
    BY <1>2 DEF Settled, Told, Base, Enlisting, Excused, Taken, vecVars, userVars, ackVars, passVars
  <2>3. Listed(i) => Listed(i)'  BY <2>2 DEF Listed
  <2> QED  BY <2>1, <2>2, <2>3, DueGrows
<1> QED  BY <1>4, <1>5, <1>6, <1>7, <1>8, <1>9, <1>10 DEF ExposerInv

LEMMA ValueSame ==
    ASSUME NEW i, ValueInv(i), setup' = setup, atCut' = atCut, before' = before, value' = value,
           Base(i)' = Base(i), pending'[i] = pending[i], held'[i] = held[i]
    PROVE  ValueInv(i)'
  BY SetupKept DEF ValueInv, Cur

LEMMA RowSame ==
    ASSUME NEW i, RowInv(i), setup' = setup, rows'[i] = rows[i], pending'[i] = pending[i],
           Base(i)' = Base(i)
    PROVE  RowInv(i)'
  BY SetupKept DEF RowInv, Told

LEMMA SumSame ==
    ASSUME SumInv, setup' = setup, excused' = excused, written' = written, got' = got,
           value' = value, held' = held, heldGot' = heldGot,
           \A i \in Instances : Base(i)' = Base(i)
    PROVE  SumInv'
<1>1. [i \in Instances |-> value[i] - Received(i)]' = [i \in Instances |-> value[i] - Received(i)]
  BY DEF Received
<1>2. Conserved' <=> Conserved  BY <1>1 DEF Conserved
<1> QED  BY <1>2, SetupKept DEF SumInv

\* Before the second pass begins nothing is to be committed.
LEMMA HeldInPass ==
    ASSUME NEW i, HeldInv(i), setup' = setup, pc \in Passes, pc' \in Passes, held' = held,
           dead' \subseteq dead, pending'[i] = 0, HeldStays /\ held[i] # 0 => Base(i)' = Base(i)
    PROVE  HeldInv(i)'
<1>1. pc' \notin Dropping  BY DEF Passes, Picking, Dropping
<1>2. pc' \notin {"delete", "callback"}  BY DEF Passes, Picking
<1> QED  BY <1>1, <1>2, SetupKept DEF HeldInv

\* The passes read, and do not settle, the round that is held.
LEMMA RoundInPass ==
    ASSUME RoundInv, heldRound' = heldRound, held' = held, heldGot' = heldGot, pc \in Passes,
           pc' \in Passes, processed' = processed, round' = round, kind' = kind, had' = had
    PROVE  RoundInv'
<1>1. pc' \notin Dropping  BY DEF Passes, Picking, Dropping
<1> QED  BY <1>1 DEF RoundInv

LEMMA PcFacts ==
    /\ "cut" \in Passes /\ "take" \in Passes /\ "next" \in Passes /\ "pick" \in Passes
    /\ "entry" \in Passes /\ "revive" \in Passes /\ "move" \in Passes /\ "emit" \in Passes
    /\ "next" \in Picking /\ "pick" \in Picking
    /\ "entry" \in Picking /\ "revive" \in Picking /\ "move" \in Picking
    /\ "cut" \notin Picking /\ "take" \notin Picking /\ "emit" \notin Picking /\ "rest" \notin Passes
    /\ "rest" \notin Picking /\ "rest" \notin Dropping
    /\ \A l \in Passes : l \notin Dropping /\ l # "rest" /\ l # "callback" /\ l # "callbackDone" /\ l # "delete"
    /\ \A l \in Dropping : l \notin Passes /\ l \notin Picking /\ l # "emit" /\ l # "rest"
    /\ "drop" \in Dropping /\ "delete" \in Dropping /\ "callback" \in Dropping
    /\ "callbackDone" \in Dropping
  BY DEF Passes, Picking, Dropping

LEMMA TakeKeeps ==
    ASSUME ExposerInv, setup' = setup, Take
    PROVE  ExposerInv'
<1>1. /\ TypeOK /\ OneChild /\ PassInv /\ LiveInv /\ RoundInv /\ BeatInv /\ SumInv
      /\ \A i \in Instances : EntryInv(i) /\ ValueInv(i) /\ HeldInv(i) /\ RowInv(i)
      /\ \A i \in created : DueInv(i)
  BY DEF ExposerInv
<1>2. /\ pc = "take" /\ pc' = "next" /\ batch' = dirty
      /\ dirty' = {i \in dirty : type = "counter" /\ value[i] # before[i]}
      /\ atCut' = [i \in Instances |-> IF i \in dirty THEN before[i] ELSE atCut[i]]
      /\ UNCHANGED <<vecVars, value, before, userVars, kind, round, live, entry, ackVars,
                     picking, target, picks, beats, took, rows, pending, idle, scraperVars>>
  BY DEF Take, Goto
<1>3. pc \in Passes /\ pc' \in Passes /\ pc' \in Picking /\ pc' \notin Dropping  BY <1>2, PcFacts
<1>4. TypeOK'
  <2>1. atCut' \in [Instances -> Nat]  BY <1>1, <1>2 DEF TypeOK
  <2> QED  BY <1>1, <1>2, <2>1, SetupKept DEF TypeOK, vecVars, userVars, ackVars, scraperVars
<1>5. OneChild' /\ BeatInv' /\ SumInv' /\ RoundInv'
  BY <1>1, <1>2, <1>3, BeatKept, SumKept, RoundInPass
     DEF OneChild, vecVars, userVars, ackVars, scraperVars
<1>6. PassInv'  BY <1>1, <1>2, <1>3 DEF PassInv
<1>7. LiveInv'
  <2>1. Counted' = Counted  BY <1>2 DEF Counted, vecVars
  <2> QED  BY <1>1, <1>2, <1>3, <2>1 DEF LiveInv, vecVars, userVars
<1>8. ASSUME NEW i \in Instances PROVE EntryInv(i)' /\ ValueInv(i)' /\ HeldInv(i)' /\ RowInv(i)'
  <2>1. Base(i)' = Base(i) /\ held' = held /\ dead' = dead /\ pending'[i] = pending[i]
    BY <1>2 DEF Base, ackVars, vecVars
  <2>2. pending'[i] = 0  BY <1>1, <1>2, <2>1 DEF PassInv, None
  <2>3. EntryInv(i)'  BY <1>1, <1>2, <1>3 DEF EntryInv, vecVars, ackVars
  <2>4. RowInv(i)'  BY <1>1, <1>2, RowKept
  <2>5. HeldInv(i)'  BY <1>1, <1>3, <2>1, <2>2, HeldInPass
  <2>6. /\ atCut[i] \in Nat /\ before[i] \in Nat /\ value[i] \in Nat /\ Base(i) \in Nat
        /\ held[i] \in Nat /\ pending[i] \in Nat /\ before' = before /\ value' = value
        /\ atCut'[i] \in {atCut[i], before[i]}
    BY <1>1, <1>2 DEF TypeOK, Base, Entries
  <2>7. ValueInv(i)'  BY <1>1, <2>1, <2>6, SetupKept DEF ValueInv, Cur
  <2> QED  BY <2>3, <2>4, <2>5, <2>7
<1>9. ASSUME NEW i \in created' PROVE DueInv(i)'
  <2>1. i \in created /\ i \in Instances /\ DueInv(i)  BY <1>1, <1>2 DEF vecVars, TypeOK
  <2>2. /\ Settled(i)' = Settled(i) /\ (Enlisting(i)' <=> Enlisting(i)) /\ value' = value
        /\ (Excused(i)' <=> Excused(i))
    BY <1>2 DEF Settled, Base, Enlisting, Excused, vecVars, userVars, ackVars
  <2>3. took' = {} /\ batch = {} /\ took = {}  BY <1>1, <1>2, PcFacts DEF PassInv
  <2>4. ~Taken(i)  BY <1>2, <2>3 DEF Taken
  <2>5. i \in dirty => Taken(i)'  BY <1>2 DEF Taken
  <2>6. type' = "counter" /\ value'[i] # atCut'[i] => i \in dirty' \/ Enlisting(i)'
    BY <1>2, <2>1, <2>2, SetupKept DEF DueInv
  <2>7. HeldStays' /\ value'[i] # Settled(i)' => Listed(i)' \/ Taken(i)'
    BY <2>1, <2>2, <2>4, <2>5, SetupKept DEF DueInv, Listed
  <2> QED  BY <2>3, <2>6, <2>7 DEF DueInv
<1> QED  BY <1>4, <1>5, <1>6, <1>7, <1>8, <1>9 DEF ExposerInv

LEMMA HandOutKeeps ==
    ASSUME ExposerInv, setup' = setup, NEW x \in Instances, HandOut(x)
    PROVE  ExposerInv'
<1>1. /\ TypeOK /\ OneChild /\ PassInv /\ LiveInv /\ RoundInv /\ BeatInv /\ SumInv
      /\ \A i \in Instances : EntryInv(i) /\ ValueInv(i) /\ HeldInv(i) /\ RowInv(i)
      /\ \A i \in created : DueInv(i)
  BY DEF ExposerInv
<1>2. /\ pc = "next" /\ pc' = "pick" /\ x \in batch /\ batch' = batch \ {x} /\ picking' = x
      /\ UNCHANGED <<vecVars, trackVars, userVars, kind, round, live, entry, ackVars, target,
                     picks, beats, took, rows, pending, idle, scraperVars>>
  BY DEF HandOut, Goto
<1>3. pc \in Passes /\ pc' \in Passes /\ pc' \in Picking /\ pc' \notin Dropping  BY <1>2, PcFacts
<1>4. TypeOK'
  BY <1>1, <1>2, SetupKept DEF TypeOK, vecVars, trackVars, userVars, ackVars, scraperVars
<1>5. OneChild' /\ BeatInv' /\ SumInv' /\ RoundInv'
  BY <1>1, <1>2, <1>3, BeatKept, SumKept, RoundInPass
     DEF OneChild, vecVars, trackVars, userVars, ackVars, scraperVars
<1>6. PassInv'  BY <1>1, <1>2, <1>3, InstancesAssumption DEF PassInv
<1>7. LiveInv'
  <2>1. Counted' = Counted  BY <1>2 DEF Counted, vecVars
  <2> QED  BY <1>1, <1>2, <1>3, <2>1 DEF LiveInv, vecVars, userVars
<1>8. ASSUME NEW i \in Instances PROVE EntryInv(i)' /\ ValueInv(i)' /\ HeldInv(i)' /\ RowInv(i)'
  <2>1. Base(i)' = Base(i) /\ held' = held /\ dead' = dead  BY <1>2 DEF Base, ackVars, vecVars
  <2>2. pending'[i] = 0  BY <1>1, <1>2 DEF PassInv, None
  <2>3. EntryInv(i)'  BY <1>1, <1>2, <1>3 DEF EntryInv, vecVars, ackVars
  <2>4. RowInv(i)' /\ ValueInv(i)'  BY <1>1, <1>2, RowKept, ValueKept DEF trackVars, ackVars
  <2>5. HeldInv(i)'  BY <1>1, <1>3, <2>1, <2>2, HeldInPass
  <2> QED  BY <2>3, <2>4, <2>5
<1>9. ASSUME NEW i \in created' PROVE DueInv(i)'
  <2>1. i \in created /\ DueInv(i)  BY <1>1, <1>2 DEF vecVars
  <2>2. /\ Settled(i)' = Settled(i) /\ Told(i)' = Told(i) /\ (Enlisting(i)' <=> Enlisting(i))
        /\ value' = value /\ atCut' = atCut /\ took' = took /\ picks' = picks /\ dirty' = dirty
        /\ (Excused(i)' <=> Excused(i))
    BY <1>2 DEF Settled, Told, Base, Enlisting, Excused, vecVars, trackVars, userVars, ackVars
  <2>3. Taken(i) => Taken(i)'  BY <1>2 DEF Taken
  <2>4. Listed(i) => Listed(i)'  BY <2>2 DEF Listed
  <2> QED  BY <2>1, <2>2, <2>3, <2>4, DueGrows
<1> QED  BY <1>4, <1>5, <1>6, <1>7, <1>8, <1>9 DEF ExposerInv

LEMMA PickChecksKeeps ==
    ASSUME ExposerInv, setup' = setup, PickChecks
    PROVE  ExposerInv'
<1>1. /\ TypeOK /\ OneChild /\ PassInv /\ LiveInv /\ RoundInv /\ BeatInv /\ SumInv
      /\ \A i \in Instances : EntryInv(i) /\ ValueInv(i) /\ HeldInv(i) /\ RowInv(i)
      /\ \A i \in created : DueInv(i)
  BY DEF ExposerInv
<1>2. /\ pc = "pick" /\ pc' = IF picking \in dead THEN "revive" ELSE "entry"
      /\ UNCHANGED <<vecVars, trackVars, userVars, kind, round, live, entry, ackVars,
                     passVars, idle, scraperVars>>
  BY DEF PickChecks, Goto, TrackedDeleted
<1>3. pc \in Passes /\ pc' \in Passes /\ pc' \in Picking /\ pc' \notin Dropping  BY <1>2, PcFacts
<1>4. TypeOK'
  BY <1>1, <1>2, SetupKept DEF TypeOK, vecVars, trackVars, userVars, ackVars, passVars, scraperVars
<1>5. OneChild' /\ BeatInv' /\ SumInv' /\ RoundInv'
  BY <1>1, <1>2, <1>3, BeatKept, SumKept, RoundInPass
     DEF OneChild, vecVars, trackVars, userVars, ackVars, passVars, scraperVars
<1>6. PassInv'  BY <1>1, <1>2, <1>3 DEF PassInv, passVars, vecVars
<1>7. LiveInv'
  <2>1. Counted' = Counted  BY <1>2 DEF Counted, vecVars, passVars
  <2> QED  BY <1>1, <1>2, <1>3, <2>1 DEF LiveInv, vecVars, userVars, passVars
<1>8. ASSUME NEW i \in Instances PROVE EntryInv(i)' /\ ValueInv(i)' /\ HeldInv(i)' /\ RowInv(i)'
  <2>1. Base(i)' = Base(i) /\ held' = held /\ dead' = dead  BY <1>2 DEF Base, ackVars, vecVars
  <2>2. pending'[i] = 0  BY <1>1, <1>2 DEF PassInv, None, passVars
  <2>3. EntryInv(i)'  BY <1>1, <1>2, <1>3 DEF EntryInv, vecVars, ackVars, passVars
  <2>4. RowInv(i)' /\ ValueInv(i)'  BY <1>1, <1>2, RowKept, ValueKept DEF trackVars, ackVars, passVars
  <2>5. HeldInv(i)'  BY <1>1, <1>3, <2>1, <2>2, HeldInPass
  <2> QED  BY <2>3, <2>4, <2>5
<1>9. ASSUME NEW i \in created' PROVE DueInv(i)'
  <2>1. i \in created /\ DueInv(i)  BY <1>1, <1>2 DEF vecVars
  <2>2. /\ Settled(i)' = Settled(i) /\ Told(i)' = Told(i) /\ (Enlisting(i)' <=> Enlisting(i))
        /\ value' = value /\ atCut' = atCut /\ took' = took /\ picks' = picks /\ dirty' = dirty
        /\ (Excused(i)' <=> Excused(i))
    BY <1>2 DEF Settled, Told, Base, Enlisting, Excused, vecVars, trackVars, userVars, ackVars, passVars
  <2>3. Taken(i) => Taken(i)'  BY <1>2 DEF Taken, vecVars, passVars
  <2>4. Listed(i) => Listed(i)'  BY <2>2 DEF Listed
  <2> QED  BY <2>1, <2>2, <2>3, <2>4, DueGrows
<1> QED  BY <1>4, <1>5, <1>6, <1>7, <1>8, <1>9 DEF ExposerInv

-----------------------------------------------------------------------------
(* pick and settleDeleted *)

LEMMA PickEntryKeeps ==
    ASSUME ExposerInv, setup' = setup, PickEntry
    PROVE  ExposerInv'
<1>1. /\ TypeOK /\ OneChild /\ PassInv /\ LiveInv /\ RoundInv /\ BeatInv /\ SumInv
      /\ \A i \in Instances : EntryInv(i) /\ ValueInv(i) /\ HeldInv(i) /\ RowInv(i)
      /\ \A i \in created : DueInv(i)
  BY DEF ExposerInv
<1>2. /\ pc = "entry" /\ pc' = "next"
      /\ UNCHANGED <<vecVars, trackVars, userVars, kind, round, ackVars, batch, picking,
                     target, beats, rows, pending, idle, scraperVars>>
  BY DEF PickEntry, Goto
<1>3. /\ pc \in Passes /\ pc' \in Passes /\ pc' \in Picking /\ pc' \notin Dropping
      /\ pc' \notin {"callback", "callbackDone"} /\ pc \notin {"callback", "callbackDone"}
  BY <1>2, PcFacts
<1>4. PICK x \in created : x = picking /\ x \in Instances /\ x # Nil
  BY <1>1, <1>2 DEF PassInv, TypeOK
<1>5. round \in Nat /\ live \in Nat /\ (entry[x] # Nil => entry[x] \in Entries)
  BY <1>1, <1>4, SetupFacts DEF TypeOK
<1>6. \/ /\ x \in dead \/ (entry[x] # Nil /\ entry[x].picked = round)
         /\ entry' = entry /\ live' = live /\ picks' = picks /\ took' = took
      \/ /\ x \notin dead /\ picks' = picks \cup {x} /\ took' = took \cup {x}
         /\ entry[x] = Nil /\ live' = live + 1
         /\ entry' = [entry EXCEPT ![x] = [value |-> 0, changed |-> round, picked |-> round]]
      \/ /\ x \notin dead /\ picks' = picks \cup {x} /\ took' = took \cup {x}
         /\ entry[x] # Nil /\ live' = live
         /\ entry' = [entry EXCEPT ![x].picked = round]
  BY <1>4 DEF PickEntry
<1>7. /\ \/ took' = took /\ picks' = picks
         \/ took' = took \cup {x} /\ picks' = picks \cup {x} /\ x \notin dead
      /\ took \subseteq took' /\ picks = took /\ picks' = took'
  BY <1>1, <1>2, <1>6 DEF PassInv
<1>8. /\ entry' \in [Instances -> Entries \cup {Nil}]
      /\ \A i \in Instances : /\ i # x => entry'[i] = entry[i]
                              /\ Base(i)' = Base(i)
                              /\ entry[i] # Nil => entry'[i] # Nil
  <2>1. CASE entry' = entry  BY <1>1, <2>1 DEF TypeOK, Base
  <2>2. CASE entry[x] = Nil /\ entry' = [entry EXCEPT ![x] = [value |-> 0, changed |-> round, picked |-> round]]
    BY <1>1, <1>4, <1>5, <2>2, NilAssumption DEF TypeOK, Base, Entries
  <2>3. CASE entry[x] # Nil /\ entry' = [entry EXCEPT ![x].picked = round]
    BY <1>1, <1>4, <1>5, <2>3, NilAssumption DEF TypeOK, Base, Entries
  <2> QED  BY <1>6, <2>1, <2>2, <2>3
<1>9. TypeOK'
  <2>1. live' \in Nat /\ took' \subseteq created /\ picks' \subseteq took' /\ beats \subseteq took'
    BY <1>1, <1>4, <1>5, <1>6, <1>7 DEF TypeOK
  <2> QED  BY <1>1, <1>2, <1>8, <2>1, SetupKept
           DEF TypeOK, vecVars, trackVars, userVars, ackVars, scraperVars
<1>10. OneChild' /\ BeatInv' /\ SumInv' /\ RoundInv'
  BY <1>1, <1>2, <1>3, <1>8, BeatKept, SumSame, RoundInPass
     DEF OneChild, vecVars, trackVars, userVars, ackVars, scraperVars
<1>11. PassInv'  BY <1>1, <1>2, <1>3, <1>7 DEF PassInv, vecVars
<1>12. (entry'[x] = entry[x] /\ took' = took) \/ (entry'[x] # Nil /\ entry'[x].picked = round /\ x \in took' /\ x \notin dead)
  BY <1>1, <1>4, <1>5, <1>6, NilAssumption DEF TypeOK, Entries
<1>13. LiveInv'
  <2>1. CASE entry' = entry /\ live' = live
    <3>1. Counted' = Counted  BY <1>2, <1>3, <2>1 DEF Counted, vecVars
    <3> QED  BY <1>1, <1>2, <1>3, <1>7, <2>1, <3>1 DEF LiveInv, vecVars, userVars
  <2>2. CASE x \notin dead /\ entry[x] # Nil /\ live' = live
    <3>1. Counted' = Counted  BY <1>1, <1>2, <1>3, <1>8, <2>2 DEF Counted, vecVars, TypeOK
    <3> QED  BY <1>1, <1>2, <1>3, <1>7, <2>2, <3>1 DEF LiveInv, vecVars, userVars
  <2>3. CASE x \notin dead /\ entry[x] = Nil /\ live' = live + 1 /\ entry'[x] # Nil
    <3>1. Counted' = Counted \cup {x} /\ x \notin Counted
      BY <1>1, <1>2, <1>3, <1>4, <1>8, <2>3 DEF Counted, vecVars, TypeOK
    <3>2. /\ Cardinality(Counted') = Cardinality(Counted) + 1 /\ Cardinality(Counted) \in Nat
      BY <1>1, <3>1, CountedFinite, FS_AddElement
    <3> QED  BY <1>1, <1>2, <1>3, <1>5, <1>7, <2>3, <3>2 DEF LiveInv, vecVars, userVars
  <2> QED  BY <1>1, <1>4, <1>5, <1>6, <2>1, <2>2, <2>3, NilAssumption DEF TypeOK, Entries
<1>14. ASSUME NEW i \in Instances PROVE EntryInv(i)' /\ ValueInv(i)' /\ HeldInv(i)' /\ RowInv(i)'
  <2>1. Base(i)' = Base(i) /\ held' = held /\ dead' = dead /\ pending' = pending /\ rows' = rows
    BY <1>2, <1>8 DEF ackVars, vecVars
  <2>2. pending'[i] = 0 /\ rows'[i] = 0  BY <1>1, <1>2 DEF PassInv, None
  <2>3. EntryInv(i)'
    <3>1. CASE i # x
      <4>1. entry'[i] = entry[i] /\ (i \in took' <=> i \in took)  BY <1>7, <1>8, <3>1
      <4> QED  BY <1>1, <1>2, <1>3, <2>2, <4>1 DEF EntryInv, vecVars, ackVars
    <3>2. CASE i = x
      <4>1. entry'[i] = entry[i] \/ (entry'[i] # Nil /\ entry'[i].picked = round /\ i \in took')
        BY <1>12, <3>2
      <4>2. i \in took' => i \in took \/ entry'[i] # Nil
        BY <1>12, <3>2
      <4>3. i \in created' /\ round' = round /\ idle' = idle /\ held' = held  BY <1>2, <1>4, <3>2 DEF vecVars, ackVars
      <4>4. entry[i] # Nil => entry'[i] # Nil  BY <1>8
      <4>5. i \in took => entry[i] # Nil  BY <1>1 DEF EntryInv
      <4> QED  BY <1>1, <1>3, <1>5, <1>7, <2>2, <4>1, <4>2, <4>3, <4>4, <4>5 DEF EntryInv
    <3> QED  BY <3>1, <3>2
  <2>4. RowInv(i)' /\ ValueInv(i)'
    BY <1>1, <1>2, <2>1, RowSame, ValueSame DEF trackVars
  <2>5. HeldInv(i)'  BY <1>1, <1>3, <2>1, <2>2, HeldInPass
  <2> QED  BY <2>3, <2>4, <2>5
<1>15. ASSUME NEW i \in created' PROVE DueInv(i)'
  <2>1. i \in created /\ DueInv(i) /\ i \in Instances  BY <1>1, <1>2 DEF vecVars, TypeOK
  <2>2. /\ Settled(i)' = Settled(i) /\ (Enlisting(i)' <=> Enlisting(i))
        /\ value' = value /\ atCut' = atCut /\ dirty' = dirty /\ (Excused(i)' <=> Excused(i))
    BY <1>2, <1>8, <2>1 DEF Settled, Enlisting, Excused, vecVars, trackVars, userVars, ackVars
  <2>3. Taken(i) => Taken(i)'
    <3>1. i = x /\ i \notin dead => i \in took'
      BY <1>1, <1>2, <1>3, <1>4, <1>6, <1>7 DEF EntryInv
    <3> QED  BY <1>2, <1>4, <1>7, <3>1 DEF Taken
  <2>4. Listed(i) => Listed(i)'  BY <2>2 DEF Listed
  <2>5. took' \ picks' = {}  BY <1>7
  <2> QED  BY <2>1, <2>2, <2>3, <2>4, <2>5, SetupKept DEF DueInv
<1> QED  BY <1>9, <1>10, <1>11, <1>13, <1>14, <1>15 DEF ExposerInv

LEMMA ReviveKeeps ==
    ASSUME ExposerInv, setup' = setup, Revive
    PROVE  ExposerInv'
<1>1. /\ TypeOK /\ OneChild /\ PassInv /\ LiveInv /\ RoundInv /\ BeatInv /\ SumInv
      /\ \A i \in Instances : EntryInv(i) /\ ValueInv(i) /\ HeldInv(i) /\ RowInv(i)
      /\ \A i \in created : DueInv(i)
  BY DEF ExposerInv
<1>2. /\ pc = "revive" /\ pc' \in {"pick", "move"}
      /\ UNCHANGED <<created, atDeath, trackVars, userVars, kind, round, entry, ackVars,
                     batch, picking, picks, beats, took, rows, pending, idle, scraperVars>>
  BY DEF Revive, Goto
<1>3. /\ pc \in Passes /\ pc' \in Passes /\ pc' \in Picking /\ pc' \notin Dropping
      /\ pc' \notin {"callback", "callbackDone"} /\ pc \notin {"callback", "callbackDone"}
  BY <1>2, PcFacts
<1>4. PICK x \in created : x = picking /\ x \in Instances /\ x # Nil /\ x \in dead
  BY <1>1, <1>2 DEF PassInv, TypeOK
<1>5. \/ /\ child = Nil /\ child' = x /\ dead' = dead \ {x} /\ pc' = "pick" /\ target' = target
         /\ live' = IF entry[x] # Nil THEN live + 1 ELSE live
      \/ /\ child # Nil /\ target' = child /\ pc' = "move" /\ child' = child /\ dead' = dead
         /\ live' = live
  BY <1>4 DEF Revive, NoneInVec, CountedIn, Goto
<1>6. live \in Nat /\ live' \in Nat  BY <1>1, <1>5 DEF TypeOK
<1>7. TypeOK'
  <2>1. /\ child' \in Instances \cup {Nil} /\ child' \in (created \ dead') \cup {Nil}
        /\ dead' \subseteq created /\ target' \in created \cup {Nil}
    BY <1>1, <1>4, <1>5 DEF TypeOK
  <2> QED  BY <1>1, <1>2, <1>6, <2>1, SetupKept
           DEF TypeOK, trackVars, userVars, ackVars, scraperVars
<1>8. OneChild'  BY <1>1, <1>2, <1>4, <1>5 DEF OneChild
<1>9. BeatInv' /\ SumInv' /\ RoundInv'
  BY <1>1, <1>2, <1>3, BeatKept, SumKept, RoundInPass
     DEF trackVars, userVars, ackVars, scraperVars
<1>10. PassInv'
  <2>1. pc' = "move" => target' # Nil /\ target' # picking' /\ picking' \in dead'
    BY <1>1, <1>2, <1>4, <1>5 DEF TypeOK
  <2> QED  BY <1>1, <1>2, <1>3, <1>4, <2>1 DEF PassInv
<1>11. LiveInv'
  <2>1. CASE child # Nil
    <3>1. Counted' = Counted  BY <1>2, <1>3, <1>5, <2>1 DEF Counted
    <3> QED  BY <1>1, <1>2, <1>3, <1>5, <2>1, <3>1 DEF LiveInv, userVars
  <2>2. CASE child = Nil
    <3>1. entry[x] = Nil => Counted' = Counted
      BY <1>2, <1>3, <1>4, <1>5, <2>2 DEF Counted
    <3>2. entry[x] # Nil => Counted' = Counted \cup {x}
      BY <1>2, <1>3, <1>4, <1>5, <2>2 DEF Counted
    <3>3. x \in Counted => x \in idle  BY <1>3, <1>4 DEF Counted
    <3>4. /\ entry[x] # Nil => Cardinality(Counted') = IF x \in Counted THEN Cardinality(Counted)
                                                       ELSE Cardinality(Counted) + 1
          /\ Cardinality(Counted) \in Nat
      BY <1>1, <3>2, CountedFinite, FS_AddElement
    <3>5. deletes' = 0 => x \notin Counted  BY <1>1, <1>2, <1>4, <3>3 DEF LiveInv, userVars
    <3>6. live' >= Cardinality(Counted') /\ (deletes' = 0 => live' = Cardinality(Counted'))
      BY <1>1, <1>2, <1>5, <1>6, <2>2, <3>1, <3>4, <3>5 DEF LiveInv, userVars
    <3>7. deletes' = 0 => (took' \cup idle') \cap dead' = {}
      BY <1>1, <1>2, <1>5 DEF LiveInv, userVars
    <3> QED  BY <1>3, <3>6, <3>7 DEF LiveInv
  <2> QED  BY <2>1, <2>2
<1>12. ASSUME NEW i \in Instances PROVE EntryInv(i)' /\ ValueInv(i)' /\ HeldInv(i)' /\ RowInv(i)'
  <2>1. Base(i)' = Base(i) /\ held' = held /\ dead' \subseteq dead  BY <1>2, <1>5 DEF Base, ackVars
  <2>2. pending'[i] = 0  BY <1>1, <1>2 DEF PassInv, None
  <2>3. EntryInv(i)'  BY <1>1, <1>2, <1>3 DEF EntryInv, ackVars
  <2>4. RowInv(i)' /\ ValueInv(i)'  BY <1>1, <1>2, RowKept, ValueKept DEF trackVars, ackVars
  <2>5. HeldInv(i)'  BY <1>1, <1>3, <2>1, <2>2, HeldInPass
  <2> QED  BY <2>3, <2>4, <2>5
<1>13. ASSUME NEW i \in created' PROVE DueInv(i)'
  <2>1. i \in created /\ DueInv(i)  BY <1>1, <1>2
  <2>2. /\ Settled(i)' = Settled(i) /\ Told(i)' = Told(i) /\ (Enlisting(i)' <=> Enlisting(i))
        /\ value' = value /\ atCut' = atCut /\ took' = took /\ picks' = picks /\ dirty' = dirty
    BY <1>2 DEF Settled, Told, Base, Enlisting, trackVars, userVars, ackVars
  <2>3. Taken(i) => Taken(i)'  BY <1>2 DEF Taken
  <2>4. i # x => (Excused(i) => Excused(i)')
    BY <1>2, <1>5 DEF Excused, trackVars, userVars
  <2>5. i = x => Taken(i)'  BY <1>2, <1>4 DEF Taken
  <2>6. took' \ picks' = {}  BY <1>1, <1>2 DEF PassInv
  <2> QED  BY <2>1, <2>2, <2>3, <2>4, <2>5, <2>6, SetupKept DEF DueInv, Listed
<1> QED  BY <1>7, <1>8, <1>9, <1>10, <1>11, <1>12, <1>13 DEF ExposerInv

LEMMA MoveKeeps ==
    ASSUME ExposerInv, setup' = setup, Move
    PROVE  ExposerInv'
<1>1. /\ TypeOK /\ OneChild /\ PassInv /\ LiveInv /\ RoundInv /\ BeatInv /\ SumInv
      /\ \A i \in Instances : EntryInv(i) /\ ValueInv(i) /\ HeldInv(i) /\ RowInv(i)
      /\ \A i \in created : DueInv(i)
  BY DEF ExposerInv
<1>2. /\ pc = "move" /\ pc' \in {"pick", "next"}
      /\ UNCHANGED <<vecVars, userVars, kind, round, live, ackVars, batch, target, picks,
                     beats, took, rows, pending, idle, scraperVars>>
  BY DEF Move, Goto
<1>3. /\ pc \in Passes /\ pc' \in Passes /\ pc' \in Picking /\ pc' \notin Dropping
      /\ pc' \notin {"callback", "callbackDone"} /\ pc \notin {"callback", "callbackDone"}
  BY <1>2, PcFacts
<1>4. PICK x \in created, t \in created :
          /\ x = picking /\ t = target /\ x # t /\ x \in Instances /\ t \in Instances
          /\ x \in dead /\ t # Nil
  BY <1>1, <1>2 DEF PassInv, TypeOK
<1>5. PICK c : c = Cur(x)  OBVIOUS
<1>6. /\ c \in Nat /\ Base(x) \in Nat /\ Base(x) <= c /\ entry[x] \in Entries \cup {Nil}
      /\ c <= value[x] /\ value[x] \in Nat
  BY <1>1, <1>4, <1>5 DEF TypeOK, Base, Entries, Cur, ValueInv
<1>7. PICK d \in Nat : d = c - Base(x)  BY <1>6
<1>8. entry' = [entry EXCEPT ![x] = IF entry[x] = Nil THEN [value |-> c, changed |-> 0, picked |-> 0]
                                    ELSE [entry[x] EXCEPT !.value = c]]
  BY <1>4, <1>5 DEF Move
<1>9. \/ /\ d > 0
         /\ value' = [value EXCEPT ![t] = @ + d]
         /\ before' = [before EXCEPT ![t] = IF type = "counter" THEN @ + d ELSE @]
         /\ atCut' = [atCut EXCEPT ![t] = IF type = "counter" THEN @ + d ELSE @]
         /\ dirty' = dirty \cup {t} /\ picking' = t /\ pc' = "pick"
      \/ /\ d <= 0 /\ pc' = "next" /\ UNCHANGED <<trackVars, picking>>
  BY <1>4, <1>5, <1>7 DEF Move, Undelivered, Goto
<1>10. /\ value' \in [Instances -> Nat] /\ before' \in [Instances -> Nat] /\ atCut' \in [Instances -> Nat]
       /\ \A i \in Instances : i # t => value'[i] = value[i] /\ before'[i] = before[i] /\ atCut'[i] = atCut[i]
       /\ value'[t] = value[t] + d
       /\ before'[t] = IF type = "counter" THEN before[t] + d ELSE before[t]
       /\ atCut'[t] = IF type = "counter" THEN atCut[t] + d ELSE atCut[t]
  <2>1. /\ value[t] \in Nat /\ before[t] \in Nat /\ atCut[t] \in Nat /\ value \in [Instances -> Nat]
        /\ before \in [Instances -> Nat] /\ atCut \in [Instances -> Nat]
    BY <1>1, <1>4 DEF TypeOK
  <2>2. CASE d > 0  BY <1>4, <1>9, <2>1, <2>2
  <2>3. CASE d <= 0  BY <1>4, <1>9, <2>1, <2>3 DEF trackVars
  <2> QED  BY <2>2, <2>3
<1>11. /\ dirty \subseteq dirty' /\ dirty' \subseteq dirty \cup {t} /\ picking' \in {x, t}
       /\ (pc' = "pick" => picking' = t) /\ (d > 0 => t \in dirty')
  BY <1>4, <1>9 DEF trackVars
<1>12. /\ entry' \in [Instances -> Entries \cup {Nil}] /\ entry'[x] # Nil /\ entry'[x].value = c
       /\ \A i \in Instances : i # x => entry'[i] = entry[i]
       /\ entry[x] # Nil => entry'[x].picked = entry[x].picked
       /\ entry[x] = Nil => entry'[x].picked = 0
  <2>1. CASE entry[x] = Nil
    BY <1>1, <1>4, <1>6, <1>8, <2>1, NilAssumption DEF TypeOK, Entries
  <2>2. CASE entry[x] # Nil
    BY <1>1, <1>4, <1>6, <1>8, <2>2, NilAssumption DEF TypeOK, Entries
  <2> QED  BY <2>1, <2>2
<1>13. Base(x)' = c /\ \A i \in Instances : i # x => Base(i)' = Base(i)  BY <1>12 DEF Base
<1>14. HeldStays => held[x] = 0
  BY <1>1, <1>2, <1>3, <1>4 DEF HeldInv
<1>15. TypeOK'
  <2>1. dirty' \subseteq created /\ picking' \in created \cup {Nil}
    BY <1>1, <1>4, <1>11 DEF TypeOK
  <2> QED  BY <1>1, <1>2, <1>10, <1>12, <2>1, SetupKept
           DEF TypeOK, vecVars, userVars, ackVars, scraperVars
<1>16. OneChild' /\ BeatInv' /\ RoundInv'
  BY <1>1, <1>2, <1>3, BeatKept, RoundInPass DEF OneChild, vecVars, ackVars, scraperVars
<1>17. PassInv'  BY <1>1, <1>2, <1>3, <1>4, <1>11 DEF PassInv
<1>18. LiveInv'
  <2>1. entry[x] = Nil => x \notin idle  BY <1>1, <1>4 DEF EntryInv
  <2>2. Counted' = Counted
    BY <1>1, <1>2, <1>3, <1>4, <1>12, <2>1 DEF Counted, vecVars, TypeOK
  <2> QED  BY <1>1, <1>2, <1>3, <2>2 DEF LiveInv, vecVars, userVars
<1>19. SumInv'
  <2>1. SUFFICES ASSUME HeldStays, TurnsMeet PROVE Conserved'  BY SetupKept DEF SumInv
  <2> DEFINE F == [i \in Instances |-> value[i] - Received(i)]
             G == [i \in Instances |-> value[i] - Received(i)]'
  <2>2. /\ Received(x) = Base(x) /\ Received(x)' = c
        /\ \A i \in Instances : i # x => Received(i)' = Received(i)
    BY <1>2, <1>4, <1>13, <1>14, <2>1 DEF Received, ackVars
  <2>3. F \in [Instances -> Nat]  BY <1>1, ReceivedBound
  <2>4. /\ G[x] = value[x] - c /\ F[x] = value[x] - Base(x)
        /\ G[t] = (value[t] + d) - Received(t) /\ F[t] = value[t] - Received(t)
        /\ \A i \in Instances \ {x, t} : G[i] = F[i]
    BY <1>4, <1>10, <2>2
  <2>5. Received(t) \in Nat /\ value[t] \in Nat
    BY <1>1, <1>4 DEF Received, Base, TypeOK, Entries
  <2>6. DOMAIN G = Instances /\ G = [i \in Instances |-> G[i]]  OBVIOUS
  <2>7. Conserved <=> (~excused => written = got + SumFunction(F))  BY DEF Conserved
  <2>8. Conserved' <=> (~excused' => written' = got' + SumFunction(G))  BY DEF Conserved
  <2> HIDE DEF F, G
  <2>9. F[x] = G[x] + d /\ G[t] = F[t] + d  BY <1>6, <1>7, <2>4, <2>5
  <2>10. F[t] \in Nat /\ \A i \in Instances : F[i] \in Nat  BY <1>4, <2>3
  <2>11. G \in [Instances -> Nat]
    <3>1. ASSUME NEW i \in Instances PROVE G[i] \in Nat
      <4>1. CASE i = x  BY <1>6, <2>4, <4>1
      <4>2. CASE i = t  BY <2>9, <2>10, <4>2
      <4>3. CASE i \notin {x, t}  BY <2>4, <2>10, <4>3
      <4> QED  BY <4>1, <4>2, <4>3
    <3> QED  BY <2>6, <3>1
  <2>12. SumFunction(G) = SumFunction(F)
    BY <1>4, <2>3, <2>4, <2>9, <2>11, InstancesAssumption, SumFunctionMoved
  <2> QED  BY <1>1, <1>2, <2>1, <2>7, <2>8, <2>12 DEF SumInv, userVars, scraperVars
<1>20. ASSUME NEW i \in Instances PROVE EntryInv(i)' /\ ValueInv(i)' /\ HeldInv(i)' /\ RowInv(i)'
  <2>1. /\ held' = held /\ dead' = dead /\ pending' = pending /\ rows' = rows /\ round' = round
        /\ took' = took /\ picks' = picks /\ idle' = idle /\ created' = created
    BY <1>2 DEF ackVars, vecVars
  <2>2. pending'[i] = 0 /\ rows'[i] = 0 /\ round \in Nat /\ round > 0
    BY <1>1, <1>2, SetupFacts DEF PassInv, None, TypeOK
  <2>3. EntryInv(i)'
    <3>1. CASE i # x
      <4>1. entry'[i] = entry[i]  BY <1>12, <3>1
      <4> QED  BY <1>1, <1>3, <2>1, <4>1 DEF EntryInv
    <3>2. CASE i = x
      <4>1. entry[i] # Nil => /\ entry'[i].picked <= round
                              /\ (entry'[i].picked = round => i \in took)
        BY <1>1, <1>3, <1>12, <3>2 DEF EntryInv
      <4>2. entry[i] = Nil => entry'[i].picked = 0  BY <1>12, <3>2
      <4>3. entry'[i].picked <= round /\ (entry'[i].picked = round => i \in took)  BY <2>2, <4>1, <4>2
      <4> QED  BY <1>4, <1>12, <2>1, <2>2, <3>2, <4>3 DEF EntryInv
    <3> QED  BY <3>1, <3>2
  <2>4. Base(i)' \in Nat  BY <1>6, <1>12 DEF Base, Entries
  <2>5. RowInv(i)'  BY <2>2, <2>4 DEF RowInv, Told
  <2>6. HeldInv(i)'  BY <1>1, <1>3, <1>13, <1>14, <2>1, <2>2, HeldInPass
  <2>7. /\ atCut[i] \in Nat /\ before[i] \in Nat /\ value[i] \in Nat /\ Base(i) \in Nat
        /\ held[i] \in Nat
    BY <1>1 DEF TypeOK, Base, Entries
  <2>8. ValueInv(i)'
    <3>1. CASE i = t
      <4>1. Base(i)' = Base(i)  BY <1>4, <1>13, <3>1
      <4> QED  BY <1>1, <1>10, <2>1, <2>2, <2>7, <3>1, <4>1, SetupKept DEF ValueInv, Cur
    <3>2. CASE i # t
      <4>1. Cur(i)' = Cur(i) /\ Cur(i) \in Nat  BY <1>10, <2>7, <3>2, SetupKept DEF Cur
      <4>2. Base(i)' <= Cur(i)'  BY <1>1, <1>5, <1>6, <1>13, <4>1 DEF ValueInv
      <4> QED  BY <1>1, <1>10, <2>1, <2>2, <2>7, <3>2, <4>1, <4>2 DEF ValueInv
    <3> QED  BY <3>1, <3>2
  <2> QED  BY <2>3, <2>5, <2>6, <2>8
<1>21. ASSUME NEW i \in created' PROVE DueInv(i)'
  <2>1. i \in created /\ i \in Instances /\ DueInv(i)  BY <1>1, <1>2 DEF vecVars, TypeOK
  <2>2. took' \ picks' = {}  BY <1>1, <1>2 DEF PassInv
  <2>3. Enlisting(i)' <=> Enlisting(i)  BY <1>2 DEF Enlisting, userVars
  <2>4. CASE i = t /\ d > 0
    <3>1. i \in dirty'  BY <1>11, <2>4
    <3> QED  BY <2>2, <3>1 DEF DueInv, Listed
  <2>5. CASE i # t \/ d = 0
    <3>1. value'[i] = value[i] /\ atCut'[i] = atCut[i]
      <4>1. value[i] \in Nat /\ atCut[i] \in Nat  BY <1>1, <2>1 DEF TypeOK
      <4> QED  BY <1>10, <2>1, <2>5, <4>1
    <3>2. type' = "counter" /\ value'[i] # atCut'[i] => i \in dirty' \/ Enlisting(i)'
      BY <1>11, <2>1, <2>3, <3>1, SetupKept DEF DueInv
    <3>3. Listed(i) => Listed(i)'
      BY <1>2, <1>11, <2>3, <3>1 DEF Listed, Excused, vecVars, userVars
    <3>4. HeldStays' /\ value'[i] # Settled(i)' => Listed(i)' \/ Taken(i)'
      <4>1. CASE i # x
        <5>1. Settled(i)' = Settled(i)  BY <1>2, <1>13, <2>1, <4>1 DEF Settled, ackVars
        <5>2. Taken(i) => Taken(i)'  BY <1>2, <1>4, <4>1 DEF Taken
        <5> QED  BY <2>1, <3>1, <3>3, <5>1, <5>2, SetupKept DEF DueInv
      <4>2. CASE i = x
        <5>1. HeldStays => Settled(i)' = Cur(i)
          BY <1>2, <1>5, <1>13, <1>14, <4>2 DEF Settled, ackVars
        <5>2. value[i] # Cur(i) => i \in dirty \/ Enlisting(i)
          BY <2>1, SetupFacts, <1>1 DEF DueInv, Cur, TypeOK
        <5> QED  BY <1>11, <2>3, <3>1, <5>1, <5>2, SetupKept DEF Listed
      <4> QED  BY <4>1, <4>2
    <3> QED  BY <2>2, <3>2, <3>4 DEF DueInv
  <2> QED  BY <2>4, <2>5
<1> QED  BY <1>15, <1>16, <1>17, <1>18, <1>19, <1>20, <1>21 DEF ExposerInv

-----------------------------------------------------------------------------
(* The heartbeat walk and the second pass *)

LEMMA WalkKeeps ==
    ASSUME ExposerInv, setup' = setup, Walk
    PROVE  ExposerInv'
<1>1. /\ TypeOK /\ OneChild /\ PassInv /\ LiveInv /\ RoundInv /\ BeatInv /\ SumInv
      /\ \A i \in Instances : EntryInv(i) /\ ValueInv(i) /\ HeldInv(i) /\ RowInv(i)
      /\ \A i \in created : DueInv(i)
  BY DEF ExposerInv
<1>2. /\ pc = "next" /\ pc' = "emit" /\ batch = {}
      /\ UNCHANGED <<vecVars, trackVars, userVars, kind, round, live, ackVars, batch, picking,
                     target, rows, pending, scraperVars>>
  BY DEF Walk, Goto
<1>3. /\ pc \in Passes /\ pc' \in Passes /\ pc' \notin Picking /\ pc' \notin Dropping
      /\ pc' \notin {"callback", "callbackDone"} /\ pc \notin {"callback", "callbackDone"}
  BY <1>2, PcFacts
<1>4. PICK due \in SUBSET Walked :
          /\ due # {} => ~DisableHeartbeat /\ BucketDue(round)
          /\ beats' = due /\ picks' = picks \cup due /\ took' = took \cup due
          /\ idle \subseteq idle' /\ idle' \subseteq idle \cup Walked
          /\ entry' = [i \in Instances |->
                          IF i \in due THEN [entry[i] EXCEPT !.picked = round] ELSE entry[i]]
  <2> DEFINE walked == {i \in Walked : ~DisableHeartbeat /\ BucketDue(round)}
             due == {i \in walked : ~IdleAt(i, round) /\ entry[i].picked # round}
  <2>1. /\ due \in SUBSET Walked /\ (due # {} => ~DisableHeartbeat /\ BucketDue(round))
        /\ walked \subseteq Walked
    OBVIOUS
  <2>2. /\ beats' = due /\ picks' = picks \cup due /\ took' = took \cup due
        /\ idle' = idle \cup {i \in walked : IdleAt(i, round)}
        /\ entry' = [i \in Instances |->
                        IF i \in due THEN [entry[i] EXCEPT !.picked = round] ELSE entry[i]]
    BY DEF Walk
  <2> QED  BY <2>1, <2>2
<1>5. due \subseteq created /\ due \subseteq Instances /\ \A i \in Walked : i \in created /\ i \notin dead /\ entry[i] # Nil
  BY <1>1, <1>4 DEF Walked, TypeOK
<1>6. round \in Nat  BY <1>1, SetupFacts DEF TypeOK
<1>7. /\ entry' \in [Instances -> Entries \cup {Nil}]
      /\ \A i \in Instances : /\ i \notin due => entry'[i] = entry[i]
                              /\ i \in due => entry'[i] # Nil /\ entry'[i].picked = round
                              /\ Base(i)' = Base(i)
                              /\ (entry'[i] # Nil <=> entry[i] # Nil)
  <2>1. ASSUME NEW i \in Instances
        PROVE  /\ i \notin due => entry'[i] = entry[i]
               /\ i \in due => entry'[i] # Nil /\ entry'[i].picked = round /\ entry'[i] \in Entries
                               /\ entry[i] # Nil
               /\ Base(i)' = Base(i)
    <3>1. CASE i \notin due  BY <1>4, <3>1 DEF Base
    <3>2. CASE i \in due
      <4>1. entry[i] \in Entries /\ entry[i] # Nil  BY <1>1, <1>4, <1>5, <3>2 DEF TypeOK
      <4>2. entry'[i] = [entry[i] EXCEPT !.picked = round]  BY <1>4, <3>2
      <4>3. entry'[i] \in Entries /\ entry'[i].value = entry[i].value /\ entry'[i].picked = round
        BY <1>6, <4>1, <4>2 DEF Entries
      <4> QED  BY <3>2, <4>1, <4>3, NilAssumption DEF Base
    <3> QED  BY <3>1, <3>2
  <2>2. entry' = [i \in Instances |-> entry'[i]]  BY <1>4
  <2>3. ASSUME NEW i \in Instances PROVE entry'[i] \in Entries \cup {Nil}  BY <1>1, <2>1 DEF TypeOK
  <2> QED  BY <2>1, <2>2, <2>3
<1>8. picks = took /\ picks' = took'  BY <1>1, <1>2, <1>4 DEF PassInv
<1>9. TypeOK'
  <2>1. took' \subseteq created /\ beats' \subseteq took' /\ picks' \subseteq took' /\ idle' \subseteq created
    BY <1>1, <1>4, <1>5, <1>8 DEF TypeOK
  <2> QED  BY <1>1, <1>2, <1>7, <2>1, SetupKept
           DEF TypeOK, vecVars, trackVars, userVars, ackVars, scraperVars
<1>10. OneChild' /\ SumInv' /\ RoundInv'
  BY <1>1, <1>2, <1>3, <1>7, SumSame, RoundInPass
     DEF OneChild, vecVars, trackVars, userVars, ackVars, scraperVars
<1>11. BeatInv'  BY <1>2, <1>4, SetupKept DEF BeatInv, BucketDue
<1>12. PassInv'  BY <1>1, <1>2, <1>3 DEF PassInv
<1>13. LiveInv'
  <2>1. Counted' = Counted
    <3>1. \A i \in Instances : i \in dead \ idle' <=> i \in dead \ idle  BY <1>4, <1>5
    <3> QED  BY <1>1, <1>2, <1>3, <1>7, <3>1 DEF Counted, vecVars, TypeOK
  <2>2. (took \cup idle) \cap dead = {} => (took' \cup idle') \cap dead = {}  BY <1>4, <1>5
  <2> QED  BY <1>1, <1>2, <1>3, <2>1, <2>2 DEF LiveInv, vecVars, userVars
<1>14. ASSUME NEW i \in Instances PROVE EntryInv(i)' /\ ValueInv(i)' /\ HeldInv(i)' /\ RowInv(i)'
  <2>1. /\ Base(i)' = Base(i) /\ held' = held /\ dead' = dead /\ pending' = pending /\ rows' = rows
        /\ created' = created /\ round' = round
    BY <1>2, <1>7 DEF ackVars, vecVars
  <2>2. pending'[i] = 0 /\ rows'[i] = 0  BY <1>1, <1>2 DEF PassInv, None
  <2>3. EntryInv(i)'
    <3>1. i \in took' \cup idle' \/ held'[i] # 0 => entry'[i] # Nil
      BY <1>1, <1>4, <1>5, <1>7, <2>1 DEF EntryInv
    <3>2. i \in due => i \in created /\ entry'[i].picked <= round /\ i \in took'
      <4>1. i \in due => i \in created /\ i \in took' /\ entry'[i].picked = round  BY <1>4, <1>5, <1>7
      <4> QED  BY <1>6, <4>1
    <3>3. i \notin due => entry'[i] = entry[i] /\ (i \in took' <=> i \in took)  BY <1>4, <1>7
    <3>4. entry'[i] # Nil => /\ i \in created' /\ entry'[i].picked <= round'
                             /\ (entry'[i].picked = round' => i \in took')
      BY <1>1, <1>3, <2>1, <3>2, <3>3 DEF EntryInv
    <3> QED  BY <2>2, <3>1, <3>4 DEF EntryInv
  <2>4. RowInv(i)' /\ ValueInv(i)'
    BY <1>1, <1>2, <2>1, RowSame, ValueSame DEF trackVars
  <2>5. HeldInv(i)'  BY <1>1, <1>3, <2>1, <2>2, HeldInPass
  <2> QED  BY <2>3, <2>4, <2>5
<1>15. ASSUME NEW i \in created' PROVE DueInv(i)'
  <2>1. i \in created /\ DueInv(i) /\ i \in Instances  BY <1>1, <1>2 DEF vecVars, TypeOK
  <2>2. /\ Settled(i)' = Settled(i) /\ (Enlisting(i)' <=> Enlisting(i))
        /\ value' = value /\ atCut' = atCut /\ dirty' = dirty /\ (Excused(i)' <=> Excused(i))
    BY <1>2, <1>7, <2>1 DEF Settled, Enlisting, Excused, vecVars, trackVars, userVars, ackVars
  <2>3. Taken(i) => Taken(i)'  BY <1>2, <1>4 DEF Taken
  <2>4. Listed(i) => Listed(i)'  BY <2>2 DEF Listed
  <2>5. took' \ picks' = {}  BY <1>8
  <2> QED  BY <2>1, <2>2, <2>3, <2>4, <2>5, SetupKept DEF DueInv
<1> QED  BY <1>9, <1>10, <1>11, <1>12, <1>13, <1>14, <1>15 DEF ExposerInv

LEMMA EmitKeeps ==
    ASSUME ExposerInv, setup' = setup, NEW x \in Instances, Emit(x)
    PROVE  ExposerInv'
<1>1. /\ TypeOK /\ OneChild /\ PassInv /\ LiveInv /\ RoundInv /\ BeatInv /\ SumInv
      /\ \A i \in Instances : EntryInv(i) /\ ValueInv(i) /\ HeldInv(i) /\ RowInv(i)
      /\ \A i \in created : DueInv(i)
  BY DEF ExposerInv
<1>2. /\ pc = "emit" /\ x \in picks /\ picks' = picks \ {x}
      /\ UNCHANGED <<vecVars, trackVars, userVars, pc, kind, round, live, ackVars, batch,
                     picking, target, beats, took, idle, scraperVars>>
  BY DEF Emit
<1>3. pc \in Passes /\ pc' \in Passes /\ pc' \notin Picking /\ pc' \notin Dropping /\ pc' = "emit"
  BY <1>2, PcFacts
<1>4. /\ x \in took /\ x \in created /\ entry[x] # Nil /\ entry[x] \in Entries
      /\ rows[x] = 0 /\ pending[x] = 0
  BY <1>1, <1>2 DEF TypeOK, EntryInv
<1>5. PICK c : c = Cur(x)  OBVIOUS
<1>6. PICK b \in Nat : b = entry[x].value /\ b = Base(x)  BY <1>4 DEF Base, Entries
<1>7. c \in Nat /\ b <= c  BY <1>1, <1>5, <1>6 DEF TypeOK, Cur, ValueInv
<1>8. /\ entry' = [entry EXCEPT ![x].changed = IF c # b THEN round ELSE @]
      /\ \/ /\ c # b \/ HeartbeatTurn
            /\ rows' = [rows EXCEPT ![x] = c - b] /\ pending' = [pending EXCEPT ![x] = c]
         \/ /\ c = b /\ ~HeartbeatTurn
            /\ rows' = [rows EXCEPT ![x] = IF x \in beats THEN c ELSE 0] /\ pending' = pending
  BY <1>5, <1>6 DEF Emit
<1>9. round \in Nat  BY <1>1, SetupFacts DEF TypeOK
<1>10. /\ entry' \in [Instances -> Entries \cup {Nil}] /\ entry'[x] # Nil
       /\ entry'[x].value = b /\ entry'[x].picked = entry[x].picked
       /\ (c # b => entry'[x].changed = round)
       /\ \A i \in Instances : i # x => entry'[i] = entry[i]
  <2>1. PICK ch \in Nat : /\ ch = IF c # b THEN round ELSE entry[x].changed
                          /\ entry' = [entry EXCEPT ![x] = [entry[x] EXCEPT !.changed = ch]]
    BY <1>4, <1>8, <1>9 DEF Entries
  <2>2. [entry[x] EXCEPT !.changed = ch] \in Entries  BY <1>4, <2>1 DEF Entries
  <2>3. entry'[x] = [entry[x] EXCEPT !.changed = ch]  BY <1>1, <2>1 DEF TypeOK
  <2>4. entry'[x].value = b /\ entry'[x].picked = entry[x].picked /\ entry'[x].changed = ch
    BY <1>4, <1>6, <2>3 DEF Entries
  <2> QED  BY <1>1, <2>1, <2>2, <2>3, <2>4, NilAssumption DEF TypeOK
<1>11. \A i \in Instances : Base(i)' = Base(i) /\ (entry'[i] # Nil <=> entry[i] # Nil)
  BY <1>4, <1>6, <1>10 DEF Base
<1>12. /\ rows' \in [Instances -> Nat] /\ pending' \in [Instances -> Nat]
       /\ \A i \in Instances : i # x => rows'[i] = rows[i] /\ pending'[i] = pending[i]
       /\ pending'[x] \in {0, c} /\ rows'[x] \in Nat
       /\ (c # b => pending'[x] = c /\ rows'[x] = c - b)
       /\ (c = b => pending'[x] = 0 \/ HeartbeatTurn)
       /\ (c = b => rows'[x] = 0 \/ (x \in beats /\ ~HeartbeatTurn))
  <2>1. rows \in [Instances -> Nat] /\ pending \in [Instances -> Nat]  BY <1>1 DEF TypeOK
  <2>2. CASE /\ c # b \/ HeartbeatTurn
             /\ rows' = [rows EXCEPT ![x] = c - b] /\ pending' = [pending EXCEPT ![x] = c]
    BY <1>7, <2>1, <2>2
  <2>3. CASE /\ c = b /\ ~HeartbeatTurn
             /\ rows' = [rows EXCEPT ![x] = IF x \in beats THEN c ELSE 0] /\ pending' = pending
    BY <1>4, <1>7, <2>1, <2>3
  <2> QED  BY <1>8, <2>2, <2>3
<1>13. Told(x)' = c
  BY <1>6, <1>7, <1>10, <1>12 DEF Told, Base
<1>14. TypeOK'
  <2>1. picks' \subseteq took  BY <1>1, <1>2 DEF TypeOK
  <2> QED  BY <1>1, <1>2, <1>10, <1>12, <2>1, SetupKept
           DEF TypeOK, vecVars, trackVars, userVars, ackVars, scraperVars
<1>15. OneChild' /\ SumInv' /\ RoundInv' /\ BeatInv'
  BY <1>1, <1>2, <1>3, <1>11, SumSame, RoundInPass, BeatKept
     DEF OneChild, vecVars, trackVars, userVars, ackVars, scraperVars
<1>16. PassInv'  BY <1>1, <1>2, <1>3 DEF PassInv
<1>17. LiveInv'
  <2>1. Counted' = Counted  BY <1>1, <1>2, <1>11 DEF Counted, vecVars, TypeOK
  <2> QED  BY <1>1, <1>2, <1>3, <2>1 DEF LiveInv, vecVars, userVars
<1>18. ASSUME NEW i \in Instances PROVE EntryInv(i)' /\ ValueInv(i)' /\ HeldInv(i)' /\ RowInv(i)'
  <2>1. /\ Base(i)' = Base(i) /\ held' = held /\ dead' = dead /\ value' = value /\ atCut' = atCut
        /\ created' = created /\ round' = round /\ before' = before /\ took' = took /\ idle' = idle
        /\ pc' = pc
    BY <1>2, <1>11 DEF ackVars, vecVars, trackVars
  <2>2. CASE i # x
    <3>1. rows'[i] = rows[i] /\ pending'[i] = pending[i] /\ entry'[i] = entry[i]
      BY <1>10, <1>12, <2>2
    <3>2. EntryInv(i)'  BY <1>1, <1>2, <2>1, <3>1 DEF EntryInv
    <3>3. RowInv(i)' /\ ValueInv(i)'  BY <1>1, <2>1, <3>1, RowSame, ValueSame
    <3>4. HeldInv(i)'
      BY <1>1, <1>3, <2>1, <3>1, SetupKept DEF HeldInv
    <3> QED  BY <3>2, <3>3, <3>4
  <2>3. CASE i = x
    <3>1. EntryInv(i)'
      BY <1>1, <1>2, <1>4, <1>10, <2>1, <2>3 DEF EntryInv
    <3>2. RowInv(i)'
      <4>1. SUFFICES ASSUME TurnsMeet PROVE rows'[x] = c - b
        BY <1>6, <1>13, <2>1, <2>3, SetupKept DEF RowInv
      <4>2. x \in beats => HeartbeatTurn
        BY <1>1, <4>1 DEF BeatInv, TurnsMeet, BucketDue, HeartbeatTurn
      <4> QED  BY <1>6, <1>7, <1>12, <4>2
    <3>3. /\ pending'[i] \in {0, c} /\ c = Cur(i)' /\ c = Cur(i) /\ Base(i)' = b /\ Base(i) = b
      BY <1>5, <1>6, <1>12, <2>1, <2>3, SetupKept DEF Cur
    <3>4. ValueInv(i)'  BY <1>1, <1>7, <2>1, <3>3 DEF ValueInv
    <3>5. DisableHeartbeat => (pending'[i] # 0 => entry'[i].changed = round)
      BY <1>10, <1>12, <2>3 DEF HeartbeatTurn
    <3>6. HeldInv(i)'
      BY <1>1, <1>3, <2>1, <3>5, SetupKept DEF HeldInv
    <3> QED  BY <3>1, <3>2, <3>4, <3>6
  <2> QED  BY <2>2, <2>3
<1>19. ASSUME NEW i \in created' PROVE DueInv(i)'
  <2>1. i \in created /\ DueInv(i) /\ i \in Instances  BY <1>1, <1>2 DEF vecVars, TypeOK
  <2>2. /\ Settled(i)' = Settled(i) /\ (Enlisting(i)' <=> Enlisting(i))
        /\ value' = value /\ atCut' = atCut /\ dirty' = dirty /\ (Excused(i)' <=> Excused(i))
        /\ took' = took
    BY <1>2, <1>11, <2>1 DEF Settled, Enlisting, Excused, vecVars, trackVars, userVars, ackVars
  <2>3. Taken(i) => Taken(i)'  BY <1>2 DEF Taken
  <2>4. Listed(i) <=> Listed(i)'  BY <2>2 DEF Listed
  <2>5. i \in took' \ picks' /\ value'[i] # Told(i)' => Listed(i)'
    <3>1. CASE i = x
      <4>1. value[i] # Cur(i) => i \in dirty \/ Enlisting(i)
        BY <2>1, SetupFacts, <1>1 DEF DueInv, Cur, TypeOK
      <4> QED  BY <1>5, <1>13, <2>2, <2>4, <3>1, <4>1 DEF Listed
    <3>2. CASE i # x
      <4>1. Told(i)' = Told(i)  BY <1>11, <1>12, <2>1, <3>2 DEF Told
      <4> QED  BY <1>2, <2>1, <2>2, <2>4, <3>2, <4>1 DEF DueInv
    <3> QED  BY <3>1, <3>2
  <2> QED  BY <2>1, <2>2, <2>3, <2>4, <2>5, SetupKept DEF DueInv
<1> QED  BY <1>14, <1>15, <1>16, <1>17, <1>18, <1>19 DEF ExposerInv

-----------------------------------------------------------------------------
(* The response *)

LEMMA CommittedFacts ==
    ASSUME TypeOK, NEW p \in [Instances -> Nat], \A i \in Instances : p[i] # 0 => entry[i] # Nil,
           entry' = Committed(p)
    PROVE  /\ entry' \in [Instances -> Entries \cup {Nil}]
           /\ \A i \in Instances : /\ (entry'[i] # Nil <=> entry[i] # Nil)
                                   /\ entry[i] # Nil => /\ entry'[i].picked = entry[i].picked
                                                        /\ entry'[i].changed = entry[i].changed
                                   /\ Base(i)' = IF p[i] # 0 THEN p[i] ELSE Base(i)
<1>1. ASSUME NEW i \in Instances
      PROVE  /\ entry'[i] \in Entries \cup {Nil} /\ (entry'[i] # Nil <=> entry[i] # Nil)
             /\ entry[i] # Nil => /\ entry'[i].picked = entry[i].picked
                                  /\ entry'[i].changed = entry[i].changed
             /\ Base(i)' = IF p[i] # 0 THEN p[i] ELSE Base(i)
  <2>1. entry'[i] = IF p[i] = 0 THEN entry[i] ELSE [entry[i] EXCEPT !.value = p[i]]
    BY DEF Committed
  <2>2. entry[i] \in Entries \cup {Nil} /\ p[i] \in Nat  BY DEF TypeOK
  <2>3. CASE p[i] = 0  BY <2>1, <2>2, <2>3 DEF Base
  <2>4. CASE p[i] # 0
    <3>1. entry[i] \in Entries /\ entry[i] # Nil  BY <2>2, <2>4
    <3>2. entry'[i] = [entry[i] EXCEPT !.value = p[i]]  BY <2>1, <2>4
    <3>3. /\ entry'[i] \in Entries /\ entry'[i].value = p[i] /\ entry'[i].picked = entry[i].picked
          /\ entry'[i].changed = entry[i].changed
      BY <2>2, <3>1, <3>2 DEF Entries
    <3> QED  BY <2>4, <3>1, <3>3, NilAssumption DEF Base
  <2> QED  BY <2>3, <2>4
<1>2. entry' = [i \in Instances |-> entry'[i]]  BY DEF Committed
<1> QED  BY <1>1, <1>2

LEMMA RespondKeeps ==
    ASSUME ExposerInv, setup' = setup, NEW o \in Outcomes, Respond(o)
    PROVE  ExposerInv'
<1>1. /\ TypeOK /\ OneChild /\ PassInv /\ LiveInv /\ RoundInv /\ BeatInv /\ SumInv
      /\ \A i \in Instances : EntryInv(i) /\ ValueInv(i) /\ HeldInv(i) /\ RowInv(i)
      /\ \A i \in created : DueInv(i)
  BY DEF ExposerInv
<1>2. /\ pc = "emit" /\ picks = {} /\ pc' = "drop"
      /\ batch' = {} /\ picking' = Nil /\ target' = Nil /\ picks' = {} /\ beats' = {}
      /\ took' = {} /\ rows' = None /\ pending' = None
      /\ UNCHANGED <<vecVars, value, before, atCut, userVars, kind, round, live>>
  BY DEF Respond, Goto
<1>3. /\ pc \in Passes /\ pc' \in Dropping /\ pc' \notin Passes /\ pc' \notin Picking
      /\ pc \notin {"callback", "callbackDone"} /\ pc \notin Picking
  BY <1>2, PcFacts
<1>4. /\ batch = {} /\ round > 0 /\ round \in Nat /\ processed < round /\ processed \in Nat
      /\ processed \in 0..round /\ round \in 0..MaxRounds
      /\ (kind # "peek" => heldRound = 0 /\ held = None /\ ~heldGot)
  BY <1>1, <1>2, <1>3, SetupFacts DEF PassInv, RoundInv, TypeOK
<1>5. \/ /\ entry' = entry /\ dirty' = dirty \cup took /\ UNCHANGED ackVars /\ UNCHANGED scraperVars
         /\ \/ kind = "peek" /\ idle' = {}
            \/ kind # "peek" /\ idle' = idle
      \/ /\ kind = "ack" /\ held' = pending /\ heldRound' = round /\ heldGot' = (o = "processed")
         /\ had' = (had \/ o # "lost") /\ processed' = IF o = "processed" THEN round ELSE processed
         /\ got' = IF o = "processed" THEN got + Reported ELSE got
         /\ UNCHANGED <<entry, dirty, idle, excused>>
      \/ /\ kind = "plain" /\ entry' = Committed(pending)
         /\ got' = IF o = "processed" THEN got + Reported ELSE got
         /\ excused' = (excused \/ o # "processed")
         /\ UNCHANGED <<dirty, ackVars, idle, had, processed>>
  BY DEF Respond, PutBack
<1> DEFINE PutsBack == /\ entry' = entry /\ dirty' = dirty \cup took /\ UNCHANGED ackVars
                       /\ UNCHANGED scraperVars
                       /\ \/ kind = "peek" /\ idle' = {}
                          \/ kind # "peek" /\ idle' = idle
           Holds == /\ kind = "ack" /\ held' = pending /\ heldRound' = round
                    /\ heldGot' = (o = "processed") /\ had' = (had \/ o # "lost")
                    /\ processed' = IF o = "processed" THEN round ELSE processed
                    /\ got' = IF o = "processed" THEN got + Reported ELSE got
                    /\ UNCHANGED <<entry, dirty, idle, excused>>
           Delivers == /\ kind = "plain" /\ entry' = Committed(pending)
                       /\ got' = IF o = "processed" THEN got + Reported ELSE got
                       /\ excused' = (excused \/ o # "processed")
                       /\ UNCHANGED <<dirty, ackVars, idle, had, processed>>
<1>6. PutsBack \/ Holds \/ Delivers  BY <1>5
<1> HIDE DEF PutsBack, Holds, Delivers
<1>7. /\ entry' \in [Instances -> Entries \cup {Nil}]
      /\ \A i \in Instances : /\ (entry'[i] # Nil <=> entry[i] # Nil)
                              /\ entry[i] # Nil => /\ entry'[i].picked = entry[i].picked
                                                   /\ entry'[i].changed = entry[i].changed
                              /\ Delivers => Base(i)' = Told(i)
                              /\ ~Delivers => Base(i)' = Base(i)
  <2>1. pending \in [Instances -> Nat] /\ \A i \in Instances : pending[i] # 0 => entry[i] # Nil
    BY <1>1 DEF TypeOK, EntryInv
  <2>2. CASE Delivers  BY <1>1, <2>1, <2>2, CommittedFacts DEF Delivers, Told
  <2>3. CASE ~Delivers
    <3>1. entry' = entry  BY <1>6, <2>3 DEF PutsBack, Holds
    <3> QED  BY <1>1, <2>3, <3>1 DEF TypeOK, Base
  <2> QED  BY <2>2, <2>3
<1>8. rows \in [Instances -> Nat] /\ Reported \in Nat
  BY <1>1, InstancesAssumption, SumFunctionType DEF TypeOK, Reported
<1>9. idle' \subseteq idle /\ (kind # "peek" => idle' = idle) /\ dirty \subseteq dirty' /\ dirty' \subseteq dirty \cup took
      /\ (kind = "peek" => idle' = {})
  BY <1>6 DEF PutsBack, Holds, Delivers
<1>10. TypeOK'
  <2>1. /\ held' \in [Instances -> Nat] /\ heldRound' \in 0..round /\ processed' \in 0..round
        /\ got' \in Nat
    <3>1. CASE PutsBack  BY <1>1, <3>1 DEF TypeOK, PutsBack, ackVars, scraperVars
    <3>2. CASE Holds
      <4>1. held' \in [Instances -> Nat] /\ heldRound' \in 0..round  BY <1>1, <1>4, <3>2 DEF TypeOK, Holds
      <4>2. processed' \in 0..round  BY <1>4, <3>2 DEF Holds
      <4>3. got' \in Nat  BY <1>1, <1>8, <3>2 DEF TypeOK, Holds
      <4> QED  BY <4>1, <4>2, <4>3
    <3>3. CASE Delivers  BY <1>1, <1>8, <3>3 DEF TypeOK, Delivers, ackVars
    <3> QED  BY <1>6, <3>1, <3>2, <3>3
  <2>2. had' \in BOOLEAN /\ heldGot' \in BOOLEAN /\ excused' \in BOOLEAN
    <3>1. had \in BOOLEAN /\ heldGot \in BOOLEAN /\ excused \in BOOLEAN  BY <1>1 DEF TypeOK
    <3>2. had' = had \/ had' = (had \/ o # "lost")
      BY <1>6 DEF PutsBack, Holds, Delivers, scraperVars
    <3>3. heldGot' = heldGot \/ heldGot' = (o = "processed")
      BY <1>6 DEF PutsBack, Holds, Delivers, ackVars
    <3>4. excused' = excused \/ excused' = (excused \/ o # "processed")
      BY <1>6 DEF PutsBack, Holds, Delivers, scraperVars
    <3> QED  BY <3>1, <3>2, <3>3, <3>4
  <2>3. dirty' \subseteq created /\ idle' \subseteq created  BY <1>1, <1>9 DEF TypeOK
  <2>4. None \in [Instances -> Nat]  BY DEF None
  <2> QED  BY <1>1, <1>2, <1>7, <2>1, <2>2, <2>3, <2>4, SetupKept DEF TypeOK, vecVars, userVars
<1>11. OneChild'  BY <1>1, <1>2 DEF OneChild, vecVars
<1>12. BeatInv'  BY <1>2 DEF BeatInv
<1>13. PassInv'  BY <1>1, <1>2, <1>3, <1>4 DEF PassInv
<1>14. LiveInv'
  <2>1. Counted' \subseteq Counted
    BY <1>1, <1>2, <1>3, <1>7, <1>9 DEF Counted, vecVars, TypeOK
  <2>2. deletes = 0 => Counted' = Counted
    <3>1. deletes = 0 => idle \cap dead = {}  BY <1>1 DEF LiveInv
    <3> QED  BY <1>1, <1>2, <1>3, <1>7, <1>9, <3>1 DEF Counted, vecVars, TypeOK
  <2>3. Cardinality(Counted') <= Cardinality(Counted) /\ Cardinality(Counted') \in Nat
    BY <1>1, <2>1, CountedFinite, FS_Subset, FS_CardinalityType
  <2>4. live \in Nat /\ live >= Cardinality(Counted) /\ Cardinality(Counted) \in Nat
    BY <1>1, CountedFinite DEF TypeOK, LiveInv
  <2>5. live' >= Cardinality(Counted')  BY <1>2, <2>3, <2>4
  <2>6. deletes' = 0 => live' = Cardinality(Counted') /\ (took' \cup idle') \cap dead' = {}
    BY <1>1, <1>2, <1>9, <2>2 DEF LiveInv, vecVars, userVars
  <2> QED  BY <1>2, <2>5, <2>6 DEF LiveInv
<1>15. RoundInv'
  <2>1. CASE PutsBack
    BY <1>1, <1>2, <1>3, <1>9, <2>1 DEF RoundInv, PutsBack, ackVars, scraperVars
  <2>2. CASE Holds
    <3>1. heldRound' = round /\ round # 0 /\ kind' = "ack"  BY <1>2, <1>4, <2>2 DEF Holds
    <3>2. o = "processed" => processed' = round /\ heldGot'  BY <2>2 DEF Holds
    <3>3. o # "processed" => processed' = processed  BY <2>2 DEF Holds
    <3>4. o # "processed" => ~heldGot'  BY <2>2 DEF Holds
    <3>5. processed # round  BY <1>4
    <3> QED  BY <1>3, <3>1, <3>2, <3>3, <3>4, <3>5 DEF RoundInv
  <2>3. CASE Delivers
    <3>1. kind' = "plain" /\ heldRound' = 0 /\ held' = None /\ ~heldGot'
      BY <1>2, <1>4, <2>3 DEF Delivers, ackVars
    <3> QED  BY <1>3, <3>1 DEF RoundInv
  <2> QED  BY <1>6, <2>1, <2>2, <2>3
<1>16. ASSUME NEW i \in Instances
       PROVE  /\ Told(i) \in Nat /\ Base(i) \in Nat /\ Base(i) <= Told(i) /\ Told(i) <= Cur(i)
              /\ Cur(i) <= value[i] /\ value[i] \in Nat /\ Cur(i) \in Nat
  <2>1. /\ value[i] \in Nat /\ before[i] \in Nat /\ atCut[i] \in Nat /\ pending[i] \in Nat
        /\ entry[i] \in Entries \cup {Nil}
    BY <1>1 DEF TypeOK
  <2>2. Base(i) \in Nat  BY <2>1 DEF Base, Entries
  <2>3. /\ Cur(i) \in Nat /\ Cur(i) <= value[i] /\ Base(i) <= Cur(i) /\ pending[i] <= Cur(i)
        /\ (pending[i] # 0 => Base(i) <= pending[i])
    BY <1>1, <2>1 DEF ValueInv, Cur
  <2> QED  BY <2>1, <2>2, <2>3 DEF Told
<1>17. SumInv'
  <2>1. SUFFICES ASSUME HeldStays, TurnsMeet PROVE Conserved'  BY SetupKept DEF SumInv
  <2> DEFINE F == [i \in Instances |-> value[i] - Received(i)]
             G == [i \in Instances |-> value[i] - Received(i)]'
  <2>2. Conserved /\ (Conserved <=> (~excused => written = got + SumFunction(F)))
    BY <1>1, <2>1 DEF Conserved, SumInv
  <2>3. Conserved' <=> (~excused' => written' = got' + SumFunction(G))  BY DEF Conserved
  <2>4. F \in [Instances -> Nat]  BY <1>1, ReceivedBound
  <2>5. value' = value /\ written' = written  BY <1>2 DEF userVars
  <2>6. CASE excused' = excused /\ got' = got /\ \A i \in Instances : Received(i)' = Received(i)
    <3>1. G = F  BY <2>5, <2>6
    <3> QED  BY <2>2, <2>3, <2>5, <2>6, <3>1
  <2>7. CASE /\ excused' = excused /\ got' = got + Reported
             /\ \A i \in Instances : Received(i)' = Told(i) /\ Received(i) = Base(i)
    <3>1. ASSUME NEW i \in Instances PROVE G[i] \in Nat /\ F[i] = G[i] + rows[i]
      <4>1. G[i] = value[i] - Told(i) /\ F[i] = value[i] - Base(i)  BY <2>5, <2>7
      <4>2. rows[i] = Told(i) - Base(i)  BY <1>1, <2>1 DEF RowInv
      <4> HIDE DEF F, G
      <4> QED  BY <1>16, <4>1, <4>2
    <3>2. G = [i \in Instances |-> G[i]]  OBVIOUS
    <3> HIDE DEF F, G
    <3>3. G \in [Instances -> Nat]  BY <3>1, <3>2
    <3>4. SumFunction(F) = SumFunction(G) + SumFunction(rows)
      BY <1>8, <2>4, <3>1, <3>3, InstancesAssumption, SumFunctionAdd
    <3>5. SumFunction(G) \in Nat /\ SumFunction(rows) \in Nat
      BY <1>8, <3>3, InstancesAssumption, SumFunctionType
    <3>6. got \in Nat  BY <1>1 DEF TypeOK
    <3> QED  BY <2>2, <2>3, <2>5, <2>7, <3>4, <3>5, <3>6 DEF Reported
  <2>8. CASE excused'  BY <2>3, <2>8
  <2>9. CASE PutsBack
    BY <1>7, <2>6, <2>9 DEF PutsBack, Received, Base, ackVars, scraperVars
  <2>10. CASE Holds
    <3>1. CASE o = "processed"
      <4>1. heldGot' /\ held' = pending /\ excused' = excused /\ got' = got + Reported /\ ~heldGot
            /\ entry' = entry
        BY <1>4, <2>10, <3>1 DEF Holds
      <4> QED  BY <2>7, <4>1 DEF Received, Told, Base
    <3>2. CASE o # "processed"
      <4>1. ~heldGot' /\ excused' = excused /\ got' = got /\ ~heldGot /\ entry' = entry
        BY <1>4, <2>10, <3>2 DEF Holds
      <4> QED  BY <2>6, <4>1 DEF Received, Base
    <3> QED  BY <3>1, <3>2
  <2>11. CASE Delivers
    <3>1. CASE o = "processed"
      <4>1. ~heldGot' /\ ~heldGot /\ got' = got + Reported
        BY <1>4, <2>11, <3>1 DEF Delivers, ackVars
      <4>2. excused \in BOOLEAN /\ excused' = (excused \/ FALSE)
        BY <1>1, <2>11, <3>1 DEF Delivers, TypeOK
      <4>3. excused' = excused  BY <4>2
      <4> QED  BY <1>7, <2>7, <2>11, <4>1, <4>3 DEF Received
    <3>2. CASE o # "processed"  BY <2>8, <2>11, <3>2 DEF Delivers
    <3> QED  BY <3>1, <3>2
  <2> QED  BY <1>6, <2>9, <2>10, <2>11
<1>18. ASSUME NEW i \in Instances PROVE EntryInv(i)' /\ ValueInv(i)' /\ HeldInv(i)' /\ RowInv(i)'
  <2>1. pending'[i] = 0 /\ rows'[i] = 0 /\ held[i] \in Nat  BY <1>1, <1>2 DEF None, TypeOK
  <2>2. held'[i] = held[i] \/ (Holds /\ held'[i] = pending[i])
    BY <1>6 DEF PutsBack, Holds, Delivers, ackVars
  <2>3. held'[i] # 0 => entry'[i] # Nil  BY <1>1, <1>7, <2>2 DEF EntryInv
  <2>4. i \in idle' => entry'[i] # Nil  BY <1>1, <1>7, <1>9 DEF EntryInv
  <2>5. entry'[i] # Nil => i \in created' /\ entry'[i].picked <= round'
    BY <1>1, <1>2, <1>7 DEF EntryInv, vecVars
  <2>6. EntryInv(i)'  BY <1>2, <1>3, <2>1, <2>3, <2>4, <2>5 DEF EntryInv
  <2>7. Base(i)' \in Nat /\ Base(i)' <= Cur(i)  BY <1>7, <1>16
  <2>8. RowInv(i)'  BY <2>1, <2>7 DEF RowInv, Told
  <2>9. Cur(i)' = Cur(i)  BY <1>2, SetupKept DEF Cur
  <2>10. held'[i] <= Cur(i)  BY <1>1, <2>2 DEF ValueInv
  <2>11. ValueInv(i)'  BY <1>1, <1>2, <1>16, <2>1, <2>7, <2>9, <2>10 DEF ValueInv
  <2>12. HeldInv(i)'
    <3>1. pc' \notin {"delete", "callback"} /\ dead' = dead /\ round' = round /\ kind' = kind
      BY <1>2 DEF vecVars
    <3>2. CASE PutsBack
      <4>1. held' = held /\ entry' = entry  BY <3>2 DEF PutsBack, ackVars
      <4>2. kind # "peek" => held[i] = 0  BY <1>4 DEF None
      <4>3. Base(i)' = Base(i)  BY <4>1 DEF Base
      <4> QED  BY <1>1, <1>3, <2>1, <3>1, <4>1, <4>2, <4>3, SetupKept DEF HeldInv
    <3>3. CASE Holds
      <4>1. held'[i] = pending[i] /\ entry' = entry  BY <3>3 DEF Holds
      <4>2. pending[i] # 0 => i \in took /\ Base(i) <= pending[i]  BY <1>1 DEF EntryInv, ValueInv
      <4>3. MaxDeletes = 0 => took \cap dead = {}
        <5>1. MaxDeletes = 0 => deletes = 0  BY <1>1 DEF TypeOK
        <5> QED  BY <1>1, <5>1 DEF LiveInv
      <4>4. HeldStays /\ held'[i] # 0 => i \notin dead \/ "peek" \notin Kinds
        BY <4>1, <4>2, <4>3 DEF HeldStays
      <4>5. Base(i)' = Base(i)  BY <4>1 DEF Base
      <4>6. DisableHeartbeat /\ pending[i] # 0 => entry[i].changed = round  BY <1>1 DEF HeldInv
      <4> QED  BY <1>3, <2>1, <3>1, <4>1, <4>2, <4>4, <4>5, <4>6, SetupKept DEF HeldInv
    <3>4. CASE Delivers
      <4>1. held'[i] = 0  BY <1>4, <3>4 DEF Delivers, ackVars, None
      <4> QED  BY <2>1, <3>1, <4>1 DEF HeldInv
    <3> QED  BY <1>6, <3>2, <3>3, <3>4
  <2> QED  BY <2>6, <2>8, <2>11, <2>12
<1>19. ASSUME NEW i \in created' PROVE DueInv(i)'
  <2>1. i \in created /\ DueInv(i) /\ i \in Instances  BY <1>1, <1>2 DEF vecVars, TypeOK
  <2>2. (Enlisting(i)' <=> Enlisting(i)) /\ (Excused(i)' <=> Excused(i)) /\ value' = value /\ atCut' = atCut
    BY <1>2 DEF Enlisting, Excused, vecVars, userVars
  <2>3. Taken(i) => i \in took  BY <1>2, <1>4 DEF Taken
  <2>4. Listed(i) => Listed(i)'  BY <1>9, <2>2 DEF Listed
  <2>5. type' = "counter" /\ value'[i] # atCut'[i] => i \in dirty' \/ Enlisting(i)'
    BY <1>9, <2>1, <2>2, SetupKept DEF DueInv
  <2>6. HeldStays' /\ value'[i] # Settled(i)' => Listed(i)' \/ Taken(i)'
    <3>1. CASE PutsBack
      <4>1. Settled(i)' = Settled(i)  BY <3>1 DEF PutsBack, ackVars, Settled, Base
      <4>2. i \in took => Listed(i)'  BY <3>1 DEF PutsBack, Listed
      <4> QED  BY <2>1, <2>2, <2>3, <2>4, <4>1, <4>2, SetupKept DEF DueInv
    <3>2. CASE Holds \/ Delivers
      <4>1. held[i] = 0  BY <1>4, <2>1, <3>2 DEF Holds, Delivers, None
      <4>2. Settled(i)' = Told(i)
        <5>1. CASE Holds  BY <5>1 DEF Settled, Told, Base, Holds
        <5>2. CASE Delivers  BY <1>7, <2>1, <4>1, <5>2 DEF Settled, Delivers, ackVars
        <5> QED  BY <3>2, <5>1, <5>2
      <4>3. i \notin took => Told(i) = Settled(i)
        BY <1>1, <2>1, <4>1 DEF EntryInv, Told, Settled
      <4> QED  BY <1>2, <2>1, <2>2, <2>3, <2>4, <4>2, <4>3, SetupKept DEF DueInv
    <3> QED  BY <1>6, <3>1, <3>2
  <2> QED  BY <1>2, <2>5, <2>6 DEF DueInv
<1> QED  BY <1>10, <1>11, <1>12, <1>13, <1>14, <1>15, <1>17, <1>18, <1>19 DEF ExposerInv

-----------------------------------------------------------------------------
(* The held round is settled, and a round begins *)

LEMMA ServeKeeps ==
    ASSUME ExposerInv, setup' = setup, NEW k \in Kinds, Serve(k)
    PROVE  ExposerInv'
<1>1. /\ TypeOK /\ OneChild /\ PassInv /\ LiveInv /\ RoundInv /\ BeatInv /\ SumInv
      /\ \A i \in Instances : EntryInv(i) /\ ValueInv(i) /\ HeldInv(i) /\ RowInv(i)
      /\ \A i \in created : DueInv(i)
  BY DEF ExposerInv
<1>2. /\ pc = "rest" /\ kind' = k
      /\ UNCHANGED <<vecVars, value, before, atCut, userVars, live, passVars, had,
                     processed, got>>
  BY DEF Serve
<1> DEFINE Leaves == ~Settles(k) /\ UNCHANGED <<entry, dirty, ackVars, excused>>
           Delivers == /\ Settles(k) /\ held' = None /\ heldRound' = 0 /\ heldGot' = FALSE
                       /\ Commits(k) /\ entry' = Committed(held)
                       /\ excused' = (excused \/ (~heldGot /\ (k = "plain" \/ ~had)))
                       /\ dirty' = dirty
           Rolls == /\ Settles(k) /\ held' = None /\ heldRound' = 0 /\ heldGot' = FALSE
                    /\ ~Commits(k) /\ dirty' = dirty \cup Pended(held)
                    /\ entry' = entry /\ excused' = excused
<1>3. Leaves \/ Delivers \/ Rolls  BY DEF Serve
<1> HIDE DEF Leaves, Delivers, Rolls
<1>4. \/ k = "final" /\ pc' = "rest" /\ round' = round /\ idle' = {}
      \/ /\ k # "final" /\ round < MaxRounds /\ round' = round + 1 /\ pc' = "cut"
         /\ idle' \subseteq Walked
  BY <1>1, <1>2 DEF Serve, Goto, PassInv
<1>5. /\ pc' \notin Dropping /\ pc' \notin Picking /\ pc' # "emit"
      /\ pc \notin {"callback", "callbackDone", "delete"} /\ pc \notin Picking /\ pc \notin Passes
      /\ pc' \notin {"callback", "callbackDone", "delete"}
  BY <1>2, <1>4, PcFacts
<1>6. /\ batch = {} /\ took = {} /\ picks = {} /\ beats = {} /\ rows = None /\ pending = None
      /\ idle = {}
  BY <1>1, <1>2, <1>5 DEF PassInv
<1>7. /\ round \in Nat /\ round' \in Nat /\ round <= round' /\ round' \in 0..MaxRounds
      /\ heldRound \in 0..round' /\ processed \in 0..round' /\ heldRound \in Nat
      /\ (pc' \in Passes => processed < round' /\ round' = round + 1 /\ round' > 0)
      /\ (pc' # "rest" => round' > 0)
  BY <1>1, <1>4, SetupFacts, PcFacts DEF TypeOK
<1>8. \A i \in Walked : i \in created /\ i \notin dead /\ entry[i] # Nil  BY DEF Walked
<1>9. idle' \subseteq Walked  BY <1>4
<1>10. /\ entry' \in [Instances -> Entries \cup {Nil}]
       /\ \A i \in Instances : /\ (entry'[i] # Nil <=> entry[i] # Nil)
                               /\ entry[i] # Nil => entry'[i].picked = entry[i].picked
                               /\ Delivers => Base(i)' = Settled(i)
                               /\ ~Delivers => Base(i)' = Base(i)
  <2>1. held \in [Instances -> Nat] /\ \A i \in Instances : held[i] # 0 => entry[i] # Nil
    BY <1>1 DEF TypeOK, EntryInv
  <2>2. CASE Delivers  BY <1>1, <2>1, <2>2, CommittedFacts DEF Delivers, Settled
  <2>3. CASE ~Delivers
    <3>1. entry' = entry  BY <1>3, <2>3 DEF Leaves, Rolls
    <3> QED  BY <1>1, <2>3, <3>1 DEF TypeOK, Base
  <2> QED  BY <2>2, <2>3
<1>11. None \in [Instances -> Nat] /\ \A i \in Instances : None[i] = 0  BY DEF None
<1>12. TypeOK'
  <2>1. held' \in [Instances -> Nat] /\ heldRound' \in 0..round'
    BY <1>1, <1>3, <1>7, <1>11 DEF TypeOK, Leaves, Delivers, Rolls, ackVars
  <2>2. heldGot' \in BOOLEAN /\ excused' \in BOOLEAN
    <3>1. heldGot \in BOOLEAN /\ excused \in BOOLEAN  BY <1>1 DEF TypeOK
    <3>2. heldGot' = heldGot \/ heldGot' = FALSE
      BY <1>3 DEF Leaves, Delivers, Rolls, ackVars
    <3>3. excused' = excused \/ excused' = (excused \/ (~heldGot /\ (k = "plain" \/ ~had)))
      BY <1>3 DEF Leaves, Delivers, Rolls
    <3> QED  BY <3>1, <3>2, <3>3
  <2>3. dirty' \subseteq created
    <3>1. Pended(held) \subseteq created  BY <1>1 DEF Pended, EntryInv
    <3> QED  BY <1>1, <1>3, <3>1 DEF TypeOK, Leaves, Delivers, Rolls
  <2>4. idle' \subseteq created /\ pc' \in {"rest", "cut"}  BY <1>4, <1>8, <1>9
  <2> QED  BY <1>1, <1>2, <1>7, <1>10, <2>1, <2>2, <2>3, <2>4, SetupKept
           DEF TypeOK, vecVars, userVars, passVars
<1>13. OneChild' /\ BeatInv'  BY <1>1, <1>2, <1>6 DEF OneChild, BeatInv, vecVars, passVars
<1>14. PassInv'
  BY <1>2, <1>4, <1>5, <1>6, <1>7, PcFacts DEF PassInv, passVars
<1>15. LiveInv'
  <2>1. Counted' = Counted
    <3>1. \A i \in Instances : i \in dead \ idle' <=> i \in dead \ idle  BY <1>6, <1>8, <1>9
    <3> QED  BY <1>1, <1>2, <1>5, <1>10, <3>1 DEF Counted, vecVars, TypeOK
  <2>2. (took' \cup idle') \cap dead' = {}  BY <1>2, <1>6, <1>8, <1>9 DEF passVars, vecVars
  <2> QED  BY <1>1, <1>2, <1>5, <2>1, <2>2 DEF LiveInv, userVars
<1>16. RoundInv'
  <2>1. CASE Leaves
    <3>1. heldRound # 0 => k = "peek"  BY <2>1 DEF Leaves, Settles
    <3> QED  BY <1>1, <1>2, <1>5, <1>7, <2>1, <3>1 DEF RoundInv, Leaves, ackVars
  <2>2. CASE Delivers \/ Rolls
    <3>1. held' = None /\ heldRound' = 0 /\ ~heldGot'  BY <2>2 DEF Delivers, Rolls
    <3> QED  BY <1>2, <1>5, <1>7, <3>1 DEF RoundInv
  <2> QED  BY <1>3, <2>1, <2>2
<1>17. SumInv'
  <2>1. SUFFICES ASSUME HeldStays, TurnsMeet PROVE Conserved'  BY SetupKept DEF SumInv
  <2> DEFINE F == [i \in Instances |-> value[i] - Received(i)]
             G == [i \in Instances |-> value[i] - Received(i)]'
  <2>2. Conserved /\ (Conserved <=> (~excused => written = got + SumFunction(F)))
    BY <1>1, <2>1 DEF Conserved, SumInv
  <2>3. Conserved' <=> (~excused' => written' = got' + SumFunction(G))  BY DEF Conserved
  <2>4. value' = value /\ written' = written /\ got' = got  BY <1>2 DEF userVars
  <2>5. CASE excused' = excused /\ \A i \in Instances : Received(i)' = Received(i)
    <3>1. G = F  BY <2>4, <2>5
    <3> QED  BY <2>2, <2>3, <2>4, <2>5, <3>1
  <2>6. CASE Leaves
    BY <2>5, <2>6 DEF Leaves, Received, Base, ackVars
  <2>7. CASE Rolls
    <3>1. had /\ processed # heldRound  BY <2>7 DEF Rolls, Commits
    <3>2. ~heldGot /\ ~heldGot' /\ entry' = entry /\ excused' = excused
      BY <1>1, <2>7, <3>1 DEF Rolls, RoundInv
    <3> QED  BY <2>5, <3>2 DEF Received, Base
  <2>8. CASE Delivers
    <3>1. CASE heldGot
      <4>1. \A i \in Instances : Received(i)' = Received(i)
        BY <1>10, <2>8, <3>1 DEF Received, Settled, Delivers
      <4>2. excused \in BOOLEAN /\ excused' = (excused \/ FALSE)
        BY <1>1, <2>8, <3>1 DEF Delivers, TypeOK
      <4>3. excused' = excused  BY <4>2
      <4> QED  BY <2>5, <4>1, <4>3
    <3>2. CASE ~heldGot
      <4>1. k = "plain" \/ ~had
        BY <1>1, <2>8, <3>2 DEF Delivers, Commits, Settles, RoundInv
      <4>2. excused'  BY <2>8, <3>2, <4>1 DEF Delivers
      <4> QED  BY <2>3, <4>2
    <3> QED  BY <3>1, <3>2
  <2> QED  BY <1>3, <2>6, <2>7, <2>8
<1>18. ASSUME NEW i \in Instances PROVE EntryInv(i)' /\ ValueInv(i)' /\ HeldInv(i)' /\ RowInv(i)'
  <2>1. pending'[i] = 0 /\ rows'[i] = 0 /\ took' = {} /\ picks' = {}
    BY <1>2, <1>6, <1>11 DEF passVars
  <2>2. held'[i] = held[i] \/ held'[i] = 0  BY <1>3, <1>11 DEF Leaves, Delivers, Rolls, ackVars
  <2>3. EntryInv(i)'
    <3>1. i \in idle' \/ held'[i] # 0 => entry'[i] # Nil
      BY <1>1, <1>8, <1>9, <1>10, <2>2 DEF EntryInv
    <3>2. entry'[i] # Nil => i \in created' /\ entry'[i].picked <= round
      BY <1>1, <1>2, <1>10 DEF EntryInv, vecVars
    <3>3. entry'[i] # Nil => entry'[i].picked \in Nat  BY <1>10 DEF Entries
    <3>4. entry'[i] # Nil => entry'[i].picked <= round' /\ (pc' \in Passes => entry'[i].picked # round')
      BY <1>7, <3>2, <3>3
    <3> QED  BY <2>1, <3>1, <3>2, <3>4 DEF EntryInv
  <2>4. /\ value[i] \in Nat /\ before[i] \in Nat /\ atCut[i] \in Nat /\ held[i] \in Nat
        /\ Base(i) \in Nat
    BY <1>1 DEF TypeOK, Base, Entries
  <2>5. Base(i)' \in {Base(i), held[i]} /\ Base(i)' \in Nat  BY <1>10, <2>4 DEF Settled
  <2>6. RowInv(i)'  BY <2>1, <2>5 DEF RowInv, Told
  <2>7. Cur(i)' = Cur(i) /\ Cur(i) \in Nat  BY <1>2, <2>4, SetupKept DEF Cur
  <2>8. ValueInv(i)'  BY <1>1, <1>2, <2>1, <2>2, <2>4, <2>5, <2>7 DEF ValueInv
  <2>9. HeldInv(i)'
    <3>1. CASE held'[i] = 0  BY <1>5, <2>1, <3>1 DEF HeldInv
    <3>2. CASE held'[i] # 0
      <4>1. Leaves  BY <1>3, <1>11, <3>2 DEF Delivers, Rolls
      <4>2. held' = held /\ entry' = entry  BY <4>1 DEF Leaves, ackVars
      <4>3. heldRound # 0  BY <1>1, <1>11, <3>2, <4>2 DEF RoundInv
      <4>4. "peek" \in Kinds  BY <4>1, <4>3 DEF Leaves, Settles
      <4>5. Base(i)' = Base(i) /\ dead' = dead  BY <1>2, <4>2 DEF Base, vecVars
      <4> QED  BY <1>1, <1>5, <2>1, <4>2, <4>4, <4>5, SetupKept DEF HeldInv
    <3> QED  BY <3>1, <3>2
  <2> QED  BY <2>3, <2>6, <2>8, <2>9
<1>19. ASSUME NEW i \in created' PROVE DueInv(i)'
  <2>1. i \in created /\ DueInv(i) /\ i \in Instances  BY <1>1, <1>2 DEF vecVars, TypeOK
  <2>2. /\ (Enlisting(i)' <=> Enlisting(i)) /\ (Excused(i)' <=> Excused(i)) /\ value' = value
        /\ atCut' = atCut /\ dirty \subseteq dirty' /\ took' = {}
    BY <1>2, <1>3, <1>6 DEF Enlisting, Excused, vecVars, userVars, passVars, Leaves, Delivers, Rolls
  <2>3. ~Taken(i)  BY <1>2, <1>6 DEF Taken
  <2>4. Listed(i) => Listed(i)'  BY <2>2 DEF Listed
  <2>5. type' = "counter" /\ value'[i] # atCut'[i] => i \in dirty' \/ Enlisting(i)'
    BY <2>1, <2>2, SetupKept DEF DueInv
  <2>6. HeldStays' /\ value'[i] # Settled(i)' => Listed(i)'
    <3>1. CASE Settled(i)' = Settled(i)
      BY <2>1, <2>2, <2>3, <2>4, <3>1, SetupKept DEF DueInv
    <3>2. CASE Leaves
      <4>1. Settled(i)' = Settled(i)  BY <3>2 DEF Leaves, ackVars, Settled, Base
      <4> QED  BY <3>1, <4>1
    <3>3. CASE Delivers
      <4>1. Settled(i)' = Settled(i)  BY <1>10, <1>11, <2>1, <3>3 DEF Delivers, Settled
      <4> QED  BY <3>1, <4>1
    <3>4. CASE Rolls
      <4>1. CASE held[i] = 0
        <5>1. Settled(i)' = Settled(i)  BY <1>11, <2>1, <3>4, <4>1 DEF Rolls, Settled, Base
        <5> QED  BY <3>1, <5>1
      <4>2. CASE held[i] # 0
        <5>1. i \in dirty'  BY <2>1, <3>4, <4>2 DEF Rolls, Pended
        <5> QED  BY <5>1 DEF Listed
      <4> QED  BY <4>1, <4>2
    <3> QED  BY <1>3, <3>2, <3>3, <3>4
  <2> QED  BY <2>2, <2>5, <2>6 DEF DueInv
<1> QED  BY <1>12, <1>13, <1>14, <1>15, <1>16, <1>17, <1>18, <1>19 DEF ExposerInv

-----------------------------------------------------------------------------
(* The drop of idle instances *)

LEMMA RoundInDrop ==
    ASSUME RoundInv, heldRound' = heldRound, held' = held, heldGot' = heldGot, pc \in Dropping,
           pc' \in Dropping \cup {"rest"}, processed' = processed, kind' = kind, had' = had,
           kind = "peek" => pc' = "rest"
    PROVE  RoundInv'
<1>1. pc' \notin Passes /\ (pc' = "rest" => pc' \notin Dropping)  BY PcFacts
<1> QED  BY <1>1 DEF RoundInv

\* Drops delete nothing that is held, when that must stay.
LEMMA IdleNotHeld ==
    ASSUME TypeOK, RoundInv, NEW i \in Instances, HeldInv(i), pc \in {"delete", "callback"},
           picking = i, HeldStays, held[i] # 0, entry[i] # Nil
    PROVE  "peek" \notin Kinds
<1>1. SUFFICES ASSUME "peek" \in Kinds PROVE FALSE  OBVIOUS
<1>2. DisableHeartbeat  BY <1>1 DEF HeldStays
<1>3. pc \in Dropping /\ pc # "drop" /\ kind # "peek"  BY PcFacts DEF RoundInv
<1>4. entry[i].changed = round  BY <1>2, <1>3 DEF HeldInv
<1>5. IdleAt(i, round)  BY DEF HeldInv
<1>6. round \in Nat /\ IdleScrapes \in Nat  BY SetupFacts DEF TypeOK
<1> QED  BY <1>4, <1>5, <1>6 DEF IdleAt

LEMMA DropChecksKeeps ==
    ASSUME ExposerInv, setup' = setup, NEW x \in Instances, DropChecks(x)
    PROVE  ExposerInv'
<1>1. /\ TypeOK /\ OneChild /\ PassInv /\ LiveInv /\ RoundInv /\ BeatInv /\ SumInv
      /\ \A i \in Instances : EntryInv(i) /\ ValueInv(i) /\ HeldInv(i) /\ RowInv(i)
      /\ \A i \in created : DueInv(i)
  BY DEF ExposerInv
<1>2. /\ pc = "drop" /\ x \in idle /\ idle' = idle \ {x} /\ picking' = x
      /\ UNCHANGED <<vecVars, trackVars, userVars, kind, round, entry, ackVars, batch, target,
                     picks, beats, took, rows, pending, scraperVars>>
      /\ \/ ~IdleAt(x, round) /\ pc' = pc /\ live' = live
         \/ x \in dead /\ live' = live - 1 /\ pc' = pc
         \/ IdleAt(x, round) /\ x \notin dead /\ live' = live /\ pc' \in {"delete", "drop", "callback"}
  BY DEF DropChecks, Goto
<1>3. pc \in Dropping /\ pc' \in Dropping /\ pc' \in {"delete", "drop", "callback"}  BY <1>2, PcFacts
<1>4. entry[x] # Nil /\ x \in created /\ x # Nil
  BY <1>1, <1>2, InstancesAssumption DEF EntryInv, TypeOK
<1>5. kind # "peek"  BY <1>1, <1>2, <1>3 DEF RoundInv
<1>6. LiveInv'
  <2>1. x \notin dead => Counted' = Counted
    BY <1>2, <1>3, <1>4 DEF Counted, vecVars
  <2>2. x \in dead => Counted' = Counted \ {x} /\ x \in Counted
    BY <1>2, <1>3, <1>4 DEF Counted, vecVars
  <2>3. /\ Cardinality(Counted) \in Nat /\ Cardinality(Counted') \in Nat
        /\ x \in dead => Cardinality(Counted') = Cardinality(Counted) - 1
    <3>1. CASE x \notin dead  BY <1>1, <2>1, <3>1, CountedFinite
    <3>2. CASE x \in dead
      BY <1>1, <2>2, <3>2, CountedFinite, FS_RemoveElement, FS_CardinalityType
    <3> QED  BY <3>1, <3>2
  <2>4. live \in Nat /\ live >= Cardinality(Counted)  BY <1>1 DEF TypeOK, LiveInv
  <2>5. deletes = 0 => x \notin dead  BY <1>1, <1>2 DEF LiveInv
  <2>6. live' >= Cardinality(Counted')
    <3>1. CASE x \in dead  BY <1>2, <2>3, <2>4, <3>1
    <3>2. CASE x \notin dead  BY <1>2, <2>1, <2>4, <3>2
    <3> QED  BY <3>1, <3>2
  <2>7. deletes' = 0 => /\ live' = Cardinality(Counted') /\ (took' \cup idle') \cap dead' = {}
                        /\ picking' \notin dead'
    BY <1>1, <1>2, <2>1, <2>5 DEF LiveInv, vecVars, userVars
  <2> QED  BY <1>2, <1>4, <2>6, <2>7 DEF LiveInv
<1>7. TypeOK'
  <2>1. live' \in Nat
    <3>1. live \in Nat /\ Cardinality(Counted) \in Nat /\ live >= Cardinality(Counted)
      BY <1>1, CountedFinite DEF TypeOK, LiveInv
    <3>2. x \in Counted  BY <1>2, <1>4 DEF Counted
    <3>3. Cardinality(Counted) # 0  BY <1>1, <3>2, CountedFinite, FS_EmptySet
    <3> QED  BY <1>2, <3>1, <3>3
  <2> QED  BY <1>1, <1>2, <1>3, <1>4, <2>1, SetupKept
           DEF TypeOK, vecVars, trackVars, userVars, ackVars, scraperVars, Dropping
<1>8. OneChild' /\ BeatInv' /\ SumInv'
  BY <1>1, <1>2, BeatKept, SumKept DEF OneChild, vecVars, trackVars, userVars, ackVars, scraperVars
<1>9. RoundInv'  BY <1>1, <1>2, <1>3, <1>5, RoundInDrop DEF ackVars, scraperVars
<1>10. PassInv'
  <2>1. pc' \notin Picking \cup {"emit"} /\ pc' # "rest" /\ pc \notin Picking \cup {"emit"} /\ pc # "rest"
    BY <1>3, PcFacts
  <2>2. pc' \notin {"revive", "move"}  BY <1>3
  <2> QED  BY <1>1, <1>2, <1>4, <2>1, <2>2 DEF PassInv
<1>11. ASSUME NEW i \in Instances PROVE EntryInv(i)' /\ ValueInv(i)' /\ HeldInv(i)' /\ RowInv(i)'
  <2>1. pc \notin Passes /\ pc' \notin Passes  BY <1>3, PcFacts
  <2>2. EntryInv(i)'  BY <1>1, <1>2, <2>1 DEF EntryInv, vecVars, ackVars
  <2>3. ValueInv(i)' /\ RowInv(i)'  BY <1>1, <1>2, ValueKept, RowKept DEF trackVars, ackVars
  <2>4. /\ Base(i)' = Base(i) /\ held' = held /\ dead' = dead /\ entry' = entry /\ round' = round
        /\ (IdleAt(i, round)' <=> IdleAt(i, round)) /\ kind' = kind /\ pending' = pending
    BY <1>2, SetupKept DEF Base, IdleAt, vecVars, ackVars
  <2>5. pc' \in {"delete", "callback"} => IdleAt(x, round)  BY <1>2
  <2>6. HeldInv(i)'  BY <1>1, <1>2, <1>3, <2>1, <2>4, <2>5, SetupKept DEF HeldInv
  <2> QED  BY <2>2, <2>3, <2>6
<1>12. ASSUME NEW i \in created' PROVE DueInv(i)'
  <2>1. i \in created /\ DueInv(i)  BY <1>1, <1>2 DEF vecVars
  <2>2. /\ Settled(i)' = Settled(i) /\ Told(i)' = Told(i) /\ (Enlisting(i)' <=> Enlisting(i))
        /\ value' = value /\ atCut' = atCut /\ took' = took /\ picks' = picks /\ dirty' = dirty
        /\ (Excused(i)' <=> Excused(i))
    BY <1>2 DEF Settled, Told, Base, Enlisting, Excused, vecVars, trackVars, userVars, ackVars
  <2>3. Taken(i) => Taken(i)'  BY <1>2 DEF Taken
  <2>4. Listed(i) => Listed(i)'  BY <2>2 DEF Listed
  <2> QED  BY <2>1, <2>2, <2>3, <2>4, DueGrows
<1> QED  BY <1>6, <1>7, <1>8, <1>9, <1>10, <1>11, <1>12 DEF ExposerInv

LEMMA DropDeletesKeeps ==
    ASSUME ExposerInv, setup' = setup, DropDeletes
    PROVE  ExposerInv'
<1>1. /\ TypeOK /\ OneChild /\ PassInv /\ LiveInv /\ RoundInv /\ BeatInv /\ SumInv
      /\ \A i \in Instances : EntryInv(i) /\ ValueInv(i) /\ HeldInv(i) /\ RowInv(i)
      /\ \A i \in created : DueInv(i)
  BY DEF ExposerInv
<1>2. /\ pc = "delete" /\ pc' = "drop"
      /\ UNCHANGED <<created, trackVars, userVars, kind, round, entry, ackVars, passVars, idle,
                     scraperVars>>
  BY DEF DropDeletes, Goto
<1>3. pc \in Dropping /\ pc' \in Dropping  BY <1>2, PcFacts
<1>4. PICK x \in created : /\ x = picking /\ x \in Instances /\ x # Nil /\ entry[x] # Nil
                           /\ x \notin idle
  BY <1>1, <1>2, <1>3 DEF PassInv, TypeOK, LiveInv
<1>5. \/ /\ x \notin dead /\ dead' = dead \cup {x} /\ atDeath' = [atDeath EXCEPT ![x] = value[x]]
         /\ child' = Nil /\ live' = live - 1
      \/ UNCHANGED <<child, dead, atDeath, live>>
  BY <1>4 DEF DropDeletes, Remove
<1>6. kind # "peek"  BY <1>1, <1>2, <1>3 DEF RoundInv
<1>7. LiveInv' /\ live' \in Nat
  <2>1. live \in Nat /\ live >= Cardinality(Counted) /\ Cardinality(Counted) \in Nat /\ IsFiniteSet(Counted)
    BY <1>1, CountedFinite DEF TypeOK, LiveInv
  <2>2. took' = took /\ took = {} /\ idle' = idle /\ deletes' = deletes
    BY <1>1, <1>2, <1>3, PcFacts DEF PassInv, passVars, userVars
  <2>3. CASE x \notin dead /\ dead' = dead \cup {x} /\ live' = live - 1
    <3>1. Counted' = Counted \ {x} /\ x \in Counted
      BY <1>2, <1>4, <2>3 DEF Counted, passVars
    <3>2. Cardinality(Counted') = Cardinality(Counted) - 1 /\ Cardinality(Counted') \in Nat
      BY <2>1, <3>1, FS_RemoveElement, FS_CardinalityType
    <3>3. live' >= Cardinality(Counted') /\ live' \in Nat  BY <2>1, <2>3, <3>2
    <3>4. deletes' = 0 => live' = Cardinality(Counted')  BY <1>1, <2>2, <2>3, <3>2 DEF LiveInv
    <3>5. deletes' = 0 => (took' \cup idle') \cap dead' = {}
      BY <1>1, <1>4, <2>2, <2>3 DEF LiveInv
    <3> QED  BY <1>2, <3>3, <3>4, <3>5 DEF LiveInv
  <2>4. CASE UNCHANGED <<child, dead, atDeath, live>>
    <3>1. Counted' = Counted  BY <1>2, <2>4 DEF Counted, passVars
    <3> QED  BY <1>1, <1>2, <2>1, <2>2, <2>4, <3>1 DEF LiveInv
  <2> QED  BY <1>5, <2>3, <2>4
<1>8. TypeOK'
  <2>1. /\ child' \in Instances \cup {Nil} /\ child' \in (created \ dead') \cup {Nil}
        /\ dead' \subseteq created /\ atDeath' \in [Instances -> Nat]
    BY <1>1, <1>4, <1>5 DEF TypeOK
  <2> QED  BY <1>1, <1>2, <1>7, <2>1, SetupKept
           DEF TypeOK, trackVars, userVars, ackVars, passVars, scraperVars
<1>9. OneChild'  BY <1>1, <1>2, <1>4, <1>5 DEF OneChild
<1>10. BeatInv' /\ SumInv'
  BY <1>1, <1>2, BeatKept, SumKept DEF trackVars, userVars, ackVars, passVars, scraperVars
<1>11. RoundInv'  BY <1>1, <1>2, <1>3, <1>6, RoundInDrop DEF ackVars, scraperVars
<1>12. PassInv'  BY <1>1, <1>2, <1>3, PcFacts DEF PassInv, passVars
<1>13. ASSUME NEW i \in Instances PROVE EntryInv(i)' /\ ValueInv(i)' /\ HeldInv(i)' /\ RowInv(i)'
  <2>1. pc \notin Passes /\ pc' \notin Passes  BY <1>3, PcFacts
  <2>2. EntryInv(i)'  BY <1>1, <1>2, <2>1 DEF EntryInv, ackVars, passVars
  <2>3. ValueInv(i)' /\ RowInv(i)'  BY <1>1, <1>2, ValueKept, RowKept DEF trackVars, ackVars, passVars
  <2>4. /\ Base(i)' = Base(i) /\ held' = held /\ entry' = entry /\ round' = round
        /\ kind' = kind /\ pending' = pending
    BY <1>2 DEF Base, ackVars, passVars
  <2>5. HeldStays /\ held[i] # 0 => i \notin dead' \/ "peek" \notin Kinds
    BY <1>1, <1>2, <1>4, <1>5, IdleNotHeld DEF HeldInv
  <2>6. HeldInv(i)'  BY <1>1, <1>2, <1>3, <2>1, <2>4, <2>5, SetupKept DEF HeldInv
  <2> QED  BY <2>2, <2>3, <2>6
<1>14. ASSUME NEW i \in created' PROVE DueInv(i)'
  <2>1. i \in created /\ i \in Instances /\ DueInv(i)  BY <1>1, <1>2 DEF TypeOK
  <2>2. /\ Settled(i)' = Settled(i) /\ Told(i)' = Told(i) /\ (Enlisting(i)' <=> Enlisting(i))
        /\ value' = value /\ atCut' = atCut /\ took' = took /\ picks' = picks /\ dirty' = dirty
    BY <1>2 DEF Settled, Told, Base, Enlisting, trackVars, userVars, ackVars, passVars
  <2>3. Excused(i) => Excused(i)'
    BY <1>1, <1>2, <1>5, <2>1, <2>2 DEF Excused, userVars, TypeOK
  <2>4. Taken(i) => Taken(i)'  BY <1>2 DEF Taken, passVars
  <2>5. Listed(i) => Listed(i)'  BY <2>2, <2>3 DEF Listed
  <2> QED  BY <2>1, <2>2, <2>4, <2>5, DueGrows
<1> QED  BY <1>7, <1>8, <1>9, <1>10, <1>11, <1>12, <1>13, <1>14 DEF ExposerInv

LEMMA CallbackKeeps ==
    ASSUME ExposerInv, setup' = setup, Callback
    PROVE  ExposerInv'
<1>1. /\ TypeOK /\ OneChild /\ PassInv /\ LiveInv /\ RoundInv /\ BeatInv /\ SumInv
      /\ \A i \in Instances : EntryInv(i) /\ ValueInv(i) /\ HeldInv(i) /\ RowInv(i)
      /\ \A i \in created : DueInv(i)
  BY DEF ExposerInv
<1>2. /\ pc = "callback" /\ pc' = "callbackDone"
      /\ UNCHANGED <<created, trackVars, userVars, kind, round, live, entry, ackVars, passVars,
                     idle, scraperVars>>
  BY DEF Callback, Goto
<1>3. pc \in Dropping /\ pc' \in Dropping  BY <1>2, PcFacts
<1>4. PICK x \in created : /\ x = picking /\ x \in Instances /\ x # Nil /\ entry[x] # Nil
                           /\ x \notin idle
  BY <1>1, <1>2, <1>3 DEF PassInv, TypeOK, LiveInv
<1>5. \/ \E c \in created : /\ c = child /\ c \notin dead /\ c \in Instances /\ dead' = dead \cup {c}
                            /\ atDeath' = [atDeath EXCEPT ![c] = value[c]] /\ child' = Nil
      \/ UNCHANGED <<child, dead, atDeath>>
  BY <1>1 DEF Callback, Remove, TypeOK
<1>6. kind # "peek"  BY <1>1, <1>2, <1>3 DEF RoundInv
<1>7. \/ \E c \in created : /\ c \notin dead /\ c \in Instances /\ dead' = dead \cup {c}
                            /\ atDeath' = [atDeath EXCEPT ![c] = value[c]] /\ child' = Nil
                            /\ (deletes = 0 => c = x) /\ created \ dead = {c}
      \/ UNCHANGED <<child, dead, atDeath>>
  <2>1. deletes = 0 => x \notin dead  BY <1>1, <1>2, <1>4 DEF LiveInv
  <2>2. ASSUME NEW c \in created, c = child, c \notin dead PROVE created \ dead = {c}
    BY <1>1, <2>2 DEF OneChild
  <2> QED  BY <1>4, <1>5, <2>1, <2>2
<1>8. LiveInv'
  <2>1. live \in Nat /\ live >= Cardinality(Counted) /\ Cardinality(Counted) \in Nat /\ IsFiniteSet(Counted)
    BY <1>1, CountedFinite DEF TypeOK, LiveInv
  <2>2. took' = took /\ took = {} /\ idle' = idle /\ deletes' = deletes
    BY <1>1, <1>2, <1>3, PcFacts DEF PassInv, passVars, userVars
  <2>3. dead \subseteq dead'  BY <1>7
  <2>4. Counted' \subseteq Counted  BY <1>2, <2>3 DEF Counted, passVars
  <2>5. deletes = 0 => dead' \subseteq dead \cup {x}  BY <1>7
  <2>6. deletes = 0 => Counted' = Counted  BY <1>2, <1>4, <2>4, <2>5 DEF Counted, passVars
  <2>7. Cardinality(Counted') <= Cardinality(Counted) /\ Cardinality(Counted') \in Nat
    BY <2>1, <2>4, FS_Subset, FS_CardinalityType
  <2>8. live' >= Cardinality(Counted')  BY <1>2, <2>1, <2>7
  <2>9. deletes' = 0 => live' = Cardinality(Counted') /\ (took' \cup idle') \cap dead' = {}
    BY <1>1, <1>2, <1>4, <2>2, <2>5, <2>6 DEF LiveInv
  <2> QED  BY <1>2, <1>4, <2>8, <2>9 DEF LiveInv, passVars
<1>9. TypeOK'
  <2>1. /\ child' \in Instances \cup {Nil} /\ child' \in (created \ dead') \cup {Nil}
        /\ dead' \subseteq created /\ atDeath' \in [Instances -> Nat]
    BY <1>1, <1>7 DEF TypeOK
  <2> QED  BY <1>1, <1>2, <2>1, SetupKept
           DEF TypeOK, trackVars, userVars, ackVars, passVars, scraperVars
<1>10. OneChild'  BY <1>1, <1>2, <1>7 DEF OneChild
<1>11. BeatInv' /\ SumInv'
  BY <1>1, <1>2, BeatKept, SumKept DEF trackVars, userVars, ackVars, passVars, scraperVars
<1>12. RoundInv'  BY <1>1, <1>2, <1>3, <1>6, RoundInDrop DEF ackVars, scraperVars
<1>13. PassInv'  BY <1>1, <1>2, <1>3, PcFacts DEF PassInv, passVars
<1>14. ASSUME NEW i \in Instances PROVE EntryInv(i)' /\ ValueInv(i)' /\ HeldInv(i)' /\ RowInv(i)'
  <2>1. pc \notin Passes /\ pc' \notin Passes  BY <1>3, PcFacts
  <2>2. EntryInv(i)'  BY <1>1, <1>2, <2>1 DEF EntryInv, ackVars, passVars
  <2>3. ValueInv(i)' /\ RowInv(i)'  BY <1>1, <1>2, ValueKept, RowKept DEF trackVars, ackVars, passVars
  <2>4. /\ Base(i)' = Base(i) /\ held' = held /\ entry' = entry /\ round' = round
        /\ kind' = kind /\ pending' = pending
    BY <1>2 DEF Base, ackVars, passVars
  <2>5. HeldStays /\ held[i] # 0 => i \notin dead' \/ "peek" \notin Kinds
    <3>1. SUFFICES ASSUME HeldStays, held[i] # 0, "peek" \in Kinds PROVE i \notin dead'  OBVIOUS
    <3>2. deletes = 0  BY <1>1, <3>1 DEF HeldStays, TypeOK
    <3>3. i # x  BY <1>1, <1>2, <1>4, <3>1, IdleNotHeld
    <3>4. i \notin dead  BY <1>1, <3>1 DEF HeldInv
    <3> QED  BY <1>7, <3>2, <3>3, <3>4
  <2>6. HeldInv(i)'  BY <1>1, <1>2, <1>3, <2>1, <2>4, <2>5, SetupKept DEF HeldInv
  <2> QED  BY <2>2, <2>3, <2>6
<1>15. ASSUME NEW i \in created' PROVE DueInv(i)'
  <2>1. i \in created /\ i \in Instances /\ DueInv(i)  BY <1>1, <1>2 DEF TypeOK
  <2>2. /\ Settled(i)' = Settled(i) /\ Told(i)' = Told(i) /\ (Enlisting(i)' <=> Enlisting(i))
        /\ value' = value /\ atCut' = atCut /\ took' = took /\ picks' = picks /\ dirty' = dirty
    BY <1>2 DEF Settled, Told, Base, Enlisting, trackVars, userVars, ackVars, passVars
  <2>3. Excused(i) => Excused(i)'
    BY <1>1, <1>2, <1>7, <2>1, <2>2 DEF Excused, userVars, TypeOK
  <2>4. Taken(i) => Taken(i)'  BY <1>2 DEF Taken, passVars
  <2>5. Listed(i) => Listed(i)'  BY <2>2, <2>3 DEF Listed
  <2> QED  BY <2>1, <2>2, <2>4, <2>5, DueGrows
<1> QED  BY <1>8, <1>9, <1>10, <1>11, <1>12, <1>13, <1>14, <1>15 DEF ExposerInv

LEMMA CallbackDoneKeeps ==
    ASSUME ExposerInv, setup' = setup, CallbackDone
    PROVE  ExposerInv'
<1>1. /\ TypeOK /\ OneChild /\ PassInv /\ LiveInv /\ RoundInv /\ BeatInv /\ SumInv
      /\ \A i \in Instances : EntryInv(i) /\ ValueInv(i) /\ HeldInv(i) /\ RowInv(i)
      /\ \A i \in created : DueInv(i)
  BY DEF ExposerInv
<1>2. /\ pc = "callbackDone" /\ pc' = "drop"
      /\ UNCHANGED <<vecVars, trackVars, userVars, kind, round, ackVars, passVars, idle,
                     scraperVars>>
  BY DEF CallbackDone, Goto
<1>3. pc \in Dropping /\ pc' \in Dropping  BY <1>2, PcFacts
<1>4. PICK x \in created : /\ x = picking /\ x \in Instances /\ x # Nil /\ entry[x] # Nil
                           /\ x \notin idle /\ entry[x] \in Entries
  BY <1>1, <1>2, <1>3 DEF PassInv, TypeOK, LiveInv
<1>5. \/ x \in dead /\ live' = live - 1 /\ entry' = entry
      \/ x \notin dead /\ live' = live /\ entry' = [entry EXCEPT ![x].changed = round]
  BY <1>4 DEF CallbackDone
<1>6. kind # "peek" /\ round \in Nat  BY <1>1, <1>2, <1>3, SetupFacts DEF RoundInv, TypeOK
<1>7. /\ entry' \in [Instances -> Entries \cup {Nil}]
      /\ \A i \in Instances : /\ Base(i)' = Base(i) /\ (entry'[i] # Nil <=> entry[i] # Nil)
                              /\ entry[i] # Nil => entry'[i].picked = entry[i].picked
                              /\ entry'[i] = entry[i] \/ entry'[i].changed = round
  <2>1. CASE entry' = entry  BY <1>1, <2>1 DEF TypeOK, Base
  <2>2. CASE entry' = [entry EXCEPT ![x].changed = round]
    <3>1. entry' = [entry EXCEPT ![x] = [entry[x] EXCEPT !.changed = round]]  BY <2>2
    <3>2. entry'[x] = [entry[x] EXCEPT !.changed = round]  BY <1>1, <1>4, <3>1 DEF TypeOK
    <3>3. /\ entry'[x] \in Entries /\ entry'[x].value = entry[x].value
          /\ entry'[x].picked = entry[x].picked /\ entry'[x].changed = round
      BY <1>4, <1>6, <3>2 DEF Entries
    <3>4. /\ entry' \in [Instances -> Entries \cup {Nil}]
          /\ \A i \in Instances : i # x => entry'[i] = entry[i]
      <4>1. [entry[x] EXCEPT !.changed = round] \in Entries  BY <3>2, <3>3
      <4> QED  BY <1>1, <1>4, <3>1, <4>1 DEF TypeOK
    <3>5. entry'[x] # Nil  BY <3>3, NilAssumption
    <3> QED  BY <1>4, <3>3, <3>4, <3>5 DEF Base
  <2> QED  BY <1>5, <2>1, <2>2
<1>8. LiveInv' /\ live' \in Nat
  <2>1. live \in Nat /\ live >= Cardinality(Counted) /\ Cardinality(Counted) \in Nat /\ IsFiniteSet(Counted)
    BY <1>1, CountedFinite DEF TypeOK, LiveInv
  <2>2. took' = took /\ idle' = idle /\ deletes' = deletes /\ dead' = dead
    BY <1>1, <1>2 DEF passVars, userVars, vecVars
  <2>3. CASE x \in dead /\ live' = live - 1 /\ entry' = entry
    <3>1. Counted' = Counted \ {x} /\ x \in Counted
      BY <1>2, <1>4, <2>3 DEF Counted, passVars, vecVars
    <3>2. Cardinality(Counted') = Cardinality(Counted) - 1 /\ Cardinality(Counted') \in Nat
      BY <2>1, <3>1, FS_RemoveElement, FS_CardinalityType
    <3>3. live' >= Cardinality(Counted') /\ live' \in Nat  BY <2>1, <2>3, <3>2
    <3>4. deletes' = 0 => live' = Cardinality(Counted')  BY <1>1, <2>2, <2>3, <3>2 DEF LiveInv
    <3> QED  BY <1>1, <1>2, <2>2, <3>3, <3>4 DEF LiveInv
  <2>4. CASE x \notin dead /\ live' = live
    <3>1. Counted' = Counted  BY <1>1, <1>2, <1>4, <1>7, <2>4 DEF Counted, passVars, vecVars, TypeOK
    <3> QED  BY <1>1, <1>2, <2>1, <2>2, <2>4, <3>1 DEF LiveInv
  <2> QED  BY <1>5, <2>3, <2>4
<1>9. TypeOK'
  BY <1>1, <1>2, <1>7, <1>8, SetupKept
     DEF TypeOK, vecVars, trackVars, userVars, ackVars, passVars, scraperVars
<1>10. OneChild' /\ BeatInv' /\ SumInv'
  BY <1>1, <1>2, <1>7, BeatKept, SumSame
     DEF OneChild, vecVars, trackVars, userVars, ackVars, passVars, scraperVars
<1>11. RoundInv'  BY <1>1, <1>2, <1>3, <1>6, RoundInDrop DEF ackVars, scraperVars
<1>12. PassInv'  BY <1>1, <1>2, <1>3, PcFacts DEF PassInv, passVars
<1>13. ASSUME NEW i \in Instances PROVE EntryInv(i)' /\ ValueInv(i)' /\ HeldInv(i)' /\ RowInv(i)'
  <2>1. pc \notin Passes /\ pc' \notin Passes  BY <1>3, PcFacts
  <2>2. EntryInv(i)'  BY <1>1, <1>2, <1>7, <2>1 DEF EntryInv, vecVars, ackVars, passVars
  <2>3. ValueInv(i)' /\ RowInv(i)'
    BY <1>1, <1>2, <1>7, ValueSame, RowSame DEF trackVars, ackVars, passVars
  <2>4. /\ Base(i)' = Base(i) /\ held' = held /\ round' = round /\ dead' = dead
        /\ kind' = kind /\ pending' = pending /\ (entry'[i] = entry[i] \/ entry'[i].changed = round)
    BY <1>2, <1>7 DEF ackVars, passVars, vecVars
  <2>5. HeldInv(i)'  BY <1>1, <1>2, <1>3, <2>1, <2>4, SetupKept DEF HeldInv
  <2> QED  BY <2>2, <2>3, <2>5
<1>14. ASSUME NEW i \in created' PROVE DueInv(i)'
  <2>1. i \in created /\ i \in Instances /\ DueInv(i)  BY <1>1, <1>2 DEF TypeOK, vecVars
  <2>2. /\ Settled(i)' = Settled(i) /\ Told(i)' = Told(i) /\ (Enlisting(i)' <=> Enlisting(i))
        /\ value' = value /\ atCut' = atCut /\ took' = took /\ picks' = picks /\ dirty' = dirty
        /\ (Excused(i)' <=> Excused(i))
    BY <1>2, <1>7, <2>1
       DEF Settled, Told, Enlisting, Excused, trackVars, userVars, ackVars, passVars, vecVars
  <2>3. Taken(i) => Taken(i)'  BY <1>2 DEF Taken, passVars
  <2>4. Listed(i) => Listed(i)'  BY <2>2 DEF Listed
  <2> QED  BY <2>1, <2>2, <2>3, <2>4, DueGrows
<1> QED  BY <1>8, <1>9, <1>10, <1>11, <1>12, <1>13, <1>14 DEF ExposerInv

LEMMA DropDoneKeeps ==
    ASSUME ExposerInv, setup' = setup, DropDone
    PROVE  ExposerInv'
<1>1. /\ TypeOK /\ OneChild /\ PassInv /\ LiveInv /\ RoundInv /\ BeatInv /\ SumInv
      /\ \A i \in Instances : EntryInv(i) /\ ValueInv(i) /\ HeldInv(i) /\ RowInv(i)
      /\ \A i \in created : DueInv(i)
  BY DEF ExposerInv
<1>2. /\ pc = "drop" /\ idle = {} /\ pc' = "rest" /\ picking' = Nil
      /\ UNCHANGED <<vecVars, trackVars, userVars, kind, round, live, entry, ackVars, batch,
                     target, picks, beats, took, rows, pending, idle, scraperVars>>
  BY DEF DropDone, Goto
<1>3. pc \in Dropping /\ pc' \notin Dropping  BY <1>2, PcFacts
<1>4. TypeOK'
  BY <1>1, <1>2, SetupKept DEF TypeOK, vecVars, trackVars, userVars, ackVars, scraperVars
<1>5. OneChild' /\ BeatInv' /\ SumInv'
  BY <1>1, <1>2, BeatKept, SumKept DEF OneChild, vecVars, trackVars, userVars, ackVars, scraperVars
<1>6. RoundInv'  BY <1>1, <1>2, <1>3, RoundInDrop DEF ackVars, scraperVars
<1>7. PassInv'  BY <1>1, <1>2, <1>3, PcFacts DEF PassInv
<1>8. LiveInv'
  <2>1. Counted' = Counted  BY <1>2 DEF Counted, vecVars
  <2> QED  BY <1>1, <1>2, <1>3, <2>1 DEF LiveInv, vecVars, userVars
<1>9. ASSUME NEW i \in Instances PROVE EntryInv(i)' /\ ValueInv(i)' /\ HeldInv(i)' /\ RowInv(i)'
  <2>1. pc \notin Passes /\ pc' \notin Passes  BY <1>2, <1>3, PcFacts
  <2>2. EntryInv(i)'  BY <1>1, <1>2, <2>1 DEF EntryInv, vecVars, ackVars
  <2>3. ValueInv(i)' /\ RowInv(i)'  BY <1>1, <1>2, ValueKept, RowKept DEF trackVars, ackVars
  <2>4. /\ Base(i)' = Base(i) /\ held' = held /\ entry' = entry /\ round' = round /\ dead' = dead
        /\ kind' = kind /\ pending' = pending
    BY <1>2 DEF Base, ackVars, vecVars
  <2>5. HeldInv(i)'  BY <1>1, <1>2, <1>3, <2>1, <2>4, SetupKept DEF HeldInv
  <2> QED  BY <2>2, <2>3, <2>5
<1>10. ASSUME NEW i \in created' PROVE DueInv(i)'
  <2>1. i \in created /\ DueInv(i)  BY <1>1, <1>2 DEF vecVars
  <2>2. /\ Settled(i)' = Settled(i) /\ Told(i)' = Told(i) /\ (Enlisting(i)' <=> Enlisting(i))
        /\ value' = value /\ atCut' = atCut /\ took' = took /\ picks' = picks /\ dirty' = dirty
        /\ (Excused(i)' <=> Excused(i))
    BY <1>2 DEF Settled, Told, Base, Enlisting, Excused, vecVars, trackVars, userVars, ackVars
  <2>3. Taken(i) => Taken(i)'  BY <1>2 DEF Taken
  <2>4. Listed(i) => Listed(i)'  BY <2>2 DEF Listed
  <2> QED  BY <2>1, <2>2, <2>3, <2>4, DueGrows
<1> QED  BY <1>4, <1>5, <1>6, <1>7, <1>8, <1>9, <1>10 DEF ExposerInv

-----------------------------------------------------------------------------
(* The invariant *)

LEMMA StutterKeeps ==
    ASSUME ExposerInv, UNCHANGED vars
    PROVE  ExposerInv'
<1>1. /\ TypeOK /\ OneChild /\ PassInv /\ LiveInv /\ RoundInv /\ BeatInv /\ SumInv
      /\ \A i \in Instances : EntryInv(i) /\ ValueInv(i) /\ HeldInv(i) /\ RowInv(i)
      /\ \A i \in created : DueInv(i)
  BY DEF ExposerInv
<1>2. /\ setup' = setup
      /\ UNCHANGED <<vecVars, trackVars, userVars, pc, kind, round, live, entry, ackVars,
                     passVars, idle, scraperVars>>
  BY DEF vars
<1>3. TypeOK'
  BY <1>1, <1>2, SetupKept DEF TypeOK, vecVars, trackVars, userVars, ackVars, passVars, scraperVars
<1>4. OneChild' /\ PassInv' /\ LiveInv' /\ RoundInv' /\ BeatInv' /\ SumInv'
  BY <1>1, <1>2, PassKept, LiveKept, RoundKept, BeatKept, SumKept
     DEF OneChild, vecVars, trackVars, userVars, ackVars, passVars, scraperVars
<1>5. ASSUME NEW i \in Instances PROVE EntryInv(i)' /\ ValueInv(i)' /\ HeldInv(i)' /\ RowInv(i)'
  BY <1>1, <1>2, EntryKept, ValueKept, HeldKept, RowKept DEF vecVars, trackVars, ackVars, passVars
<1>6. ASSUME NEW i \in created' PROVE DueInv(i)'
  <2>1. i \in created /\ DueInv(i)  BY <1>1, <1>2 DEF vecVars
  <2> QED  BY <1>2, <2>1, DueKept DEF vecVars, trackVars, userVars, ackVars, passVars
<1> QED  BY <1>3, <1>4, <1>5, <1>6 DEF ExposerInv

LEMMA ExposerStarts ==
    ASSUME Init
    PROVE  ExposerInv
<1>1. \A i \in Instances : /\ value[i] = 0 /\ before[i] = 0 /\ atCut[i] = 0 /\ held[i] = 0
                           /\ pending[i] = 0 /\ rows[i] = 0 /\ entry[i] = Nil /\ Base(i) = 0
  BY DEF Init, None, Base
<1>2. setup \in Setups /\ None \in [Instances -> Nat]  BY DEF Init, None
<1>3. TypeOK
  <2>1. /\ 0 \in 0..MaxLookups /\ 0 \in 0..MaxDeletes /\ 0 \in 0..MaxWrites /\ 0 \in 0..MaxRounds
        /\ 0 \in 0..0
    BY <1>2, SetupFacts
  <2>2. had \in BOOLEAN /\ heldGot \in BOOLEAN /\ excused \in BOOLEAN  BY DEF Init
  <2>3. /\ hold \in [Writers -> created \cup {Nil}] /\ entry \in [Instances -> Entries \cup {Nil}]
        /\ marking \subseteq {w \in Writers : hold[w] # Nil}
    BY DEF Init
  <2> QED  BY <1>2, <2>1, <2>2, <2>3 DEF Init, TypeOK
<1>4. OneChild /\ BeatInv  BY DEF Init, OneChild, BeatInv
<1>5. PassInv  BY PcFacts DEF Init, PassInv
<1>6. LiveInv
  <2>1. Counted = {}  BY DEF Init, Counted
  <2> QED  BY <2>1, FS_EmptySet, PcFacts DEF Init, LiveInv
<1>7. RoundInv  BY PcFacts DEF Init, RoundInv
<1>8. SumInv
  <2> DEFINE F == [i \in Instances |-> value[i] - Received(i)]
  <2>1. \A i \in Instances : F[i] = 0  BY <1>1 DEF Received
  <2>2. F = [i \in Instances |-> F[i]]  OBVIOUS
  <2>3. Conserved <=> (~excused => written = got + SumFunction(F))  BY DEF Conserved
  <2> HIDE DEF F
  <2>4. F \in [Instances -> Nat]  BY <2>1, <2>2
  <2>5. SumFunction(F) = 0  BY <2>1, <2>4, InstancesAssumption, SumFunctionZero
  <2> QED  BY <2>3, <2>5 DEF Init, SumInv
<1>9. ASSUME NEW i \in Instances PROVE EntryInv(i) /\ ValueInv(i) /\ HeldInv(i) /\ RowInv(i)
  <2>1. EntryInv(i)  BY <1>1 DEF Init, EntryInv
  <2>2. Cur(i) = 0  BY <1>1 DEF Cur
  <2>3. ValueInv(i)  BY <1>1, <2>2 DEF ValueInv
  <2>4. HeldInv(i)  BY <1>1, PcFacts DEF Init, HeldInv
  <2>5. RowInv(i)  BY <1>1 DEF RowInv, Told
  <2> QED  BY <2>1, <2>3, <2>4, <2>5
<1>10. \A i \in created : DueInv(i)  BY DEF Init
<1> QED  BY <1>3, <1>4, <1>5, <1>6, <1>7, <1>8, <1>9, <1>10 DEF ExposerInv

LEMMA ExposerStep ==
    ASSUME ExposerInv, [Next]_vars
    PROVE  ExposerInv'
<1>1. CASE UNCHANGED vars  BY <1>1, StutterKeeps
<1>2. CASE Step /\ setup' = setup
  BY <1>2, LookupKeeps, WriteKeeps, MarkKeeps, ReleaseKeeps, UserDeleteKeeps, ServeKeeps, CutKeeps,
     TakeKeeps, HandOutKeeps, PickChecksKeeps, PickEntryKeeps, ReviveKeeps, MoveKeeps, WalkKeeps,
     EmitKeeps, RespondKeeps, RestartKeeps, DropChecksKeeps, DropDeletesKeeps, CallbackKeeps,
     CallbackDoneKeeps, DropDoneKeeps
     DEF Step
<1> QED  BY <1>1, <1>2 DEF Next, Terminating

\* A delivered value does not go back, and what a held round was reported against stays.
LEMMA BaselineStep ==
    ASSUME ExposerInv, HeldStays, [Next]_vars, NEW i \in Instances
    PROVE  /\ Base(i)' >= Base(i) /\ (entry[i] # Nil => entry'[i] # Nil)
           /\ held[i] # 0 /\ heldRound' = heldRound => Base(i)' = Base(i)
<1> DEFINE Forward == /\ Base(i)' >= Base(i) /\ (entry[i] # Nil => entry'[i] # Nil)
                      /\ held[i] # 0 /\ heldRound' = heldRound => Base(i)' = Base(i)
<1>1. /\ TypeOK /\ PassInv /\ EntryInv(i) /\ ValueInv(i) /\ HeldInv(i) /\ RoundInv
      /\ \A j \in Instances : EntryInv(j) /\ ValueInv(j)
  BY DEF ExposerInv
<1>2. Base(i) \in Nat /\ held[i] \in Nat /\ pending[i] \in Nat  BY <1>1 DEF TypeOK, Base, Entries
<1>3. entry \in [Instances -> Entries \cup {Nil}] /\ round \in Nat  BY <1>1, SetupFacts DEF TypeOK
<1>4. CASE entry'[i] = entry[i]  BY <1>2, <1>4 DEF Base
<1>5. CASE entry[i] # Nil /\ entry'[i] # Nil /\ entry'[i].value = entry[i].value  BY <1>2, <1>5 DEF Base
<1>6. ASSUME NEW r \in Nat, entry[i] # Nil,
             entry'[i] = [entry[i] EXCEPT !.picked = r] \/ entry'[i] = [entry[i] EXCEPT !.changed = r]
      PROVE  Forward
  <2>1. entry[i] \in Entries  BY <1>3, <1>6
  <2>2. entry'[i] \in Entries /\ entry'[i].value = entry[i].value  BY <1>6, <2>1 DEF Entries
  <2> QED  BY <1>5, <1>6, <2>2, NilAssumption
<1>7. ASSUME PickEntry PROVE Forward
  <2>1. picking \in Instances  BY <1>1, <1>7 DEF PickEntry, PassInv, TypeOK
  <2>2. CASE entry' = entry  BY <1>4, <2>2
  <2>3. CASE entry[picking] = Nil /\ entry' = [entry EXCEPT ![picking] =
                                [value |-> 0, changed |-> round, picked |-> round]]
    BY <1>2, <1>3, <2>1, <2>3 DEF Base
  <2>4. CASE entry[picking] # Nil /\ entry' = [entry EXCEPT ![picking].picked = round]
    <3>1. CASE i # picking  BY <1>3, <1>4, <2>4, <3>1
    <3>2. CASE i = picking
      <4>1. entry'[i] = [entry[i] EXCEPT !.picked = round]  BY <1>3, <2>1, <2>4, <3>2
      <4> QED  BY <1>3, <1>6, <2>4, <3>2, <4>1
    <3> QED  BY <3>1, <3>2
  <2> QED  BY <1>7, <2>2, <2>3, <2>4 DEF PickEntry
<1>8. ASSUME Move PROVE Forward
  <2>1. picking \in Instances /\ picking \in dead /\ pc \in Passes
    BY <1>1, <1>8, PcFacts DEF Move, PassInv, TypeOK
  <2>2. PICK c : c = Cur(picking)  OBVIOUS
  <2>3. c \in Nat /\ Base(picking) <= c /\ Base(picking) \in Nat
    BY <1>1, <2>1, <2>2 DEF TypeOK, Cur, ValueInv, Base, Entries
  <2>4. entry' = [entry EXCEPT ![picking] =
                    IF entry[picking] = Nil THEN [value |-> c, changed |-> 0, picked |-> 0]
                    ELSE [entry[picking] EXCEPT !.value = c]]
    BY <1>8, <2>2 DEF Move
  <2>5. CASE i # picking  BY <1>3, <1>4, <2>4, <2>5
  <2>6. CASE i = picking
    <3>1. entry'[i].value = c /\ entry'[i] \in Entries
      <4>1. CASE entry[picking] = Nil  BY <1>3, <2>1, <2>3, <2>4, <2>6, <4>1 DEF Entries
      <4>2. CASE entry[picking] # Nil  BY <1>3, <2>1, <2>3, <2>4, <2>6, <4>2 DEF Entries
      <4> QED  BY <4>1, <4>2
    <3>2. Base(i)' = c /\ entry'[i] # Nil  BY <3>1, NilAssumption DEF Base
    <3>3. held[i] = 0  BY <1>1, <2>1, <2>6 DEF HeldInv
    <3> QED  BY <2>3, <2>6, <3>2, <3>3
  <2> QED  BY <2>5, <2>6
<1>9. ASSUME NEW p \in [Instances -> Nat], entry' = Committed(p), p = held \/ p = pending,
             held[i] # 0 => heldRound' # heldRound
      PROVE  Forward
  <2>1. \A j \in Instances : p[j] # 0 => entry[j] # Nil  BY <1>1, <1>9 DEF EntryInv
  <2>2. Base(i)' = IF p[i] # 0 THEN p[i] ELSE Base(i)  BY <1>1, <1>9, <2>1, CommittedFacts
  <2>3. entry[i] # Nil => entry'[i] # Nil  BY <1>1, <1>9, <2>1, CommittedFacts
  <2>4. p[i] # 0 => Base(i) <= p[i]  BY <1>1, <1>9 DEF HeldInv, ValueInv
  <2>5. Base(i)' >= Base(i)  BY <1>2, <1>9, <2>2, <2>4
  <2> QED  BY <1>9, <2>3, <2>5
<1>10. held \in [Instances -> Nat] /\ pending \in [Instances -> Nat]  BY <1>1 DEF TypeOK
<1>11. ASSUME NEW k \in Kinds, Serve(k) PROVE Forward
  <2>1. entry' = entry \/ (entry' = Committed(held) /\ heldRound' = 0 /\ heldRound # 0)
    BY <1>11 DEF Serve, Settles
  <2> QED  BY <1>4, <1>9, <1>10, <2>1
<1>12. ASSUME NEW o \in Outcomes, Respond(o) PROVE Forward
  <2>1. entry' = entry \/ (entry' = Committed(pending) /\ kind = "plain" /\ pc \in Passes)
    BY <1>12, PcFacts DEF Respond
  <2>2. kind = "plain" /\ pc \in Passes => held[i] = 0  BY <1>1 DEF RoundInv, None
  <2> QED  BY <1>4, <1>9, <1>10, <2>1, <2>2
<1>13. ASSUME Walk PROVE Forward
  <2>1. PICK due \in SUBSET Walked :
          entry' = [j \in Instances |->
                      IF j \in due THEN [entry[j] EXCEPT !.picked = round] ELSE entry[j]]
    <3> DEFINE walked == {j \in Walked : ~DisableHeartbeat /\ BucketDue(round)}
               d == {j \in walked : ~IdleAt(j, round) /\ entry[j].picked # round}
    <3>1. d \in SUBSET Walked  OBVIOUS
    <3>2. entry' = [j \in Instances |->
                      IF j \in d THEN [entry[j] EXCEPT !.picked = round] ELSE entry[j]]
      BY <1>13 DEF Walk
    <3> QED  BY <3>1, <3>2
  <2>2. CASE i \notin due  BY <1>4, <2>1, <2>2
  <2>3. CASE i \in due
    <3>1. entry[i] # Nil  BY <2>1, <2>3 DEF Walked
    <3>2. entry'[i] = [entry[i] EXCEPT !.picked = round]  BY <2>1, <2>3
    <3> QED  BY <1>3, <1>6, <3>1, <3>2
  <2> QED  BY <2>2, <2>3
<1>14. ASSUME NEW x \in Instances, NEW ch \in Nat, entry[x] # Nil,
              entry' = [entry EXCEPT ![x] = [entry[x] EXCEPT !.changed = ch]]
       PROVE  Forward
  <2>1. CASE i # x  BY <1>3, <1>4, <1>14, <2>1
  <2>2. CASE i = x
    <3>1. entry'[i] = [entry[i] EXCEPT !.changed = ch]  BY <1>3, <1>14, <2>2
    <3> QED  BY <1>6, <1>14, <2>2, <3>1
  <2> QED  BY <2>1, <2>2
<1>15. ASSUME NEW x \in Instances, Emit(x) PROVE Forward
  <2>1. x \in took  BY <1>1, <1>15 DEF Emit, TypeOK
  <2>2. entry[x] # Nil /\ entry[x].changed \in Nat  BY <1>1, <1>3, <2>1 DEF EntryInv, Entries
  <2>3. PICK ch \in Nat : entry' = [entry EXCEPT ![x] = [entry[x] EXCEPT !.changed = ch]]
    BY <1>3, <1>15, <2>2 DEF Emit
  <2> QED  BY <1>14, <2>2, <2>3
<1>16. ASSUME CallbackDone PROVE Forward
  <2>1. picking \in Instances /\ entry[picking] # Nil
    <3>1. pc \in Dropping \ {"drop"} /\ picking # Nil  BY <1>1, <1>16, PcFacts DEF CallbackDone, PassInv
    <3> QED  BY <1>1, <3>1 DEF ExposerInv, LiveInv, TypeOK
  <2>2. entry' = entry \/ entry' = [entry EXCEPT ![picking] = [entry[picking] EXCEPT !.changed = round]]
    BY <1>16 DEF CallbackDone
  <2> QED  BY <1>3, <1>4, <1>14, <2>1, <2>2
<1>17. ASSUME entry' = entry PROVE Forward  BY <1>4, <1>17
<1> HIDE DEF Forward
<1>18. ASSUME Step PROVE Forward
  BY <1>7, <1>8, <1>11, <1>12, <1>13, <1>15, <1>16, <1>17, <1>18
     DEF Step, Lookup, Write, Mark, Release, UserDelete, Cut, Take, HandOut, PickChecks, Revive, Restart,
         DropChecks, DropDeletes, Callback, DropDone
<1>19. ASSUME UNCHANGED vars PROVE Forward  BY <1>17, <1>19 DEF vars
<1>20. Forward  BY <1>18, <1>19 DEF Next, Terminating
<1> QED  BY <1>20 DEF Forward

-----------------------------------------------------------------------------
(* The theorems *)

\* Every step of the exposer, the Vec, the goroutines and the scraper keeps the books of
\* them in step, whatever the order.
THEOREM ExposerInvariance == Spec => []ExposerInv
<1>1. Init => ExposerInv  BY ExposerStarts
<1>2. ExposerInv /\ [Next]_vars => ExposerInv'  BY ExposerStep
<1> QED  BY <1>1, <1>2, PTL DEF Spec

\* The configuration of the exposer is fixed.
LEMMA SetupFixed ==
    ASSUME [Next]_vars
    PROVE  (HeldStays' <=> HeldStays) /\ (TurnsMeet' <=> TurnsMeet)
<1>1. setup' = setup  BY DEF Next, Terminating, vars
<1> QED  BY <1>1, SetupKept

\* Whoever removes an instance, a user, the exposer or its callback: every variable keeps its
\* type, the Vec never has two instances of a label set, and at rest, unless users delete,
\* Tracked is the number of live instances the exposer keeps an entry for.
THEOREM BooksAgree == Spec => []Bookkeeping
<1>1. ExposerInv => Bookkeeping
  <2>1. SUFFICES ASSUME ExposerInv PROVE Bookkeeping  OBVIOUS
  <2>2. TypeOK /\ OneChild /\ LiveInv /\ PassInv  BY <2>1 DEF ExposerInv
  <2>3. TrackedCounts
    <3>1. SUFFICES ASSUME pc = "rest", deletes = 0
                   PROVE  live = Cardinality({i \in created \ dead : entry[i] # Nil})
      BY DEF TrackedCounts
    <3>2. idle = {}  BY <2>2, <3>1 DEF PassInv
    <3>3. Counted = {i \in created \ dead : entry[i] # Nil}  BY <3>1, <3>2 DEF Counted
    <3> QED  BY <2>2, <3>1, <3>3 DEF LiveInv
  <2> QED  BY <2>2, <2>3 DEF Bookkeeping
<1> QED  BY <1>1, ExposerInvariance, PTL

\* Where nothing that is held can be moved into another instance meanwhile, commit, settle and
\* settleDeleted never set back what is delivered of an instance.
THEOREM BaselinesOnlyGrow == Spec /\ HeldStays => BaselineForward
<1>1. ExposerInv /\ HeldStays /\ [Next]_vars => [\A i \in Instances : Base(i)' >= Base(i)]_vars
  BY BaselineStep
<1>2. HeldStays /\ [Next]_vars => HeldStays'  BY SetupFixed
<1> QED  BY <1>1, <1>2, ExposerInvariance, PTL DEF Spec, BaselineForward

\* Under the same condition a round that is held is left alone until it is settled: every
\* instance it reported stays at the value it was reported against.
THEOREM HeldRoundStands == Spec /\ HeldStays => HeldLeftAlone
<1>1. ExposerInv /\ HeldStays /\ [Next]_vars =>
          [heldRound # 0 /\ heldRound' = heldRound =>
              \A i \in Pended(held) : entry'[i].value = entry[i].value]_vars
  <2>1. SUFFICES ASSUME ExposerInv, HeldStays, [Next]_vars, heldRound' = heldRound, NEW i \in Pended(held)
                 PROVE  entry'[i].value = entry[i].value
    OBVIOUS
  <2>2. i \in Instances /\ held[i] # 0  BY <2>1 DEF Pended
  <2>3. entry[i] # Nil  BY <2>1, <2>2 DEF ExposerInv, EntryInv
  <2>4. entry'[i] # Nil /\ Base(i)' = Base(i)  BY <2>1, <2>2, <2>3, BaselineStep
  <2> QED  BY <2>3, <2>4 DEF Base
<1>2. HeldStays /\ [Next]_vars => HeldStays'  BY SetupFixed
<1> QED  BY <1>1, <1>2, ExposerInvariance, PTL DEF Spec, HeldLeftAlone

\* Under the same condition nothing written is forgotten between scrapes: what is neither
\* delivered nor held is listed for the next one, also in a deleted instance that a goroutine
\* still writes to; only what an instance had when a user deleted it is let go.
THEOREM NoWriteStranded == Spec /\ HeldStays => []NothingStranded
<1>1. ExposerInv /\ HeldStays => NothingStranded
  <2>1. SUFFICES ASSUME ExposerInv, HeldStays, pc = "rest", NEW i \in created, value[i] # Settled(i)
                 PROVE  Listed(i)
    BY DEF NothingStranded, Listed, Excused
  <2>2. DueInv(i) /\ PassInv  BY <2>1 DEF ExposerInv
  <2>3. batch = {} /\ took = {}  BY <2>1, <2>2, PcFacts DEF PassInv
  <2>4. ~Taken(i)  BY <2>1, <2>3 DEF Taken
  <2> QED  BY <2>1, <2>2, <2>4 DEF DueInv
<1>2. HeldStays /\ [Next]_vars => HeldStays'  BY SetupFixed
<1> QED  BY <1>1, <1>2, ExposerInvariance, PTL DEF Spec

\* Where the heartbeat turns of shard and family fall together, or there are none, no row
\* reports more of an instance than it has accrued since its last delivered value.
THEOREM RowsAreIncrements == Spec /\ TurnsMeet => []IncrementsOnly
<1>1. ExposerInv /\ TurnsMeet => IncrementsOnly
  <2>1. SUFFICES ASSUME ExposerInv, TurnsMeet, NEW i \in Instances PROVE rows[i] <= value[i] - Base(i)
    BY DEF IncrementsOnly
  <2>2. TypeOK /\ ValueInv(i) /\ RowInv(i)  BY <2>1 DEF ExposerInv
  <2>3. /\ value[i] \in Nat /\ before[i] \in Nat /\ atCut[i] \in Nat /\ pending[i] \in Nat
        /\ Base(i) \in Nat /\ rows[i] = Told(i) - Base(i)
    BY <2>1, <2>2 DEF TypeOK, Base, Entries, RowInv
  <2>4. Cur(i) \in Nat /\ Cur(i) <= value[i]  BY <2>2, <2>3 DEF ValueInv, Cur
  <2>5. Told(i) \in Nat /\ Told(i) <= Cur(i)  BY <2>2, <2>3 DEF ValueInv, Told
  <2> QED  BY <2>3, <2>4, <2>5
<1>2. TurnsMeet /\ [Next]_vars => TurnsMeet'  BY SetupFixed
<1> QED  BY <1>1, <1>2, ExposerInvariance, PTL DEF Spec

\* Under both conditions nothing is lost and nothing counted twice: what was written is what
\* the scraper has processed and what the instances still have to deliver, through rollbacks,
\* broken responses, peeks, idle deletions, revivals and moves into a newer instance.
THEOREM NothingLostOrDoubled == Spec /\ HeldStays /\ TurnsMeet => []Conserved
<1>1. ExposerInv /\ HeldStays /\ TurnsMeet => Conserved  BY DEF ExposerInv, SumInv
<1>2. HeldStays /\ TurnsMeet /\ [Next]_vars => HeldStays' /\ TurnsMeet'  BY SetupFixed
<1> QED  BY <1>1, <1>2, ExposerInvariance, PTL DEF Spec

=============================================================================
