---------------------------- MODULE RegistryProofs ----------------------------
(***************************************************************************)
(* Proofs about MetricVec and Registry, for every set of goroutines, label *)
(* values, hashes, collectors and descriptors.                             *)
(***************************************************************************)
EXTENDS Registry, FiniteSetTheorems, TLAPS

-----------------------------------------------------------------------------
(* The vector *)

VecInv == VecTypeOK /\ OneInstance /\ TrackedIsInVec

LEMMA HashType == \A l \in LabelSets : Hash[l] \in Hashes
BY DEF Hashes

\* Before anybody has used the vector it is empty.
LEMMA VecInitInv == VecInit => VecInv
BY DEF VecInit, VecInv, VecTypeOK, OneInstance, TrackedIsInVec, Children, Created

\* A lookup that finds nothing changes nothing but the caller's wish.
LEMMA GetInv ==
    ASSUME VecInv, NEW p \in Callers, NEW l \in LabelSets, Get(p, l)
    PROVE  VecInv'
BY DEF VecInv, VecTypeOK, OneInstance, TrackedIsInVec, Children, Created, Get

\* What is put into the vector, with label values no other instance has, is an
\* instance of its own there and in change tracking.
LEMMA PutInInv ==
    ASSUME VecInv, NEW m \in Instances \ Children, NEW l \in LabelSets,
           Found(l) = {}, values[m] \in {None, l},
           metrics' = [metrics EXCEPT ![Hash[l]] = @ \cup {m}],
           values' = [values EXCEPT ![m] = l],
           all' = all \cup {m},
           reading' = reading, want' \in [Callers -> LabelSets \cup {None}]
    PROVE  VecInv'
<1>1. Hash[l] \in Hashes
  BY HashType
<1>2. Created' = Created \cup {m}
  BY NoneAssumption DEF VecInv, VecTypeOK, Created
<1>3. Children' = Children \cup {m}
  BY <1>1 DEF VecInv, VecTypeOK, Children
<1>4. VecTypeOK'
  BY <1>1, <1>2 DEF VecInv, VecTypeOK
<1>5. \A k \in Children : values'[k] = values[k]
  BY DEF VecInv, VecTypeOK, Children, Created
<1>6. \A k \in Children : values[k] # l
  <2> SUFFICES ASSUME NEW k \in Children, values[k] = l
               PROVE  FALSE
    OBVIOUS
  <2>1. PICK h \in Hashes : k \in metrics[h]
    BY DEF Children
  <2>2. Hash[l] = h
    BY <2>1 DEF VecInv, OneInstance
  <2> QED
    BY <2>1, <2>2 DEF Found
<1>7. values'[m] = l
  BY DEF VecInv, VecTypeOK
<1>8. \A m1, m2 \in Children' : values'[m1] = values'[m2] => m1 = m2
  BY <1>3, <1>5, <1>6, <1>7 DEF VecInv, OneInstance
<1>9. \A h \in Hashes : \A k \in metrics'[h] : Hash[values'[k]] = h
  <2> SUFFICES ASSUME NEW h \in Hashes, NEW k \in metrics'[h]
               PROVE  Hash[values'[k]] = h
    OBVIOUS
  <2>1. CASE k \in metrics[h]
    BY <2>1, <1>5 DEF VecInv, OneInstance, Children
  <2>2. CASE k \notin metrics[h]
    BY <2>2, <1>1, <1>7 DEF VecInv, VecTypeOK
  <2> QED
    BY <2>1, <2>2
<1>10. Hashes' = Hashes
  BY DEF Hashes
<1>11. OneInstance'
  BY <1>8, <1>9, <1>10 DEF OneInstance
<1>12. TrackedIsInVec'
  BY <1>3 DEF VecInv, TrackedIsInVec
<1> QED
  BY <1>4, <1>11, <1>12 DEF VecInv

\* What is taken out, whole buckets or single instances, leaves the rest as it was.
LEMMA TakeOutInv ==
    ASSUME VecInv, NEW STATE gone, gone \subseteq Children,
           metrics' = [h \in Hashes |-> metrics[h] \ gone],
           all' = all \ gone,
           UNCHANGED <<values, reading, want>>
    PROVE  VecInv'
<1>1. Children' = Children \ gone
  BY DEF Children
<1>2. Created' = Created
  BY DEF Created
<1>3. VecTypeOK'
  BY <1>2 DEF VecInv, VecTypeOK
<1>4. OneInstance'
  BY <1>1 DEF VecInv, OneInstance
<1>5. TrackedIsInVec'
  BY <1>1 DEF VecInv, TrackedIsInVec
<1> QED
  BY <1>3, <1>4, <1>5 DEF VecInv

\* The second look, with the write lock, finds what was created in between.
LEMMA CreateInv ==
    ASSUME VecInv, NEW p \in Callers, Create(p)
    PROVE  VecInv'
<1>1. want[p] \in LabelSets
  BY DEF VecInv, VecTypeOK, Create
<1>2. want' \in [Callers -> LabelSets \cup {None}]
  BY DEF VecInv, VecTypeOK, Create
<1>3. CASE UNCHANGED <<metrics, values, all>>
  BY <1>2, <1>3 DEF Create, VecInv, VecTypeOK, OneInstance, TrackedIsInVec, Children, Created
<1>4. CASE ~UNCHANGED <<metrics, values, all>>
  <2>1. New \in Instances /\ New \notin Created
    BY <1>4 DEF Create, New
  <2>2. New \notin Children
    BY <2>1, HashType DEF Children, VecInv, VecTypeOK
  <2>3. values[New] = None
    BY <2>1 DEF Created
  <2>4. /\ FoundByNow(want[p]) = {}
        /\ metrics' = [metrics EXCEPT ![Hash[want[p]]] = @ \cup {New}]
        /\ values' = [values EXCEPT ![New] = want[p]]
        /\ all' = all \cup {New}
        /\ reading' = reading
    BY <1>4 DEF Create
  <2>5. Found(want[p]) = {}
    BY <2>4 DEF FoundByNow
  <2> QED
    BY <1>1, <1>2, <2>1, <2>2, <2>3, <2>4, <2>5, PutInInv
<1> QED
  BY <1>3, <1>4

\* removeAt takes one instance out of its bucket and out of change tracking.
LEMMA RemoveAtInv ==
    ASSUME VecInv, NEW m \in Children, RemoveAt(m)
    PROVE  VecInv'
<1>1. PICK h \in Hashes : m \in metrics[h]
  BY DEF Children
<1>2. Hash[values[m]] = h
  BY <1>1 DEF VecInv, OneInstance
<1>3. \A g \in Hashes \ {h} : m \notin metrics[g]
  BY <1>2 DEF VecInv, OneInstance
<1>4. metrics' = [g \in Hashes |-> metrics[g] \ {m}]
  BY <1>1, <1>2, <1>3 DEF RemoveAt, VecInv, VecTypeOK
<1> DEFINE gone == {m}
<1>5. gone \subseteq Children
  OBVIOUS
<1>6. metrics' = [g \in Hashes |-> metrics[g] \ gone]
  BY <1>4
<1>7. all' = all \ gone /\ UNCHANGED <<values, reading, want>>
  BY DEF RemoveAt
<1> HIDE DEF gone
<1> QED
  BY <1>5, <1>6, <1>7, TakeOutInv

\* Every step of a user, of cleanup or of Collect.
LEMMA VecNextInv == VecInv /\ [VecNext]_vecVars => VecInv'
<1> SUFFICES ASSUME VecInv, [VecNext]_vecVars
             PROVE  VecInv'
  OBVIOUS
<1>1. ASSUME NEW p \in Callers, NEW l \in LabelSets, Get(p, l)
      PROVE  VecInv'
  BY <1>1, GetInv
<1>2. ASSUME NEW p \in Callers, Create(p)
      PROVE  VecInv'
  BY <1>2, CreateInv
<1>3. ASSUME NEW l \in LabelSets, Delete(l)
      PROVE  VecInv'
  BY <1>3, RemoveAtInv, HashType DEF Delete, Found, Children
<1>4. ASSUME NEW m \in Created, DeleteMetric(m)
      PROVE  VecInv'
  <2>1. values[m] \in LabelSets
    BY DEF Created, VecInv, VecTypeOK
  <2> QED
    BY <1>4, <2>1, RemoveAtInv, HashType DEF DeleteMetric, Children
<1>5. ASSUME NEW s \in Matches, DeletePartialMatch(s)
      PROVE  VecInv'
  <2> DEFINE gone == UNION {metrics[h] : h \in MatchingBuckets(s)}
  <2>1. gone \subseteq Children
    BY DEF Children, MatchingBuckets
  <2>2. \A h \in Hashes : h \notin MatchingBuckets(s) => metrics[h] \cap gone = {}
    BY DEF VecInv, OneInstance, MatchingBuckets
  <2>3. metrics' = [h \in Hashes |-> metrics[h] \ gone]
    BY <1>5, <2>2 DEF DeletePartialMatch, VecInv, VecTypeOK
  <2>4. all' = all \ gone
    BY <1>5 DEF DeletePartialMatch, Untracked
  <2>5. UNCHANGED <<values, reading, want>>
    BY <1>5 DEF DeletePartialMatch
  <2> HIDE DEF gone
  <2> QED
    BY <2>1, <2>3, <2>4, <2>5, TakeOutInv
<1>6. ASSUME Reset
      PROVE  VecInv'
  <2>1. metrics' = [h \in Hashes |-> metrics[h] \ Children]
    BY <1>6 DEF Reset, Children
  <2>2. all' = all \ Children /\ UNCHANGED <<values, reading, want>>
    BY <1>6 DEF Reset
  <2>3. Children \subseteq Children
    OBVIOUS
  <2> QED
    BY <2>1, <2>2, <2>3, TakeOutInv
<1>7. ASSUME NEW m \in Created, Revive(m)
      PROVE  VecInv'
  <2>1. values[m] \in LabelSets /\ m \in Instances \ Children
    BY <1>7 DEF Revive, Created, VecInv, VecTypeOK
  <2>2. values' = [values EXCEPT ![m] = values[m]]
    BY <1>7 DEF Revive, VecInv, VecTypeOK
  <2>3. want' \in [Callers -> LabelSets \cup {None}]
    BY <1>7 DEF Revive, VecInv, VecTypeOK
  <2> QED
    BY <1>7, <2>1, <2>2, <2>3, PutInInv DEF Revive
<1>8. ASSUME NEW p \in Readers, CollectLock(p) \/ CollectUnlock(p)
      PROVE  VecInv'
  BY <1>8 DEF CollectLock, CollectUnlock, VecInv, VecTypeOK, OneInstance, TrackedIsInVec,
              Children, Created
<1>9. CASE UNCHANGED vecVars
  BY <1>9 DEF vecVars, VecInv, VecTypeOK, OneInstance, TrackedIsInVec, Children, Created
<1> QED
  BY <1>1, <1>2, <1>3, <1>4, <1>5, <1>6, <1>7, <1>8, <1>9 DEF VecNext, Use

\* A vector by itself: one instance per label values, and change tracking follows.
THEOREM VecInvariance == VecSpec => []VecInv
BY VecInitInv, VecNextInv, PTL DEF VecSpec

-----------------------------------------------------------------------------
(* The registry and the vector *)

\* Whatever the registry and its gather do, the vector sees a user or a Collect.
THEOREM RegistryUsesVec == Spec => VecSpec
<1>1. Init => VecInit
  BY DEF Init
<1>2. [Next]_vars => [VecNext]_vecVars
  <2> SUFFICES ASSUME [Next]_vars
               PROVE  [VecNext]_vecVars
    OBVIOUS
  <2>1. CASE UseVec
    BY <2>1 DEF UseVec, VecNext
  <2>2. CASE Change
    BY <2>2 DEF Change, Register, RegisterUnchecked, UnregisterCheck, UnregisterDelete, vecVars
  <2>3. ASSUME NEW names \in Keeps, GatherNothing(names) \/ GatherBegin(names)
        PROVE  UNCHANGED vecVars
    BY <2>3 DEF GatherNothing, GatherBegin, vecVars
  <2>4. ASSUME NEW w \in Workers, Collect(w)
        PROVE  [VecNext]_vecVars
    <3>1. w \in Readers
      BY DEF Workers
    <3>2. ASSUME Take(w)
          PROVE  [VecNext]_vecVars
      BY <3>1, <3>2 DEF Take, StartCollect, Lock, VecNext
    <3>3. ASSUME WorkerReturns(w) \/ Send(w)
          PROVE  UNCHANGED vecVars
      BY <3>3 DEF WorkerReturns, Send, vecVars
    <3>4. ASSUME Panic(w) \/ Done(w)
          PROVE  [VecNext]_vecVars
      BY <3>1, <3>4 DEF Panic, Done, Unlock, VecNext
    <3> QED
      BY <2>4, <3>2, <3>3, <3>4 DEF Collect
  <2>5. CASE Close
    BY <2>5 DEF Close, vecVars
  <2>6. CASE Gather
    BY <2>6 DEF Gather, Receive, NilOut, StartWorker, vecVars
  <2>7. CASE Terminating \/ UNCHANGED vars
    BY <2>7 DEF Terminating, vars, vecVars
  <2> QED
    BY <2>1, <2>2, <2>3, <2>4, <2>5, <2>6, <2>7 DEF Next
<1> QED
  BY <1>1, <1>2, PTL DEF Spec, VecSpec

\* However lookups, deletions, revivals and gatherings interleave, there is never a
\* second instance with the same label values.
THEOREM OneInstanceAlways == Spec => []OneInstance
<1>1. VecInv => OneInstance
  BY DEF VecInv
<1> QED
  BY <1>1, RegistryUsesVec, VecInvariance, PTL

\* What heartbeats and idle cleanup walk is what is in the vector.
THEOREM TrackingFollows == Spec => []TrackedIsInVec
<1>1. VecInv => TrackedIsInVec
  BY DEF VecInv
<1> QED
  BY <1>1, RegistryUsesVec, VecInvariance, PTL

-----------------------------------------------------------------------------
(* The descriptors *)

\* With one goroutine that unregisters, whom Unregister has found is still
\* registered when it gets the write lock.
RegInv ==
    /\ UniqueDescs
    /\ leaving \in [Registrars -> Collectors \cup {None}]
    /\ \A r \in Registrars : leaving[r] # None => Equal(leaving[r]) # {}

\* What Register lets in has no descriptor in common with what is registered.
LEMMA RegisterInv ==
    ASSUME RegInv, NEW c \in Collectors, Register(c)
    PROVE  RegInv'
<1>1. IDs(c) \cap descIDs = {}
  BY DEF Register, Refused, Duplicate
<1>2. /\ collectorsByID' = collectorsByID \cup {c}
      /\ descIDs' = descIDs \cup IDs(c)
      /\ leaving' = leaving
  BY DEF Register
<1>3. \A e \in collectorsByID : IDs(e) \subseteq descIDs
  BY DEF RegInv, UniqueDescs
<1>4. DescsDisjoint'
  <2> SUFFICES ASSUME NEW d \in collectorsByID', NEW e \in collectorsByID',
                      IDs(d) \cap IDs(e) # {}
               PROVE  d = e
    BY DEF DescsDisjoint, IDs
  <2>1. CASE d \in collectorsByID /\ e \in collectorsByID
    BY <2>1 DEF RegInv, UniqueDescs, DescsDisjoint
  <2>2. CASE d = c \/ e = c
    BY <1>1, <1>2, <1>3, <2>2
  <2> QED
    BY <1>2, <2>1, <2>2
<1>5. (descIDs = UNION {IDs(d) : d \in collectorsByID})'
  BY <1>2 DEF RegInv, UniqueDescs, IDs
<1>6. \A e : Equal(e) \subseteq Equal(e)'
  BY <1>2 DEF Equal, IDs
<1> QED
  BY <1>2, <1>4, <1>5, <1>6 DEF RegInv, UniqueDescs

\* What Unregister deletes are the descriptors of nobody else.
LEMMA UnregisterInv ==
    ASSUME RegInv, NEW r \in Registrars, UnregisterDelete(r),
           \A r1, r2 \in Registrars : r1 = r2
    PROVE  RegInv'
<1> DEFINE c == leaving[r]
<1>1. c \in Collectors /\ c # None
  BY DEF UnregisterDelete, RegInv
<1>2. /\ collectorsByID' = collectorsByID \ Equal(c)
      /\ descIDs' = descIDs \ IDs(c)
      /\ leaving' = [leaving EXCEPT ![r] = None]
  BY DEF UnregisterDelete
<1>3. PICK e \in Equal(c) : TRUE
  BY <1>1 DEF RegInv
<1>4. e \in collectorsByID /\ IDs(e) = IDs(c)
  BY <1>3 DEF Equal
<1>5. \A d \in collectorsByID \ Equal(c) : IDs(d) \cap IDs(c) = {}
  BY <1>3, <1>4 DEF RegInv, UniqueDescs, DescsDisjoint
<1>6. \A d \in Equal(c) : IDs(d) = IDs(c)
  BY DEF Equal
<1> HIDE DEF c
<1>7. descIDs \ IDs(c) = UNION {IDs(d) : d \in collectorsByID \ Equal(c)}
  <2>1. descIDs = UNION {IDs(d) : d \in collectorsByID}
    BY DEF RegInv, UniqueDescs
  <2>2. Equal(c) \subseteq collectorsByID
    BY DEF Equal
  <2> QED
    BY <1>5, <1>6, <2>1, <2>2
<1>8. (descIDs = UNION {IDs(d) : d \in collectorsByID})'
  BY <1>2, <1>7 DEF IDs
<1>9. DescsDisjoint'
  BY <1>2 DEF RegInv, UniqueDescs, DescsDisjoint, IDs
<1>10. \A r1 \in Registrars : leaving'[r1] = None
  BY <1>2 DEF RegInv
<1> QED
  BY <1>2, <1>8, <1>9, <1>10 DEF RegInv, UniqueDescs

LEMMA RegNextInv ==
    ASSUME \A r1, r2 \in Registrars : r1 = r2
    PROVE  RegInv /\ [Next]_vars => RegInv'
<1> SUFFICES ASSUME RegInv, [Next]_vars
             PROVE  RegInv'
  OBVIOUS
<1>1. ASSUME NEW c \in Collectors, Register(c)
      PROVE  RegInv'
  BY <1>1, RegisterInv
<1>2. ASSUME NEW r \in Registrars, UnregisterDelete(r)
      PROVE  RegInv'
  BY <1>2, UnregisterInv
<1>3. ASSUME NEW r \in Registrars, NEW c \in Collectors, UnregisterCheck(r, c)
      PROVE  RegInv'
  <2>1. /\ leaving' = [leaving EXCEPT ![r] = c] /\ Equal(c) # {}
        /\ UNCHANGED <<collectorsByID, descIDs>>
    BY <1>3 DEF UnregisterCheck
  <2>2. UniqueDescs'
    BY <2>1 DEF RegInv, UniqueDescs, DescsDisjoint, IDs
  <2>3. \A e : Equal(e)' = Equal(e)
    BY <2>1 DEF Equal, IDs
  <2> QED
    BY <2>1, <2>2, <2>3 DEF RegInv
<1>4. ASSUME UNCHANGED <<collectorsByID, descIDs, leaving>>
      PROVE  RegInv'
  <2>1. UniqueDescs'
    BY <1>4 DEF RegInv, UniqueDescs, DescsDisjoint, IDs
  <2>2. \A e : Equal(e)' = Equal(e)
    BY <1>4 DEF Equal, IDs
  <2> QED
    BY <1>4, <2>1, <2>2 DEF RegInv
<1>5. ASSUME NEW c \in Collectors, RegisterUnchecked(c)
      PROVE  UNCHANGED <<collectorsByID, descIDs, leaving>>
  BY <1>5 DEF RegisterUnchecked
<1>6. ASSUME UNCHANGED registryVars
      PROVE  UNCHANGED <<collectorsByID, descIDs, leaving>>
  BY <1>6 DEF registryVars
<1>7. CASE UseVec
  BY <1>4, <1>6, <1>7 DEF UseVec
<1>8. ASSUME NEW names \in Keeps, GatherNothing(names) \/ GatherBegin(names)
      PROVE  UNCHANGED registryVars
  BY <1>8 DEF GatherNothing, GatherBegin
<1>9. ASSUME NEW w \in Workers, Collect(w)
      PROVE  UNCHANGED registryVars
  BY <1>9 DEF Collect, Take, WorkerReturns, Send, Panic, Done
<1>10. ASSUME Close \/ Gather
       PROVE  UNCHANGED registryVars
  BY <1>10 DEF Close, Gather, Receive, NilOut, StartWorker
<1>11. ASSUME Terminating \/ UNCHANGED vars
       PROVE  UNCHANGED registryVars
  BY <1>11 DEF Terminating, vars
<1> QED
  BY <1>1, <1>2, <1>3, <1>4, <1>5, <1>6, <1>7, <1>8, <1>9, <1>10, <1>11 DEF Next, Change

\* With one goroutine that unregisters, however many register: the registered
\* collectors have no descriptor in common, and descIDs are exactly theirs.
THEOREM DescsUnique ==
    ASSUME \A r1, r2 \in Registrars : r1 = r2
    PROVE  Spec => []UniqueDescs
<1>1. Init => RegInv
  BY DEF Init, RegInv, UniqueDescs, DescsDisjoint
<1>2. RegInv => UniqueDescs
  BY DEF RegInv
<1> QED
  BY <1>1, <1>2, RegNextInv, PTL DEF Spec

-----------------------------------------------------------------------------
(* gather: what its variables hold, and whom it waits for *)

Channels == {"checked", "unchecked"}
Busy == {w \in Workers : worker[w].pc \in {"collect", "recovered"}}
Sendable == (UNION {Sends(c) : c \in Collectors}) \cup {Invalid}

Doing == [pc : {"off", "take", "collect", "recovered"}, of : Collectors \cup {None},
          left : SUBSET Sendable, to : Channels]

GatherTypes ==
    /\ collectorsByID \subseteq Collectors /\ IsFiniteSet(collectorsByID)
    /\ uncheckedCollectors \in Seq(Collectors) /\ snapshot \subseteq Collectors
    /\ checkedQueue \subseteq Collectors /\ IsFiniteSet(checkedQueue)
    /\ uncheckedQueue \in Seq(Collectors)
    /\ worker \in [Workers -> Doing]
    /\ sending \in [Channels -> Seq(Sendable)]
    /\ {wg, errs, gathers} \subseteq Nat /\ open \subseteq Channels /\ closed \in BOOLEAN

\* The wait group counts the collectors still queued and those being collected.  No
\* channel is closed, or let go of, before they are done and it is empty.
WaitInv ==
    /\ IsFiniteSet(Busy)
    /\ wg = Cardinality(checkedQueue) + Len(uncheckedQueue) + Cardinality(Busy)
    /\ open = {} \/ closed => wg = 0
    /\ closed \/ open \in {{}, Channels}
    /\ \A ch \in Channels \ open : sending[ch] = <<>>

\* What Collect sends is among what it may send.
LEMMA ContentSends ==
    ASSUME VecInv, NEW c \in Collectors
    PROVE  Content(c) \subseteq Sends(c) /\ Content(c) \subseteq Sendable
<1>1. \A m \in Children : values[m] \in LabelSets
  BY DEF VecInv, VecTypeOK, Children, Created
<1>2. Content(c) \subseteq Sends(c)
  BY <1>1 DEF Content, Sends
<1> QED
  BY <1>2 DEF Sendable

\* While somebody collects, nothing is closed.
LEMMA BusyIsAwaited ==
    ASSUME GatherTypes, WaitInv, NEW w \in Busy
    PROVE  wg > 0 /\ open = Channels /\ ~closed
<1>1. Cardinality(Busy) \in Nat /\ Cardinality(Busy) # 0
  BY FS_CardinalityType, FS_EmptySet DEF WaitInv
<1>2. Cardinality(checkedQueue) \in Nat /\ Len(uncheckedQueue) \in Nat
  BY FS_CardinalityType DEF GatherTypes
<1>3. wg > 0
  BY <1>1, <1>2 DEF WaitInv
<1> QED
  BY <1>3 DEF WaitInv

LEMMA TypesInit == Init => GatherTypes
<1> SUFFICES ASSUME Init PROVE GatherTypes
  OBVIOUS
<1>1. worker \in [Workers -> Doing]
  BY DEF Init, Idle, Doing, Channels
<1>2. sending \in [Channels -> Seq(Sendable)]
  BY DEF Init, Channels
<1>3. IsFiniteSet({})
  BY FS_EmptySet
<1>4. /\ collectorsByID = {} /\ uncheckedCollectors = <<>> /\ snapshot = {} /\ checkedQueue = {}
      /\ uncheckedQueue = <<>> /\ wg = 0 /\ errs = 0 /\ gathers = 0 /\ open = {} /\ closed = FALSE
  BY DEF Init
<1>5. uncheckedCollectors \in Seq(Collectors) /\ uncheckedQueue \in Seq(Collectors)
  BY <1>4
<1>6. IsFiniteSet(collectorsByID) /\ IsFiniteSet(checkedQueue)
  BY <1>3, <1>4
<1> QED
  <2>1. {wg, errs, gathers} \subseteq Nat
    BY <1>4
  <2>2. open \subseteq Channels /\ closed \in BOOLEAN
    BY <1>4
  <2>3. collectorsByID \subseteq Collectors /\ snapshot \subseteq Collectors /\ checkedQueue \subseteq Collectors
    BY <1>4
  <2> QED
    BY <1>1, <1>2, <1>5, <1>6, <2>1, <2>2, <2>3 DEF GatherTypes

LEMMA RegistrationTypes ==
    ASSUME GatherTypes, Change
    PROVE  GatherTypes'
<1>1. ASSUME NEW c \in Collectors, Register(c)
      PROVE  GatherTypes'
  BY <1>1, FS_AddElement DEF Register, gatherVars, beginVars, workVars, resultVars, GatherTypes
<1>2. ASSUME NEW c \in Collectors, RegisterUnchecked(c)
      PROVE  GatherTypes'
  BY <1>2 DEF RegisterUnchecked, gatherVars, beginVars, workVars, resultVars, GatherTypes
<1>3. ASSUME NEW r \in Registrars, NEW c \in Collectors, UnregisterCheck(r, c)
      PROVE  GatherTypes'
  BY <1>3 DEF UnregisterCheck, gatherVars, beginVars, workVars, resultVars, GatherTypes
<1>4. ASSUME NEW r \in Registrars, UnregisterDelete(r)
      PROVE  GatherTypes'
  <2>1. IsFiniteSet(collectorsByID')
    BY <1>4, FS_Subset DEF UnregisterDelete, GatherTypes
  <2> QED
    BY <1>4, <2>1 DEF UnregisterDelete, gatherVars, beginVars, workVars, resultVars, GatherTypes
<1> QED
  BY <1>1, <1>2, <1>3, <1>4 DEF Change

LEMMA BeginTypes ==
    ASSUME GatherTypes, NEW names \in Keeps, GatherNothing(names) \/ GatherBegin(names)
    PROVE  GatherTypes'
<1>1. snapshot' \subseteq Collectors /\ gathers' \in Nat /\ errs' = 0
  BY DEF GatherTypes, GatherNothing, GatherBegin, Snapshot
<1>2. UNCHANGED registryVars
  BY DEF GatherNothing, GatherBegin
<1>3. CASE GatherNothing(names)
  BY <1>1, <1>2, <1>3 DEF GatherNothing, GatherTypes, registryVars
<1>4. CASE GatherBegin(names)
  <2>1. Kept(names) \subseteq collectorsByID
    BY DEF Kept
  <2>2. IsFiniteSet(Kept(names)) /\ Cardinality(Kept(names)) \in Nat
    BY <2>1, FS_Subset, FS_CardinalityType DEF GatherTypes
  <2>3. Work(names) \in Nat
    BY <2>2 DEF Work, GatherTypes
  <2>4. worker' \in [Workers -> Doing]
    BY <1>4 DEF GatherBegin, Idle, Doing, Channels
  <2>5. sending' \in [Channels -> Seq(Sendable)]
    BY <1>4 DEF GatherBegin, Channels
  <2>6. /\ checkedQueue' = Kept(names) /\ uncheckedQueue' = uncheckedCollectors
        /\ wg' = Work(names) /\ open' = Channels /\ closed' = FALSE
    BY <1>4 DEF GatherBegin, Channels
  <2>7. UNCHANGED <<collectorsByID, uncheckedCollectors>>
    BY <1>2 DEF registryVars
  <2>8. /\ {wg, errs, gathers}' \subseteq Nat /\ (open \subseteq Channels)' /\ closed' \in BOOLEAN
        /\ (checkedQueue \subseteq Collectors)' /\ IsFiniteSet(checkedQueue)'
        /\ uncheckedQueue' \in Seq(Collectors)
    <3>1. {wg, errs, gathers}' \subseteq Nat
      BY <1>1, <2>3, <2>6
    <3>2. (open \subseteq Channels)' /\ closed' \in BOOLEAN
      BY <2>6
    <3>3. (checkedQueue \subseteq Collectors)' /\ uncheckedQueue' \in Seq(Collectors)
      BY <2>1, <2>6 DEF GatherTypes
    <3>4. IsFiniteSet(checkedQueue)'
      BY <2>2, <2>6
    <3> QED
      BY <3>1, <3>2, <3>3, <3>4
  <2> QED
    BY <1>1, <2>4, <2>5, <2>7, <2>8 DEF GatherTypes
<1> QED
  BY <1>3, <1>4

LEMMA WorkerTypes ==
    ASSUME GatherTypes, WaitInv, VecInv, NEW w \in Workers, Collect(w)
    PROVE  GatherTypes'
<1>1. CASE Take(w)
  <2>1. ASSUME NEW c \in Collectors, NEW channel \in Channels, StartCollect(w, c, channel)
        PROVE  worker' \in [Workers -> Doing]
    BY <2>1, ContentSends DEF StartCollect, GatherTypes, Doing
  <2>2. ASSUME NEW c \in checkedQueue, checkedQueue' = checkedQueue \ {c}
        PROVE  IsFiniteSet(checkedQueue')
    BY <2>2, FS_RemoveElement DEF GatherTypes
  <2>3. uncheckedQueue # <<>> => Head(uncheckedQueue) \in Collectors /\ Tail(uncheckedQueue) \in Seq(Collectors)
    BY DEF GatherTypes
  <2>4. worker' \in [Workers -> Doing] /\ IsFiniteSet(checkedQueue') /\ checkedQueue' \subseteq checkedQueue
        /\ uncheckedQueue' \in Seq(Collectors)
    <3>1. CASE \E c \in checkedQueue : checkedQueue' = checkedQueue \ {c} /\ StartCollect(w, c, "checked")
                   /\ UNCHANGED uncheckedQueue
      BY <2>1, <2>2, <3>1 DEF GatherTypes, Channels
    <3>2. CASE uncheckedQueue # <<>> /\ StartCollect(w, Head(uncheckedQueue), "unchecked")
                   /\ uncheckedQueue' = Tail(uncheckedQueue) /\ UNCHANGED checkedQueue
      BY <2>1, <2>3, <3>2 DEF GatherTypes, Channels
    <3> QED
      BY <1>1, <3>1, <3>2 DEF Take
  <2> QED
    BY <1>1, <2>4 DEF Take, GatherTypes, registryVars, beginVars, resultVars
<1>2. CASE WorkerReturns(w)
  BY <1>2 DEF WorkerReturns, GatherTypes, registryVars, beginVars, resultVars, Idle, Doing, Channels
<1>3. CASE Send(w)
  <2>1. PICK m \in worker[w].left : /\ sending' = [sending EXCEPT ![worker[w].to] = Append(@, m)]
                                    /\ worker' = [worker EXCEPT ![w].left = @ \ {m}]
    BY <1>3 DEF Send
  <2>2. worker[w] \in Doing /\ worker[w].to \in Channels /\ m \in Sendable
    BY DEF GatherTypes, Doing
  <2>3. worker' \in [Workers -> Doing]
    BY <2>1, <2>2 DEF GatherTypes, Doing
  <2>4. sending' \in [Channels -> Seq(Sendable)]
    BY <2>1, <2>2 DEF GatherTypes
  <2> QED
    BY <1>3, <2>3, <2>4 DEF Send, GatherTypes, registryVars, beginVars, resultVars
<1>4. CASE Panic(w)
  <2>1. {Invalid} \in SUBSET Sendable
    BY DEF Sendable
  <2>2. worker' = [worker EXCEPT ![w].pc = "recovered", ![w].left = {Invalid}]
    BY <1>4 DEF Panic
  <2>3. worker' \in [Workers -> Doing]
    BY <2>1, <2>2 DEF GatherTypes, Doing
  <2> QED
    BY <1>4, <2>3 DEF Panic, GatherTypes, registryVars, beginVars
<1>5. CASE Done(w)
  <2>1. worker' \in [Workers -> Doing]
    BY <1>5 DEF Done, GatherTypes, Doing, Idle, Channels
  <2>2. wg' \in Nat
    BY <1>5, BusyIsAwaited DEF Done, Busy, GatherTypes
  <2> QED
    BY <1>5, <2>1, <2>2 DEF Done, GatherTypes, registryVars, beginVars, resultVars
<1> QED
  BY <1>1, <1>2, <1>3, <1>4, <1>5 DEF Collect

\* The first conjuncts of WaitInv, where neither the queues nor the workers change.
LEMMA WaitKept ==
    ASSUME WaitInv, Busy' = Busy, UNCHANGED <<checkedQueue, uncheckedQueue, wg>>
    PROVE  /\ IsFiniteSet(Busy)'
           /\ (wg = Cardinality(checkedQueue) + Len(uncheckedQueue) + Cardinality(Busy))'
BY DEF WaitInv

LEMMA BeginWait ==
    ASSUME GatherTypes, WaitInv, NEW names \in Keeps, GatherNothing(names) \/ GatherBegin(names)
    PROVE  WaitInv'
<1>1. CASE GatherNothing(names)
  <2>1. UNCHANGED <<checkedQueue, uncheckedQueue, worker, wg, sending, closed, open>>
    BY <1>1 DEF GatherNothing
  <2>2. Busy' = Busy
    BY <2>1 DEF Busy
  <2> QED
    BY <2>1, <2>2, WaitKept DEF WaitInv
<1>2. CASE GatherBegin(names)
  <2>1. \A w \in Workers : worker'[w].pc \in {"off", "take"}
    BY <1>2 DEF GatherBegin, Idle
  <2>2. Busy' = {}
    BY <2>1 DEF Busy
  <2>3. /\ checkedQueue' = Kept(names) /\ uncheckedQueue' = uncheckedCollectors
        /\ wg' = Cardinality(Kept(names)) + Len(uncheckedCollectors)
        /\ closed' = FALSE /\ open' = Channels
    BY <1>2 DEF GatherBegin, Work, Channels
  <2>4. Kept(names) \subseteq collectorsByID
    BY DEF Kept
  <2>5. Cardinality(Kept(names)) \in Nat /\ Len(uncheckedCollectors) \in Nat
    BY <2>4, FS_Subset, FS_CardinalityType DEF GatherTypes
  <2>6. (wg = Cardinality(checkedQueue) + Len(uncheckedQueue) + Cardinality(Busy))'
    BY <2>2, <2>3, <2>5, FS_EmptySet
  <2>7. IsFiniteSet(Busy)'
    BY <2>2, FS_EmptySet
  <2>8. open' # {} /\ Channels \ open' = {}
    BY <2>3 DEF Channels
  <2> QED
    BY <2>3, <2>6, <2>7, <2>8 DEF WaitInv, Channels
<1> QED
  BY <1>1, <1>2

\* Who takes a collector is waited for in its place.
LEMMA TakeWait ==
    ASSUME GatherTypes, WaitInv, NEW w \in Workers, Take(w)
    PROVE  WaitInv'
<1>1. w \notin Busy /\ UNCHANGED <<wg, sending, closed, open>>
  BY DEF Take, Busy
<1>2. ASSUME NEW c, NEW channel, StartCollect(w, c, channel)
      PROVE  Busy' = Busy \cup {w}
  BY <1>2 DEF StartCollect, Busy, GatherTypes
<1>3. Busy' = Busy \cup {w}
  BY <1>2 DEF Take
<1>4. /\ IsFiniteSet(Busy') /\ Cardinality(Busy') = Cardinality(Busy) + 1
      /\ Cardinality(Busy) \in Nat
  BY <1>1, <1>3, FS_AddElement, FS_CardinalityType DEF WaitInv
<1>5. Cardinality(checkedQueue) \in Nat /\ Len(uncheckedQueue) \in Nat
  BY FS_CardinalityType DEF GatherTypes
<1>6. Cardinality(checkedQueue') + Len(uncheckedQueue') = Cardinality(checkedQueue) + Len(uncheckedQueue) - 1
  <2>1. ASSUME NEW c \in checkedQueue, checkedQueue' = checkedQueue \ {c}, UNCHANGED uncheckedQueue
        PROVE  Cardinality(checkedQueue') + Len(uncheckedQueue')
                  = Cardinality(checkedQueue) + Len(uncheckedQueue) - 1
    <3>1. Cardinality(checkedQueue') = Cardinality(checkedQueue) - 1
      BY <2>1, FS_RemoveElement DEF GatherTypes
    <3> QED
      BY <1>5, <2>1, <3>1
  <2>2. ASSUME uncheckedQueue # <<>>, uncheckedQueue' = Tail(uncheckedQueue), UNCHANGED checkedQueue
        PROVE  Cardinality(checkedQueue') + Len(uncheckedQueue')
                  = Cardinality(checkedQueue) + Len(uncheckedQueue) - 1
    <3>1. Len(uncheckedQueue') = Len(uncheckedQueue) - 1
      BY <2>2 DEF GatherTypes
    <3> QED
      BY <1>5, <2>2, <3>1
  <2> QED
    BY <2>1, <2>2 DEF Take
<1>7. Cardinality(checkedQueue') \in Nat /\ Len(uncheckedQueue') \in Nat
  <2>1. IsFiniteSet(checkedQueue')
    BY FS_Subset DEF Take, GatherTypes
  <2>2. uncheckedQueue' \in Seq(Collectors)
    <3>1. uncheckedQueue' = uncheckedQueue \/ (uncheckedQueue # <<>> /\ uncheckedQueue' = Tail(uncheckedQueue))
      BY DEF Take
    <3>2. uncheckedQueue \in Seq(Collectors)
      BY DEF GatherTypes
    <3>3. uncheckedQueue # <<>> => Tail(uncheckedQueue) \in Seq(Collectors)
      BY <3>2
    <3> QED
      BY <3>1, <3>2, <3>3
  <2> QED
    BY <2>1, <2>2, FS_CardinalityType
<1>8. (wg = Cardinality(checkedQueue) + Len(uncheckedQueue) + Cardinality(Busy))'
  BY <1>1, <1>4, <1>5, <1>6, <1>7 DEF WaitInv
<1> QED
  BY <1>1, <1>4, <1>8 DEF WaitInv

LEMMA WorkerWait ==
    ASSUME GatherTypes, WaitInv, NEW w \in Workers, Collect(w)
    PROVE  WaitInv'
<1>1. CASE Take(w)
  BY <1>1, TakeWait
<1>2. CASE WorkerReturns(w)
  <2>1. Busy' = Busy
    BY <1>2 DEF WorkerReturns, Busy, GatherTypes, Idle
  <2> QED
    BY <1>2, <2>1, WaitKept DEF WorkerReturns, WaitInv
<1>3. CASE Send(w)
  <2>1. w \in Busy /\ worker[w].to \in Channels
    BY <1>3 DEF Send, Busy, GatherTypes, Doing
  <2>2. worker' = [worker EXCEPT ![w] = worker'[w]] /\ worker'[w].pc = worker[w].pc
    BY <1>3 DEF Send, GatherTypes, Doing
  <2>3. Busy' = Busy
    BY <2>1, <2>2 DEF Busy, GatherTypes
  <2>4. open = Channels
    BY <2>1, BusyIsAwaited
  <2>5. UNCHANGED <<checkedQueue, uncheckedQueue, wg, open, closed>>
    BY <1>3 DEF Send
  <2> QED
    BY <2>3, <2>4, <2>5, WaitKept DEF WaitInv
<1>4. CASE Panic(w)
  <2>1. worker' = [worker EXCEPT ![w] = worker'[w]] /\ worker'[w].pc = "recovered" /\ w \in Busy
    BY <1>4 DEF Panic, GatherTypes, Doing, Busy
  <2>2. Busy' = Busy
    BY <2>1 DEF Busy, GatherTypes
  <2> QED
    BY <1>4, <2>2, WaitKept DEF Panic, WaitInv
<1>5. CASE Done(w)
  <2>1. w \in Busy
    BY <1>5 DEF Done, Busy
  <2>2. worker' = [worker EXCEPT ![w] = worker'[w]] /\ worker'[w].pc = "take"
    BY <1>5 DEF Done, GatherTypes, Idle
  <2>3. Busy' = Busy \ {w}
    BY <2>2 DEF Busy, GatherTypes
  <2>4. IsFiniteSet(Busy') /\ Cardinality(Busy') = Cardinality(Busy) - 1 /\ Cardinality(Busy) \in Nat
        /\ Cardinality(Busy') \in Nat
    BY <2>1, <2>3, FS_RemoveElement, FS_CardinalityType DEF WaitInv
  <2>5. /\ wg' = wg - 1 /\ UNCHANGED <<checkedQueue, uncheckedQueue, sending, open, closed>>
    BY <1>5 DEF Done
  <2>6. Cardinality(checkedQueue) \in Nat /\ Len(uncheckedQueue) \in Nat
    BY FS_CardinalityType DEF GatherTypes
  <2>7. (wg = Cardinality(checkedQueue) + Len(uncheckedQueue) + Cardinality(Busy))'
    BY <2>4, <2>5, <2>6 DEF WaitInv
  <2>8. open = Channels /\ ~closed
    BY <2>1, BusyIsAwaited
  <2>9. open # {} /\ Channels \ open = {}
    BY <2>8 DEF Channels
  <2> QED
    BY <2>4, <2>5, <2>7, <2>8, <2>9 DEF WaitInv
<1> QED
  BY <1>1, <1>2, <1>3, <1>4, <1>5 DEF Collect

LEMMA GatherWait ==
    ASSUME GatherTypes, WaitInv, Close \/ Gather
    PROVE  WaitInv'
<1>1. CASE Close
  BY <1>1 DEF Close, workVars, WaitInv, Busy
<1>2. ASSUME NEW ch \in Channels, Receive(ch)
      PROVE  WaitInv'
  <2>1. /\ ch \in open /\ sending' = [sending EXCEPT ![ch] = Tail(@)]
        /\ UNCHANGED <<checkedQueue, uncheckedQueue, wg, open, closed, worker>>
    BY <1>2 DEF Receive
  <2>2. Busy' = Busy
    BY <2>1 DEF Busy
  <2> QED
    BY <2>1, <2>2, WaitKept DEF WaitInv, GatherTypes
<1>3. ASSUME NEW ch \in Channels, NilOut(ch)
      PROVE  WaitInv'
  <2>1. /\ closed /\ sending[ch] = <<>> /\ open' = open \ {ch}
        /\ UNCHANGED <<checkedQueue, uncheckedQueue, wg, closed, worker, sending>>
    BY <1>3 DEF NilOut, workVars
  <2>2. Busy' = Busy
    BY <2>1 DEF Busy
  <2> QED
    BY <2>1, <2>2, WaitKept DEF WaitInv
<1>4. ASSUME NEW w \in Workers, StartWorker(w)
      PROVE  WaitInv'
  <2>1. worker' = [worker EXCEPT ![w] = worker'[w]] /\ worker'[w].pc = "take" /\ worker[w].pc = "off"
    BY <1>4 DEF StartWorker, GatherTypes, Doing
  <2>2. Busy' = Busy
    BY <2>1 DEF Busy, GatherTypes
  <2> QED
    BY <1>4, <2>2, WaitKept DEF StartWorker, WaitInv
<1> QED
  BY <1>1, <1>2, <1>3, <1>4 DEF Gather, Channels

LEMMA ReceivingTypes ==
    ASSUME GatherTypes, Close \/ Gather
    PROVE  GatherTypes'
<1>1. CASE Close
  BY <1>1 DEF Close, GatherTypes, registryVars, beginVars, workVars, resultVars
<1>2. ASSUME NEW ch \in Channels, Receive(ch)
      PROVE  GatherTypes'
  <2>1. /\ sending' = [sending EXCEPT ![ch] = Tail(@)] /\ sending[ch] # <<>>
        /\ UNCHANGED <<registryVars, beginVars, checkedQueue, uncheckedQueue, worker, wg, open, closed, gathers>>
    BY <1>2 DEF Receive
  <2>2. sending[ch] \in Seq(Sendable)
    BY DEF GatherTypes
  <2>3. Tail(sending[ch]) \in Seq(Sendable)
    BY <2>1, <2>2
  <2>4. sending' \in [Channels -> Seq(Sendable)]
    BY <2>1, <2>3 DEF GatherTypes
  <2>5. errs' \in {errs, errs + 1}
    BY <1>2 DEF Receive, ProcessMetric, resultVars
  <2> QED
    BY <2>1, <2>4, <2>5 DEF GatherTypes, registryVars, beginVars
<1>3. ASSUME NEW ch \in Channels, NilOut(ch)
      PROVE  GatherTypes'
  BY <1>3 DEF NilOut, GatherTypes, registryVars, beginVars, workVars, resultVars
<1>4. ASSUME NEW w \in Workers, StartWorker(w)
      PROVE  GatherTypes'
  <2>1. worker' \in [Workers -> Doing]
    BY <1>4 DEF StartWorker, GatherTypes, Doing
  <2> QED
    BY <1>4, <2>1 DEF StartWorker, GatherTypes, registryVars, beginVars, resultVars
<1> QED
  BY <1>1, <1>2, <1>3, <1>4 DEF Gather, Channels

GatherBase == GatherTypes /\ WaitInv

LEMMA BaseNext ==
    ASSUME GatherBase, VecInv, [Next]_vars
    PROVE  GatherBase'
<1>1. ASSUME UNCHANGED gatherVars
      PROVE  WaitInv'
  <2>1. UNCHANGED <<checkedQueue, uncheckedQueue, worker, wg, sending, closed, open>>
    BY <1>1 DEF gatherVars, workVars
  <2>2. Busy' = Busy
    BY <2>1 DEF Busy
  <2> QED
    BY <2>1, <2>2 DEF GatherBase, WaitInv
<1>2. ASSUME UNCHANGED <<registryVars, gatherVars>>
      PROVE  GatherTypes'
  BY <1>2 DEF GatherBase, GatherTypes, registryVars, gatherVars, beginVars, workVars, resultVars
<1>3. CASE UseVec
  BY <1>1, <1>2, <1>3 DEF UseVec, GatherBase
<1>4. CASE Change
  <2>1. UNCHANGED gatherVars
    BY <1>4 DEF Change, Register, RegisterUnchecked, UnregisterCheck, UnregisterDelete
  <2> QED
    BY <1>1, <1>4, <2>1, RegistrationTypes DEF GatherBase
<1>5. ASSUME NEW names \in Keeps, GatherNothing(names) \/ GatherBegin(names)
      PROVE  GatherBase'
  BY <1>5, BeginTypes, BeginWait DEF GatherBase
<1>6. ASSUME NEW w \in Workers, Collect(w)
      PROVE  GatherBase'
  BY <1>6, WorkerTypes, WorkerWait DEF GatherBase
<1>7. CASE Close \/ Gather
  BY <1>7, GatherWait, ReceivingTypes DEF GatherBase
<1>8. CASE Terminating \/ UNCHANGED vars
  BY <1>1, <1>2, <1>8 DEF Terminating, vars, GatherBase
<1> QED
  BY <1>3, <1>4, <1>5, <1>6, <1>7, <1>8 DEF Next

LEMMA BaseInit == Init => GatherBase
<1> SUFFICES ASSUME Init PROVE GatherBase
  OBVIOUS
<1>1. \A w \in Workers : worker[w].pc = "off"
  BY DEF Init, Idle
<1>2. Busy = {}
  BY <1>1 DEF Busy
<1>3. Cardinality({}) = 0 /\ IsFiniteSet({})
  BY FS_EmptySet
<1>4. wg = 0 /\ checkedQueue = {} /\ uncheckedQueue = <<>> /\ open = {}
  BY DEF Init
<1>5. \A ch \in Channels : sending[ch] = <<>>
  BY DEF Init, Channels
<1>6. WaitInv
  BY <1>2, <1>3, <1>4, <1>5 DEF WaitInv
<1> QED
  BY <1>6, TypesInit DEF GatherBase

LEMMA GatherBased == Spec => []GatherBase
<1>1. GatherBase /\ VecInv /\ [Next]_vars => GatherBase'
  BY BaseNext
<1> QED
  BY <1>1, BaseInit, RegistryUsesVec, VecInvariance, PTL DEF Spec

-----------------------------------------------------------------------------
(* What Gather returns *)

\* A family is that of all metrics of its name.  A hash belongs to one metric.  No
\* name is that of a part of a histogram or summary.
FamiliesInv ==
    /\ \A m \in accepted :
           /\ HashOf(m) \in metricHashes /\ m.desc.name \in DOMAIN families
           /\ families[m.desc.name] = [help |-> m.desc.help, type |-> m.type]
    /\ \A m1, m2 \in accepted : HashOf(m1) = HashOf(m2) => m1 = m2
    /\ \A s \in Suffixed : s[1] \in DOMAIN families /\ s[2] \in DOMAIN families =>
                               ~AddsSuffix(families[s[2]].type, s[3])

\* What processMetric makes of the families: nothing, or that of the metric is there,
\* and was before or is new and collides with no other.
LEMMA ProcessedFamilies ==
    ASSUME NEW m, NEW ch, ProcessMetric(m, ch), HasFamily(m)
    PROVE  /\ DOMAIN families' = DOMAIN families \cup {m.desc.name}
           /\ families'[m.desc.name] = [help |-> m.desc.help, type |-> m.type]
           /\ \A n \in DOMAIN families : families'[n] = families[n]
           /\ m.desc.name \notin DOMAIN families => ~SuffixCollides(m.desc.name, m.type)
<1>1. families' = [n \in DOMAIN families \cup {m.desc.name} |->
                      IF n = m.desc.name THEN [help |-> m.desc.help, type |-> m.type] ELSE families[n]]
  BY DEF ProcessMetric
<1>2. m.desc.name \in DOMAIN families => families[m.desc.name] = [help |-> m.desc.help, type |-> m.type]
  BY DEF HasFamily
<1>3. m.desc.name \notin DOMAIN families => ~SuffixCollides(m.desc.name, m.type)
  BY DEF HasFamily
<1> QED
  BY <1>1, <1>2, <1>3

LEMMA FamiliesStep ==
    ASSUME FamiliesInv, NEW m, NEW ch, ProcessMetric(m, ch)
    PROVE  FamiliesInv'
<1>1. CASE ~HasFamily(m)
  BY <1>1 DEF ProcessMetric, FamiliesInv, HashOf, AddsSuffix
<1>2. CASE HasFamily(m)
  <2> DEFINE n == m.desc.name
             fresh == Fresh(m)
             fits == fresh /\ Described(m, ch)
  <2>1. /\ DOMAIN families' = DOMAIN families \cup {n}
        /\ families'[n] = [help |-> m.desc.help, type |-> m.type]
        /\ \A k \in DOMAIN families : families'[k] = families[k]
        /\ n \notin DOMAIN families => ~SuffixCollides(n, m.type)
    BY <1>2, ProcessedFamilies
  <2>2. /\ metricHashes' = IF fresh THEN metricHashes \cup {HashOf(m)} ELSE metricHashes
        /\ accepted' = IF fits THEN accepted \cup {m} ELSE accepted
    BY <1>2 DEF ProcessMetric
  <2>3. fresh => HashOf(m) \notin metricHashes
    BY DEF Fresh
  <2>4. ASSUME NEW a \in accepted'
        PROVE  /\ HashOf(a) \in metricHashes' /\ a.desc.name \in DOMAIN families'
               /\ families'[a.desc.name] = [help |-> a.desc.help, type |-> a.type]
    <3>1. CASE a \in accepted
      BY <2>1, <2>2, <3>1 DEF FamiliesInv
    <3>2. CASE a = m /\ fits
      BY <2>1, <2>2, <3>2
    <3> QED
      BY <2>2, <3>1, <3>2
  <2>5. ASSUME NEW a \in accepted', NEW b \in accepted', HashOf(a) = HashOf(b)
        PROVE  a = b
    BY <2>2, <2>3, <2>5 DEF FamiliesInv
  <2>6. ASSUME NEW s \in Suffixed, s[1] \in DOMAIN families', s[2] \in DOMAIN families'
        PROVE  ~AddsSuffix(families'[s[2]].type, s[3])
    <3>1. CASE s[1] \in DOMAIN families /\ s[2] \in DOMAIN families
      BY <2>1, <3>1 DEF FamiliesInv
    <3>2. CASE s[1] \notin DOMAIN families
      <4>1. s[1] = n /\ s[2] # n /\ s[2] \in DOMAIN families
        BY <2>1, <2>6, <3>2, SuffixAssumption
      <4> QED
        BY <2>1, <3>2, <4>1 DEF SuffixCollides
    <3>3. CASE s[1] \in DOMAIN families /\ s[2] \notin DOMAIN families
      <4>1. s[2] = n
        BY <2>1, <2>6, <3>3
      <4> QED
        BY <2>1, <3>3, <4>1 DEF SuffixCollides
    <3> QED
      BY <3>1, <3>2, <3>3
  <2> QED
    BY <2>4, <2>5, <2>6 DEF FamiliesInv, HashOf, AddsSuffix
<1> QED
  BY <1>1, <1>2

LEMMA FamiliesBegin ==
    ASSUME NEW names \in Keeps, GatherNothing(names) \/ GatherBegin(names)
    PROVE  FamiliesInv'
<1>1. accepted' = {} /\ DOMAIN families' = {}
  BY DEF GatherNothing, GatherBegin, Snapshot
<1> QED
  BY <1>1 DEF FamiliesInv

\* All other steps leave the families alone.
LEMMA ResultStep ==
    ASSUME [Next]_vars
    PROVE  \/ UNCHANGED <<families, metricHashes, accepted>>
           \/ \E names \in Keeps : GatherNothing(names) \/ GatherBegin(names)
           \/ \E ch \in Channels : Receive(ch) /\ ProcessMetric(Head(sending[ch]), ch)
<1>1. CASE UseVec
  BY <1>1 DEF UseVec, gatherVars, resultVars
<1>2. CASE Change
  BY <1>2 DEF Change, Register, RegisterUnchecked, UnregisterCheck, UnregisterDelete, gatherVars, resultVars
<1>3. ASSUME NEW w \in Workers, Collect(w)
      PROVE  UNCHANGED <<families, metricHashes, accepted>>
  BY <1>3 DEF Collect, Take, WorkerReturns, Send, Panic, Done, resultVars
<1>4. CASE Close
  BY <1>4 DEF Close, resultVars
<1>5. CASE Gather
  <2>1. ASSUME NEW ch \in Channels, Receive(ch)
        PROVE  UNCHANGED <<families, metricHashes, accepted>> \/ ProcessMetric(Head(sending[ch]), ch)
    BY <2>1 DEF Receive, resultVars
  <2>2. ASSUME NEW ch \in Channels, NilOut(ch)
        PROVE  UNCHANGED <<families, metricHashes, accepted>>
    BY <2>2 DEF NilOut, resultVars
  <2>3. ASSUME NEW w \in Workers, StartWorker(w)
        PROVE  UNCHANGED <<families, metricHashes, accepted>>
    BY <2>3 DEF StartWorker, resultVars
  <2> QED
    BY <1>5, <2>1, <2>2, <2>3 DEF Gather, Channels
<1>6. CASE Terminating \/ UNCHANGED vars
  BY <1>6 DEF Terminating, vars, gatherVars, resultVars
<1> QED
  BY <1>1, <1>2, <1>3, <1>4, <1>5, <1>6 DEF Next

\* Whatever collectors send and in whatever order it comes, what Gather returns does
\* not contradict itself.
THEOREM ResultIsConsistent == Spec => []SelfConsistent
<1>1. Init => FamiliesInv
  BY DEF Init, FamiliesInv
<1>2. FamiliesInv /\ [Next]_vars => FamiliesInv'
  <2> SUFFICES ASSUME FamiliesInv, [Next]_vars PROVE FamiliesInv'
    OBVIOUS
  <2>1. CASE UNCHANGED <<families, metricHashes, accepted>>
    BY <2>1 DEF FamiliesInv, HashOf, AddsSuffix
  <2> QED
    BY <2>1, ResultStep, FamiliesBegin, FamiliesStep
<1>3. FamiliesInv => SelfConsistent
  <2> SUFFICES ASSUME FamiliesInv, NEW m1 \in accepted, NEW m2 \in accepted
               PROVE  /\ m1.desc.name = m2.desc.name =>
                             /\ m1.desc.help = m2.desc.help /\ m1.type = m2.type
                             /\ m1.labels = m2.labels => m1 = m2
                      /\ \A s \in Suffixed :
                             s[1] = m1.desc.name /\ s[2] = m2.desc.name =>
                                 /\ m2.type # "histogram" /\ (m2.type = "summary" => s[3] = "bucket")
    BY DEF SelfConsistent
  <2>1. /\ families[m1.desc.name] = [help |-> m1.desc.help, type |-> m1.type]
        /\ families[m2.desc.name] = [help |-> m2.desc.help, type |-> m2.type]
        /\ m1.desc.name \in DOMAIN families /\ m2.desc.name \in DOMAIN families
    BY DEF FamiliesInv
  <2>2. m1.desc.name = m2.desc.name => m1.desc.help = m2.desc.help /\ m1.type = m2.type
    BY <2>1
  <2>3. m1.desc.name = m2.desc.name /\ m1.labels = m2.labels => m1 = m2
    BY DEF FamiliesInv, HashOf
  <2>4. families[m2.desc.name].type = m2.type
    BY <2>1
  <2>5. \A s \in Suffixed : s[1] = m1.desc.name /\ s[2] = m2.desc.name => ~AddsSuffix(m2.type, s[3])
    BY <2>1, <2>4 DEF FamiliesInv
  <2> QED
    BY <2>2, <2>3, <2>5 DEF AddsSuffix
<1> QED
  BY <1>1, <1>2, <1>3, PTL DEF Spec

-----------------------------------------------------------------------------
(* Nothing that Collect gave is left out *)

Queued(ch) == {sending[ch][i] : i \in 1..Len(sending[ch])}

\* On its way from Collect to the gathering goroutine
Flying(m) == \/ \E ch \in Channels : m \in Queued(ch)
             \/ \E w \in Busy : m \in worker[w].left

\* As long as there is no error, what Collect gave is on its way, in the families or
\* not asked for.
FlowInv == errs = 0 =>
    /\ \A w \in Busy : worker[w].pc = "collect" /\ worker[w].left \subseteq collected
    /\ \A ch \in Channels : Queued(ch) \subseteq collected
    /\ \A m \in accepted : m \in collected /\ m.desc.name \in keep
    /\ \A m \in collected : m.desc.name \in keep => m \in accepted \/ Flying(m)
    /\ \A h \in metricHashes : \E m \in accepted : h = HashOf(m)

\* A channel is a queue of its elements.
LEMMA AppendElements ==
    ASSUME NEW S, NEW s \in Seq(S), NEW e \in S
    PROVE  {Append(s, e)[i] : i \in 1..Len(Append(s, e))} = {s[i] : i \in 1..Len(s)} \cup {e}
<1> DEFINE t == Append(s, e)
<1>1. Len(s) \in Nat /\ Len(t) = Len(s) + 1 /\ t[Len(s) + 1] = e
  OBVIOUS
<1>2. \A i \in 1..Len(s) : t[i] = s[i]
  OBVIOUS
<1>3. 1..Len(t) = 1..Len(s) \cup {Len(s) + 1}
  BY <1>1
<1> HIDE DEF t
<1>4. {t[i] : i \in 1..Len(t)} = {s[i] : i \in 1..Len(s)} \cup {e}
  BY <1>1, <1>2, <1>3
<1> QED
  BY <1>4 DEF t

LEMMA TailElements ==
    ASSUME NEW S, NEW s \in Seq(S), s # <<>>
    PROVE  {s[i] : i \in 1..Len(s)} = {Head(s)} \cup {Tail(s)[i] : i \in 1..Len(Tail(s))}
<1> DEFINE t == Tail(s)
<1>1. Len(s) \in Nat /\ Len(s) > 0 /\ Len(t) = Len(s) - 1 /\ Head(s) = s[1]
  OBVIOUS
<1>2. \A i \in 1..Len(t) : t[i] = s[i + 1] /\ i + 1 \in 1..Len(s)
  BY <1>1
<1>3. \A j \in 1..Len(s) : j = 1 \/ (j - 1 \in 1..Len(t) /\ (j - 1) + 1 = j)
  BY <1>1
<1> HIDE DEF t
<1>4. ASSUME NEW j \in 1..Len(s)
      PROVE  s[j] \in {Head(s)} \cup {t[i] : i \in 1..Len(t)}
  <2>1. CASE j = 1
    BY <1>1, <2>1
  <2>2. CASE j - 1 \in 1..Len(t) /\ (j - 1) + 1 = j
    <3>1. t[j - 1] = s[j]
      BY <1>2, <2>2
    <3> QED
      BY <2>2, <3>1
  <2> QED
    BY <1>3, <2>1, <2>2
<1>5. {Head(s)} \cup {t[i] : i \in 1..Len(t)} \subseteq {s[i] : i \in 1..Len(s)}
  BY <1>1, <1>2
<1> QED
  BY <1>4, <1>5 DEF t

\* What each step of a worker does to what flies.
LEMMA TakeParts ==
    ASSUME GatherTypes, NEW w \in Workers, Take(w)
    PROVE  /\ w \notin Busy /\ Busy' = Busy \cup {w}
           /\ \E c \in Collectors : \E channel \in Channels :
                 /\ worker' = [worker EXCEPT ![w] = [pc |-> "collect", of |-> c,
                                                     left |-> Content(c), to |-> channel]]
                 /\ collected' = collected \cup Content(c)
                 /\ \/ /\ channel = "checked" /\ c \in checkedQueue
                       /\ checkedQueue' = checkedQueue \ {c} /\ UNCHANGED uncheckedQueue
                    \/ uncheckedQueue # <<>>
           /\ UNCHANGED <<sending, beginVars, resultVars, registryVars>>
<1>1. uncheckedQueue # <<>> => Head(uncheckedQueue) \in Collectors
  BY DEF GatherTypes
<1>2. \E c \in Collectors : \E channel \in Channels :
         /\ StartCollect(w, c, channel)
         /\ \/ /\ channel = "checked" /\ c \in checkedQueue
               /\ checkedQueue' = checkedQueue \ {c} /\ UNCHANGED uncheckedQueue
            \/ uncheckedQueue # <<>>
  BY <1>1 DEF Take, GatherTypes, Channels
<1>3. w \notin Busy /\ UNCHANGED <<sending, beginVars, resultVars, registryVars>>
  BY DEF Take, Busy
<1>4. ASSUME NEW c, NEW channel, StartCollect(w, c, channel)
      PROVE  Busy' = Busy \cup {w}
  BY <1>4 DEF StartCollect, Busy, GatherTypes
<1> QED
  BY <1>2, <1>3, <1>4 DEF StartCollect

LEMMA SendParts ==
    ASSUME GatherTypes, NEW w \in Workers, Send(w)
    PROVE  /\ w \in Busy /\ Busy' = Busy
           /\ \E m \in worker[w].left : \E ch \in Channels :
                 /\ ch = worker[w].to
                 /\ worker' = [worker EXCEPT ![w].left = @ \ {m}]
                 /\ sending' = [sending EXCEPT ![ch] = Append(@, m)]
                 /\ Queued(ch)' = Queued(ch) \cup {m}
                 /\ \A k \in Channels \ {ch} : Queued(k)' = Queued(k)
           /\ UNCHANGED <<collected, checkedQueue, uncheckedQueue, beginVars, resultVars, registryVars>>
<1>1. PICK m \in worker[w].left : /\ sending' = [sending EXCEPT ![worker[w].to] = Append(@, m)]
                                  /\ worker' = [worker EXCEPT ![w].left = @ \ {m}]
  BY DEF Send
<1>2. worker[w] \in Doing
  BY DEF GatherTypes
<1>3. worker[w].to \in Channels /\ m \in Sendable
  BY <1>2 DEF Doing
<1>4. PICK ch \in Channels : ch = worker[w].to
  BY <1>3
<1>5. sending[ch] \in Seq(Sendable)
  BY <1>4 DEF GatherTypes
<1>6. sending'[ch] = Append(sending[ch], m) /\ \A k \in Channels \ {ch} : sending'[k] = sending[k]
  BY <1>1, <1>4 DEF GatherTypes
<1>7. Queued(ch)' = Queued(ch) \cup {m}
  <2>1. {Append(sending[ch], m)[i] : i \in 1..Len(Append(sending[ch], m))}
           = {sending[ch][i] : i \in 1..Len(sending[ch])} \cup {m}
    BY <1>5, <1>3, AppendElements
  <2> QED
    BY <1>6, <2>1 DEF Queued
<1>8. \A k \in Channels \ {ch} : Queued(k)' = Queued(k)
  BY <1>6 DEF Queued
<1>9. worker' = [worker EXCEPT ![w] = worker'[w]] /\ worker'[w].pc = worker[w].pc
  BY <1>1, <1>2 DEF GatherTypes, Doing
<1>10. w \in Busy
  BY DEF Send, Busy
<1>11. Busy' = Busy
  BY <1>9, <1>10 DEF Busy, GatherTypes
<1>12. UNCHANGED <<collected, checkedQueue, uncheckedQueue, beginVars, resultVars, registryVars>>
  BY DEF Send
<1> QED
  BY <1>1, <1>4, <1>7, <1>8, <1>10, <1>11, <1>12

LEMMA DoneParts ==
    ASSUME GatherTypes, NEW w \in Workers, Done(w)
    PROVE  /\ w \in Busy /\ Busy' = Busy \ {w} /\ worker[w].left = {}
           /\ \A v \in Busy' : worker'[v] = worker[v]
           /\ UNCHANGED <<sending, collected, checkedQueue, uncheckedQueue, beginVars, resultVars, registryVars>>
<1>1. w \in Busy /\ worker[w].left = {}
  BY DEF Done, Busy
<1>2. worker' = [worker EXCEPT ![w] = worker'[w]] /\ worker'[w].pc = "take"
  BY DEF Done, GatherTypes, Idle
<1>3. Busy' = Busy \ {w}
  BY <1>2 DEF Busy, GatherTypes
<1>4. \A v \in Busy' : worker'[v] = worker[v]
  BY <1>2, <1>3 DEF Busy, GatherTypes
<1> QED
  BY <1>1, <1>3, <1>4 DEF Done

LEMMA ReceiveParts ==
    ASSUME GatherTypes, NEW ch \in Channels, Receive(ch)
    PROVE  /\ sending[ch] # <<>> /\ Head(sending[ch]) \in Sendable
           /\ sending' = [sending EXCEPT ![ch] = Tail(@)]
           /\ Queued(ch) = {Head(sending[ch])} \cup Queued(ch)'
           /\ \A k \in Channels \ {ch} : Queued(k)' = Queued(k)
           /\ UNCHANGED <<worker, collected, checkedQueue, uncheckedQueue, beginVars, registryVars>>
           /\ IF Head(sending[ch]).desc.name \in keep THEN ProcessMetric(Head(sending[ch]), ch)
                                                      ELSE UNCHANGED resultVars
<1>1. /\ sending[ch] # <<>> /\ sending' = [sending EXCEPT ![ch] = Tail(@)]
      /\ UNCHANGED <<worker, collected, checkedQueue, uncheckedQueue, beginVars, registryVars>>
      /\ IF Head(sending[ch]).desc.name \in keep THEN ProcessMetric(Head(sending[ch]), ch)
                                                 ELSE UNCHANGED resultVars
  BY DEF Receive
<1>2. sending[ch] \in Seq(Sendable)
  BY DEF GatherTypes
<1>3. Head(sending[ch]) \in Sendable
  BY <1>1, <1>2
<1>4. sending'[ch] = Tail(sending[ch]) /\ \A k \in Channels \ {ch} : sending'[k] = sending[k]
  BY <1>1 DEF GatherTypes
<1>5. Queued(ch) = {Head(sending[ch])} \cup Queued(ch)'
  <2>1. {sending[ch][i] : i \in 1..Len(sending[ch])}
           = {Head(sending[ch])} \cup {Tail(sending[ch])[i] : i \in 1..Len(Tail(sending[ch]))}
    BY <1>1, <1>2, TailElements
  <2> QED
    BY <1>4, <2>1 DEF Queued
<1>6. \A k \in Channels \ {ch} : Queued(k)' = Queued(k)
  BY <1>4 DEF Queued
<1> QED
  BY <1>1, <1>3, <1>5, <1>6

\* Between two gatherings, and at the start of one, nothing flies.
LEMMA BeginParts ==
    ASSUME GatherBase, NEW names \in Keeps, GatherNothing(names) \/ GatherBegin(names)
    PROVE  /\ Busy' = {} /\ \A ch \in Channels : Queued(ch)' = {} /\ sending'[ch] = <<>>
           /\ collected' = {} /\ accepted' = {} /\ metricHashes' = {} /\ errs' = 0
           /\ DOMAIN families' = {} /\ keep' = names
<1>1. /\ collected' = {} /\ accepted' = {} /\ metricHashes' = {} /\ errs' = 0
      /\ DOMAIN families' = {} /\ keep' = names /\ open = {}
  BY DEF GatherNothing, GatherBegin, Snapshot, Gathering
<1>2. Busy' = {} /\ \A ch \in Channels : sending'[ch] = <<>>
  <2>1. CASE GatherNothing(names)
    <3>1. UNCHANGED <<worker, sending>>
      BY <2>1 DEF GatherNothing
    <3>2. Busy = {}
      BY <1>1, BusyIsAwaited DEF GatherBase, Channels
    <3>3. Busy' = Busy
      BY <3>1 DEF Busy
    <3> QED
      BY <1>1, <3>1, <3>2, <3>3 DEF GatherBase, WaitInv
  <2>2. CASE GatherBegin(names)
    <3>1. \A w \in Workers : worker'[w].pc \in {"off", "take"}
      BY <2>2 DEF GatherBegin, Idle
    <3>2. \A ch \in Channels : sending'[ch] = <<>>
      BY <2>2 DEF GatherBegin, Channels
    <3> QED
      BY <3>1, <3>2 DEF Busy
  <2> QED
    BY <2>1, <2>2
<1>3. \A ch \in Channels : Queued(ch)' = {}
  BY <1>2 DEF Queued
<1> QED
  BY <1>1, <1>2, <1>3

\* All other steps leave alone what flies and what it becomes.
LEMMA OtherParts ==
    ASSUME GatherTypes, [Next]_vars
    PROVE  \/ \E names \in Keeps : GatherNothing(names) \/ GatherBegin(names)
           \/ \E w \in Workers : Take(w) \/ Send(w) \/ Panic(w) \/ Done(w)
           \/ \E ch \in Channels : Receive(ch)
           \/ /\ Busy' = Busy /\ \A w \in Busy : worker'[w] = worker[w]
              /\ UNCHANGED <<sending, collected, checkedQueue, uncheckedQueue, beginVars, resultVars>>
<1> DEFINE Rest == /\ Busy' = Busy /\ \A w \in Busy : worker'[w] = worker[w]
                   /\ UNCHANGED <<sending, collected, checkedQueue, uncheckedQueue, beginVars, resultVars>>
<1>1. ASSUME UNCHANGED <<worker, sending, collected, checkedQueue, uncheckedQueue, beginVars, resultVars>>
      PROVE  Rest
  BY <1>1 DEF Busy
<1>2. ASSUME UNCHANGED gatherVars
      PROVE  Rest
  BY <1>1, <1>2 DEF gatherVars, workVars
<1>3. CASE UseVec
  BY <1>2, <1>3 DEF UseVec
<1>4. CASE Change
  BY <1>2, <1>4 DEF Change, Register, RegisterUnchecked, UnregisterCheck, UnregisterDelete
<1>5. ASSUME NEW w \in Workers, WorkerReturns(w)
      PROVE  Rest
  <2>1. worker' = [worker EXCEPT ![w] = Idle] /\ worker[w].pc = "take"
        /\ UNCHANGED <<sending, collected, checkedQueue, uncheckedQueue, beginVars, resultVars>>
    BY <1>5 DEF WorkerReturns
  <2>2. Busy' = Busy /\ \A v \in Busy : worker'[v] = worker[v]
    BY <2>1 DEF Busy, GatherTypes, Idle
  <2> QED
    BY <2>1, <2>2
<1>6. CASE Close
  BY <1>1, <1>6 DEF Close, workVars
<1>7. ASSUME NEW ch \in Channels, NilOut(ch)
      PROVE  Rest
  BY <1>1, <1>7 DEF NilOut, workVars
<1>8. ASSUME NEW w \in Workers, StartWorker(w)
      PROVE  Rest
  <2>1. worker' = [worker EXCEPT ![w].pc = "take"] /\ worker[w].pc = "off"
        /\ UNCHANGED <<sending, collected, checkedQueue, uncheckedQueue, beginVars, resultVars>>
    BY <1>8 DEF StartWorker
  <2>2. worker' = [worker EXCEPT ![w] = worker'[w]] /\ worker'[w].pc = "take"
    BY <2>1 DEF GatherTypes, Doing
  <2>3. Busy' = Busy /\ \A v \in Busy : worker'[v] = worker[v]
    BY <2>1, <2>2 DEF Busy, GatherTypes
  <2> QED
    BY <2>1, <2>3
<1>9. CASE Terminating \/ UNCHANGED vars
  BY <1>2, <1>9 DEF Terminating, vars
<1> QED
  BY <1>3, <1>4, <1>5, <1>6, <1>7, <1>8, <1>9 DEF Next, Collect, Gather, Channels

LEMMA TakeFlow ==
    ASSUME GatherTypes, FlowInv, NEW w \in Workers, Take(w)
    PROVE  FlowInv'
<1>1. SUFFICES ASSUME errs' = 0
               PROVE  /\ \A v \in Busy' : worker'[v].pc = "collect" /\ worker'[v].left \subseteq collected'
                      /\ \A ch \in Channels : Queued(ch)' \subseteq collected'
                      /\ \A m \in accepted' : m \in collected' /\ m.desc.name \in keep'
                      /\ \A m \in collected' : m.desc.name \in keep' => m \in accepted' \/ Flying(m)'
                      /\ \A h \in metricHashes' : \E m \in accepted' : h = HashOf(m)
  BY DEF FlowInv, HashOf
<1>2. /\ w \notin Busy /\ Busy' = Busy \cup {w}
      /\ UNCHANGED <<sending, keep, errs, accepted, metricHashes>>
  BY TakeParts DEF beginVars, resultVars
<1>3. PICK c \in Collectors, channel \in Channels :
         /\ worker' = [worker EXCEPT ![w] = [pc |-> "collect", of |-> c,
                                             left |-> Content(c), to |-> channel]]
         /\ collected' = collected \cup Content(c)
  BY TakeParts
<1>4. worker'[w].pc = "collect" /\ worker'[w].left = Content(c)
  BY <1>3 DEF GatherTypes
<1>5. \A v \in Busy : worker'[v] = worker[v]
  BY <1>2, <1>3 DEF GatherTypes, Busy
<1>6. \A ch \in Channels : Queued(ch)' = Queued(ch)
  BY <1>2 DEF Queued
<1>7. \A m : Flying(m) \/ m \in Content(c) => Flying(m)'
  BY <1>2, <1>4, <1>5, <1>6 DEF Flying
<1>8. errs = 0
  BY <1>1, <1>2
<1> QED
  BY <1>2, <1>3, <1>4, <1>5, <1>6, <1>7, <1>8 DEF FlowInv

LEMMA SendFlow ==
    ASSUME GatherTypes, FlowInv, NEW w \in Workers, Send(w)
    PROVE  FlowInv'
<1>1. SUFFICES ASSUME errs' = 0
               PROVE  /\ \A v \in Busy' : worker'[v].pc = "collect" /\ worker'[v].left \subseteq collected'
                      /\ \A ch \in Channels : Queued(ch)' \subseteq collected'
                      /\ \A m \in accepted' : m \in collected' /\ m.desc.name \in keep'
                      /\ \A m \in collected' : m.desc.name \in keep' => m \in accepted' \/ Flying(m)'
                      /\ \A h \in metricHashes' : \E m \in accepted' : h = HashOf(m)
  BY DEF FlowInv, HashOf
<1>2. /\ w \in Busy /\ Busy' = Busy
      /\ UNCHANGED <<collected, keep, errs, accepted, metricHashes>>
  BY SendParts DEF beginVars, resultVars
<1>3. PICK m \in worker[w].left, ch \in Channels :
         /\ worker' = [worker EXCEPT ![w].left = @ \ {m}]
         /\ Queued(ch)' = Queued(ch) \cup {m}
         /\ \A k \in Channels \ {ch} : Queued(k)' = Queued(k)
  BY SendParts
<1>4. worker'[w].pc = worker[w].pc /\ worker'[w].left = worker[w].left \ {m}
  BY <1>3 DEF GatherTypes, Doing
<1>5. \A v \in Busy \ {w} : worker'[v] = worker[v]
  BY <1>3 DEF GatherTypes, Busy
<1>6. ASSUME NEW x, Flying(x)
      PROVE  Flying(x)'
  <2>1. CASE \E k \in Channels : x \in Queued(k)
    BY <1>3, <2>1 DEF Flying
  <2>2. CASE \E v \in Busy : x \in worker[v].left
    <3>1. PICK v \in Busy : x \in worker[v].left
      BY <2>2
    <3>2. CASE v = w /\ x = m
      BY <1>3, <3>2 DEF Flying
    <3>3. CASE v # w \/ x # m
      <4>1. x \in worker'[v].left
        BY <1>4, <1>5, <3>1, <3>3
      <4> QED
        BY <1>2, <4>1 DEF Flying
    <3> QED
      BY <3>2, <3>3
  <2> QED
    BY <1>6, <2>1, <2>2 DEF Flying
<1>7. errs = 0
  BY <1>1, <1>2
<1>8. m \in collected
  BY <1>2, <1>3, <1>7 DEF FlowInv
<1> QED
  BY <1>2, <1>3, <1>4, <1>5, <1>6, <1>7, <1>8 DEF FlowInv

LEMMA DoneFlow ==
    ASSUME GatherTypes, FlowInv, NEW w \in Workers, Done(w)
    PROVE  FlowInv'
<1>1. SUFFICES ASSUME errs' = 0
               PROVE  /\ \A v \in Busy' : worker'[v].pc = "collect" /\ worker'[v].left \subseteq collected'
                      /\ \A ch \in Channels : Queued(ch)' \subseteq collected'
                      /\ \A m \in accepted' : m \in collected' /\ m.desc.name \in keep'
                      /\ \A m \in collected' : m.desc.name \in keep' => m \in accepted' \/ Flying(m)'
                      /\ \A h \in metricHashes' : \E m \in accepted' : h = HashOf(m)
  BY DEF FlowInv, HashOf
<1>2. /\ Busy' = Busy \ {w} /\ worker[w].left = {} /\ \A v \in Busy' : worker'[v] = worker[v]
      /\ UNCHANGED <<sending, collected, keep, errs, accepted, metricHashes>>
  BY DoneParts DEF beginVars, resultVars
<1>3. \A ch \in Channels : Queued(ch)' = Queued(ch)
  BY <1>2 DEF Queued
<1>4. \A x : Flying(x) => Flying(x)'
  BY <1>2, <1>3 DEF Flying
<1> QED
  BY <1>1, <1>2, <1>3, <1>4 DEF FlowInv

LEMMA ReceiveFlow ==
    ASSUME GatherTypes, FlowInv, NEW ch \in Channels, Receive(ch)
    PROVE  FlowInv'
<1> DEFINE r == Head(sending[ch])
<1>1. SUFFICES ASSUME errs' = 0
               PROVE  /\ \A v \in Busy' : worker'[v].pc = "collect" /\ worker'[v].left \subseteq collected'
                      /\ \A k \in Channels : Queued(k)' \subseteq collected'
                      /\ \A m \in accepted' : m \in collected' /\ m.desc.name \in keep'
                      /\ \A m \in collected' : m.desc.name \in keep' => m \in accepted' \/ Flying(m)'
                      /\ \A h \in metricHashes' : \E m \in accepted' : h = HashOf(m)
  BY DEF FlowInv, HashOf
<1>2. /\ Queued(ch) = {r} \cup Queued(ch)'
      /\ \A k \in Channels \ {ch} : Queued(k)' = Queued(k)
      /\ UNCHANGED <<worker, collected, keep>>
      /\ IF r.desc.name \in keep THEN ProcessMetric(r, ch) ELSE UNCHANGED resultVars
  BY ReceiveParts DEF beginVars
<1> HIDE DEF r
<1>3. Busy' = Busy
  BY <1>2 DEF Busy
<1>4. \A x : Flying(x) => Flying(x)' \/ x = r
  BY <1>2, <1>3 DEF Flying
<1>5. CASE r.desc.name \notin keep
  <2>1. UNCHANGED <<accepted, metricHashes, errs>>
    BY <1>2, <1>5 DEF resultVars
  <2>2. \A m \in collected : m.desc.name \in keep => m \in accepted \/ Flying(m)
    BY <1>1, <2>1 DEF FlowInv
  <2>3. \A m \in collected' : m.desc.name \in keep' => m \in accepted' \/ Flying(m)'
    BY <1>2, <1>4, <1>5, <2>1, <2>2
  <2> QED
    BY <1>1, <1>2, <1>3, <2>1, <2>3 DEF FlowInv
<1>6. CASE r.desc.name \in keep
  <2>1. /\ errs = 0 /\ accepted' = accepted \cup {r} /\ metricHashes' = metricHashes \cup {HashOf(r)}
    <3>1. ProcessMetric(r, ch)
      BY <1>2, <1>6
    <3>2. errs \in Nat
      BY DEF GatherTypes
    <3> QED
      BY <1>1, <3>1, <3>2 DEF ProcessMetric
  <2>2. r \in collected
    BY <1>2, <2>1 DEF FlowInv
  <2>3. \A m \in collected' : m.desc.name \in keep' => m \in accepted' \/ Flying(m)'
    BY <1>2, <1>4, <2>1 DEF FlowInv
  <2> QED
    BY <1>2, <1>3, <1>6, <2>1, <2>2, <2>3 DEF FlowInv
<1> QED
  BY <1>5, <1>6

LEMMA FlowStep ==
    ASSUME GatherBase, FlowInv, [Next]_vars
    PROVE  FlowInv'
<1>1. ASSUME NEW names \in Keeps, GatherNothing(names) \/ GatherBegin(names)
      PROVE  FlowInv'
  BY <1>1, BeginParts DEF FlowInv
<1>2. ASSUME NEW w \in Workers, Panic(w)
      PROVE  FlowInv'
  <2>1. errs' # 0
    BY <1>2 DEF Panic, GatherBase, GatherTypes
  <2> QED
    BY <2>1 DEF FlowInv
<1>3. CASE /\ Busy' = Busy /\ \A w \in Busy : worker'[w] = worker[w]
           /\ UNCHANGED <<sending, collected, checkedQueue, uncheckedQueue, beginVars, resultVars>>
  <2>1. UNCHANGED <<collected, keep, errs, accepted, metricHashes>>
    BY <1>3 DEF beginVars, resultVars
  <2>2. \A ch \in Channels : Queued(ch)' = Queued(ch)
    BY <1>3 DEF Queued
  <2>3. \A x : Flying(x) => Flying(x)'
    BY <1>3, <2>2 DEF Flying
  <2> QED
    BY <1>3, <2>1, <2>2, <2>3 DEF FlowInv, HashOf
<1> QED
  BY <1>1, <1>2, <1>3, TakeFlow, SendFlow, DoneFlow, ReceiveFlow, OtherParts DEF GatherBase

\* A gathering that has returned has nothing left on its way.
LEMMA ReturnedEmpty ==
    ASSUME GatherBase, ~Gathering
    PROVE  \A m : ~Flying(m)
<1>1. open = {}
  BY DEF Gathering
<1>2. Busy = {}
  BY <1>1, BusyIsAwaited DEF GatherBase, Channels
<1>3. \A ch \in Channels : Queued(ch) = {}
  BY <1>1 DEF GatherBase, WaitInv, Queued
<1> QED
  BY <1>2, <1>3 DEF Flying

LEMMA FlowHolds == Spec => []FlowInv
<1>1. Init => FlowInv
  BY DEF Init, FlowInv, Busy, Idle, Queued, Channels
<1>2. GatherBase /\ FlowInv /\ [Next]_vars => FlowInv'
  BY FlowStep
<1> QED
  BY <1>1, <1>2, GatherBased, PTL DEF Spec

\* Whatever panics, fails or contradicts something and however channels fill up: if
\* Gather reports no error it returns all that was collected under the names it was
\* asked for, and nothing else.
THEOREM NothingLeftOut == Spec => []Complete
<1>1. GatherBase /\ FlowInv => Complete
  BY ReturnedEmpty DEF FlowInv, Complete, Returned
<1> QED
  BY <1>1, GatherBased, FlowHolds, PTL

-----------------------------------------------------------------------------
(* Honest collectors are served *)

\* What is registered is valid and what the snapshot has was registered together.
RegisteredInv ==
    /\ \A c \in collectorsByID : DescsOf[c] # {} /\ \A d \in DescsOf[c] : d.valid
    /\ \A i \in DOMAIN uncheckedCollectors : DescsOf[uncheckedCollectors[i]] = {}
    /\ \A c, e \in snapshot : IDs(c) \cap IDs(e) # {} => c = e
    /\ \A c \in snapshot : IDs(c) \subseteq registeredDescIDs /\ \A d \in DescsOf[c] : d.valid

AllHonest == \A c \in snapshot : Honest(c)

\* Each metric of an honest collector is in one place: not collected yet, with the
\* worker that collects it, once in the channel, or in the families.
HonestInv == AllHonest =>
    /\ errs = 0 /\ uncheckedQueue = <<>> /\ checkedQueue \subseteq snapshot
    /\ sending["unchecked"] = <<>>
    /\ \A w \in Busy : /\ worker[w].of \in snapshot \ checkedQueue /\ worker[w].to = "checked"
                       /\ worker[w].left \subseteq Sends(worker[w].of)
                       /\ \A m \in worker[w].left : m \notin accepted /\ m \notin Queued("checked")
    /\ \A v, w \in Busy : worker[v].of = worker[w].of => v = w
    /\ \A m \in Queued("checked") :
           m \notin accepted /\ \E c \in snapshot \ checkedQueue : m \in Sends(c)
    /\ \A i, j \in 1..Len(sending["checked"]) :
           sending["checked"][i] = sending["checked"][j] => i = j
    /\ \A m \in accepted : \E c \in snapshot \ checkedQueue : m \in Sends(c)
    /\ \A n \in DOMAIN families : \E c \in snapshot : \E m \in Sends(c) :
           m.desc.name = n /\ families[n] = [help |-> m.desc.help, type |-> m.type]
    /\ \A c \in snapshot \ {Vec} :
           KeepsAny(c, keep) => c \in checkedQueue \/ MetricsOf[c] \subseteq collected

\* What is taken for the snapshot has been registered.
LEMMA RegisteredStep ==
    ASSUME GatherTypes, RegInv, RegisteredInv, [Next]_vars
    PROVE  RegisteredInv'
<1>1. /\ \A c \in collectorsByID' : DescsOf[c] # {} /\ \A d \in DescsOf[c] : d.valid
      /\ \A i \in DOMAIN uncheckedCollectors' : DescsOf[uncheckedCollectors'[i]] = {}
  <2>1. ASSUME NEW c \in Collectors, Register(c)
        PROVE  /\ collectorsByID' = collectorsByID \cup {c} /\ UNCHANGED uncheckedCollectors
               /\ DescsOf[c] # {} /\ \A d \in DescsOf[c] : d.valid
    BY <2>1 DEF Register, Refused, Inconsistent
  <2>2. ASSUME NEW c \in Collectors, RegisterUnchecked(c)
        PROVE  \A i \in DOMAIN uncheckedCollectors' : DescsOf[uncheckedCollectors'[i]] = {}
    <3>1. uncheckedCollectors' = Append(uncheckedCollectors, c) /\ DescsOf[c] = {}
          /\ uncheckedCollectors \in Seq(Collectors)
      BY <2>2 DEF RegisterUnchecked, GatherTypes
    <3>2. ASSUME NEW i \in DOMAIN uncheckedCollectors'
          PROVE  uncheckedCollectors'[i] = c \/
                 (i \in DOMAIN uncheckedCollectors /\ uncheckedCollectors'[i] = uncheckedCollectors[i])
      BY <3>1
    <3> QED
      BY <3>1, <3>2 DEF RegisteredInv
  <2>3. ASSUME NEW c \in Collectors, RegisterUnchecked(c)
        PROVE  UNCHANGED collectorsByID
    BY <2>3 DEF RegisterUnchecked
  <2>4. ASSUME NEW r \in Registrars, UnregisterDelete(r)
        PROVE  collectorsByID' \subseteq collectorsByID /\ UNCHANGED uncheckedCollectors
    BY <2>4 DEF UnregisterDelete
  <2>5. ASSUME NEW r \in Registrars, NEW c \in Collectors, UnregisterCheck(r, c)
        PROVE  UNCHANGED <<collectorsByID, uncheckedCollectors>>
    BY <2>5 DEF UnregisterCheck
  <2>6. ASSUME ~Change
        PROVE  UNCHANGED <<collectorsByID, uncheckedCollectors>>
    <3>1. CASE UseVec
      BY <3>1 DEF UseVec, registryVars
    <3>2. ASSUME NEW names \in Keeps, GatherNothing(names) \/ GatherBegin(names)
          PROVE  UNCHANGED <<collectorsByID, uncheckedCollectors>>
      BY <3>2 DEF GatherNothing, GatherBegin, registryVars
    <3>3. ASSUME NEW w \in Workers, Collect(w)
          PROVE  UNCHANGED <<collectorsByID, uncheckedCollectors>>
      BY <3>3 DEF Collect, Take, WorkerReturns, Send, Panic, Done, registryVars
    <3>4. CASE Close \/ Gather
      BY <3>4 DEF Close, Gather, Receive, NilOut, StartWorker, registryVars
    <3>5. CASE Terminating \/ UNCHANGED vars
      BY <3>5 DEF Terminating, vars, registryVars
    <3> QED
      BY <2>6, <3>1, <3>2, <3>3, <3>4, <3>5 DEF Next
  <2> QED
    BY <2>1, <2>2, <2>3, <2>4, <2>5, <2>6 DEF Change, RegisteredInv
<1>2. ASSUME NEW names \in Keeps, GatherNothing(names) \/ GatherBegin(names)
      PROVE  /\ \A c, e \in snapshot' : IDs(c) \cap IDs(e) # {} => c = e
             /\ \A c \in snapshot' : IDs(c) \subseteq registeredDescIDs' /\ \A d \in DescsOf[c] : d.valid
  <2>1. /\ snapshot' = collectorsByID \cup {uncheckedCollectors[i] : i \in DOMAIN uncheckedCollectors}
        /\ registeredDescIDs' = descIDs
    BY <1>2 DEF GatherNothing, GatherBegin, Snapshot
  <2>2. \A c \in snapshot' \ collectorsByID : DescsOf[c] = {} /\ IDs(c) = {}
    BY <2>1 DEF RegisteredInv, IDs
  <2> QED
    BY <2>1, <2>2 DEF RegisteredInv, RegInv, UniqueDescs, DescsDisjoint
<1>3. ASSUME UNCHANGED beginVars
      PROVE  /\ \A c, e \in snapshot' : IDs(c) \cap IDs(e) # {} => c = e
             /\ \A c \in snapshot' : IDs(c) \subseteq registeredDescIDs' /\ \A d \in DescsOf[c] : d.valid
  BY <1>3 DEF beginVars, RegisteredInv
<1>4. UNCHANGED beginVars \/ \E names \in Keeps : GatherNothing(names) \/ GatherBegin(names)
  BY OtherParts, TakeParts, SendParts, DoneParts, ReceiveParts DEF Panic
<1> QED
  BY <1>1, <1>2, <1>3, <1>4 DEF RegisteredInv, IDs

\* What two honest collectors of a snapshot send goes together.
LEMMA SnapshotAgrees ==
    ASSUME Compatible, GatherTypes, RegisteredInv, AllHonest,
           NEW c \in snapshot, NEW e \in snapshot, NEW m \in Sends(c), NEW n \in Sends(e)
    PROVE  /\ m.desc.name = n.desc.name => m.desc.help = n.desc.help /\ m.type = n.type
           /\ HashOf(m) = HashOf(n) => c = e /\ m = n
           /\ \A s \in Suffixed : s[1] = m.desc.name /\ s[2] = n.desc.name => ~AddsSuffix(n.type, s[3])
<1>1. c \in Collectors /\ e \in Collectors /\ Honest(c) /\ Honest(e)
  BY DEF GatherTypes, AllHonest
<1>2. c = e \/ IDs(c) \cap IDs(e) = {}
  BY DEF RegisteredInv
<1> QED
  BY <1>1, <1>2 DEF Compatible

\* What an honest collector sends passes every check.
LEMMA HonestFits ==
    ASSUME Compatible, GatherTypes, RegisteredInv, FlowInv, HonestInv, AllHonest,
           NEW c \in snapshot, NEW m \in Sends(c), m \notin accepted, NEW ch
    PROVE  HasFamily(m) /\ Fresh(m) /\ Described(m, ch)
<1> USE DEF HonestInv
<1>1. /\ m.desc \in DescsOf[c] /\ m.wrong = "none" /\ m.type # "none" /\ m.desc.valid
      /\ m.desc.id \in registeredDescIDs
  BY DEF AllHonest, Honest, RegisteredInv, IDs
<1>2. ASSUME NEW n \in DOMAIN families
      PROVE  \E e \in snapshot : \E a \in Sends(e) :
                a.desc.name = n /\ families[n] = [help |-> a.desc.help, type |-> a.type]
  OBVIOUS
<1>3. m.desc.name \in DOMAIN families => families[m.desc.name] = [help |-> m.desc.help, type |-> m.type]
  BY <1>2, SnapshotAgrees
<1>4. ~SuffixCollides(m.desc.name, m.type)
  <2>1. ASSUME NEW s \in Suffixed, s[1] = m.desc.name, s[2] \in DOMAIN families
        PROVE  ~AddsSuffix(families[s[2]].type, s[3])
    BY <1>2, <2>1, SnapshotAgrees
  <2>2. ASSUME NEW s \in Suffixed, s[2] = m.desc.name, s[1] \in DOMAIN families
        PROVE  ~AddsSuffix(m.type, s[3])
    BY <1>2, <2>2, SnapshotAgrees
  <2> QED
    BY <2>1, <2>2 DEF SuffixCollides
<1>5. HashOf(m) \notin metricHashes
  <2> SUFFICES ASSUME HashOf(m) \in metricHashes
               PROVE  FALSE
    OBVIOUS
  <2>1. PICK a \in accepted : HashOf(m) = HashOf(a)
    BY DEF FlowInv
  <2>2. PICK e \in snapshot : a \in Sends(e)
    OBVIOUS
  <2> QED
    BY <2>1, <2>2, SnapshotAgrees
<1> QED
  BY <1>1, <1>3, <1>4, <1>5 DEF HasFamily, Fresh, Described

\* Nothing is queued where nothing is waited for.
LEMMA NothingQueued ==
    ASSUME GatherBase, wg = 0
    PROVE  checkedQueue = {} /\ uncheckedQueue = <<>>
<1>1. /\ Cardinality(checkedQueue) \in Nat /\ Cardinality(Busy) \in Nat /\ Len(uncheckedQueue) \in Nat
      /\ IsFiniteSet(checkedQueue)
  BY FS_CardinalityType DEF GatherBase, GatherTypes, WaitInv
<1>2. Cardinality(checkedQueue) = 0 /\ Len(uncheckedQueue) = 0
  BY <1>1 DEF GatherBase, WaitInv
<1>3. uncheckedQueue \in Seq(Collectors)
  BY DEF GatherBase, GatherTypes
<1> QED
  BY <1>1, <1>2, <1>3, FS_EmptySet

LEMMA BeginHonest ==
    ASSUME GatherBase, RegisteredInv, NEW names \in Keeps, GatherNothing(names) \/ GatherBegin(names)
    PROVE  HonestInv'
<1> SUFFICES ASSUME AllHonest'
             PROVE  HonestInv'
  BY DEF HonestInv
<1>1. /\ Busy' = {} /\ \A ch \in Channels : Queued(ch)' = {} /\ sending'[ch] = <<>>
      /\ collected' = {} /\ accepted' = {} /\ errs' = 0
      /\ DOMAIN families' = {} /\ keep' = names
  BY BeginParts
<1>2. snapshot' = collectorsByID \cup {uncheckedCollectors[i] : i \in DOMAIN uncheckedCollectors}
  BY DEF GatherNothing, GatherBegin, Snapshot
<1>3. DOMAIN uncheckedCollectors = {}
  <2> SUFFICES ASSUME NEW i \in DOMAIN uncheckedCollectors PROVE FALSE
    OBVIOUS
  <2>1. Honest(uncheckedCollectors[i])
    BY <1>2 DEF AllHonest, Honest
  <2> QED
    BY <2>1 DEF RegisteredInv, Honest
<1>4. uncheckedCollectors = <<>> /\ Len(uncheckedCollectors) = 0
  <2>1. uncheckedCollectors \in Seq(Collectors)
    BY DEF GatherBase, GatherTypes
  <2> QED
    BY <1>3, <2>1
<1>5. snapshot' = collectorsByID
  BY <1>2, <1>3
<1>6. /\ uncheckedQueue' = <<>> /\ checkedQueue' \subseteq collectorsByID
      /\ \A c \in collectorsByID : KeepsAny(c, names) => c \in checkedQueue'
  <2>1. CASE GatherNothing(names)
    <3>1. UNCHANGED <<checkedQueue, uncheckedQueue>> /\ open = {}
      BY <2>1 DEF GatherNothing, Snapshot, Gathering
    <3>2. checkedQueue = {} /\ uncheckedQueue = <<>>
      BY <3>1, NothingQueued DEF GatherBase, WaitInv
    <3>3. IsFiniteSet(Kept(names)) /\ Cardinality(Kept(names)) \in Nat
      BY FS_Subset, FS_CardinalityType DEF GatherBase, GatherTypes, Kept
    <3>4. Cardinality(Kept(names)) = 0
      BY <1>4, <2>1, <3>3 DEF GatherNothing, Work
    <3>5. Kept(names) = {}
      BY <3>3, <3>4, FS_EmptySet
    <3> QED
      BY <3>1, <3>2, <3>5 DEF Kept
  <2>2. CASE GatherBegin(names)
    BY <1>4, <2>2 DEF GatherBegin, Kept
  <2> QED
    BY <2>1, <2>2
<1>7. \A c \in snapshot' \ {Vec} : KeepsAny(c, keep') => c \in checkedQueue'
  BY <1>1, <1>5, <1>6
<1> QED
  BY <1>1, <1>5, <1>6, <1>7 DEF HonestInv, Channels, KeepsAny, Names, Sends

\* The snapshot is what it was.
LEMMA HonestKept ==
    ASSUME UNCHANGED beginVars
    PROVE  AllHonest' = AllHonest
BY DEF beginVars, AllHonest, Honest, Sends

LEMMA TakeHonest ==
    ASSUME Compatible, GatherBase, VecInv, RegisteredInv, HonestInv, NEW w \in Workers, Take(w)
    PROVE  HonestInv'
<1>1. UNCHANGED <<snapshot, keep, errs, accepted, families, sending, beginVars>>
  BY TakeParts DEF GatherBase, beginVars, resultVars
<1> SUFFICES ASSUME AllHonest
             PROVE  HonestInv'
  BY <1>1, HonestKept DEF HonestInv
<1>2. uncheckedQueue = <<>>
  BY DEF HonestInv
<1>3. w \notin Busy /\ Busy' = Busy \cup {w}
  BY TakeParts DEF GatherBase
<1>4. PICK c \in Collectors :
         /\ worker' = [worker EXCEPT ![w] = [pc |-> "collect", of |-> c,
                                             left |-> Content(c), to |-> "checked"]]
         /\ collected' = collected \cup Content(c) /\ c \in checkedQueue
         /\ checkedQueue' = checkedQueue \ {c} /\ UNCHANGED uncheckedQueue
  BY <1>2, TakeParts DEF GatherBase
<1>5. worker'[w].of = c /\ worker'[w].left = Content(c) /\ worker'[w].to = "checked"
  BY <1>4 DEF GatherBase, GatherTypes
<1>6. \A v \in Busy : worker'[v] = worker[v]
  BY <1>3, <1>4 DEF GatherBase, GatherTypes, Busy
<1>7. \A ch : Queued(ch)' = Queued(ch)
  BY <1>1 DEF Queued
<1>8. c \in snapshot /\ Content(c) \subseteq Sends(c)
  BY <1>4, ContentSends DEF HonestInv
<1>9. \A e \in snapshot \ checkedQueue : e # c /\ e \in snapshot \ checkedQueue'
  BY <1>4
<1>10. ASSUME NEW m \in Content(c), m \in accepted \/ m \in Queued("checked")
       PROVE  FALSE
  <2>1. PICK e \in snapshot \ checkedQueue : m \in Sends(e)
    BY <1>10 DEF HonestInv
  <2> QED
    BY <1>8, <1>9, <2>1, SnapshotAgrees DEF GatherBase
<1>11. ASSUME NEW v \in Busy'
       PROVE  /\ worker'[v].of \in snapshot \ checkedQueue' /\ worker'[v].to = "checked"
              /\ worker'[v].left \subseteq Sends(worker'[v].of)
              /\ \A m \in worker'[v].left : m \notin accepted /\ m \notin Queued("checked")
  <2>1. CASE v = w
    BY <1>4, <1>5, <1>8, <1>10, <2>1
  <2>2. CASE v \in Busy
    BY <1>6, <1>9, <2>2 DEF HonestInv
  <2> QED
    BY <1>3, <2>1, <2>2
<1>12. ASSUME NEW u \in Busy', NEW v \in Busy', worker'[u].of = worker'[v].of
       PROVE  u = v
  <2>1. \A x \in Busy : worker'[x].of = worker[x].of /\ worker[x].of # c
    BY <1>6, <1>9 DEF HonestInv
  <2> QED
    BY <1>3, <1>5, <1>12, <2>1 DEF HonestInv
<1>13. ASSUME NEW e \in snapshot \ {Vec}, KeepsAny(e, keep)
       PROVE  e \in checkedQueue' \/ MetricsOf[e] \subseteq collected'
  <2>1. CASE e = c
    BY <1>4, <1>13, <2>1 DEF Content
  <2>2. CASE e # c
    BY <1>4, <1>13, <2>2 DEF HonestInv
  <2> QED
    BY <2>1, <2>2
<1>14. checkedQueue' \subseteq snapshot /\ uncheckedQueue' = <<>>
  BY <1>2, <1>4 DEF HonestInv
<1>15. /\ \A m \in Queued("checked") : m \notin accepted /\ \E e \in snapshot \ checkedQueue' : m \in Sends(e)
       /\ \A m \in accepted : \E e \in snapshot \ checkedQueue' : m \in Sends(e)
  BY <1>9 DEF HonestInv
<1>16. /\ errs = 0 /\ sending["unchecked"] = <<>>
       /\ \A i, j \in 1..Len(sending["checked"]) : sending["checked"][i] = sending["checked"][j] => i = j
       /\ \A n \in DOMAIN families : \E e \in snapshot : \E m \in Sends(e) :
              m.desc.name = n /\ families[n] = [help |-> m.desc.help, type |-> m.type]
  BY DEF HonestInv
<1> QED
  BY <1>1, <1>7, <1>11, <1>12, <1>13, <1>14, <1>15, <1>16 DEF HonestInv, KeepsAny, Names, Sends

LEMMA SendHonest ==
    ASSUME Compatible, GatherBase, RegisteredInv, HonestInv, NEW w \in Workers, Send(w)
    PROVE  HonestInv'
<1>1. UNCHANGED <<snapshot, keep, errs, accepted, families, collected, checkedQueue, uncheckedQueue,
                  beginVars>>
  BY SendParts DEF GatherBase, beginVars, resultVars
<1> SUFFICES ASSUME AllHonest
             PROVE  HonestInv'
  BY <1>1, HonestKept DEF HonestInv
<1>2. w \in Busy /\ Busy' = Busy
  BY SendParts DEF GatherBase
<1>3. worker[w].to = "checked"
  BY <1>2 DEF HonestInv
<1>4. PICK m \in worker[w].left :
         /\ worker' = [worker EXCEPT ![w].left = @ \ {m}]
         /\ sending' = [sending EXCEPT !["checked"] = Append(@, m)]
         /\ Queued("checked")' = Queued("checked") \cup {m}
  BY <1>3, SendParts DEF GatherBase
<1>5. /\ worker'[w].of = worker[w].of /\ worker'[w].to = worker[w].to
      /\ worker'[w].left = worker[w].left \ {m}
  BY <1>4 DEF GatherBase, GatherTypes, Doing
<1>6. \A v \in Busy \ {w} : worker'[v] = worker[v]
  BY <1>4 DEF GatherBase, GatherTypes, Busy
<1>7. m \notin accepted /\ m \notin Queued("checked") /\ m \in Sends(worker[w].of)
      /\ worker[w].of \in snapshot \ checkedQueue
  BY <1>2 DEF HonestInv
<1>8. \A v \in Busy \ {w} : m \notin worker[v].left
  <2> SUFFICES ASSUME NEW v \in Busy \ {w}, m \in worker[v].left PROVE FALSE
    OBVIOUS
  <2>1. m \in Sends(worker[v].of) /\ worker[v].of \in snapshot /\ worker[v].of # worker[w].of
    BY <1>2 DEF HonestInv
  <2> QED
    BY <1>7, <2>1, SnapshotAgrees DEF GatherBase
<1>9. ASSUME NEW v \in Busy
      PROVE  /\ worker'[v].of \in snapshot \ checkedQueue /\ worker'[v].to = "checked"
             /\ worker'[v].left \subseteq Sends(worker'[v].of)
             /\ \A x \in worker'[v].left : x \notin accepted /\ x \notin Queued("checked")'
  <2>1. CASE v = w
    BY <1>2, <1>4, <1>5, <2>1 DEF HonestInv
  <2>2. CASE v # w
    BY <1>4, <1>6, <1>8, <2>2 DEF HonestInv
  <2> QED
    BY <2>1, <2>2
<1>10. \A u, v \in Busy : worker'[u].of = worker'[v].of => u = v
  BY <1>5, <1>6 DEF HonestInv
<1>11. /\ sending'["unchecked"] = <<>>
       /\ sending'["checked"] = Append(sending["checked"], m)
       /\ sending["checked"] \in Seq(Sendable) /\ m \in Sendable
  <2>1. sending'["unchecked"] = sending["unchecked"] /\ sending'["checked"] = Append(sending["checked"], m)
    BY <1>4 DEF GatherBase, GatherTypes, Channels
  <2>2. sending["checked"] \in Seq(Sendable)
    BY DEF GatherBase, GatherTypes, Channels
  <2>3. worker[w] \in Doing
    BY DEF GatherBase, GatherTypes
  <2>4. m \in Sendable
    BY <2>3 DEF Doing
  <2> QED
    BY <2>1, <2>2, <2>4 DEF HonestInv
<1>12. ASSUME NEW i \in 1..Len(sending'["checked"]), NEW j \in 1..Len(sending'["checked"]),
              sending'["checked"][i] = sending'["checked"][j]
       PROVE  i = j
  <2> DEFINE s == sending["checked"]
             t == sending'["checked"]
  <2>1. Len(s) \in Nat /\ Len(t) = Len(s) + 1 /\ t[Len(s) + 1] = m /\ \A k \in 1..Len(s) : t[k] = s[k]
    BY <1>11
  <2>2. \A k \in 1..Len(s) : s[k] # m
    BY <1>7 DEF Queued
  <2>3. \A k \in 1..Len(t) : k = Len(s) + 1 \/ k \in 1..Len(s)
    BY <2>1
  <2>4. \A k, l \in 1..Len(s) : s[k] = s[l] => k = l
    BY DEF HonestInv
  <2> HIDE DEF s, t
  <2>5. t[i] = t[j] /\ i \in 1..Len(t) /\ j \in 1..Len(t)
    BY <1>12 DEF t
  <2> QED
    BY <2>1, <2>2, <2>3, <2>4, <2>5
<1>13. \A x \in Queued("checked")' : x \notin accepted /\ \E e \in snapshot \ checkedQueue : x \in Sends(e)
  BY <1>4, <1>7 DEF HonestInv
<1>14. /\ errs = 0 /\ uncheckedQueue = <<>> /\ checkedQueue \subseteq snapshot
       /\ \A x \in accepted : \E e \in snapshot \ checkedQueue : x \in Sends(e)
       /\ \A n \in DOMAIN families : \E e \in snapshot : \E x \in Sends(e) :
              x.desc.name = n /\ families[n] = [help |-> x.desc.help, type |-> x.type]
       /\ \A e \in snapshot \ {Vec} : KeepsAny(e, keep) => e \in checkedQueue \/ MetricsOf[e] \subseteq collected
  BY DEF HonestInv
<1> QED
  BY <1>1, <1>2, <1>9, <1>10, <1>11, <1>12, <1>13, <1>14 DEF HonestInv, KeepsAny, Names, Sends

\* Fewer collect, and all else is what it was.
LEMMA HonestFrame ==
    ASSUME HonestInv, Busy' \subseteq Busy, \A v \in Busy' : worker'[v] = worker[v],
           UNCHANGED <<sending, collected, checkedQueue, uncheckedQueue, beginVars, resultVars>>
    PROVE  HonestInv'
<1>1. UNCHANGED <<snapshot, keep, errs, accepted, families>>
  BY DEF beginVars, resultVars
<1> SUFFICES ASSUME AllHonest
             PROVE  HonestInv'
  BY HonestKept DEF HonestInv
<1>2. \A ch : Queued(ch)' = Queued(ch)
  BY DEF Queued
<1>3. \A v \in Busy' : /\ worker'[v].of \in snapshot \ checkedQueue /\ worker'[v].to = "checked"
                       /\ worker'[v].left \subseteq Sends(worker'[v].of)
                       /\ \A m \in worker'[v].left : m \notin accepted /\ m \notin Queued("checked")
  BY DEF HonestInv
<1>4. \A u, v \in Busy' : worker'[u].of = worker'[v].of => u = v
  BY DEF HonestInv
<1>5. /\ errs = 0 /\ uncheckedQueue = <<>> /\ checkedQueue \subseteq snapshot
      /\ sending["unchecked"] = <<>>
      /\ \A m \in Queued("checked") :
             m \notin accepted /\ \E c \in snapshot \ checkedQueue : m \in Sends(c)
      /\ \A i, j \in 1..Len(sending["checked"]) :
             sending["checked"][i] = sending["checked"][j] => i = j
      /\ \A m \in accepted : \E c \in snapshot \ checkedQueue : m \in Sends(c)
      /\ \A n \in DOMAIN families : \E c \in snapshot : \E m \in Sends(c) :
             m.desc.name = n /\ families[n] = [help |-> m.desc.help, type |-> m.type]
      /\ \A c \in snapshot \ {Vec} :
             KeepsAny(c, keep) => c \in checkedQueue \/ MetricsOf[c] \subseteq collected
  BY DEF HonestInv
<1> QED
  BY <1>1, <1>2, <1>3, <1>4, <1>5 DEF HonestInv, KeepsAny, Names, Sends

LEMMA DoneHonest ==
    ASSUME GatherBase, HonestInv, NEW w \in Workers, Done(w)
    PROVE  HonestInv'
BY DoneParts, HonestFrame DEF GatherBase

\* An honest collector does not panic.
LEMMA PanicHonest ==
    ASSUME GatherBase, HonestInv, NEW w \in Workers, Panic(w)
    PROVE  HonestInv'
<1>1. UNCHANGED beginVars /\ w \in Busy /\ worker[w].of \in Panicking
  BY DEF Panic, Busy
<1>2. ~AllHonest
  BY <1>1 DEF HonestInv, AllHonest, Honest
<1> QED
  BY <1>1, <1>2, HonestKept DEF HonestInv

LEMMA ReceiveHonest ==
    ASSUME Compatible, GatherBase, RegisteredInv, FlowInv, HonestInv, NEW k \in Channels, Receive(k)
    PROVE  HonestInv'
<1>1. UNCHANGED <<snapshot, keep, collected, checkedQueue, uncheckedQueue, worker, beginVars>>
  BY ReceiveParts DEF GatherBase, beginVars
<1> SUFFICES ASSUME AllHonest
             PROVE  HonestInv'
  BY <1>1, HonestKept DEF HonestInv
<1>2. k = "checked"
  BY ReceiveParts DEF GatherBase, HonestInv, Channels
<1> DEFINE r == Head(sending["checked"])
<1>3. /\ sending["checked"] # <<>>
      /\ sending' = [sending EXCEPT !["checked"] = Tail(@)]
      /\ Queued("checked") = {r} \cup Queued("checked")'
      /\ IF r.desc.name \in keep THEN ProcessMetric(r, "checked") ELSE UNCHANGED resultVars
  BY <1>2, ReceiveParts DEF GatherBase
<1>4. Busy' = Busy
  BY <1>1 DEF Busy
<1>5. /\ sending'["unchecked"] = <<>>
      /\ sending'["checked"] = Tail(sending["checked"])
      /\ sending["checked"] \in Seq(Sendable)
  <2>1. sending'["unchecked"] = sending["unchecked"] /\ sending'["checked"] = Tail(sending["checked"])
    BY <1>3 DEF GatherBase, GatherTypes, Channels
  <2> QED
    BY <2>1 DEF HonestInv, GatherBase, GatherTypes, Channels
<1>6. /\ r \notin Queued("checked")'
      /\ \A i, j \in 1..Len(sending'["checked"]) : sending'["checked"][i] = sending'["checked"][j] => i = j
  <2> DEFINE s == sending["checked"]
             t == sending'["checked"]
  <2>1. /\ Len(s) \in Nat /\ Len(s) > 0 /\ Len(t) = Len(s) - 1 /\ r = s[1]
        /\ \A i \in 1..Len(t) : t[i] = s[i + 1]
    <3>1. s \in Seq(Sendable) /\ s # <<>> /\ t = Tail(s)
      BY <1>3, <1>5
    <3> HIDE DEF s, t
    <3>2. Len(s) \in Nat /\ Len(s) > 0 /\ Len(t) = Len(s) - 1 /\ Head(s) = s[1]
      BY <3>1
    <3>3. \A i \in 1..Len(t) : t[i] = s[i + 1]
      BY <3>1, <3>2
    <3> QED
      BY <3>2, <3>3 DEF s
  <2>2. \A i, j \in 1..Len(s) : s[i] = s[j] => i = j
    BY DEF HonestInv
  <2>3. Queued("checked")' = {t[i] : i \in 1..Len(t)}
    BY DEF Queued
  <2> HIDE DEF s, t, r
  <2>4. \A i \in 1..Len(t) : i \in Nat /\ i + 1 \in 1..Len(s) /\ i + 1 # 1 /\ 1 \in 1..Len(s)
    BY <2>1
  <2>5. \A i \in 1..Len(t) : t[i] # r
    BY <2>1, <2>2, <2>4
  <2>6. ASSUME NEW i \in 1..Len(t), NEW j \in 1..Len(t), t[i] = t[j]
        PROVE  i = j
    <3>1. i + 1 = j + 1
      BY <2>1, <2>2, <2>4, <2>6
    <3> QED
      BY <2>4, <3>1
  <2>7. r \notin Queued("checked")'
    BY <2>3, <2>5
  <2> QED
    BY <2>6, <2>7 DEF t
<1> HIDE DEF r
<1>7. PICK c \in snapshot \ checkedQueue : r \in Sends(c)
  BY <1>3 DEF HonestInv
<1>8. r \notin accepted
  BY <1>3 DEF HonestInv
<1>9. /\ errs' = 0 /\ accepted \subseteq accepted' /\ accepted' \subseteq accepted \cup {r}
      /\ \A n \in DOMAIN families' :
            \/ n = r.desc.name /\ families'[n] = [help |-> r.desc.help, type |-> r.type]
            \/ n \in DOMAIN families /\ families'[n] = families[n]
  <2>1. CASE r.desc.name \notin keep
    BY <1>3, <2>1 DEF resultVars, HonestInv
  <2>2. CASE r.desc.name \in keep
    <3>1. ProcessMetric(r, "checked")
      BY <1>3, <2>2
    <3>2. HasFamily(r) /\ Fresh(r) /\ Described(r, "checked")
      BY <1>7, <1>8, HonestFits DEF GatherBase
    <3>3. errs' = errs /\ accepted' = accepted \cup {r}
      BY <3>1, <3>2 DEF ProcessMetric
    <3>4. errs = 0
      BY DEF HonestInv
    <3>5. /\ DOMAIN families' = DOMAIN families \cup {r.desc.name}
          /\ families'[r.desc.name] = [help |-> r.desc.help, type |-> r.type]
          /\ \A n \in DOMAIN families : families'[n] = families[n]
      BY <3>1, <3>2, ProcessedFamilies
    <3> QED
      BY <3>3, <3>4, <3>5
  <2> QED
    BY <2>1, <2>2
<1>10. ASSUME NEW v \in Busy'
       PROVE  /\ worker'[v].of \in snapshot \ checkedQueue /\ worker'[v].to = "checked"
              /\ worker'[v].left \subseteq Sends(worker'[v].of)
              /\ \A m \in worker'[v].left : m \notin accepted' /\ m \notin Queued("checked")'
  BY <1>1, <1>3, <1>4, <1>9 DEF HonestInv
<1>11. \A m \in Queued("checked")' : m \notin accepted' /\ \E e \in snapshot \ checkedQueue : m \in Sends(e)
  BY <1>3, <1>6, <1>9 DEF HonestInv
<1>12. \A m \in accepted' : \E e \in snapshot \ checkedQueue : m \in Sends(e)
  BY <1>7, <1>9 DEF HonestInv
<1>13. \A n \in DOMAIN families' : \E e \in snapshot : \E m \in Sends(e) :
           m.desc.name = n /\ families'[n] = [help |-> m.desc.help, type |-> m.type]
  BY <1>7, <1>9 DEF HonestInv
<1>14. /\ uncheckedQueue = <<>> /\ checkedQueue \subseteq snapshot
       /\ \A u, v \in Busy : worker[u].of = worker[v].of => u = v
       /\ \A e \in snapshot \ {Vec} : KeepsAny(e, keep) => e \in checkedQueue \/ MetricsOf[e] \subseteq collected
  BY DEF HonestInv
<1> QED
  BY <1>1, <1>4, <1>5, <1>6, <1>9, <1>10, <1>11, <1>12, <1>13, <1>14 DEF HonestInv, KeepsAny, Names, Sends

LEMMA HonestStep ==
    ASSUME Compatible, GatherBase, VecInv, RegisteredInv, FlowInv, HonestInv, [Next]_vars
    PROVE  HonestInv'
<1>1. CASE /\ Busy' = Busy /\ \A w \in Busy : worker'[w] = worker[w]
           /\ UNCHANGED <<sending, collected, checkedQueue, uncheckedQueue, beginVars, resultVars>>
  BY <1>1, HonestFrame
<1> QED
  BY <1>1, BeginHonest, TakeHonest, SendHonest, DoneHonest, PanicHonest, ReceiveHonest, OtherParts
     DEF GatherBase

\* With one goroutine that unregisters and collectors that agree with each other: Gather
\* returns all that honest collectors have under the names it was asked for and no error,
\* whatever is registered, unregistered and done to the vector meanwhile; and with any
\* collectors it leaves nothing out silently.
THEOREM AllAccounted ==
    ASSUME \A r1, r2 \in Registrars : r1 = r2, Compatible
    PROVE  Spec => []Accounted
<1>1. Init => RegInv /\ RegisteredInv /\ HonestInv
  <2> SUFFICES ASSUME Init PROVE RegInv /\ RegisteredInv /\ HonestInv
    OBVIOUS
  <2>1. RegInv /\ RegisteredInv
    BY DEF Init, RegInv, UniqueDescs, DescsDisjoint, RegisteredInv
  <2>2. Busy = {}
    BY DEF Init, Busy, Idle
  <2>3. /\ snapshot = {} /\ accepted = {} /\ DOMAIN families = {} /\ checkedQueue = {}
        /\ uncheckedQueue = <<>> /\ errs = 0
        /\ sending["checked"] = <<>> /\ sending["unchecked"] = <<>>
    BY DEF Init
  <2>4. Queued("checked") = {}
    BY <2>3 DEF Queued
  <2> QED
    BY <2>1, <2>2, <2>3, <2>4 DEF HonestInv
<1>2. RegInv /\ [Next]_vars => RegInv'
  BY RegNextInv
<1>3. GatherBase /\ RegInv /\ RegisteredInv /\ [Next]_vars => RegisteredInv'
  BY RegisteredStep DEF GatherBase
<1>4. GatherBase /\ VecInv /\ RegisteredInv /\ FlowInv /\ HonestInv /\ [Next]_vars => HonestInv'
  BY HonestStep
<1>5. GatherBase /\ FlowInv /\ HonestInv => HonestServed
  <2> SUFFICES ASSUME GatherBase, FlowInv, HonestInv, Returned, AllHonest,
                      NEW c \in snapshot \ {Vec}, NEW m \in MetricsOf[c], m.desc.name \in keep
               PROVE  m \in accepted
    BY DEF HonestServed, AllHonest, HonestInv
  <2>1. KeepsAny(c, keep)
    BY DEF AllHonest, Honest, Sends, KeepsAny, Names
  <2>2. checkedQueue = {} /\ ~Flying(m)
    BY NothingQueued, ReturnedEmpty DEF Returned, Gathering, GatherBase, WaitInv
  <2>3. m \in collected /\ errs = 0
    BY <2>1, <2>2 DEF HonestInv
  <2> QED
    BY <2>2, <2>3 DEF FlowInv
<1>6. Spec => []HonestServed
  BY <1>1, <1>2, <1>3, <1>4, <1>5, GatherBased, FlowHolds, RegistryUsesVec, VecInvariance, PTL DEF Spec
<1> QED
  BY <1>6, NothingLeftOut, PTL DEF Accounted

===============================================================================
