------------------------------ MODULE MetricVec ------------------------------
(***************************************************************************)
(* A metric vector (prometheus/vec.go): the map from hashes of label       *)
(* values to the instances that have them, looked up and filled by many    *)
(* goroutines, emptied by users, by idle cleanup and by Reset, and read by *)
(* Collect under the read lock.                                            *)
(*                                                                         *)
(* Abstractions.  The values of all variable labels together, curried ones *)
(* included, are a member of LabelSets, and Hash is any hash of them.  A   *)
(* partial match is the set of label sets it matches.  What is done in one *)
(* critical section is one step; the order within a hash bucket, and the   *)
(* rebuilding of a map that has shrunk, are left out.                      *)
(***************************************************************************)
EXTENDS Naturals, FiniteSets

CONSTANTS
    Callers,     \* goroutines that use the vector
    Readers,     \* goroutines that Collect it
    LabelSets,
    Hash,        \* hashLabelValues and hashLabels
    Matches,     \* the partial matches asked for: sets of label sets
    Instances,   \* what newMetric can create
    None

ASSUME HashAssumption == DOMAIN Hash = LabelSets
ASSUME MatchesAssumption == Matches \subseteq SUBSET LabelSets
ASSUME NoneAssumption == None \notin Instances /\ None \notin LabelSets

VARIABLES
    metrics,   \* metricMap.metrics: the instances in each hash bucket
    values,    \* metricWithLabelValues.values of each instance created, or None
    all,       \* the instances change tracking walks (dirtyShard.all)
    reading,   \* who holds the read lock in Collect
    want       \* per caller: the label set it has not found, or None

vecVars == <<metrics, values, all, reading, want>>

Hashes == {Hash[l] : l \in LabelSets}
Created == {m \in Instances : values[m] # None}
New == CHOOSE m \in Instances : m \notin Created   \* what newMetric returns
Children == UNION {metrics[h] : h \in Hashes}

VecInit ==
    /\ metrics = [h \in Hashes |-> {}]
    /\ values = [m \in Instances |-> None]
    /\ all = {} /\ reading = {}
    /\ want = [p \in Callers |-> None]

-----------------------------------------------------------------------------

\* The write lock waits for those who read.
Unlocked == reading = {}

\* findMetricWithLabelValues, findMetricWithLabels: in the bucket of the hash
Found(l) == {m \in metrics[Hash[l]] : values[m] = l}

\* getOrCreateMetricWithLabelValues, getOrCreateMetricWithLabels, with the read lock
Get(p, l) ==
    /\ want[p] = None
    /\ Found(l) = {}
    /\ want' = [want EXCEPT ![p] = l]
    /\ UNCHANGED <<metrics, values, all, reading>>

\* Mutation of FoundByNow: the second look, with the write lock, is left out.
FoundByNow_Unchecked(l) == {}

\* Another caller may have created it between the two locks.
FoundByNow(l) == Found(l)

\* The same, with the write lock: the instance is created and tracked
Create(p) ==
    /\ want[p] # None
    /\ Unlocked
    /\ want' = [want EXCEPT ![p] = None]
    /\ \/ FoundByNow(want[p]) # {} /\ UNCHANGED <<metrics, values, all>>
       \/ /\ FoundByNow(want[p]) = {}
          /\ Instances \ Created # {}
          /\ LET m == New
             IN /\ metrics' = [metrics EXCEPT ![Hash[want[p]]] = @ \cup {m}]
                /\ values' = [values EXCEPT ![m] = want[p]]
                /\ all' = all \cup {m}
    /\ UNCHANGED reading

\* removeAt: out of its bucket and out of change tracking
RemoveAt(m) ==
    /\ Unlocked
    /\ metrics' = [metrics EXCEPT ![Hash[values[m]]] = @ \ {m}]
    /\ all' = all \ {m}
    /\ UNCHANGED <<values, reading, want>>

\* deleteByHashWithLabelValues, deleteByHashWithLabels, and deleteCollectedIf when
\* its condition holds
Delete(l) == \E m \in Found(l) : RemoveAt(m)

\* deleteMetric: by identity, for change tracking
DeleteMetric(m) == m \in metrics[Hash[values[m]]] /\ RemoveAt(m)

\* Mutation of Untracked: only the one that matches is untracked.
Untracked_Matching(h, s) == {m \in metrics[h] : values[m] \in s}

\* deleteByLabels: all of a bucket is untracked
Untracked(h, s) == metrics[h]

\* The buckets in which findMetricWithPartialLabels finds one
MatchingBuckets(s) == {h \in Hashes : \E m \in metrics[h] : values[m] \in s}

\* DeletePartialMatch: deleteByLabels deletes the buckets that have a match
DeletePartialMatch(s) ==
    /\ Unlocked
    /\ MatchingBuckets(s) # {}
    /\ metrics' = [h \in Hashes |-> IF h \in MatchingBuckets(s) THEN {} ELSE metrics[h]]
    /\ all' = all \ UNION {Untracked(h, s) : h \in MatchingBuckets(s)}
    /\ UNCHANGED <<values, reading, want>>

Reset ==
    /\ Unlocked
    /\ Children # {}
    /\ metrics' = [h \in Hashes |-> {}]
    /\ all' = all \ Children
    /\ UNCHANGED <<values, reading, want>>

\* ReviveTracked: a deleted instance is put back, and tracked again, unless another
\* has its label values by now
Revive(m) ==
    /\ m \in Created \ Children
    /\ Unlocked
    /\ Found(values[m]) = {}
    /\ metrics' = [metrics EXCEPT ![Hash[values[m]]] = @ \cup {m}]
    /\ all' = all \cup {m}
    /\ UNCHANGED <<values, reading, want>>

\* Collect: the read lock is held until everything is sent
CollectLock(p) ==
    /\ p \notin reading
    /\ reading' = reading \cup {p}
    /\ UNCHANGED <<metrics, values, all, want>>

CollectUnlock(p) ==
    /\ p \in reading
    /\ reading' = reading \ {p}
    /\ UNCHANGED <<metrics, values, all, want>>

\* All but Create, with which a Get ends, and Collect
Use == \/ \E p \in Callers, l \in LabelSets : Get(p, l)
       \/ \E l \in LabelSets : Delete(l)
       \/ \E m \in Created : DeleteMetric(m) \/ Revive(m)
       \/ \E s \in Matches : DeletePartialMatch(s)
       \/ Reset

VecNext == \/ Use \/ \E p \in Callers : Create(p)
           \/ \E p \in Readers : CollectLock(p) \/ CollectUnlock(p)

VecSpec == VecInit /\ [][VecNext]_vecVars

-----------------------------------------------------------------------------
(* Properties *)

\* Every variable has its type: what is in the vector has been created.
VecTypeOK ==
    /\ metrics \in [Hashes -> SUBSET Created]
    /\ values \in [Instances -> LabelSets \cup {None}]
    /\ all \subseteq Created /\ reading \subseteq Readers
    /\ want \in [Callers -> LabelSets \cup {None}]

\* However lookups that do not find an instance race with each other, with
\* deletions and with revivals: no two instances of the vector have the same label
\* values, and each is in the bucket of its hash, or a later lookup would not find
\* it and create it again.
OneInstance ==
    /\ \A m1, m2 \in Children : values[m1] = values[m2] => m1 = m2
    /\ \A h \in Hashes : \A m \in metrics[h] : Hash[values[m]] = h

\* On every way in and out of the vector, change tracking follows: what heartbeats
\* and idle cleanup walk is what is in the vector.
TrackedIsInVec == all = Children

=============================================================================
