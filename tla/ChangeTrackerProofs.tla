------------------------ MODULE ChangeTrackerProofs ------------------------
(***************************************************************************)
(* Proofs about ChangeTracker, for any number of writers, counters, shards,*)
(* requests and scrapes: IndInv is inductive, and with it hold the type    *)
(* invariant, EpochMeansListed, NoLostWrite, CutIsOneMoment and the        *)
(* refinement of AtomicCut; with OrderInv hold CausalPrefix and            *)
(* WholeGroups.                                                            *)
(***************************************************************************)
EXTENDS ChangeTracker, FiniteSetTheorems, TLAPS

USE DEF Goto, instanceVars, shardVars, trackerVars, procVars, consumerVars, historyVars

-----------------------------------------------------------------------------
(* Types of the expressions the actions are built from *)

\* A remainder by two is zero or one.
LEMMA ModTwo == \A n \in Int : n % 2 \in 0..1
  OBVIOUS

\* The side count takes from a cut is one of the two.
LEMMA WriterSide == ASSUME TypeOK, NEW w \in Writers PROVE SideOf(w) \in Sides
<1>1. sawCut \in [Writers -> Nat]  BY DEF TypeOK
<1>2. sawCut[w] \in Int  BY <1>1
<1> QED  BY <1>2, ModTwo DEF SideOf, Sides

\* The two sides of a cut are different.
LEMMA CutSides == ASSUME TypeOK
                  PROVE CurSide \in Sides /\ OldSide \in Sides /\ CurSide # OldSide
<1>1. cut \in Int /\ cut + 1 \in Int  BY DEF TypeOK
<1>2. cut % 2 # (cut + 1) % 2  BY <1>1
<1> QED  BY <1>1, <1>2, ModTwo DEF Sides, CurSide, OldSide

\* The instance a goroutine works on is one, and has a shard.
LEMMA ObjHome == ASSUME TypeOK, NEW p \in Procs
                 PROVE obj[p] \in Instances /\ HomeOf(p) \in Shards
  BY ShardsAssumption DEF TypeOK, HomeOf

\* A request is a non-empty sequence of instances.
LEMMA RequestItems ==
    ASSUME NEW w \in Writers
    PROVE  /\ Len(Request[w]) \in Nat /\ 1 \in 1..Len(Request[w])
           /\ \A n \in 1..Len(Request[w]) : Request[w][n] \in Instances
  BY RequestAssumption

\* Adding to one component of a function into Nat.
LEMMA AddOne ==
    ASSUME NEW S, NEW f \in [S -> Nat], NEW i \in S, NEW n \in Nat
    PROVE  [f EXCEPT ![i] = @ + n] \in [S -> Nat]
  OBVIOUS

\* Setting one of the two sides of one component.
LEMMA SetSide ==
    ASSUME NEW S, NEW f \in [S -> [Sides -> Nat]], NEW i \in S, NEW b \in Sides,
           NEW n \in Nat
    PROVE  [f EXCEPT ![i][b] = n] \in [S -> [Sides -> Nat]]
  BY DEF Sides

\* A side's count is a natural number.
LEMMA SinceType == ASSUME TypeOK, NEW i \in Instances, NEW b \in Sides
                   PROVE since[i][b] \in Nat
  BY DEF TypeOK

\* So is an inflight count.
LEMMA InflightType == ASSUME TypeOK, NEW s \in Shards, NEW b \in Sides
                      PROVE inflight[s][b] \in Nat
  BY DEF TypeOK

\* Where the writers and the goroutines in mark are, and what they touch.
LEMMA WriterPlace == ASSUME TypeOK, NEW w \in Writers
                     PROVE /\ w \in Procs /\ obj[w] \in Instances /\ HomeOf(w) \in Shards
                           /\ SideOf(w) \in Sides
  BY ObjHome, WriterSide DEF Procs

\* AddInflight keeps inflight's type, unless it goes below zero.
LEMMA AddInflightType ==
    ASSUME TypeOK, NEW w \in Writers, NEW n \in Int, AddInflight(w, n),
           inflight[HomeOf(w)][SideOf(w)] + n \in Nat
    PROVE  inflight' \in [Shards -> [Sides -> Nat]]
<1>1. inflight \in [Shards -> [Sides -> Nat]]  BY DEF TypeOK
<1>2. HomeOf(w) \in Shards /\ SideOf(w) \in Sides  BY WriterPlace
<1>3. inflight' = [inflight EXCEPT ![HomeOf(w)][SideOf(w)] =
                       inflight[HomeOf(w)][SideOf(w)] + n]
  BY DEF AddInflight
<1> QED  BY <1>1, <1>2, <1>3, SetSide

\* Where a goroutine in mark or add returns to is a place of that goroutine's.
LEMMA AfterMarkPlace ==
    ASSUME NEW p \in Procs
    PROVE  /\ p \in Writers => AfterMark(p) = "leave"
           /\ p = Consumer => AfterMark(p) \in {"fold", "remark"}
  BY WritersAssumption DEF AfterMark

\* A step that moves one goroutine to a place of its own keeps pc's type.
LEMMA PcType ==
    ASSUME TypeOK, NEW p \in Procs, NEW l, pc' = [pc EXCEPT ![p] = l],
           p \in Writers => l \in WriterLabels,
           p = Consumer => l \in ConsumerLabels
    PROVE  /\ pc' \in [Procs -> WriterLabels \cup ConsumerLabels]
           /\ \A v \in Writers : pc'[v] \in WriterLabels
           /\ pc'[Consumer] \in ConsumerLabels
<1>1. /\ pc \in [Procs -> WriterLabels \cup ConsumerLabels]
      /\ \A v \in Writers : pc[v] \in WriterLabels
      /\ pc[Consumer] \in ConsumerLabels
  BY DEF TypeOK
<1>2. l \in WriterLabels \cup ConsumerLabels  BY DEF Procs
<1> QED  BY <1>1, <1>2 DEF Procs

\* The goroutines other than the one that steps stay where they are.
LEMMA PcMoved ==
    ASSUME TypeOK, NEW p \in Procs, NEW l, pc' = [pc EXCEPT ![p] = l]
    PROVE  \A q \in Procs : pc'[q] = IF q = p THEN l ELSE pc[q]
<1>1. pc \in [Procs -> WriterLabels \cup ConsumerLabels]  BY DEF TypeOK
<1> QED  BY <1>1

\* The two outcomes of add's check, and of count's.
LEMMA AddLockCases ==
    ASSUME NEW p \in Procs, AddLock(p)
    PROVE  \/ /\ NotListed(obj[p])
              /\ mu' = [mu EXCEPT ![HomeOf(p)] = p]
              /\ dEpoch' = [dEpoch EXCEPT ![obj[p]] = sEpoch[HomeOf(p)]]
              /\ pc' = [pc EXCEPT ![p] = "append"]
           \/ /\ ~NotListed(obj[p])
              /\ mu' = mu /\ dEpoch' = dEpoch
              /\ pc' = [pc EXCEPT ![p] = AfterMark(p)]
  BY DEF AddLock

\* The two outcomes of count's second load of the cut.
LEMMA RecheckCases ==
    ASSUME NEW w \in Writers, Recheck(w)
    PROVE  \/ /\ cut = sawCut[w]
              /\ made' = [made EXCEPT ![obj[w]] = @ + 1]
              /\ pc' = [pc EXCEPT ![w] = "count"]
           \/ /\ cut # sawCut[w]
              /\ made' = made
              /\ pc' = [pc EXCEPT ![w] = "backout"]
  BY DEF Recheck, CutUnmoved

-----------------------------------------------------------------------------
(* inflight counts the registered writers *)

\* Sets of writers are finite.
LEMMA FiniteWriters == ASSUME NEW S \in SUBSET Writers
                       PROVE IsFiniteSet(S) /\ Cardinality(S) \in Nat
  BY WritersAssumption, FS_Subset, FS_CardinalityType

\* A registered write is counted.
LEMMA InflightPositive ==
    ASSUME IndInv, NEW w \in Writers, Registered(w)
    PROVE  /\ inflight[HomeOf(w)][SideOf(w)] \in Nat
           /\ inflight[HomeOf(w)][SideOf(w)] >= 1
<1> DEFINE R == RegisteredOn(HomeOf(w), SideOf(w))
<1>1. HomeOf(w) \in Shards /\ SideOf(w) \in Sides
  BY ObjHome, WriterSide DEF IndInv, Procs
<1>2. w \in R  BY DEF RegisteredOn
<1>3. IsFiniteSet(R) /\ Cardinality(R) \in Nat
  <2>1. R \subseteq Writers  BY DEF RegisteredOn
  <2> QED  BY <2>1, FiniteWriters
<1>4. Cardinality(R) # 0  BY <1>2, <1>3, FS_EmptySet
<1>5. inflight[HomeOf(w)][SideOf(w)] = Cardinality(R)
  BY <1>1 DEF IndInv, SidesInv
<1> QED  BY <1>3, <1>4, <1>5

-----------------------------------------------------------------------------
(* Every step keeps the types *)

\* Every action keeps the types; the -1 of in.Add rests on InflightPositive.
LEMMA TypeStep == IndInv /\ [Next]_vars => TypeOK'
<1> SUFFICES ASSUME IndInv, [Next]_vars PROVE TypeOK'  OBVIOUS
<1>0. TypeOK  BY DEF IndInv
<1> USE DEF Procs, WriterLabels, ConsumerLabels
<1>1. ASSUME NEW w \in Writers, BeginRequest(w) PROVE TypeOK'
  <2>1. requests' \in [Writers -> Nat]
    BY <1>0, <1>1, AddOne DEF TypeOK, BeginRequest
  <2>2. obj' \in [Procs -> Instances]
    BY <1>0, <1>1, RequestItems DEF TypeOK, BeginRequest
  <2>3. step' \in [Writers -> Nat] /\ \A v \in Writers : step'[v] \in 1..Len(Request[v])
    BY <1>0, <1>1, RequestItems DEF TypeOK, BeginRequest
  <2> QED
    BY <1>0, <1>1, <2>1, <2>2, <2>3, WritersAssumption DEF TypeOK, BeginRequest
<1>2. ASSUME NEW w \in Writers, Add(w) PROVE TypeOK'
  <2>0. value \in [Instances -> Nat] /\ obj[w] \in Instances
    BY <1>0, WriterPlace DEF TypeOK
  <2>1. value' \in [Instances -> Nat]
    BY <1>2, <2>0, AddOne DEF Add
  <2> QED  BY <1>0, <1>2, <2>1, WritersAssumption DEF TypeOK, Add
<1>3. ASSUME NEW w \in Writers, LoadCut(w) PROVE TypeOK'
  BY <1>0, <1>3, WritersAssumption DEF TypeOK, LoadCut
<1>4. ASSUME NEW w \in Writers, Enter(w) PROVE TypeOK'
  <2>1. inflight[HomeOf(w)][SideOf(w)] + 1 \in Nat
    BY <1>0, WriterPlace, InflightType
  <2>2. inflight' \in [Shards -> [Sides -> Nat]]
    BY <1>0, <1>4, <2>1, AddInflightType DEF Enter
  <2> QED  BY <1>0, <1>4, <2>2, WritersAssumption DEF TypeOK, Enter
<1>5. ASSUME NEW w \in Writers, Recheck(w) PROVE TypeOK'
  <2>1. obj[w] \in Instances /\ made \in [Instances -> Nat]
    BY <1>0, WriterPlace DEF TypeOK
  <2>2. made' \in [Instances -> Nat]  BY <1>5, <2>1, AddOne, RecheckCases
  <2>3. pc' = [pc EXCEPT ![w] = "count"] \/ pc' = [pc EXCEPT ![w] = "backout"]
    BY <1>5, RecheckCases
  <2>4. /\ pc' \in [Procs -> WriterLabels \cup ConsumerLabels]
        /\ \A v \in Writers : pc'[v] \in WriterLabels
        /\ pc'[Consumer] \in ConsumerLabels
    BY <1>0, <2>3, WritersAssumption DEF TypeOK
  <2> QED  BY <1>0, <1>5, <2>2, <2>4 DEF TypeOK, Recheck
<1>6. ASSUME NEW w \in Writers, BackOut(w) PROVE TypeOK'
  <2>1. inflight[HomeOf(w)][SideOf(w)] + (-1) \in Nat
    BY <1>6, InflightPositive DEF BackOut, Registered
  <2>2. inflight' \in [Shards -> [Sides -> Nat]]
    BY <1>0, <1>6, <2>1, AddInflightType DEF BackOut
  <2> QED  BY <1>0, <1>6, <2>2, WritersAssumption DEF TypeOK, BackOut
<1>7. ASSUME NEW w \in Writers, Count(w) PROVE TypeOK'
  <2>1. since[obj[w]][SideOf(w)] + 1 \in Nat
    BY <1>0, WriterPlace, SinceType
  <2>2. since \in [Instances -> [Sides -> Nat]] /\ obj[w] \in Instances /\ SideOf(w) \in Sides
    BY <1>0, WriterPlace DEF TypeOK
  <2>3. since' = [since EXCEPT ![obj[w]][SideOf(w)] = since[obj[w]][SideOf(w)] + 1]
    BY <1>7 DEF Count
  <2>4. since' \in [Instances -> [Sides -> Nat]]
    BY <2>1, <2>2, <2>3, SetSide
  <2> QED  BY <1>0, <1>7, <2>4, WritersAssumption DEF TypeOK, Count
<1>8. ASSUME NEW w \in Writers, Leave(w) PROVE TypeOK'
  <2>1. inflight[HomeOf(w)][SideOf(w)] + (-1) \in Nat
    BY <1>8, InflightPositive DEF Leave, Registered
  <2>2. inflight' \in [Shards -> [Sides -> Nat]]
    BY <1>0, <1>8, <2>1, AddInflightType DEF Leave
  <2>3. CASE step[w] < Len(Request[w])
    <3>0. step[w] \in 1..Len(Request[w]) /\ Len(Request[w]) \in Nat
      BY <1>0, RequestItems DEF TypeOK
    <3>1. step[w] + 1 \in 1..Len(Request[w]) /\ step[w] + 1 \in Nat
      BY <2>3, <3>0
    <3>2. /\ step' = [step EXCEPT ![w] = step[w] + 1]
          /\ obj' = [obj EXCEPT ![w] = Request[w][step[w] + 1]]
          /\ pc' = [pc EXCEPT ![w] = "add"]
          /\ readers' = readers
      BY <1>8, <2>3 DEF Leave
    <3>3. step' \in [Writers -> Nat] /\ \A v \in Writers : step'[v] \in 1..Len(Request[v])
      BY <1>0, <3>1, <3>2 DEF TypeOK
    <3>4. obj' \in [Procs -> Instances]
      BY <1>0, <3>1, <3>2, RequestItems DEF TypeOK
    <3>5. /\ pc' \in [Procs -> WriterLabels \cup ConsumerLabels]
          /\ \A v \in Writers : pc'[v] \in WriterLabels
          /\ pc'[Consumer] \in ConsumerLabels
      BY <1>0, <3>2, WritersAssumption DEF TypeOK
    <3> QED  BY <1>0, <1>8, <2>2, <3>2, <3>3, <3>4, <3>5 DEF TypeOK, Leave
  <2>4. CASE ~(step[w] < Len(Request[w]))
    <3>1. /\ readers' = readers \ {w} /\ step' = step /\ obj' = obj
          /\ pc' = [pc EXCEPT ![w] = "rest"]
      BY <1>8, <2>4 DEF Leave
    <3>2. /\ pc' \in [Procs -> WriterLabels \cup ConsumerLabels]
          /\ \A v \in Writers : pc'[v] \in WriterLabels
          /\ pc'[Consumer] \in ConsumerLabels
      BY <1>0, <3>1, PcType, WritersAssumption
    <3>3. readers' \subseteq Grouped  BY <1>0, <3>1 DEF TypeOK
    <3> QED  BY <1>0, <1>8, <2>2, <3>1, <3>2, <3>3 DEF TypeOK, Leave
  <2> QED  BY <2>3, <2>4
<1>9. ASSUME NEW p \in Procs, MarkLoad(p) PROVE TypeOK'
  BY <1>0, <1>9, WritersAssumption DEF TypeOK, MarkLoad
<1>10. ASSUME NEW p \in Procs, MarkCompare(p) PROVE TypeOK'
  BY <1>0, <1>10, WritersAssumption DEF TypeOK, MarkCompare, AfterMark
<1>11. ASSUME NEW p \in Procs, AddLock(p) PROVE TypeOK'
  <2>1. obj[p] \in Instances /\ HomeOf(p) \in Shards  BY <1>0, ObjHome
  <2>2. CASE /\ mu' = [mu EXCEPT ![HomeOf(p)] = p]
             /\ dEpoch' = [dEpoch EXCEPT ![obj[p]] = sEpoch[HomeOf(p)]]
             /\ pc' = [pc EXCEPT ![p] = "append"]
    BY <1>0, <1>11, <2>1, <2>2, WritersAssumption DEF TypeOK, AddLock
  <2>3. CASE mu' = mu /\ dEpoch' = dEpoch /\ pc' = [pc EXCEPT ![p] = AfterMark(p)]
    BY <1>0, <1>11, <2>3, WritersAssumption DEF TypeOK, AddLock, AfterMark
  <2> QED  BY <1>11, <2>2, <2>3, AddLockCases
<1>12. ASSUME NEW p \in Procs, AddAppend(p) PROVE TypeOK'
  <2>1. obj[p] \in Instances /\ HomeOf(p) \in Shards  BY <1>0, ObjHome
  <2>2. /\ dirty \in [Shards -> SUBSET Instances]
        /\ mu \in [Shards -> Procs \cup {None}]
    BY <1>0 DEF TypeOK
  <2>3. /\ dirty' = [dirty EXCEPT ![HomeOf(p)] = dirty[HomeOf(p)] \cup {obj[p]}]
        /\ mu' = [mu EXCEPT ![HomeOf(p)] = None]
        /\ pc' = [pc EXCEPT ![p] = AfterMark(p)]
    BY <1>12 DEF AddAppend
  <2>4. dirty' \in [Shards -> SUBSET Instances]
    <3>1. dirty[HomeOf(p)] \cup {obj[p]} \in SUBSET Instances  BY <2>1, <2>2
    <3> QED  BY <2>1, <2>2, <2>3, <3>1
  <2>5. mu' \in [Shards -> Procs \cup {None}]  BY <2>1, <2>2, <2>3
  <2>6. /\ pc' \in [Procs -> WriterLabels \cup ConsumerLabels]
        /\ \A v \in Writers : pc'[v] \in WriterLabels
        /\ pc'[Consumer] \in ConsumerLabels
    BY <1>0, <2>3, PcType, AfterMarkPlace
  <2> QED  BY <1>0, <1>12, <2>4, <2>5, <2>6 DEF TypeOK, AddAppend
<1>13. ASSUME NEW i \in Instances, FoldSwap(i) PROVE TypeOK'
  <2>1. since[i][OldSide] \in Nat  BY <1>0, CutSides, SinceType
  <2>2. atCut' \in [Instances -> Nat]
    BY <1>0, <1>13, <2>1, AddOne DEF TypeOK, FoldSwap
  <2>3. since' \in [Instances -> [Sides -> Nat]]
    BY <1>0, <1>13, CutSides, SetSide DEF TypeOK, FoldSwap
  <2> QED  BY <1>0, <1>13, <2>2, <2>3, WritersAssumption DEF TypeOK, FoldSwap
<1>14. ASSUME NEW i \in Instances, MarkChanged(i) PROVE TypeOK'
  BY <1>0, <1>14, WritersAssumption DEF TypeOK, MarkChanged
<1>15. CASE BeginCut
  BY <1>0, <1>15, WritersAssumption DEF TypeOK, BeginCut
<1>16. CASE MoveCut
  <2>1. cut' \in Nat /\ shard' \in Shards
    BY <1>0, <1>16, ShardsAssumption DEF TypeOK, MoveCut, Shards
  <2> QED  BY <1>0, <1>16, <2>1, WritersAssumption DEF TypeOK, MoveCut
<1>17. CASE Drain
  <2>1. shard' \in Shards
    BY <1>0, <1>17, ShardsAssumption DEF TypeOK, Drain, Shards
  <2> QED  BY <1>0, <1>17, <2>1, WritersAssumption DEF TypeOK, Drain
<1>18. CASE TakeShard
  <2>1. sEpoch[shard] + 1 \in Nat  BY <1>0 DEF TypeOK
  <2>2. sEpoch' \in [Shards -> Nat]
    BY <1>0, <1>18, <2>1 DEF TypeOK, TakeShard, NextEpoch
  <2> QED  BY <1>0, <1>18, <2>2, WritersAssumption DEF TypeOK, TakeShard
<1>19. CASE FoldCheck
  BY <1>0, <1>19, WritersAssumption DEF TypeOK, FoldCheck
<1>20. CASE TakeNext
  <2>1. shard' \in Shards
    BY <1>0, <1>20, ShardsAssumption DEF TypeOK, TakeNext, Shards
  <2> QED  BY <1>0, <1>20, <2>1, WritersAssumption DEF TypeOK, TakeNext
<1>21. CASE Deliver
  BY <1>0, <1>21, WritersAssumption DEF TypeOK, Deliver
<1>22. CASE Undelivered
  BY <1>0, <1>22, WritersAssumption DEF TypeOK, Undelivered, PutBack
<1>23. CASE PutBackDone
  BY <1>0, <1>23, WritersAssumption DEF TypeOK, PutBackDone
<1>24. CASE UNCHANGED vars
  BY <1>0, <1>24 DEF TypeOK, vars
<1> QED
  BY <1>1, <1>2, <1>3, <1>4, <1>5, <1>6, <1>7, <1>8, <1>9, <1>10, <1>11, <1>12, <1>13,
     <1>14, <1>15, <1>16, <1>17, <1>18, <1>19, <1>20, <1>21, <1>22, <1>23, <1>24
  DEF Next, WriterStep, ConsumerStep, Mark, Terminating

-----------------------------------------------------------------------------
(* Every step keeps the consumer's place *)

\* Cut, Take and the settling of a scrape follow one another.
LEMMA ConsumerPlaceStep == IndInv /\ [Next]_vars => ConsumerPlace'
<1> SUFFICES ASSUME IndInv, [Next]_vars PROVE ConsumerPlace'  OBVIOUS
<1>0. TypeOK /\ TypeOK' /\ ConsumerPlace /\ ListsInv  BY TypeStep DEF IndInv

<1>1. ASSUME NEW w \in Writers, BeginRequest(w) PROVE ConsumerPlace'
  BY <1>0, <1>1, WritersAssumption
  DEF BeginRequest, ConsumerPlace, TypeOK, Procs, HomeOf, AfterMark, InScrape, PutBack,
      WriterLabels, ConsumerLabels
<1>2. ASSUME NEW w \in Writers, Add(w) PROVE ConsumerPlace'
  BY <1>0, <1>2, WritersAssumption
  DEF Add, ConsumerPlace, TypeOK, Procs, HomeOf, AfterMark, InScrape, PutBack,
      WriterLabels, ConsumerLabels
<1>3. ASSUME NEW w \in Writers, LoadCut(w) PROVE ConsumerPlace'
  BY <1>0, <1>3, WritersAssumption
  DEF LoadCut, ConsumerPlace, TypeOK, Procs, HomeOf, AfterMark, InScrape, PutBack,
      WriterLabels, ConsumerLabels
<1>4. ASSUME NEW w \in Writers, Enter(w) PROVE ConsumerPlace'
  BY <1>0, <1>4, WritersAssumption
  DEF Enter, ConsumerPlace, TypeOK, Procs, HomeOf, AfterMark, InScrape, PutBack,
      WriterLabels, ConsumerLabels
<1>5. ASSUME NEW w \in Writers, Recheck(w) PROVE ConsumerPlace'
  <2>1. pc' = [pc EXCEPT ![w] = "count"] \/ pc' = [pc EXCEPT ![w] = "backout"]
    BY <1>5, RecheckCases
  <2>2. pc'[Consumer] = pc[Consumer]
    BY <1>0, <2>1, PcMoved, WritersAssumption DEF Procs
  <2> QED  BY <1>0, <1>5, <2>2 DEF Recheck, ConsumerPlace, HomeOf, InScrape
<1>6. ASSUME NEW w \in Writers, BackOut(w) PROVE ConsumerPlace'
  BY <1>0, <1>6, WritersAssumption
  DEF BackOut, ConsumerPlace, TypeOK, Procs, HomeOf, AfterMark, InScrape, PutBack,
      WriterLabels, ConsumerLabels
<1>7. ASSUME NEW w \in Writers, Count(w) PROVE ConsumerPlace'
  BY <1>0, <1>7, WritersAssumption
  DEF Count, ConsumerPlace, TypeOK, Procs, HomeOf, AfterMark, InScrape, PutBack,
      WriterLabels, ConsumerLabels
<1>8. ASSUME NEW w \in Writers, Leave(w) PROVE ConsumerPlace'
  <2>1. pc'[Consumer] = pc[Consumer] /\ obj'[Consumer] = obj[Consumer]
    <3>1. CASE step[w] < Len(Request[w])
      BY <1>0, <1>8, <3>1, WritersAssumption DEF Leave, TypeOK, Procs
    <3>2. CASE ~(step[w] < Len(Request[w]))
      BY <1>0, <1>8, <3>2, WritersAssumption DEF Leave, TypeOK, Procs
    <3> QED  BY <3>1, <3>2
  <2> QED  BY <1>0, <1>8, <2>1 DEF Leave, ConsumerPlace, HomeOf, InScrape
<1>9. ASSUME NEW p \in Procs, MarkLoad(p) PROVE ConsumerPlace'
  BY <1>0, <1>9, WritersAssumption
  DEF MarkLoad, ConsumerPlace, TypeOK, Procs, HomeOf, AfterMark, InScrape, PutBack,
      WriterLabels, ConsumerLabels
<1>10. ASSUME NEW p \in Procs, MarkCompare(p) PROVE ConsumerPlace'
  BY <1>0, <1>10, WritersAssumption
  DEF MarkCompare, ConsumerPlace, TypeOK, Procs, HomeOf, AfterMark, InScrape, PutBack,
      WriterLabels, ConsumerLabels
<1>11. ASSUME NEW p \in Procs, AddLock(p) PROVE ConsumerPlace'
  <2>1. CASE pc' = [pc EXCEPT ![p] = "append"]
    BY <1>0, <1>11, <2>1, WritersAssumption
    DEF AddLock, ConsumerPlace, TypeOK, Procs, HomeOf, InScrape
  <2>2. CASE pc' = [pc EXCEPT ![p] = AfterMark(p)]
    BY <1>0, <1>11, <2>2, WritersAssumption
    DEF AddLock, ConsumerPlace, TypeOK, Procs, HomeOf, AfterMark, InScrape
  <2> QED  BY <1>11, <2>1, <2>2, AddLockCases
<1>12. ASSUME NEW p \in Procs, AddAppend(p) PROVE ConsumerPlace'
  BY <1>0, <1>12, WritersAssumption
  DEF AddAppend, ConsumerPlace, TypeOK, Procs, HomeOf, AfterMark, InScrape, PutBack,
      WriterLabels, ConsumerLabels
<1>13. ASSUME NEW i \in Instances, FoldSwap(i) PROVE ConsumerPlace'
  BY <1>0, <1>13, WritersAssumption
  DEF FoldSwap, ConsumerPlace, TypeOK, Procs, HomeOf, AfterMark, InScrape, PutBack,
      WriterLabels, ConsumerLabels
<1>14. ASSUME NEW i \in Instances, MarkChanged(i) PROVE ConsumerPlace'
  BY <1>0, <1>14, WritersAssumption
  DEF MarkChanged, ConsumerPlace, TypeOK, Procs, HomeOf, AfterMark, InScrape, PutBack,
      WriterLabels, ConsumerLabels
<1>15. CASE BeginCut
  BY <1>0, <1>15, WritersAssumption
  DEF BeginCut, ConsumerPlace, TypeOK, Procs, HomeOf, AfterMark, InScrape, PutBack,
      WriterLabels, ConsumerLabels
<1>16. CASE MoveCut
  BY <1>0, <1>16, WritersAssumption
  DEF MoveCut, ConsumerPlace, TypeOK, Procs, HomeOf, AfterMark, InScrape, PutBack,
      WriterLabels, ConsumerLabels
<1>17. CASE Drain
  BY <1>0, <1>17, WritersAssumption
  DEF Drain, ConsumerPlace, TypeOK, Procs, HomeOf, AfterMark, InScrape, PutBack,
      WriterLabels, ConsumerLabels
<1>18. CASE TakeShard
  BY <1>0, <1>18, WritersAssumption
  DEF TakeShard, ListsInv, ConsumerPlace, TypeOK, Procs, HomeOf, InScrape
<1>19. CASE FoldCheck
  BY <1>0, <1>19, WritersAssumption
  DEF FoldCheck, ConsumerPlace, TypeOK, Procs, HomeOf, AfterMark, InScrape, PutBack,
      WriterLabels, ConsumerLabels
<1>20. CASE TakeNext
  <2>1. CASE shard < NumShards
    BY <1>0, <1>20, <2>1, WritersAssumption
    DEF TakeNext, ConsumerPlace, TypeOK, Procs, HomeOf, InScrape
  <2>2. CASE ~(shard < NumShards)
    BY <1>0, <1>20, <2>2, WritersAssumption
    DEF TakeNext, ConsumerPlace, TypeOK, Procs, HomeOf, InScrape
  <2> QED  BY <2>1, <2>2
<1>21. CASE Deliver
  BY <1>0, <1>21, WritersAssumption
  DEF Deliver, ConsumerPlace, TypeOK, Procs, HomeOf, AfterMark, InScrape, PutBack,
      WriterLabels, ConsumerLabels
<1>22. CASE Undelivered
  BY <1>0, <1>22, WritersAssumption
  DEF Undelivered, ConsumerPlace, TypeOK, Procs, HomeOf, AfterMark, InScrape, PutBack,
      WriterLabels, ConsumerLabels
<1>23. CASE PutBackDone
  BY <1>0, <1>23, WritersAssumption
  DEF PutBackDone, ConsumerPlace, TypeOK, Procs, HomeOf, AfterMark, InScrape, PutBack,
      WriterLabels, ConsumerLabels
<1>24. CASE UNCHANGED vars
  BY <1>0, <1>24 DEF vars, ConsumerPlace, TypeOK, Procs, HomeOf, AfterMark, InScrape,
     PutBack, WriterLabels, ConsumerLabels
<1> QED
  BY <1>1, <1>2, <1>3, <1>4, <1>5, <1>6, <1>7, <1>8, <1>9, <1>10, <1>11, <1>12, <1>13,
     <1>14, <1>15, <1>16, <1>17, <1>18, <1>19, <1>20, <1>21, <1>22, <1>23, <1>24
  DEF Next, WriterStep, ConsumerStep, Mark, Terminating, Procs
-----------------------------------------------------------------------------
(* Every step keeps the lists, the epochs and the mutexes in agreement *)

\* A step that leaves the lists and the goroutines in add or mark alone.
ListsFrame ==
    /\ UNCHANGED <<dEpoch, sEpoch, dirty, mu, sawEpoch>>
    /\ \A p \in Procs :
           /\ pc'[p] = "append" <=> pc[p] = "append"
           /\ pc[p] = "append" => obj'[p] = obj[p]
           /\ pc'[p] = "compare" => pc[p] = "compare" /\ obj'[p] = obj[p]

\* A step that touches no list, epoch or mutex keeps ListsInv.
LEMMA ListsFrameStep == ListsInv /\ ListsFrame => ListsInv'
  BY DEF ListsInv, ListsFrame, EpochMeansListed, Listed, Appending, HomeOf

\* The mutex has one holder.
LEMMA OneAppending ==
    ASSUME TypeOK, ListsInv, NEW p \in Procs, NEW q \in Procs,
           pc[p] = "append", pc[q] = "append", HomeOf(p) = HomeOf(q)
    PROVE  p = q
  BY ObjHome DEF ListsInv

\* mark, add and Take keep the dirty lists, the epochs and the mutexes in agreement.
LEMMA ListsStep == IndInv /\ [Next]_vars => ListsInv'
<1> SUFFICES ASSUME IndInv, [Next]_vars PROVE ListsInv'  OBVIOUS
<1>0. TypeOK /\ TypeOK' /\ ConsumerPlace /\ ListsInv  BY TypeStep DEF IndInv

<1>1. ASSUME NEW w \in Writers, BeginRequest(w) PROVE ListsInv'
  BY <1>0, <1>1, WritersAssumption, ListsFrameStep
  DEF BeginRequest, ListsFrame, TypeOK, Procs, PutBack
<1>2. ASSUME NEW w \in Writers, Add(w) PROVE ListsInv'
  BY <1>0, <1>2, WritersAssumption, ListsFrameStep
  DEF Add, ListsFrame, TypeOK, Procs, PutBack
<1>3. ASSUME NEW w \in Writers, LoadCut(w) PROVE ListsInv'
  BY <1>0, <1>3, WritersAssumption, ListsFrameStep
  DEF LoadCut, ListsFrame, TypeOK, Procs, PutBack
<1>4. ASSUME NEW w \in Writers, Enter(w) PROVE ListsInv'
  BY <1>0, <1>4, WritersAssumption, ListsFrameStep
  DEF Enter, ListsFrame, TypeOK, Procs, PutBack
<1>5. ASSUME NEW w \in Writers, Recheck(w) PROVE ListsInv'
  <2>1. pc' = [pc EXCEPT ![w] = "count"] \/ pc' = [pc EXCEPT ![w] = "backout"]
    BY <1>5, RecheckCases
  <2> QED
    BY <1>0, <1>5, <2>1, ListsFrameStep DEF Recheck, ListsFrame, TypeOK, Procs
<1>6. ASSUME NEW w \in Writers, BackOut(w) PROVE ListsInv'
  BY <1>0, <1>6, WritersAssumption, ListsFrameStep
  DEF BackOut, ListsFrame, TypeOK, Procs, PutBack
<1>7. ASSUME NEW w \in Writers, Count(w) PROVE ListsInv'
  BY <1>0, <1>7, WritersAssumption, ListsFrameStep
  DEF Count, ListsFrame, TypeOK, Procs, PutBack
<1>8. ASSUME NEW w \in Writers, Leave(w) PROVE ListsInv'
  <2>1. pc'[w] \notin {"append", "compare"}
    BY <1>0, <1>8, WritersAssumption DEF Leave, TypeOK, Procs
  <2>2. \A q \in Procs : q # w => pc'[q] = pc[q] /\ obj'[q] = obj[q]
    BY <1>0, <1>8 DEF Leave, TypeOK, Procs
  <2> QED
    BY <1>0, <1>8, <2>1, <2>2, ListsFrameStep DEF Leave, ListsFrame
<1>9. ASSUME NEW p \in Procs, MarkLoad(p) PROVE ListsInv'
  <2>1. /\ UNCHANGED <<dEpoch, sEpoch, dirty, mu, obj>>
        /\ \A q \in Procs : pc'[q] = "append" <=> pc[q] = "append"
    BY <1>0, <1>9 DEF MarkLoad, TypeOK
  <2>2. ASSUME NEW q \in Procs, pc'[q] = "compare" PROVE sawEpoch'[q] <= dEpoch'[obj'[q]]
    <3>1. CASE q = p
      <4>1. sawEpoch'[q] = dEpoch[obj[q]] /\ dEpoch[obj[q]] \in Nat
        BY <1>0, <1>9, <3>1, ObjHome DEF MarkLoad, TypeOK
      <4> QED  BY <2>1, <4>1
    <3>2. CASE q # p
      BY <1>0, <1>9, <2>1, <2>2, <3>2 DEF MarkLoad, TypeOK, ListsInv
    <3> QED  BY <3>1, <3>2
  <2>3. EpochMeansListed'
    BY <1>0, <2>1 DEF ListsInv, EpochMeansListed, Listed, Appending
  <2> QED  BY <1>0, <2>1, <2>2, <2>3 DEF ListsInv, HomeOf
<1>10. ASSUME NEW p \in Procs, MarkCompare(p) PROVE ListsInv'
  <2>1. AfterMark(p) \notin {"append", "compare"}
    BY WritersAssumption DEF AfterMark, Procs
  <2>2. pc' = [pc EXCEPT ![p] = AfterMark(p)] \/ pc' = [pc EXCEPT ![p] = "lock"]
    BY <1>10 DEF MarkCompare
  <2> QED
    BY <1>0, <1>10, <2>1, <2>2, ListsFrameStep DEF MarkCompare, ListsFrame, TypeOK
<1>11. ASSUME NEW p \in Procs, AddLock(p) PROVE ListsInv'
  <2>0. obj[p] \in Instances /\ HomeOf(p) \in Shards  BY <1>0, ObjHome
  <2>1. CASE /\ mu' = [mu EXCEPT ![HomeOf(p)] = p]
             /\ dEpoch' = [dEpoch EXCEPT ![obj[p]] = sEpoch[HomeOf(p)]]
             /\ pc' = [pc EXCEPT ![p] = "append"]
    <3>1. /\ UNCHANGED <<sEpoch, dirty, obj, sawEpoch>> /\ mu[HomeOf(p)] = None
          /\ pc[p] = "lock"
      BY <1>11 DEF AddLock
    <3>2. \A i \in Instances : /\ dEpoch'[i] \in Nat /\ dEpoch[i] \in Nat
                               /\ sEpoch[ShardOf[i]] \in Nat
      BY <1>0, ShardsAssumption DEF TypeOK
    <3>3. ASSUME NEW i \in Instances
          PROVE  dEpoch[i] <= dEpoch'[i] /\ dEpoch'[i] <= sEpoch'[ShardOf[i]]
      <4>1. dEpoch[i] <= sEpoch[ShardOf[i]]  BY <1>0 DEF ListsInv
      <4>2. dEpoch'[i] = IF i = obj[p] THEN sEpoch[ShardOf[i]] ELSE dEpoch[i]
        BY <1>0, <2>0, <2>1 DEF HomeOf, TypeOK
      <4> QED  BY <3>1, <3>2, <4>1, <4>2
    <3>4. ASSUME NEW s \in Shards, NEW q \in Procs
          PROVE  mu'[s] = q <=> pc'[q] = "append" /\ HomeOf(q)' = s
      <4>1. mu[s] = q <=> pc[q] = "append" /\ HomeOf(q) = s  BY <1>0 DEF ListsInv
      <4>2. mu'[s] = IF s = HomeOf(p) THEN p ELSE mu[s]  BY <1>0, <2>0, <2>1 DEF TypeOK
      <4>3. pc'[q] = IF q = p THEN "append" ELSE pc[q]  BY <1>0, <2>1 DEF TypeOK
      <4>4. HomeOf(q)' = HomeOf(q)  BY <3>1 DEF HomeOf
      <4> QED  BY <3>1, <4>1, <4>2, <4>3, <4>4, NoneAssumption
    <3>5. ASSUME NEW q \in Procs, pc'[q] = "compare" PROVE sawEpoch'[q] <= dEpoch'[obj'[q]]
      <4>1. pc[q] = "compare"  BY <1>0, <2>1, <3>5 DEF TypeOK
      <4>2. sawEpoch[q] <= dEpoch[obj[q]] /\ sawEpoch[q] \in Nat /\ obj[q] \in Instances
        BY <1>0, <4>1, ObjHome DEF ListsInv, TypeOK
      <4> QED  BY <3>1, <3>2, <3>3, <4>2
    <3>6. EpochMeansListed'
      <4> SUFFICES ASSUME NEW i \in Instances
                   PROVE  (dEpoch'[i] = sEpoch'[ShardOf[i]]) <=> Listed(i)'
        BY DEF EpochMeansListed
      <4>1. CASE i = obj[p]
        BY <1>0, <2>0, <2>1, <3>1, <4>1 DEF Listed, Appending, HomeOf, TypeOK
      <4>2. CASE i # obj[p]
        <5>1. dEpoch'[i] = dEpoch[i]  BY <1>0, <2>0, <2>1, <4>2 DEF TypeOK
        <5>2. \A q \in Procs : Appending(q, i)' <=> Appending(q, i)
          BY <1>0, <2>1, <3>1, <4>2 DEF Appending, TypeOK
        <5>3. (dEpoch[i] = sEpoch[ShardOf[i]]) <=> Listed(i)
          BY <1>0 DEF ListsInv, EpochMeansListed
        <5> QED  BY <3>1, <5>1, <5>2, <5>3 DEF Listed
      <4> QED  BY <4>1, <4>2
    <3> QED  BY <1>0, <3>1, <3>3, <3>4, <3>5, <3>6 DEF ListsInv
  <2>2. CASE mu' = mu /\ dEpoch' = dEpoch /\ pc' = [pc EXCEPT ![p] = AfterMark(p)]
    <3>1. AfterMark(p) \notin {"append", "compare"}
      BY WritersAssumption DEF AfterMark, Procs
    <3> QED
      BY <1>0, <1>11, <2>2, <3>1, ListsFrameStep DEF AddLock, ListsFrame, TypeOK
  <2> QED  BY <1>11, <2>1, <2>2, AddLockCases
<1>12. ASSUME NEW p \in Procs, AddAppend(p) PROVE ListsInv'
  <2>1. obj[p] \in Instances /\ HomeOf(p) \in Shards  BY <1>0, ObjHome
  <2>2. AfterMark(p) \notin {"append", "compare"}
    BY WritersAssumption DEF AfterMark, Procs
  <2>3. /\ UNCHANGED <<dEpoch, sEpoch, obj, sawEpoch>> /\ pc[p] = "append"
        /\ pc' = [pc EXCEPT ![p] = AfterMark(p)]
        /\ mu' = [mu EXCEPT ![HomeOf(p)] = None]
        /\ dirty' = [dirty EXCEPT ![HomeOf(p)] = dirty[HomeOf(p)] \cup {obj[p]}]
    BY <1>12 DEF AddAppend
  <2>4. \A s \in Shards : \A i \in dirty'[s] : ShardOf[i] = s
    <3>1. dirty \in [Shards -> SUBSET Instances]  BY <1>0 DEF TypeOK
    <3>2. \A s \in Shards : dirty'[s] = IF s = HomeOf(p) THEN dirty[s] \cup {obj[p]}
                                                        ELSE dirty[s]
      BY <2>1, <2>3, <3>1
    <3>3. \A s \in Shards : \A i \in dirty[s] : ShardOf[i] = s  BY <1>0 DEF ListsInv
    <3> SUFFICES ASSUME NEW s \in Shards, NEW i \in dirty'[s] PROVE ShardOf[i] = s  OBVIOUS
    <3>4. i \in dirty[s] \/ (s = HomeOf(p) /\ i = obj[p])  BY <3>2
    <3> QED  BY <3>3, <3>4 DEF HomeOf
  <2>5. ASSUME NEW s \in Shards, NEW q \in Procs
        PROVE  mu'[s] = q <=> pc'[q] = "append" /\ HomeOf(q)' = s
    <3>1. /\ mu[s] = q <=> pc[q] = "append" /\ HomeOf(q) = s
          /\ mu[s] = p <=> pc[p] = "append" /\ HomeOf(p) = s
      BY <1>0 DEF ListsInv
    <3>2. mu'[s] = IF s = HomeOf(p) THEN None ELSE mu[s]  BY <1>0, <2>1, <2>3 DEF TypeOK
    <3>3. pc'[q] = IF q = p THEN AfterMark(p) ELSE pc[q]  BY <1>0, <2>3 DEF TypeOK
    <3>4. HomeOf(q)' = HomeOf(q)  BY <2>3 DEF HomeOf
    <3> QED  BY <2>2, <2>3, <3>1, <3>2, <3>3, <3>4, NoneAssumption
  <2>6. \A q \in Procs : pc'[q] = "compare" => sawEpoch'[q] <= dEpoch'[obj'[q]]
    BY <1>0, <2>2, <2>3 DEF ListsInv, TypeOK
  <2>7. ASSUME NEW i \in Instances PROVE Listed(i)' <=> Listed(i)
    <3>1. CASE i = obj[p]
      BY <1>0, <2>1, <2>3, <3>1 DEF Listed, Appending, HomeOf, TypeOK
    <3>2. CASE i # obj[p]
      <4>1. \A q \in Procs : Appending(q, i)' <=> Appending(q, i)
        BY <1>0, <2>3, <3>2 DEF Appending, TypeOK
      <4>2. i \in dirty'[ShardOf[i]] <=> i \in dirty[ShardOf[i]]
        BY <1>0, <2>1, <2>3, <3>2, ShardsAssumption DEF TypeOK
      <4> QED  BY <4>1, <4>2 DEF Listed
    <3> QED  BY <3>1, <3>2
  <2>8. EpochMeansListed'
    BY <1>0, <2>3, <2>7 DEF ListsInv, EpochMeansListed
  <2> QED  BY <1>0, <2>3, <2>4, <2>5, <2>6, <2>8 DEF ListsInv
<1>13. ASSUME NEW i \in Instances, FoldSwap(i) PROVE ListsInv'
  BY <1>0, <1>13, WritersAssumption, ListsFrameStep
  DEF FoldSwap, ListsFrame, TypeOK, Procs, PutBack
<1>14. ASSUME NEW i \in Instances, MarkChanged(i) PROVE ListsInv'
  BY <1>0, <1>14, WritersAssumption, ListsFrameStep
  DEF MarkChanged, ListsFrame, TypeOK, Procs, PutBack
<1>15. CASE BeginCut
  BY <1>0, <1>15, WritersAssumption, ListsFrameStep
  DEF BeginCut, ListsFrame, TypeOK, Procs, PutBack
<1>16. CASE MoveCut
  BY <1>0, <1>16, WritersAssumption, ListsFrameStep
  DEF MoveCut, ListsFrame, TypeOK, Procs, PutBack
<1>17. CASE Drain
  BY <1>0, <1>17, WritersAssumption, ListsFrameStep
  DEF Drain, ListsFrame, TypeOK, Procs, PutBack
<1>18. CASE TakeShard
  <2>1. /\ UNCHANGED <<dEpoch, mu, obj, sawEpoch>> /\ mu[shard] = None /\ shard \in Shards
        /\ pc' = [pc EXCEPT ![Consumer] = "fold"] /\ pc[Consumer] = "swap"
        /\ dirty' = [dirty EXCEPT ![shard] = {}]
        /\ sEpoch' = [sEpoch EXCEPT ![shard] = sEpoch[shard] + 1]
    BY <1>0, <1>18 DEF TakeShard, NextEpoch, TypeOK
  <2>2. \A q \in Procs : /\ pc'[q] = "append" <=> pc[q] = "append"
                         /\ pc'[q] = "compare" <=> pc[q] = "compare"
    BY <1>0, <2>1 DEF TypeOK
  <2>3. \A s \in Shards : sEpoch[s] \in Nat /\ sEpoch'[s] \in Nat  BY <1>0 DEF TypeOK
  <2>4. ASSUME NEW i \in Instances
        PROVE  /\ dEpoch'[i] <= sEpoch'[ShardOf[i]]
               /\ (dEpoch'[i] = sEpoch'[ShardOf[i]]) <=> Listed(i)'
    <3>1. dEpoch[i] \in Nat /\ ShardOf[i] \in Shards /\ dEpoch[i] <= sEpoch[ShardOf[i]]
      BY <1>0, ShardsAssumption DEF TypeOK, ListsInv
    <3>2. (dEpoch[i] = sEpoch[ShardOf[i]]) <=> Listed(i)
      BY <1>0 DEF ListsInv, EpochMeansListed
    <3>3. \A q \in Procs : Appending(q, i)' <=> Appending(q, i)
      BY <2>1, <2>2 DEF Appending
    <3>4. CASE ShardOf[i] = shard
      <4>1. sEpoch'[ShardOf[i]] = sEpoch[ShardOf[i]] + 1 /\ dirty'[ShardOf[i]] = {}
        BY <1>0, <2>1, <3>4 DEF TypeOK
      <4>2. \A q \in Procs : ~Appending(q, i)
        BY <1>0, <2>1, <3>1, <3>4, NoneAssumption DEF ListsInv, Appending, HomeOf
      <4>3. ~Listed(i)'  BY <3>3, <4>1, <4>2 DEF Listed
      <4> QED  BY <2>1, <2>3, <3>1, <4>1, <4>3
    <3>5. CASE ShardOf[i] # shard
      <4>1. sEpoch'[ShardOf[i]] = sEpoch[ShardOf[i]] /\ dirty'[ShardOf[i]] = dirty[ShardOf[i]]
        BY <1>0, <2>1, <3>1, <3>5 DEF TypeOK
      <4> QED  BY <2>1, <3>1, <3>2, <3>3, <4>1 DEF Listed
    <3> QED  BY <3>4, <3>5
  <2>5. \A s \in Shards : \A i \in dirty'[s] : ShardOf[i] = s
    BY <1>0, <2>1 DEF ListsInv, TypeOK
  <2> QED
    BY <1>0, <2>1, <2>2, <2>4, <2>5 DEF ListsInv, EpochMeansListed, HomeOf
<1>19. CASE FoldCheck
  BY <1>0, <1>19, WritersAssumption, ListsFrameStep
  DEF FoldCheck, ListsFrame, TypeOK, Procs, PutBack
<1>20. CASE TakeNext
  <2>1. PICK l \in {"swap", "settle"} : pc' = [pc EXCEPT ![Consumer] = l]
    BY <1>20 DEF TakeNext
  <2>2. Consumer \in Procs /\ pc[Consumer] = "fold"  BY <1>20 DEF TakeNext, Procs
  <2>3. \A q \in Procs : pc'[q] = IF q = Consumer THEN l ELSE pc[q]
    BY <1>0, <2>1, <2>2, PcMoved
  <2> QED  BY <1>0, <1>20, <2>2, <2>3, ListsFrameStep DEF TakeNext, ListsFrame
<1>21. CASE Deliver
  BY <1>0, <1>21, WritersAssumption, ListsFrameStep
  DEF Deliver, ListsFrame, TypeOK, Procs, PutBack
<1>22. CASE Undelivered
  BY <1>0, <1>22, WritersAssumption, ListsFrameStep
  DEF Undelivered, ListsFrame, TypeOK, Procs, PutBack
<1>23. CASE PutBackDone
  BY <1>0, <1>23, WritersAssumption, ListsFrameStep
  DEF PutBackDone, ListsFrame, TypeOK, Procs, PutBack
<1>24. CASE UNCHANGED vars
  BY <1>0, <1>24, ListsFrameStep DEF vars, ListsFrame
<1> QED
  BY <1>1, <1>2, <1>3, <1>4, <1>5, <1>6, <1>7, <1>8, <1>9, <1>10, <1>11, <1>12, <1>13,
     <1>14, <1>15, <1>16, <1>17, <1>18, <1>19, <1>20, <1>21, <1>22, <1>23, <1>24
  DEF Next, WriterStep, ConsumerStep, Mark, Terminating, Procs
-----------------------------------------------------------------------------
(* Every step keeps inflight the number of registered writers *)

\* The third conjunct of SidesInv.
InflightInv ==
    \A s \in Shards, b \in Sides : inflight[s][b] = Cardinality(RegisteredOn(s, b))

\* A step that leaves inflight and the registered writers alone.
InflightFrame ==
    /\ inflight' = inflight
    /\ \A w \in Writers :
           /\ Registered(w)' <=> Registered(w)
           /\ Registered(w) => obj'[w] = obj[w] /\ sawCut'[w] = sawCut[w]

\* A step that registers no write and deregisters none keeps the counts.
LEMMA InflightFrameStep == InflightInv /\ InflightFrame => InflightInv'
<1> SUFFICES ASSUME InflightInv, InflightFrame, NEW s \in Shards, NEW b \in Sides
             PROVE  inflight'[s][b] = Cardinality(RegisteredOn(s, b)')
  BY DEF InflightInv
<1>1. RegisteredOn(s, b)' = RegisteredOn(s, b)
  BY DEF InflightFrame, RegisteredOn, HomeOf, SideOf
<1> QED  BY <1>1 DEF InflightFrame, InflightInv

\* The other writers keep their registration, their counter and their cut.
OthersKept(w) ==
    \A v \in Writers \ {w} : /\ Registered(v)' <=> Registered(v)
                             /\ obj'[v] = obj[v] /\ sawCut'[v] = sawCut[v]

\* in.Add(1) as a writer registers.
LEMMA InflightEnter ==
    ASSUME TypeOK, InflightInv, NEW w \in Writers, AddInflight(w, 1), OthersKept(w),
           ~Registered(w), Registered(w)', obj'[w] = obj[w], sawCut'[w] = sawCut[w]
    PROVE  InflightInv'
<1> SUFFICES ASSUME NEW s \in Shards, NEW b \in Sides
             PROVE  inflight'[s][b] = Cardinality(RegisteredOn(s, b)')
  BY DEF InflightInv
<1>0. /\ HomeOf(w) \in Shards /\ SideOf(w) \in Sides
      /\ HomeOf(w)' = HomeOf(w) /\ SideOf(w)' = SideOf(w)
  BY WriterPlace DEF HomeOf, SideOf
<1>1. RegisteredOn(s, b) \in SUBSET Writers  BY DEF RegisteredOn
<1>2. inflight[s][b] = Cardinality(RegisteredOn(s, b)) /\ inflight[s][b] \in Nat
  BY InflightType DEF InflightInv
<1>3. CASE s = HomeOf(w) /\ b = SideOf(w)
  <2>1. RegisteredOn(s, b)' = RegisteredOn(s, b) \cup {w}
    BY <1>0, <1>3 DEF RegisteredOn, OthersKept, HomeOf, SideOf
  <2>2. w \notin RegisteredOn(s, b)  BY DEF RegisteredOn
  <2>3. Cardinality(RegisteredOn(s, b) \cup {w}) = Cardinality(RegisteredOn(s, b)) + 1
    BY <1>1, <2>2, FiniteWriters, FS_AddElement
  <2>4. inflight'[s][b] = inflight[s][b] + 1
    BY <1>0, <1>3 DEF AddInflight, TypeOK
  <2> QED  BY <1>2, <2>1, <2>3, <2>4
<1>4. CASE ~(s = HomeOf(w) /\ b = SideOf(w))
  <2>1. RegisteredOn(s, b)' = RegisteredOn(s, b)
    BY <1>0, <1>4 DEF RegisteredOn, OthersKept, HomeOf, SideOf
  <2>2. inflight'[s][b] = inflight[s][b]
    BY <1>0, <1>4 DEF AddInflight, TypeOK
  <2> QED  BY <1>2, <2>1, <2>2
<1> QED  BY <1>3, <1>4

\* in.Add(-1) as a writer deregisters.
LEMMA InflightLeave ==
    ASSUME TypeOK, InflightInv, NEW w \in Writers, AddInflight(w, -1), OthersKept(w),
           Registered(w), ~Registered(w)'
    PROVE  InflightInv'
<1> SUFFICES ASSUME NEW s \in Shards, NEW b \in Sides
             PROVE  inflight'[s][b] = Cardinality(RegisteredOn(s, b)')
  BY DEF InflightInv
<1>0. HomeOf(w) \in Shards /\ SideOf(w) \in Sides  BY WriterPlace
<1>1. RegisteredOn(s, b) \in SUBSET Writers  BY DEF RegisteredOn
<1>2. inflight[s][b] = Cardinality(RegisteredOn(s, b)) /\ inflight[s][b] \in Nat
  BY InflightType DEF InflightInv
<1>3. CASE s = HomeOf(w) /\ b = SideOf(w)
  <2>1. RegisteredOn(s, b)' = RegisteredOn(s, b) \ {w}
    BY <1>0, <1>3 DEF RegisteredOn, OthersKept, HomeOf, SideOf
  <2>2. w \in RegisteredOn(s, b)  BY <1>3 DEF RegisteredOn
  <2>3. Cardinality(RegisteredOn(s, b) \ {w}) = Cardinality(RegisteredOn(s, b)) - 1
    BY <1>1, <2>2, FiniteWriters, FS_RemoveElement
  <2>4. inflight'[s][b] = inflight[s][b] + (-1)
    BY <1>0, <1>3 DEF AddInflight, TypeOK
  <2> QED  BY <1>2, <2>1, <2>3, <2>4
<1>4. CASE ~(s = HomeOf(w) /\ b = SideOf(w))
  <2>1. RegisteredOn(s, b)' = RegisteredOn(s, b)
    BY <1>0, <1>4 DEF RegisteredOn, OthersKept, HomeOf, SideOf
  <2>2. inflight'[s][b] = inflight[s][b]
    BY <1>0, <1>4 DEF AddInflight, TypeOK
  <2> QED  BY <1>2, <2>1, <2>2
<1> QED  BY <1>3, <1>4

\* inflight counts the registered writes, shard by shard and side by side.
LEMMA InflightStep == IndInv /\ [Next]_vars => InflightInv'
<1> SUFFICES ASSUME IndInv, [Next]_vars PROVE InflightInv'  OBVIOUS
<1>0. TypeOK /\ TypeOK' /\ InflightInv  BY TypeStep DEF IndInv, SidesInv, InflightInv

<1>1. ASSUME NEW w \in Writers, BeginRequest(w) PROVE InflightInv'
  BY <1>0, <1>1, WritersAssumption, InflightFrameStep
  DEF BeginRequest, InflightFrame, Registered, TypeOK, Procs, PutBack
<1>2. ASSUME NEW w \in Writers, Add(w) PROVE InflightInv'
  BY <1>0, <1>2, WritersAssumption, InflightFrameStep
  DEF Add, InflightFrame, Registered, TypeOK, Procs, PutBack
<1>3. ASSUME NEW w \in Writers, LoadCut(w) PROVE InflightInv'
  BY <1>0, <1>3, WritersAssumption, InflightFrameStep
  DEF LoadCut, InflightFrame, Registered, TypeOK, Procs, PutBack
<1>4. ASSUME NEW w \in Writers, Enter(w) PROVE InflightInv'
  <2>1. /\ OthersKept(w) /\ ~Registered(w) /\ Registered(w)'
        /\ obj'[w] = obj[w] /\ sawCut'[w] = sawCut[w]
    BY <1>0, <1>4 DEF Enter, OthersKept, Registered, TypeOK, Procs
  <2> QED  BY <1>0, <1>4, <2>1, InflightEnter DEF Enter
<1>5. ASSUME NEW w \in Writers, Recheck(w) PROVE InflightInv'
  <2>1. pc' = [pc EXCEPT ![w] = "count"] \/ pc' = [pc EXCEPT ![w] = "backout"]
    BY <1>5, RecheckCases
  <2> QED
    BY <1>0, <1>5, <2>1, InflightFrameStep DEF Recheck, InflightFrame, Registered, TypeOK,
       Procs
<1>6. ASSUME NEW w \in Writers, BackOut(w) PROVE InflightInv'
  <2>1. OthersKept(w) /\ Registered(w) /\ ~Registered(w)'
    BY <1>0, <1>6 DEF BackOut, OthersKept, Registered, TypeOK, Procs
  <2> QED  BY <1>0, <1>6, <2>1, InflightLeave DEF BackOut
<1>7. ASSUME NEW w \in Writers, Count(w) PROVE InflightInv'
  BY <1>0, <1>7, WritersAssumption, InflightFrameStep
  DEF Count, InflightFrame, Registered, TypeOK, Procs, PutBack
<1>8. ASSUME NEW w \in Writers, Leave(w) PROVE InflightInv'
  <2>1. /\ pc[w] = "leave" /\ pc'[w] \in {"add", "rest"}
        /\ \A v \in Writers \ {w} : /\ pc'[v] = pc[v] /\ obj'[v] = obj[v]
                                    /\ sawCut'[v] = sawCut[v]
    BY <1>0, <1>8 DEF Leave, TypeOK, Procs
  <2>2. OthersKept(w) /\ Registered(w) /\ ~Registered(w)'
    BY <2>1 DEF OthersKept, Registered
  <2> QED  BY <1>0, <1>8, <2>2, InflightLeave DEF Leave
<1>9. ASSUME NEW p \in Procs, MarkLoad(p) PROVE InflightInv'
  BY <1>0, <1>9, WritersAssumption, InflightFrameStep
  DEF MarkLoad, InflightFrame, Registered, TypeOK, Procs
<1>10. ASSUME NEW p \in Procs, MarkCompare(p) PROVE InflightInv'
  <2>1. \A w \in Writers : Registered(w)' <=> Registered(w)
    <3>1. PICK l \in {AfterMark(p), "lock"} : pc' = [pc EXCEPT ![p] = l]
      BY <1>10 DEF MarkCompare
    <3>2. \A q \in Procs : pc'[q] = IF q = p THEN l ELSE pc[q]
      BY <1>0, <3>1, PcMoved
    <3> QED  BY <1>10, <3>1, <3>2, AfterMarkPlace DEF MarkCompare, Registered, Procs
  <2> QED  BY <1>0, <1>10, <2>1, InflightFrameStep DEF MarkCompare, InflightFrame
<1>11. ASSUME NEW p \in Procs, AddLock(p) PROVE InflightInv'
  <2>1. \A w \in Writers : Registered(w)' <=> Registered(w)
    <3>1. CASE pc' = [pc EXCEPT ![p] = "append"]
      BY <1>0, <1>11, <3>1 DEF AddLock, Registered, TypeOK, Procs
    <3>2. CASE pc' = [pc EXCEPT ![p] = AfterMark(p)]
      <4>1. \A q \in Procs : pc'[q] = IF q = p THEN AfterMark(p) ELSE pc[q]
        BY <1>0, <3>2, PcMoved
      <4> QED  BY <1>11, <4>1, AfterMarkPlace DEF AddLock, Registered, Procs
    <3> QED  BY <1>11, <3>1, <3>2, AddLockCases
  <2> QED  BY <1>0, <1>11, <2>1, InflightFrameStep DEF AddLock, InflightFrame
<1>12. ASSUME NEW p \in Procs, AddAppend(p) PROVE InflightInv'
  <2>1. \A w \in Writers : Registered(w)' <=> Registered(w)
    <3>1. pc' = [pc EXCEPT ![p] = AfterMark(p)]  BY <1>12 DEF AddAppend
    <3>2. \A q \in Procs : pc'[q] = IF q = p THEN AfterMark(p) ELSE pc[q]
      BY <1>0, <3>1, PcMoved
    <3> QED  BY <1>12, <3>2, AfterMarkPlace DEF AddAppend, Registered, Procs
  <2> QED  BY <1>0, <1>12, <2>1, InflightFrameStep DEF AddAppend, InflightFrame
<1>13. ASSUME NEW i \in Instances, FoldSwap(i) PROVE InflightInv'
  BY <1>0, <1>13, WritersAssumption, InflightFrameStep
  DEF FoldSwap, InflightFrame, Registered, TypeOK, Procs, PutBack
<1>14. ASSUME NEW i \in Instances, MarkChanged(i) PROVE InflightInv'
  BY <1>0, <1>14, WritersAssumption, InflightFrameStep
  DEF MarkChanged, InflightFrame, Registered, TypeOK, Procs, PutBack
<1>15. CASE BeginCut
  BY <1>0, <1>15, WritersAssumption, InflightFrameStep
  DEF BeginCut, InflightFrame, Registered, TypeOK, Procs, PutBack
<1>16. CASE MoveCut
  BY <1>0, <1>16, WritersAssumption, InflightFrameStep
  DEF MoveCut, InflightFrame, Registered, TypeOK, Procs, PutBack
<1>17. CASE Drain
  BY <1>0, <1>17, WritersAssumption, InflightFrameStep
  DEF Drain, InflightFrame, Registered, TypeOK, Procs, PutBack
<1>18. CASE TakeShard
  BY <1>0, <1>18, WritersAssumption, InflightFrameStep
  DEF TakeShard, InflightFrame, Registered, TypeOK, Procs, PutBack
<1>19. CASE FoldCheck
  BY <1>0, <1>19, WritersAssumption, InflightFrameStep
  DEF FoldCheck, InflightFrame, Registered, TypeOK, Procs, PutBack
<1>20. CASE TakeNext
  <2>1. PICK l \in {"swap", "settle"} : pc' = [pc EXCEPT ![Consumer] = l]
    BY <1>20 DEF TakeNext
  <2>0. Consumer \in Procs  BY DEF Procs
  <2>2. \A q \in Procs : pc'[q] = IF q = Consumer THEN l ELSE pc[q]
    BY <1>0, <2>0, <2>1, PcMoved
  <2>3. \A w \in Writers : pc'[w] = pc[w]  BY <2>2, WritersAssumption DEF Procs
  <2> QED  BY <1>0, <1>20, <2>3, InflightFrameStep DEF TakeNext, InflightFrame, Registered
<1>21. CASE Deliver
  BY <1>0, <1>21, WritersAssumption, InflightFrameStep
  DEF Deliver, InflightFrame, Registered, TypeOK, Procs, PutBack
<1>22. CASE Undelivered
  BY <1>0, <1>22, WritersAssumption, InflightFrameStep
  DEF Undelivered, InflightFrame, Registered, TypeOK, Procs, PutBack
<1>23. CASE PutBackDone
  BY <1>0, <1>23, WritersAssumption, InflightFrameStep
  DEF PutBackDone, InflightFrame, Registered, TypeOK, Procs, PutBack
<1>24. CASE UNCHANGED vars
  BY <1>0, <1>24, InflightFrameStep DEF vars, InflightFrame, Registered
<1> QED
  BY <1>1, <1>2, <1>3, <1>4, <1>5, <1>6, <1>7, <1>8, <1>9, <1>10, <1>11, <1>12, <1>13,
     <1>14, <1>15, <1>16, <1>17, <1>18, <1>19, <1>20, <1>21, <1>22, <1>23, <1>24
  DEF Next, WriterStep, ConsumerStep, Mark, Terminating, Procs
-----------------------------------------------------------------------------
(* Every step keeps the decided writes on their side *)

\* The first two conjuncts of SidesInv.
DecidedInv ==
    /\ \A w \in Writers : sawCut[w] <= cut
    /\ \A w \in Writers : Decided(w) =>
           \/ sawCut[w] = cut
           \/ sawCut[w] = cut - 1 /\ pc[Consumer] = "drain" /\ shard <= HomeOf(w)

\* A step that moves neither the cut nor the consumer's drain, and decides no write.
DecidedFrame ==
    /\ UNCHANGED <<cut, shard, sawCut>>
    /\ pc'[Consumer] = "drain" <=> pc[Consumer] = "drain"
    /\ \A w \in Writers : Decided(w)' => Decided(w) /\ obj'[w] = obj[w]

\* A step that moves neither the cut nor a decided write keeps DecidedInv.
LEMMA DecidedFrameStep == DecidedInv /\ DecidedFrame => DecidedInv'
  BY DEF DecidedInv, DecidedFrame, HomeOf

\* A cut that waits for a shard finds no decided write of its old side there
\* once inflight is zero.
LEMMA DrainedShard ==
    ASSUME IndInv, Drain, NEW w \in Writers, Decided(w), HomeOf(w) = shard
    PROVE  sawCut[w] = cut
<1>1. TypeOK /\ SidesInv  BY DEF IndInv
<1>2. SUFFICES ASSUME sawCut[w] = cut - 1 PROVE FALSE  BY <1>1 DEF SidesInv
<1>3. cut \in Int /\ SideOf(w) = OldSide
  <2>1. cut \in Int  BY <1>1 DEF TypeOK
  <2>2. (cut - 1) % 2 = (cut + 1) % 2  BY <2>1
  <2> QED  BY <1>2, <2>1, <2>2 DEF SideOf, OldSide
<1>4. Registered(w)  BY DEF Registered, Decided
<1>5. inflight[shard][OldSide] = 0  BY DEF Drain, ShardDrained
<1> QED  BY <1>3, <1>4, <1>5, InflightPositive

\* Cut moves on past no decided write of its old side.
LEMMA DecidedStep == IndInv /\ [Next]_vars => DecidedInv'
<1> SUFFICES ASSUME IndInv, [Next]_vars PROVE DecidedInv'  OBVIOUS
<1>0. TypeOK /\ TypeOK' /\ DecidedInv  BY TypeStep DEF IndInv, SidesInv, DecidedInv

<1>1. ASSUME NEW w \in Writers, BeginRequest(w) PROVE DecidedInv'
  BY <1>0, <1>1, WritersAssumption, DecidedFrameStep
  DEF BeginRequest, DecidedFrame, Decided, TypeOK, Procs, PutBack
<1>2. ASSUME NEW w \in Writers, Add(w) PROVE DecidedInv'
  BY <1>0, <1>2, WritersAssumption, DecidedFrameStep
  DEF Add, DecidedFrame, Decided, TypeOK, Procs, PutBack
<1>3. ASSUME NEW w \in Writers, LoadCut(w) PROVE DecidedInv'
  <2>1. /\ UNCHANGED <<cut, shard, obj>> /\ pc[w] = "load" /\ pc'[w] = "enter"
        /\ sawCut'[w] = cut /\ pc'[Consumer] = pc[Consumer] /\ cut \in Nat
        /\ \A v \in Writers \ {w} : pc'[v] = pc[v] /\ sawCut'[v] = sawCut[v]
    BY <1>0, <1>3, WritersAssumption DEF LoadCut, TypeOK, Procs
  <2> QED  BY <1>0, <2>1 DEF DecidedInv, Decided, HomeOf
<1>4. ASSUME NEW w \in Writers, Enter(w) PROVE DecidedInv'
  BY <1>0, <1>4, WritersAssumption, DecidedFrameStep
  DEF Enter, DecidedFrame, Decided, TypeOK, Procs, PutBack
<1>5. ASSUME NEW w \in Writers, Recheck(w) PROVE DecidedInv'
  <2>1. UNCHANGED <<cut, shard, sawCut, obj>>  BY <1>5 DEF Recheck
  <2>2. CASE cut = sawCut[w] /\ pc' = [pc EXCEPT ![w] = "count"]
    <3>1. /\ pc'[Consumer] = pc[Consumer]
          /\ \A v \in Writers \ {w} : pc'[v] = pc[v]
      BY <1>0, <2>2, WritersAssumption DEF TypeOK, Procs
    <3> QED  BY <1>0, <2>1, <2>2, <3>1 DEF DecidedInv, Decided, HomeOf
  <2>3. CASE pc' = [pc EXCEPT ![w] = "backout"]
    <3>1. \A q \in Procs : pc'[q] = IF q = w THEN "backout" ELSE pc[q]
      BY <1>0, <2>3, WriterPlace, PcMoved
    <3> QED  BY <1>0, <2>1, <3>1, WritersAssumption, DecidedFrameStep
             DEF DecidedFrame, Decided, Procs
  <2> QED  BY <1>5, <2>2, <2>3, RecheckCases
<1>6. ASSUME NEW w \in Writers, BackOut(w) PROVE DecidedInv'
  BY <1>0, <1>6, WritersAssumption, DecidedFrameStep
  DEF BackOut, DecidedFrame, Decided, TypeOK, Procs, PutBack
<1>7. ASSUME NEW w \in Writers, Count(w) PROVE DecidedInv'
  BY <1>0, <1>7, WritersAssumption, DecidedFrameStep
  DEF Count, DecidedFrame, Decided, TypeOK, Procs, PutBack
<1>8. ASSUME NEW w \in Writers, Leave(w) PROVE DecidedInv'
  <2>1. /\ pc'[w] \in {"add", "rest"} /\ pc'[Consumer] = pc[Consumer]
        /\ \A v \in Writers \ {w} : pc'[v] = pc[v] /\ obj'[v] = obj[v]
    <3>1. PICK l \in {"add", "rest"} : pc' = [pc EXCEPT ![w] = l]
      BY <1>8 DEF Leave
    <3>2. \A q \in Procs : pc'[q] = IF q = w THEN l ELSE pc[q]
      BY <1>0, <3>1, WriterPlace, PcMoved
    <3>3. obj \in [Procs -> Instances]  BY <1>0 DEF TypeOK
    <3>4. \A v \in Writers \ {w} : obj'[v] = obj[v]
      BY <1>8, <3>3 DEF Leave, Procs
    <3> QED  BY <3>1, <3>2, <3>4, WritersAssumption DEF Procs
  <2> QED  BY <1>0, <1>8, <2>1, DecidedFrameStep DEF Leave, DecidedFrame, Decided
<1>9. ASSUME NEW p \in Procs, MarkLoad(p) PROVE DecidedInv'
  BY <1>0, <1>9, WritersAssumption, DecidedFrameStep
  DEF MarkLoad, DecidedFrame, Decided, TypeOK, Procs
<1>10. ASSUME NEW p \in Procs, MarkCompare(p) PROVE DecidedInv'
  <2>1. \A w \in Writers : Decided(w)' => Decided(w)
    <3>1. PICK l \in {AfterMark(p), "lock"} : pc' = [pc EXCEPT ![p] = l]
      BY <1>10 DEF MarkCompare
    <3>2. \A q \in Procs : pc'[q] = IF q = p THEN l ELSE pc[q]
      BY <1>0, <3>1, PcMoved
    <3> QED  BY <1>10, <3>2 DEF MarkCompare, Decided, Procs
  <2>2. pc'[Consumer] = "drain" <=> pc[Consumer] = "drain"
    BY <1>0, <1>10, WritersAssumption DEF MarkCompare, AfterMark, TypeOK, Procs
  <2> QED  BY <1>0, <1>10, <2>1, <2>2, DecidedFrameStep DEF MarkCompare, DecidedFrame
<1>11. ASSUME NEW p \in Procs, AddLock(p) PROVE DecidedInv'
  <2>1. /\ \A w \in Writers : Decided(w)' => Decided(w)
        /\ pc'[Consumer] = "drain" <=> pc[Consumer] = "drain"
    <3>1. CASE pc' = [pc EXCEPT ![p] = "append"]
      BY <1>0, <1>11, <3>1 DEF AddLock, Decided, TypeOK, Procs
    <3>2. CASE pc' = [pc EXCEPT ![p] = AfterMark(p)]
      <4>1. \A q \in Procs : pc'[q] = IF q = p THEN AfterMark(p) ELSE pc[q]
        BY <1>0, <3>2, PcMoved
      <4> QED  BY <1>11, <4>1, AfterMarkPlace, WritersAssumption
               DEF AddLock, Decided, Procs
    <3> QED  BY <1>11, <3>1, <3>2, AddLockCases
  <2> QED  BY <1>0, <1>11, <2>1, DecidedFrameStep DEF AddLock, DecidedFrame
<1>12. ASSUME NEW p \in Procs, AddAppend(p) PROVE DecidedInv'
  <2>0. \A q \in Procs : pc'[q] = IF q = p THEN AfterMark(p) ELSE pc[q]
    <3>1. pc' = [pc EXCEPT ![p] = AfterMark(p)]  BY <1>12 DEF AddAppend
    <3> QED  BY <1>0, <3>1, PcMoved
  <2>1. \A w \in Writers : Decided(w)' => Decided(w)
    BY <1>12, <2>0, AfterMarkPlace DEF AddAppend, Decided, Procs
  <2>2. pc'[Consumer] = "drain" <=> pc[Consumer] = "drain"
    BY <1>12, <2>0, AfterMarkPlace DEF AddAppend, Procs
  <2> QED  BY <1>0, <1>12, <2>1, <2>2, DecidedFrameStep DEF AddAppend, DecidedFrame
<1>13. ASSUME NEW i \in Instances, FoldSwap(i) PROVE DecidedInv'
  BY <1>0, <1>13, WritersAssumption, DecidedFrameStep
  DEF FoldSwap, DecidedFrame, Decided, TypeOK, Procs, PutBack
<1>14. ASSUME NEW i \in Instances, MarkChanged(i) PROVE DecidedInv'
  BY <1>0, <1>14, WritersAssumption, DecidedFrameStep
  DEF MarkChanged, DecidedFrame, Decided, TypeOK, Procs, PutBack
<1>15. CASE BeginCut
  BY <1>0, <1>15, WritersAssumption, DecidedFrameStep
  DEF BeginCut, DecidedFrame, Decided, TypeOK, Procs, PutBack
<1>16. CASE MoveCut
  <2>1. /\ cut' = cut + 1 /\ shard' = 1 /\ UNCHANGED <<sawCut, obj>>
        /\ pc[Consumer] = "cut" /\ pc'[Consumer] = "drain"
        /\ \A v \in Writers : pc'[v] = pc[v]
    BY <1>0, <1>16, WritersAssumption DEF MoveCut, TypeOK, Procs
  <2>2. cut \in Nat /\ \A v \in Writers : sawCut[v] \in Nat /\ HomeOf(v) \in Shards
    BY <1>0, WriterPlace DEF TypeOK
  <2>3. \A v \in Writers : Decided(v) => sawCut[v] = cut
    BY <1>0, <2>1 DEF DecidedInv
  <2>4. \A v \in Writers : 1 <= HomeOf(v)  BY <2>2, ShardsAssumption DEF Shards
  <2> QED  BY <1>0, <2>1, <2>2, <2>3, <2>4 DEF DecidedInv, Decided, HomeOf
<1>17. CASE Drain
  <2>0. /\ UNCHANGED <<cut, sawCut, obj>> /\ pc[Consumer] = "drain"
        /\ \A v \in Writers : pc'[v] = pc[v]
    BY <1>0, <1>17, WritersAssumption DEF Drain, TypeOK, Procs
  <2>1. shard \in Nat /\ NumShards \in Nat /\ shard <= NumShards
    BY <1>0, ShardsAssumption DEF TypeOK, Shards
  <2>2. ASSUME NEW v \in Writers, Decided(v)
        PROVE  \/ sawCut[v] = cut
               \/ sawCut[v] = cut - 1 /\ pc'[Consumer] = "drain" /\ shard' <= HomeOf(v)
    <3>1. CASE sawCut[v] # cut
      <4>1. sawCut[v] = cut - 1 /\ shard <= HomeOf(v)
        BY <1>0, <2>2, <3>1 DEF DecidedInv
      <4>2. HomeOf(v) \in Nat /\ HomeOf(v) <= NumShards
        BY <1>0, WriterPlace, ShardsAssumption DEF Shards
      <4>3. HomeOf(v) # shard  BY <1>17, <2>2, <3>1, DrainedShard
      <4>4. shard < NumShards /\ shard + 1 <= HomeOf(v)
        BY <2>1, <4>1, <4>2, <4>3
      <4>5. shard' = shard + 1 /\ pc' = pc  BY <1>17, <4>4 DEF Drain
      <4> QED  BY <2>0, <4>1, <4>4, <4>5
    <3> QED  BY <3>1
  <2> QED  BY <1>0, <2>0, <2>2 DEF DecidedInv, Decided, HomeOf
<1>18. CASE TakeShard
  BY <1>0, <1>18, WritersAssumption, DecidedFrameStep
  DEF TakeShard, DecidedFrame, Decided, TypeOK, Procs, PutBack
<1>19. CASE FoldCheck
  BY <1>0, <1>19, WritersAssumption, DecidedFrameStep
  DEF FoldCheck, DecidedFrame, Decided, TypeOK, Procs, PutBack
<1>20. CASE TakeNext
  <2>1. pc[Consumer] = "fold" /\ pc'[Consumer] # "drain" /\ UNCHANGED <<cut, sawCut, obj>>
    BY <1>0, <1>20 DEF TakeNext, TypeOK, Procs
  <2>2. \A v \in Writers : pc'[v] = pc[v]
    BY <1>0, <1>20, WritersAssumption DEF TakeNext, TypeOK, Procs
  <2> QED  BY <1>0, <2>1, <2>2 DEF DecidedInv, Decided, HomeOf
<1>21. CASE Deliver
  BY <1>0, <1>21, WritersAssumption, DecidedFrameStep
  DEF Deliver, DecidedFrame, Decided, TypeOK, Procs, PutBack
<1>22. CASE Undelivered
  BY <1>0, <1>22, WritersAssumption, DecidedFrameStep
  DEF Undelivered, DecidedFrame, Decided, TypeOK, Procs, PutBack
<1>23. CASE PutBackDone
  BY <1>0, <1>23, WritersAssumption, DecidedFrameStep
  DEF PutBackDone, DecidedFrame, Decided, TypeOK, Procs, PutBack
<1>24. CASE UNCHANGED vars
  BY <1>0, <1>24, DecidedFrameStep DEF vars, DecidedFrame, Decided
<1> QED
  BY <1>1, <1>2, <1>3, <1>4, <1>5, <1>6, <1>7, <1>8, <1>9, <1>10, <1>11, <1>12, <1>13,
     <1>14, <1>15, <1>16, <1>17, <1>18, <1>19, <1>20, <1>21, <1>22, <1>23, <1>24
  DEF Next, WriterStep, ConsumerStep, Mark, Terminating, Procs

\* Writes stay on the side of the cut they were decided on.
LEMMA SidesStep == IndInv /\ [Next]_vars => SidesInv'
  BY InflightStep, DecidedStep DEF SidesInv, InflightInv, DecidedInv

-----------------------------------------------------------------------------
(* Every step keeps the account of the decided writes *)

\* The writers about to add to since are finitely many.
LEMMA CountingType == ASSUME NEW i, NEW c
                      PROVE /\ IsFiniteSet(Counting(i, c)) /\ Cardinality(Counting(i, c)) \in Nat
                            /\ Counting(i, c) \in SUBSET Writers
  BY FiniteWriters DEF Counting

\* One writer fewer.
LEMMA RemoveWriter ==
    ASSUME NEW S \in SUBSET Writers, NEW w \in S
    PROVE  Cardinality(S \ {w}) = Cardinality(S) - 1
  BY FiniteWriters, FS_RemoveElement

\* The terms of CountsInv are natural numbers.
LEMMA CountsTypes ==
    ASSUME TypeOK, NEW i \in Instances
    PROVE  /\ made[i] \in Nat /\ snap[i] \in Nat /\ atCut[i] \in Nat
           /\ since[i][CurSide] \in Nat /\ since[i][OldSide] \in Nat /\ cut \in Nat
           /\ \A c : Cardinality(Counting(i, c)) \in Nat
<1>1. CurSide \in Sides /\ OldSide \in Sides  BY CutSides
<1>2. since[i][CurSide] \in Nat /\ since[i][OldSide] \in Nat  BY <1>1, SinceType
<1> QED  BY <1>2, CountingType DEF TypeOK

\* A step that leaves the account and the writers about to add to since alone.
CountsFrame ==
    /\ UNCHANGED <<made, snap, since, atCut, cut>>
    /\ \A w \in Writers :
           /\ pc'[w] = "count" <=> pc[w] = "count"
           /\ pc[w] = "count" => obj'[w] = obj[w] /\ sawCut'[w] = sawCut[w]

\* A step that decides, adds and folds nothing keeps CountsInv.
LEMMA CountsFrameStep == CountsInv /\ CountsFrame => CountsInv'
<1> SUFFICES ASSUME CountsInv, CountsFrame PROVE CountsInv'  OBVIOUS
<1>1. CurSide' = CurSide /\ OldSide' = OldSide  BY DEF CountsFrame, CurSide, OldSide
<1>3. cut' = cut  BY DEF CountsFrame
<1>4. ASSUME NEW i \in Instances
      PROVE  /\ Cardinality(Counting(i, cut)') = Cardinality(Counting(i, cut))
             /\ Cardinality(Counting(i, cut - 1)') = Cardinality(Counting(i, cut - 1))
  <2>1. Counting(i, cut)' = Counting(i, cut) /\ Counting(i, cut - 1)' = Counting(i, cut - 1)
    BY <1>3 DEF CountsFrame, Counting
  <2> QED  BY <2>1
<1> QED  BY <1>1, <1>4 DEF CountsInv, CountsFrame

\* Between scrapes nothing is left on the old side, and no writer will add to it.
LEMMA OldSideEmpty ==
    ASSUME IndInv, ~InScrape, NEW i \in Instances
    PROVE  since[i][OldSide] = 0 /\ Counting(i, cut - 1) = {}
<1>1. TypeOK /\ ConsumerPlace /\ SidesInv /\ EnlistedInv  BY DEF IndInv
<1>2. ~taking /\ pc[Consumer] # "drain" /\ taken = {}
  BY <1>1 DEF InScrape, ConsumerPlace
<1>3. ~ToFold(i)  BY <1>2 DEF ToFold
<1>4. since[i][OldSide] = 0  BY <1>1, <1>3 DEF EnlistedInv
<1>5. cut \in Nat  BY <1>1 DEF TypeOK
<1>6. \A w \in Writers : pc[w] = "count" => sawCut[w] = cut
  BY <1>1, <1>2 DEF SidesInv, Decided
<1> QED  BY <1>4, <1>5, <1>6 DEF Counting

\* No step loses a decided write or counts it twice.
LEMMA CountsStep == IndInv /\ [Next]_vars => CountsInv'
<1> SUFFICES ASSUME IndInv, [Next]_vars PROVE CountsInv'  OBVIOUS
<1>0. /\ TypeOK /\ TypeOK' /\ ConsumerPlace
      /\ SidesInv /\ CountsInv /\ EnlistedInv
   BY TypeStep DEF IndInv

<1>1. ASSUME NEW w \in Writers, BeginRequest(w) PROVE CountsInv'
  BY <1>0, <1>1, WritersAssumption, CountsFrameStep
  DEF BeginRequest, CountsFrame, TypeOK, Procs, PutBack
<1>2. ASSUME NEW w \in Writers, Add(w) PROVE CountsInv'
  BY <1>0, <1>2, WritersAssumption, CountsFrameStep
  DEF Add, CountsFrame, TypeOK, Procs, PutBack
<1>3. ASSUME NEW w \in Writers, LoadCut(w) PROVE CountsInv'
  BY <1>0, <1>3, WritersAssumption, CountsFrameStep
  DEF LoadCut, CountsFrame, TypeOK, Procs, PutBack
<1>4. ASSUME NEW w \in Writers, Enter(w) PROVE CountsInv'
  BY <1>0, <1>4, WritersAssumption, CountsFrameStep
  DEF Enter, CountsFrame, TypeOK, Procs, PutBack
<1>5. ASSUME NEW w \in Writers, Recheck(w) PROVE CountsInv'
  <2>1. UNCHANGED <<snap, since, atCut, cut, sawCut, obj>> /\ pc[w] = "recheck"
    BY <1>5 DEF Recheck
  <2>2. CASE /\ cut = sawCut[w] /\ made' = [made EXCEPT ![obj[w]] = @ + 1]
             /\ pc' = [pc EXCEPT ![w] = "count"]
    <3> SUFFICES ASSUME NEW i \in Instances
                 PROVE  /\ made'[i] = snap[i] + since[i][CurSide]
                                        + Cardinality(Counting(i, cut)')
                        /\ snap[i] = atCut[i] + since[i][OldSide]
                                        + Cardinality(Counting(i, cut - 1)')
      BY <2>1 DEF CountsInv, CurSide, OldSide
    <3>1. /\ made[i] = snap[i] + since[i][CurSide] + Cardinality(Counting(i, cut))
          /\ snap[i] = atCut[i] + since[i][OldSide] + Cardinality(Counting(i, cut - 1))
      BY <1>0 DEF CountsInv
    <3>2. \A v \in Writers : pc'[v] = IF v = w THEN "count" ELSE pc[v]
      BY <1>0, <2>2 DEF TypeOK, Procs
    <3>3. cut \in Nat /\ cut - 1 # cut  BY <1>0 DEF TypeOK
    <3>4. Counting(i, cut - 1)' = Counting(i, cut - 1)
      BY <2>1, <2>2, <3>2, <3>3 DEF Counting
    <3>5. CASE i = obj[w]
      <4>1. Counting(i, cut)' = Counting(i, cut) \cup {w}
        BY <2>1, <2>2, <3>2, <3>5 DEF Counting
      <4>2. w \notin Counting(i, cut)  BY <2>1 DEF Counting
      <4>3. Cardinality(Counting(i, cut) \cup {w}) = Cardinality(Counting(i, cut)) + 1
        BY <4>2, CountingType, FS_AddElement
      <4>4. made'[i] = made[i] + 1  BY <1>0, <2>2, <3>5 DEF TypeOK
      <4> QED  BY <1>0, <3>1, <3>4, <4>1, <4>3, <4>4, CountsTypes
    <3>6. CASE i # obj[w]
      <4>1. Counting(i, cut)' = Counting(i, cut)
        BY <2>1, <2>2, <3>2, <3>6 DEF Counting
      <4>2. made'[i] = made[i]  BY <1>0, <2>2, <3>6 DEF TypeOK
      <4> QED  BY <3>1, <3>4, <4>1, <4>2
    <3> QED  BY <3>5, <3>6
  <2>3. CASE made' = made /\ pc' = [pc EXCEPT ![w] = "backout"]
    BY <1>0, <2>1, <2>3, CountsFrameStep DEF CountsFrame, TypeOK, Procs
  <2> QED  BY <1>5, <2>2, <2>3, RecheckCases
<1>6. ASSUME NEW w \in Writers, BackOut(w) PROVE CountsInv'
  BY <1>0, <1>6, WritersAssumption, CountsFrameStep
  DEF BackOut, CountsFrame, TypeOK, Procs, PutBack
<1>7. ASSUME NEW w \in Writers, Count(w) PROVE CountsInv'
  <2>1. /\ UNCHANGED <<made, snap, atCut, cut, sawCut, obj>> /\ pc[w] = "count"
        /\ pc' = [pc EXCEPT ![w] = "mark"]
        /\ since' = [since EXCEPT ![obj[w]][SideOf(w)] = since[obj[w]][SideOf(w)] + 1]
    BY <1>7 DEF Count
  <2>2. \A v \in Writers : pc'[v] = IF v = w THEN "mark" ELSE pc[v]
    BY <1>0, <2>1 DEF TypeOK, Procs
  <2>3. obj[w] \in Instances /\ SideOf(w) \in Sides /\ cut \in Nat
    BY <1>0, WriterPlace DEF TypeOK
  <2>4. \/ sawCut[w] = cut /\ SideOf(w) = CurSide
        \/ sawCut[w] = cut - 1 /\ SideOf(w) = OldSide
    <3>1. sawCut[w] = cut \/ sawCut[w] = cut - 1  BY <1>0, <2>1 DEF SidesInv, Decided
    <3>2. (cut - 1) % 2 = (cut + 1) % 2  BY <2>3
    <3> QED  BY <3>1, <3>2 DEF SideOf, CurSide, OldSide
  <2> SUFFICES ASSUME NEW i \in Instances
               PROVE  /\ made[i] = snap[i] + since'[i][CurSide]
                                      + Cardinality(Counting(i, cut)')
                      /\ snap[i] = atCut[i] + since'[i][OldSide]
                                      + Cardinality(Counting(i, cut - 1)')
    BY <2>1 DEF CountsInv, CurSide, OldSide
  <2>5. /\ made[i] = snap[i] + since[i][CurSide] + Cardinality(Counting(i, cut))
        /\ snap[i] = atCut[i] + since[i][OldSide] + Cardinality(Counting(i, cut - 1))
    BY <1>0 DEF CountsInv
  <2>6. /\ Counting(i, cut)' = IF i = obj[w] /\ sawCut[w] = cut
                                 THEN Counting(i, cut) \ {w} ELSE Counting(i, cut)
        /\ Counting(i, cut - 1)' = IF i = obj[w] /\ sawCut[w] = cut - 1
                                     THEN Counting(i, cut - 1) \ {w} ELSE Counting(i, cut - 1)
    BY <2>1, <2>2 DEF Counting
  <2>7. \A b \in Sides : since'[i][b] =
            IF i = obj[w] /\ b = SideOf(w) THEN since[i][b] + 1 ELSE since[i][b]
    <3>1. since \in [Instances -> [Sides -> Nat]]  BY <1>0 DEF TypeOK
    <3> QED  BY <2>1, <2>3, <3>1
  <2>8. CurSide \in Sides /\ OldSide \in Sides /\ CurSide # OldSide  BY <1>0, CutSides
  <2>9. /\ since[i][CurSide] \in Nat /\ since[i][OldSide] \in Nat
        /\ made[i] \in Nat /\ snap[i] \in Nat /\ atCut[i] \in Nat
        /\ Cardinality(Counting(i, cut)) \in Nat /\ Cardinality(Counting(i, cut - 1)) \in Nat
    BY <1>0, CountsTypes
  <2>10. CASE sawCut[w] = cut /\ SideOf(w) = CurSide
    <3>1. Counting(i, cut - 1)' = Counting(i, cut - 1)  BY <2>3, <2>6, <2>10
    <3>2. since'[i][OldSide] = since[i][OldSide]  BY <2>7, <2>8, <2>10
    <3>3. CASE i = obj[w]
      <4>1. w \in Counting(i, cut)  BY <2>1, <2>10, <3>3 DEF Counting
      <4>2. Cardinality(Counting(i, cut) \ {w}) = Cardinality(Counting(i, cut)) - 1
        BY <4>1, CountingType, RemoveWriter
      <4>3. Counting(i, cut)' = Counting(i, cut) \ {w}  BY <2>6, <2>10, <3>3
      <4>4. since'[i][CurSide] = since[i][CurSide] + 1  BY <2>7, <2>8, <2>10, <3>3
      <4> QED  BY <2>5, <2>9, <3>1, <3>2, <4>2, <4>3, <4>4
    <3>4. CASE i # obj[w]
      <4>1. Counting(i, cut)' = Counting(i, cut)  BY <2>6, <3>4
      <4>2. since'[i][CurSide] = since[i][CurSide]  BY <2>7, <2>8, <3>4
      <4> QED  BY <2>5, <3>1, <3>2, <4>1, <4>2
    <3> QED  BY <3>3, <3>4
  <2>11. CASE sawCut[w] = cut - 1 /\ SideOf(w) = OldSide
    <3>1. Counting(i, cut)' = Counting(i, cut)  BY <2>3, <2>6, <2>11
    <3>2. since'[i][CurSide] = since[i][CurSide]  BY <2>7, <2>8, <2>11
    <3>3. CASE i = obj[w]
      <4>1. w \in Counting(i, cut - 1)  BY <2>1, <2>11, <3>3 DEF Counting
      <4>2. Cardinality(Counting(i, cut - 1) \ {w}) = Cardinality(Counting(i, cut - 1)) - 1
        BY <4>1, CountingType, RemoveWriter
      <4>3. Counting(i, cut - 1)' = Counting(i, cut - 1) \ {w}  BY <2>6, <2>11, <3>3
      <4>4. since'[i][OldSide] = since[i][OldSide] + 1  BY <2>7, <2>8, <2>11, <3>3
      <4>5. Cardinality(Counting(i, cut - 1)') = Cardinality(Counting(i, cut - 1)) - 1
        BY <4>2, <4>3
      <4> QED  BY <2>5, <2>9, <3>1, <3>2, <4>4, <4>5
    <3>4. CASE i # obj[w]
      <4>1. Counting(i, cut - 1)' = Counting(i, cut - 1)  BY <2>6, <3>4
      <4>2. since'[i][OldSide] = since[i][OldSide]  BY <2>7, <2>8, <3>4
      <4> QED  BY <2>5, <3>1, <3>2, <4>1, <4>2
    <3> QED  BY <3>3, <3>4
  <2> QED  BY <2>4, <2>10, <2>11
<1>8. ASSUME NEW w \in Writers, Leave(w) PROVE CountsInv'
  <2>1. /\ pc[w] = "leave" /\ pc'[w] \in {"add", "rest"}
        /\ \A v \in Writers \ {w} : pc'[v] = pc[v] /\ obj'[v] = obj[v]
    BY <1>0, <1>8 DEF Leave, TypeOK, Procs
  <2> QED  BY <1>0, <1>8, <2>1, CountsFrameStep DEF Leave, CountsFrame
<1>9. ASSUME NEW p \in Procs, MarkLoad(p) PROVE CountsInv'
  BY <1>0, <1>9, WritersAssumption, CountsFrameStep
  DEF MarkLoad, CountsFrame, TypeOK, Procs
<1>10. ASSUME NEW p \in Procs, MarkCompare(p) PROVE CountsInv'
  <2>1. \A w \in Writers : pc'[w] = "count" <=> pc[w] = "count"
    BY <1>0, <1>10, WritersAssumption DEF MarkCompare, AfterMark, TypeOK, Procs
  <2> QED  BY <1>0, <1>10, <2>1, CountsFrameStep DEF MarkCompare, CountsFrame
<1>11. ASSUME NEW p \in Procs, AddLock(p) PROVE CountsInv'
  <2>1. \A w \in Writers : pc'[w] = "count" <=> pc[w] = "count"
    <3>1. CASE pc' = [pc EXCEPT ![p] = "append"]
      BY <1>0, <1>11, <3>1 DEF AddLock, TypeOK, Procs
    <3>2. CASE pc' = [pc EXCEPT ![p] = AfterMark(p)]
      BY <1>0, <1>11, <3>2, WritersAssumption DEF AddLock, AfterMark, TypeOK, Procs
    <3> QED  BY <1>11, <3>1, <3>2, AddLockCases
  <2> QED  BY <1>0, <1>11, <2>1, CountsFrameStep DEF AddLock, CountsFrame
<1>12. ASSUME NEW p \in Procs, AddAppend(p) PROVE CountsInv'
  <2>1. \A w \in Writers : pc'[w] = "count" <=> pc[w] = "count"
    BY <1>0, <1>12, WritersAssumption DEF AddAppend, AfterMark, TypeOK, Procs
  <2> QED  BY <1>0, <1>12, <2>1, CountsFrameStep DEF AddAppend, CountsFrame
<1>13. ASSUME NEW i \in Instances, FoldSwap(i) PROVE CountsInv'
  <2>1. /\ UNCHANGED <<made, snap, cut, sawCut>> /\ \A v \in Writers : pc'[v] = pc[v]
        /\ \A v \in Writers : obj'[v] = obj[v]
    BY <1>0, <1>13, WritersAssumption DEF FoldSwap, TypeOK, Procs
  <2>2. CurSide \in Sides /\ OldSide \in Sides /\ CurSide # OldSide  BY <1>0, CutSides
  <2> SUFFICES ASSUME NEW j \in Instances
               PROVE  /\ made[j] = snap[j] + since'[j][CurSide]
                                      + Cardinality(Counting(j, cut)')
                      /\ snap[j] = atCut'[j] + since'[j][OldSide]
                                      + Cardinality(Counting(j, cut - 1)')
    BY <2>1 DEF CountsInv, CurSide, OldSide
  <2>3. Counting(j, cut)' = Counting(j, cut) /\ Counting(j, cut - 1)' = Counting(j, cut - 1)
    BY <2>1 DEF Counting
  <2>4. /\ made[j] = snap[j] + since[j][CurSide] + Cardinality(Counting(j, cut))
        /\ snap[j] = atCut[j] + since[j][OldSide] + Cardinality(Counting(j, cut - 1))
    BY <1>0 DEF CountsInv
  <2>5. since'[j][CurSide] = since[j][CurSide]
    BY <1>0, <1>13, <2>2 DEF FoldSwap, TypeOK
  <2>6. atCut'[j] + since'[j][OldSide] = atCut[j] + since[j][OldSide]
    <3>1. CASE j = i
      <4>1. atCut'[j] = atCut[j] + since[j][OldSide] /\ since'[j][OldSide] = 0
        BY <1>0, <1>13, <2>2, <3>1 DEF FoldSwap, TypeOK
      <4> QED  BY <1>0, <4>1, CountsTypes
    <3>2. CASE j # i
      <4>1. atCut'[j] = atCut[j] /\ since'[j] = since[j]
        BY <1>0, <1>13, <2>2, <3>2 DEF FoldSwap, TypeOK
      <4> QED  BY <4>1
    <3> QED  BY <3>1, <3>2
  <2> QED  BY <2>3, <2>4, <2>5, <2>6
<1>14. ASSUME NEW i \in Instances, MarkChanged(i) PROVE CountsInv'
  BY <1>0, <1>14, WritersAssumption, CountsFrameStep
  DEF MarkChanged, CountsFrame, TypeOK, Procs, PutBack
<1>15. CASE BeginCut
  BY <1>0, <1>15, WritersAssumption, CountsFrameStep
  DEF BeginCut, CountsFrame, TypeOK, Procs, PutBack
<1>16. CASE MoveCut
  <2>1. /\ cut' = cut + 1 /\ snap' = made /\ UNCHANGED <<made, since, atCut, sawCut, obj>>
        /\ pc[Consumer] = "cut" /\ \A v \in Writers : pc'[v] = pc[v]
    BY <1>0, <1>16, WritersAssumption DEF MoveCut, TypeOK, Procs
  <2>2. cut \in Nat /\ CurSide' = OldSide /\ OldSide' = CurSide
    <3>1. cut \in Nat  BY <1>0 DEF TypeOK
    <3>2. (cut + 1 + 1) % 2 = cut % 2  BY <3>1
    <3> QED  BY <2>1, <3>1, <3>2 DEF CurSide, OldSide
  <2>3. ~InScrape  BY <1>0, <2>1 DEF InScrape, ConsumerPlace
  <2> SUFFICES ASSUME NEW i \in Instances
               PROVE  /\ made[i] = made[i] + since[i][OldSide]
                                      + Cardinality(Counting(i, cut)')
                      /\ made[i] = atCut[i] + since[i][CurSide]
                                      + Cardinality(Counting(i, cut - 1)')
    BY <2>1, <2>2 DEF CountsInv
  <2>4. since[i][OldSide] = 0 /\ Counting(i, cut - 1) = {}  BY <2>3, OldSideEmpty
  <2>5. Counting(i, cut)' = {}
    <3>1. \A v \in Writers : sawCut[v] <= cut /\ sawCut[v] \in Nat
      BY <1>0 DEF SidesInv, TypeOK
    <3> QED  BY <2>1, <2>2, <3>1 DEF Counting
  <2>6. Counting(i, cut - 1)' = Counting(i, cut)
    BY <2>1, <2>2 DEF Counting
  <2>7. Cardinality({}) = 0  BY FS_EmptySet
  <2>8. /\ made[i] = snap[i] + since[i][CurSide] + Cardinality(Counting(i, cut))
        /\ snap[i] = atCut[i] + since[i][OldSide] + Cardinality(Counting(i, cut - 1))
    BY <1>0 DEF CountsInv
  <2>9. /\ Cardinality(Counting(i, cut)') = 0 /\ Cardinality(Counting(i, cut - 1)) = 0
        /\ Cardinality(Counting(i, cut - 1)') = Cardinality(Counting(i, cut))
    BY <2>4, <2>5, <2>6, <2>7
  <2>10. /\ made[i] \in Nat /\ snap[i] \in Nat /\ atCut[i] \in Nat
         /\ since[i][CurSide] \in Nat /\ Cardinality(Counting(i, cut)) \in Nat
    BY <1>0, CountsTypes
  <2> QED  BY <2>4, <2>8, <2>9, <2>10
<1>17. CASE Drain
  BY <1>0, <1>17, WritersAssumption, CountsFrameStep
  DEF Drain, CountsFrame, TypeOK, Procs, PutBack
<1>18. CASE TakeShard
  BY <1>0, <1>18, WritersAssumption, CountsFrameStep
  DEF TakeShard, CountsFrame, TypeOK, Procs, PutBack
<1>19. CASE FoldCheck
  BY <1>0, <1>19, WritersAssumption, CountsFrameStep
  DEF FoldCheck, CountsFrame, TypeOK, Procs, PutBack
<1>20. CASE TakeNext
  BY <1>0, <1>20, WritersAssumption, CountsFrameStep
  DEF TakeNext, CountsFrame, TypeOK, Procs, PutBack
<1>21. CASE Deliver
  BY <1>0, <1>21, WritersAssumption, CountsFrameStep
  DEF Deliver, CountsFrame, TypeOK, Procs, PutBack
<1>22. CASE Undelivered
  BY <1>0, <1>22, WritersAssumption, CountsFrameStep
  DEF Undelivered, CountsFrame, TypeOK, Procs, PutBack
<1>23. CASE PutBackDone
  BY <1>0, <1>23, WritersAssumption, CountsFrameStep
  DEF PutBackDone, CountsFrame, TypeOK, Procs, PutBack
<1>24. CASE UNCHANGED vars
  BY <1>0, <1>24, CountsFrameStep DEF vars, CountsFrame
<1> QED
  BY <1>1, <1>2, <1>3, <1>4, <1>5, <1>6, <1>7, <1>8, <1>9, <1>10, <1>11, <1>12, <1>13,
     <1>14, <1>15, <1>16, <1>17, <1>18, <1>19, <1>20, <1>21, <1>22, <1>23, <1>24
  DEF Next, WriterStep, ConsumerStep, Mark, Terminating, Procs

-----------------------------------------------------------------------------
(* What a step may do to an instance that is listed, marked or folded *)

\* A step that leaves the lists and the goroutines about to append alone.
LEMMA ListedFrame ==
    ASSUME dirty' = dirty,
           \A p \in Procs : pc[p] = "append" => pc'[p] = "append" /\ obj'[p] = obj[p]
    PROVE  \A i \in Instances : Listed(i) => Listed(i)'
  BY DEF Listed, Appending

\* The epochs mark compares are equal only for a listed instance.
LEMMA EqualEpochs ==
    ASSUME TypeOK, ListsInv, NEW p \in Procs, pc[p] = "compare",
           sawEpoch[p] = sEpoch[HomeOf(p)]
    PROVE  Listed(obj[p])
<1>1. obj[p] \in Instances /\ HomeOf(p) \in Shards  BY ObjHome
<1>2. sawEpoch[p] <= dEpoch[obj[p]] /\ dEpoch[obj[p]] <= sEpoch[HomeOf(p)]
  BY <1>1 DEF ListsInv, HomeOf
<1>3. sEpoch[HomeOf(p)] \in Nat /\ dEpoch[obj[p]] \in Nat  BY <1>1 DEF TypeOK
<1>4. dEpoch[obj[p]] = sEpoch[HomeOf(p)]  BY <1>2, <1>3
<1> QED  BY <1>1, <1>4 DEF ListsInv, EpochMeansListed, HomeOf

\* The mutex is free, so nobody is about to append to the shard.
LEMMA FreeMutex ==
    ASSUME TypeOK, ListsInv, NEW i \in Instances, mu[ShardOf[i]] = None, Listed(i)
    PROVE  i \in dirty[ShardOf[i]]
  BY NoneAssumption, ShardsAssumption DEF ListsInv, Listed, Appending, HomeOf

\* A listed instance stays listed until Take takes it.
LEMMA ListedStep ==
    IndInv /\ [Next]_vars =>
        \A i \in Instances : Listed(i) => Listed(i)' \/ i \in taken'
<1> DEFINE Goal == \A i \in Instances : Listed(i) => Listed(i)' \/ i \in taken'
<1> SUFFICES ASSUME IndInv, [Next]_vars PROVE Goal  OBVIOUS
<1>0. TypeOK /\ TypeOK' /\ ConsumerPlace /\ ListsInv  BY TypeStep DEF IndInv

<1>1. ASSUME NEW w \in Writers, BeginRequest(w) PROVE Goal
  BY <1>0, <1>1, WritersAssumption, ListedFrame
  DEF BeginRequest, TypeOK, Procs, PutBack
<1>2. ASSUME NEW w \in Writers, Add(w) PROVE Goal
  BY <1>0, <1>2, WritersAssumption, ListedFrame
  DEF Add, TypeOK, Procs, PutBack
<1>3. ASSUME NEW w \in Writers, LoadCut(w) PROVE Goal
  BY <1>0, <1>3, WritersAssumption, ListedFrame
  DEF LoadCut, TypeOK, Procs, PutBack
<1>4. ASSUME NEW w \in Writers, Enter(w) PROVE Goal
  BY <1>0, <1>4, WritersAssumption, ListedFrame
  DEF Enter, TypeOK, Procs, PutBack
<1>5. ASSUME NEW w \in Writers, Recheck(w) PROVE Goal
  BY <1>0, <1>5, WritersAssumption, ListedFrame
  DEF Recheck, TypeOK, Procs, PutBack
<1>6. ASSUME NEW w \in Writers, BackOut(w) PROVE Goal
  BY <1>0, <1>6, WritersAssumption, ListedFrame
  DEF BackOut, TypeOK, Procs, PutBack
<1>7. ASSUME NEW w \in Writers, Count(w) PROVE Goal
  BY <1>0, <1>7, WritersAssumption, ListedFrame
  DEF Count, TypeOK, Procs, PutBack
<1>8. ASSUME NEW w \in Writers, Leave(w) PROVE Goal
  BY <1>0, <1>8, WritersAssumption, ListedFrame
  DEF Leave, TypeOK, Procs, PutBack
<1>9. ASSUME NEW p \in Procs, MarkLoad(p) PROVE Goal
  BY <1>0, <1>9, ListedFrame DEF MarkLoad, TypeOK
<1>10. ASSUME NEW p \in Procs, MarkCompare(p) PROVE Goal
  BY <1>0, <1>10, ListedFrame DEF MarkCompare, TypeOK
<1>11. ASSUME NEW p \in Procs, AddLock(p) PROVE Goal
  <2>1. \A q \in Procs : pc[q] = "append" => pc'[q] = "append"
    BY <1>0, <1>11, AddLockCases DEF AddLock, TypeOK
  <2> QED  BY <1>11, <2>1, ListedFrame DEF AddLock
<1>12. ASSUME NEW p \in Procs, AddAppend(p) PROVE Goal
  <2>1. /\ pc[p] = "append" /\ obj' = obj
        /\ \A q \in Procs \ {p} : pc'[q] = pc[q]
        /\ dirty' = [dirty EXCEPT ![HomeOf(p)] = dirty[HomeOf(p)] \cup {obj[p]}]
    BY <1>0, <1>12 DEF AddAppend, TypeOK
  <2>2. HomeOf(p) = ShardOf[obj[p]] /\ HomeOf(p) \in Shards  BY <1>0, ObjHome DEF HomeOf
  <2>3. \A s \in Shards : dirty'[s] = IF s = HomeOf(p) THEN dirty[s] \cup {obj[p]}
                                                      ELSE dirty[s]
    <3>1. dirty \in [Shards -> SUBSET Instances]  BY <1>0 DEF TypeOK
    <3> QED  BY <2>1, <2>2, <3>1
  <2>4. obj[p] \in dirty'[ShardOf[obj[p]]]  BY <2>2, <2>3
  <2> QED  BY <2>1, <2>3, <2>4, ShardsAssumption DEF Listed, Appending
<1>13. ASSUME NEW j \in Instances, FoldSwap(j) PROVE Goal
  BY <1>0, <1>13, WritersAssumption, ListedFrame
  DEF FoldSwap, TypeOK, Procs, PutBack
<1>14. ASSUME NEW j \in Instances, MarkChanged(j) PROVE Goal
  BY <1>0, <1>14, WritersAssumption, ListedFrame
  DEF MarkChanged, TypeOK, Procs, PutBack
<1>15. CASE BeginCut
  BY <1>0, <1>15, WritersAssumption, ListedFrame
  DEF BeginCut, TypeOK, Procs, PutBack
<1>16. CASE MoveCut
  BY <1>0, <1>16, WritersAssumption, ListedFrame
  DEF MoveCut, TypeOK, Procs, PutBack
<1>17. CASE Drain
  BY <1>0, <1>17, WritersAssumption, ListedFrame
  DEF Drain, TypeOK, Procs, PutBack
<1>18. CASE TakeShard
  <2>1. /\ mu[shard] = None /\ shard \in Shards /\ taken' = dirty[shard] /\ obj' = obj
        /\ dirty' = [dirty EXCEPT ![shard] = {}] /\ pc[Consumer] = "swap"
        /\ \A q \in Writers : pc'[q] = pc[q]
    BY <1>0, <1>18, WritersAssumption DEF TakeShard, TypeOK, Procs
  <2> SUFFICES ASSUME NEW i \in Instances, Listed(i) PROVE Listed(i)' \/ i \in taken'
    OBVIOUS
  <2>2. CASE ShardOf[i] = shard  BY <1>0, <2>1, <2>2, FreeMutex
  <2>3. CASE ShardOf[i] # shard
    BY <1>0, <2>1, <2>3, ShardsAssumption DEF Listed, Appending, TypeOK, Procs
  <2> QED  BY <2>2, <2>3
<1>19. CASE FoldCheck
  BY <1>0, <1>19, WritersAssumption, ListedFrame
  DEF FoldCheck, TypeOK, Procs, PutBack
<1>20. CASE TakeNext
  BY <1>0, <1>20, WritersAssumption, ListedFrame
  DEF TakeNext, TypeOK, Procs, PutBack
<1>21. CASE Deliver
  BY <1>0, <1>21, WritersAssumption, ListedFrame
  DEF Deliver, TypeOK, Procs, PutBack
<1>22. CASE Undelivered
  BY <1>0, <1>22, WritersAssumption, ListedFrame
  DEF Undelivered, TypeOK, Procs, PutBack
<1>23. CASE PutBackDone
  BY <1>0, <1>23, WritersAssumption, ListedFrame
  DEF PutBackDone, TypeOK, Procs, PutBack
<1>24. CASE UNCHANGED vars
  BY <1>0, <1>24, ListedFrame DEF vars
<1> QED
  BY <1>1, <1>2, <1>3, <1>4, <1>5, <1>6, <1>7, <1>8, <1>9, <1>10, <1>11, <1>12, <1>13,
     <1>14, <1>15, <1>16, <1>17, <1>18, <1>19, <1>20, <1>21, <1>22, <1>23, <1>24
  DEF Next, WriterStep, ConsumerStep, Mark, Terminating, Procs

\* p is still in mark or add for i, and on the same side of the cut.
MarkingKept(p, i) == Marking(p, i)' /\ (p \in Writers => sawCut'[p] = sawCut[p])

\* mark ends with the instance listed.
LEMMA MarkingStep ==
    IndInv /\ [Next]_vars =>
        \A p \in Procs, i \in Instances : Marking(p, i) => Listed(i)' \/ MarkingKept(p, i)
<1> DEFINE Goal == \A p \in Procs, i \in Instances :
                      Marking(p, i) => Listed(i)' \/ MarkingKept(p, i)
<1> SUFFICES ASSUME IndInv, [Next]_vars PROVE Goal  OBVIOUS
<1>0. TypeOK /\ TypeOK' /\ ConsumerPlace /\ ListsInv  BY TypeStep DEF IndInv

<1>1. ASSUME NEW w \in Writers, BeginRequest(w) PROVE Goal
  BY <1>0, <1>1, WritersAssumption
  DEF BeginRequest, Marking, MarkingKept, TypeOK, Procs, PutBack
<1>2. ASSUME NEW w \in Writers, Add(w) PROVE Goal
  BY <1>0, <1>2, WritersAssumption
  DEF Add, Marking, MarkingKept, TypeOK, Procs, PutBack
<1>3. ASSUME NEW w \in Writers, LoadCut(w) PROVE Goal
  BY <1>0, <1>3, WritersAssumption
  DEF LoadCut, Marking, MarkingKept, TypeOK, Procs, PutBack
<1>4. ASSUME NEW w \in Writers, Enter(w) PROVE Goal
  BY <1>0, <1>4, WritersAssumption
  DEF Enter, Marking, MarkingKept, TypeOK, Procs, PutBack
<1>5. ASSUME NEW w \in Writers, Recheck(w) PROVE Goal
  BY <1>0, <1>5, WritersAssumption
  DEF Recheck, Marking, MarkingKept, TypeOK, Procs, PutBack
<1>6. ASSUME NEW w \in Writers, BackOut(w) PROVE Goal
  BY <1>0, <1>6, WritersAssumption
  DEF BackOut, Marking, MarkingKept, TypeOK, Procs, PutBack
<1>7. ASSUME NEW w \in Writers, Count(w) PROVE Goal
  BY <1>0, <1>7, WritersAssumption
  DEF Count, Marking, MarkingKept, TypeOK, Procs, PutBack
<1>8. ASSUME NEW w \in Writers, Leave(w) PROVE Goal
  <2>1. /\ pc[w] = "leave" /\ sawCut' = sawCut
        /\ \A q \in Procs \ {w} : pc'[q] = pc[q] /\ obj'[q] = obj[q]
    BY <1>0, <1>8 DEF Leave, TypeOK, Procs
  <2> QED  BY <2>1 DEF Marking, MarkingKept
<1>9. ASSUME NEW q \in Procs, MarkLoad(q) PROVE Goal
  BY <1>0, <1>9 DEF MarkLoad, Marking, MarkingKept, TypeOK
<1>10. ASSUME NEW q \in Procs, MarkCompare(q) PROVE Goal
  <2>1. /\ obj' = obj /\ sawCut' = sawCut
        /\ \A r \in Procs \ {q} : pc'[r] = pc[r]
    BY <1>0, <1>10 DEF MarkCompare, TypeOK
  <2>2. Listed(obj[q])' \/ pc'[q] = "lock"
    <3>1. CASE sawEpoch[q] = sEpoch[HomeOf(q)]
      <4>1. Listed(obj[q])  BY <1>0, <1>10, <3>1, EqualEpochs DEF MarkCompare
      <4>2. \A r \in Procs : pc[r] = "append" => pc'[r] = "append"
        BY <2>1, <1>10 DEF MarkCompare
      <4> QED  BY <1>0, <1>10, <2>1, <4>1, <4>2, ListedFrame, ObjHome DEF MarkCompare
    <3>2. CASE sawEpoch[q] # sEpoch[HomeOf(q)]
      BY <1>0, <1>10, <3>2 DEF MarkCompare, TypeOK
    <3> QED  BY <3>1, <3>2
  <2> QED  BY <2>1, <2>2 DEF Marking, MarkingKept
<1>11. ASSUME NEW q \in Procs, AddLock(q) PROVE Goal
  <2>1. /\ obj' = obj /\ sawCut' = sawCut
        /\ \A r \in Procs \ {q} : pc'[r] = pc[r]
    BY <1>0, <1>11, AddLockCases DEF AddLock, TypeOK
  <2>2. Listed(obj[q])' \/ pc'[q] = "append"
    <3>1. CASE pc' = [pc EXCEPT ![q] = "append"]
      BY <1>0, <3>1 DEF TypeOK
    <3>2. CASE ~NotListed(obj[q])
      <4>1. Listed(obj[q])
        BY <1>0, <3>2, ObjHome DEF NotListed, ListsInv, EpochMeansListed
      <4>2. \A r \in Procs : pc[r] = "append" => pc'[r] = "append"
        BY <2>1, <1>11 DEF AddLock
      <4> QED  BY <1>0, <1>11, <2>1, <4>1, <4>2, ListedFrame, ObjHome DEF AddLock
    <3> QED  BY <1>11, <3>1, <3>2, AddLockCases
  <2> QED  BY <2>1, <2>2 DEF Marking, MarkingKept
<1>12. ASSUME NEW q \in Procs, AddAppend(q) PROVE Goal
  <2>1. /\ obj' = obj /\ sawCut' = sawCut
        /\ \A r \in Procs \ {q} : pc'[r] = pc[r]
    BY <1>0, <1>12 DEF AddAppend, TypeOK
  <2>2. Listed(obj[q])'
    <3>1. obj[q] \in dirty'[ShardOf[obj[q]]]
      BY <1>0, <1>12, ObjHome DEF AddAppend, HomeOf, TypeOK
    <3> QED  BY <2>1, <3>1 DEF Listed
  <2> QED  BY <2>1, <2>2 DEF Marking, MarkingKept
<1>13. ASSUME NEW j \in Instances, FoldSwap(j) PROVE Goal
  BY <1>0, <1>13, WritersAssumption
  DEF FoldSwap, Marking, MarkingKept, TypeOK, Procs, PutBack
<1>14. ASSUME NEW j \in Instances, MarkChanged(j) PROVE Goal
  BY <1>0, <1>14, WritersAssumption
  DEF MarkChanged, Marking, MarkingKept, TypeOK, Procs, PutBack
<1>15. CASE BeginCut
  BY <1>0, <1>15, WritersAssumption
  DEF BeginCut, Marking, MarkingKept, TypeOK, Procs, PutBack
<1>16. CASE MoveCut
  BY <1>0, <1>16, WritersAssumption
  DEF MoveCut, Marking, MarkingKept, TypeOK, Procs, PutBack
<1>17. CASE Drain
  BY <1>0, <1>17, WritersAssumption
  DEF Drain, Marking, MarkingKept, TypeOK, Procs, PutBack
<1>18. CASE TakeShard
  BY <1>0, <1>18, WritersAssumption
  DEF TakeShard, Marking, MarkingKept, TypeOK, Procs, PutBack
<1>19. CASE FoldCheck
  BY <1>0, <1>19, WritersAssumption
  DEF FoldCheck, Marking, MarkingKept, TypeOK, Procs, PutBack
<1>20. CASE TakeNext
  BY <1>0, <1>20, WritersAssumption
  DEF TakeNext, Marking, MarkingKept, TypeOK, Procs, PutBack
<1>21. CASE Deliver
  BY <1>0, <1>21, WritersAssumption
  DEF Deliver, Marking, MarkingKept, TypeOK, Procs, PutBack
<1>22. CASE Undelivered
  BY <1>0, <1>22, WritersAssumption
  DEF Undelivered, Marking, MarkingKept, TypeOK, Procs, PutBack
<1>23. CASE PutBackDone
  BY <1>0, <1>23, WritersAssumption
  DEF PutBackDone, Marking, MarkingKept, TypeOK, Procs, PutBack
<1>24. CASE UNCHANGED vars
  BY <1>0, <1>24 DEF vars, Marking, MarkingKept
<1> QED
  BY <1>1, <1>2, <1>3, <1>4, <1>5, <1>6, <1>7, <1>8, <1>9, <1>10, <1>11, <1>12, <1>13,
     <1>14, <1>15, <1>16, <1>17, <1>18, <1>19, <1>20, <1>21, <1>22, <1>23, <1>24
  DEF Next, WriterStep, ConsumerStep, Mark, Terminating, Procs

\* What is on a side was there, or a writer of that side has just added it.
SinceKept(i, b) == \/ since[i][b] # 0
                   \/ \E w \in Writers : Marking(w, i)' /\ SideOf(w)' = b

\* since grows only by a writer that goes on to mark.
LEMMA SinceStep ==
    IndInv /\ [Next]_vars =>
        \A i \in Instances, b \in Sides : since'[i][b] # 0 => SinceKept(i, b)
<1> DEFINE Goal == \A i \in Instances, b \in Sides : since'[i][b] # 0 => SinceKept(i, b)
<1> SUFFICES ASSUME IndInv, [Next]_vars PROVE Goal  OBVIOUS
<1>0. /\ TypeOK /\ TypeOK' /\ ConsumerPlace /\ ListsInv
      /\ SidesInv /\ EnlistedInv
   BY TypeStep DEF IndInv

<1>1. ASSUME NEW w \in Writers, BeginRequest(w) PROVE Goal
  BY <1>1 DEF BeginRequest, SinceKept
<1>2. ASSUME NEW w \in Writers, Add(w) PROVE Goal
  BY <1>2 DEF Add, SinceKept
<1>3. ASSUME NEW w \in Writers, LoadCut(w) PROVE Goal
  BY <1>3 DEF LoadCut, SinceKept
<1>4. ASSUME NEW w \in Writers, Enter(w) PROVE Goal
  BY <1>4 DEF Enter, SinceKept
<1>5. ASSUME NEW w \in Writers, Recheck(w) PROVE Goal
  BY <1>5 DEF Recheck, SinceKept
<1>6. ASSUME NEW w \in Writers, BackOut(w) PROVE Goal
  BY <1>6 DEF BackOut, SinceKept
<1>7. ASSUME NEW w \in Writers, Count(w) PROVE Goal
  <2>1. /\ obj' = obj /\ sawCut' = sawCut /\ pc'[w] = "mark"
        /\ obj[w] \in Instances /\ SideOf(w) \in Sides
    BY <1>0, <1>7, WriterPlace DEF Count, TypeOK, Procs
  <2>2. \A i \in Instances, b \in Sides :
            since'[i][b] # since[i][b] => i = obj[w] /\ b = SideOf(w)
    BY <1>0, <1>7, <2>1 DEF Count, TypeOK
  <2>3. Marking(w, obj[w])' /\ SideOf(w)' = SideOf(w)  BY <2>1 DEF Marking, SideOf
  <2> QED  BY <2>1, <2>2, <2>3 DEF SinceKept, Marking
<1>8. ASSUME NEW w \in Writers, Leave(w) PROVE Goal
  BY <1>8 DEF Leave, SinceKept
<1>9. ASSUME NEW p \in Procs, MarkLoad(p) PROVE Goal
  BY <1>9 DEF MarkLoad, SinceKept
<1>10. ASSUME NEW p \in Procs, MarkCompare(p) PROVE Goal
  BY <1>10 DEF MarkCompare, SinceKept
<1>11. ASSUME NEW p \in Procs, AddLock(p) PROVE Goal
  BY <1>11 DEF AddLock, SinceKept
<1>12. ASSUME NEW p \in Procs, AddAppend(p) PROVE Goal
  BY <1>12 DEF AddAppend, SinceKept
<1>13. ASSUME NEW j \in Instances, FoldSwap(j) PROVE Goal
  <2>1. OldSide \in Sides  BY <1>0, CutSides
  <2> QED  BY <1>0, <1>13, <2>1 DEF FoldSwap, SinceKept, TypeOK
<1>14. ASSUME NEW j \in Instances, MarkChanged(j) PROVE Goal
  BY <1>14 DEF MarkChanged, SinceKept
<1>15. CASE BeginCut
  BY <1>15 DEF BeginCut, SinceKept
<1>16. CASE MoveCut
  BY <1>16 DEF MoveCut, SinceKept
<1>17. CASE Drain
  BY <1>17 DEF Drain, SinceKept
<1>18. CASE TakeShard
  BY <1>18 DEF TakeShard, SinceKept
<1>19. CASE FoldCheck
  BY <1>19 DEF FoldCheck, SinceKept
<1>20. CASE TakeNext
  BY <1>20 DEF TakeNext, SinceKept
<1>21. CASE Deliver
  BY <1>21 DEF Deliver, SinceKept
<1>22. CASE Undelivered
  BY <1>22 DEF Undelivered, SinceKept
<1>23. CASE PutBackDone
  BY <1>23 DEF PutBackDone, SinceKept
<1>24. CASE UNCHANGED vars
  BY <1>24 DEF vars, SinceKept
<1> QED
  BY <1>1, <1>2, <1>3, <1>4, <1>5, <1>6, <1>7, <1>8, <1>9, <1>10, <1>11, <1>12, <1>13,
     <1>14, <1>15, <1>16, <1>17, <1>18, <1>19, <1>20, <1>21, <1>22, <1>23, <1>24
  DEF Next, WriterStep, ConsumerStep, Mark, Terminating, Procs

-----------------------------------------------------------------------------
(* Take folds every instance that has something on the old side *)

\* A step that folds nothing and does not move the consumer.
FoldFrame ==
    /\ UNCHANGED <<cut, since, shard, taken, taking>>
    /\ \A l \in {"drain", "swap"} : pc[Consumer] = l <=> pc'[Consumer] = l

\* The first conjunct of EnlistedInv.
FoldInv == \A i \in Instances : since[i][OldSide] # 0 => ToFold(i)

\* A step that neither folds nor moves the consumer keeps FoldInv.
LEMMA FoldFrameStep == FoldInv /\ FoldFrame => FoldInv'
  BY DEF FoldInv, FoldFrame, ToFold, OldSide

\* Take passes no instance that has something on the old side.
LEMMA FoldStep == IndInv /\ [Next]_vars => FoldInv'
<1> SUFFICES ASSUME IndInv, [Next]_vars PROVE FoldInv'  OBVIOUS
<1>0. /\ TypeOK /\ TypeOK' /\ ConsumerPlace /\ ListsInv
      /\ SidesInv /\ EnlistedInv /\ FoldInv
   BY TypeStep DEF IndInv, EnlistedInv, FoldInv

<1>1. ASSUME NEW w \in Writers, BeginRequest(w) PROVE FoldInv'
  BY <1>0, <1>1, WritersAssumption, FoldFrameStep
  DEF BeginRequest, FoldFrame, TypeOK, Procs, PutBack
<1>2. ASSUME NEW w \in Writers, Add(w) PROVE FoldInv'
  BY <1>0, <1>2, WritersAssumption, FoldFrameStep
  DEF Add, FoldFrame, TypeOK, Procs, PutBack
<1>3. ASSUME NEW w \in Writers, LoadCut(w) PROVE FoldInv'
  BY <1>0, <1>3, WritersAssumption, FoldFrameStep
  DEF LoadCut, FoldFrame, TypeOK, Procs, PutBack
<1>4. ASSUME NEW w \in Writers, Enter(w) PROVE FoldInv'
  BY <1>0, <1>4, WritersAssumption, FoldFrameStep
  DEF Enter, FoldFrame, TypeOK, Procs, PutBack
<1>5. ASSUME NEW w \in Writers, Recheck(w) PROVE FoldInv'
  BY <1>0, <1>5, WritersAssumption, FoldFrameStep
  DEF Recheck, FoldFrame, TypeOK, Procs, PutBack
<1>6. ASSUME NEW w \in Writers, BackOut(w) PROVE FoldInv'
  BY <1>0, <1>6, WritersAssumption, FoldFrameStep
  DEF BackOut, FoldFrame, TypeOK, Procs, PutBack
<1>7. ASSUME NEW w \in Writers, Count(w) PROVE FoldInv'
  <2>1. /\ UNCHANGED <<cut, shard, taken, taking>> /\ pc'[Consumer] = pc[Consumer]
        /\ obj[w] \in Instances /\ SideOf(w) \in Sides /\ pc[w] = "count"
    BY <1>0, <1>7, WritersAssumption, WriterPlace DEF Count, TypeOK, Procs
  <2>2. OldSide \in Sides /\ CurSide # OldSide  BY <1>0, CutSides
  <2>3. \A i \in Instances : since'[i][OldSide] # since[i][OldSide] => SideOf(w) = OldSide
    BY <1>0, <1>7, <2>1, <2>2 DEF Count, TypeOK
  <2>4. SideOf(w) = OldSide => pc[Consumer] = "drain"
    BY <1>0, <2>1, <2>2 DEF SidesInv, Decided, SideOf, CurSide
  <2> QED  BY <1>0, <2>1, <2>3, <2>4 DEF FoldInv, ToFold, OldSide
<1>8. ASSUME NEW w \in Writers, Leave(w) PROVE FoldInv'
  <2>1. pc'[Consumer] = pc[Consumer]
    BY <1>0, <1>8, WritersAssumption DEF Leave, TypeOK, Procs
  <2> QED  BY <1>0, <1>8, <2>1, FoldFrameStep DEF Leave, FoldFrame
<1>9. ASSUME NEW p \in Procs, MarkLoad(p) PROVE FoldInv'
  BY <1>0, <1>9, FoldFrameStep DEF MarkLoad, FoldFrame, TypeOK
<1>10. ASSUME NEW p \in Procs, MarkCompare(p) PROVE FoldInv'
  <2>1. \A l \in {"drain", "swap"} : pc[Consumer] = l <=> pc'[Consumer] = l
    BY <1>0, <1>10, WritersAssumption DEF MarkCompare, AfterMark, TypeOK, Procs
  <2> QED  BY <1>0, <1>10, <2>1, FoldFrameStep DEF MarkCompare, FoldFrame
<1>11. ASSUME NEW p \in Procs, AddLock(p) PROVE FoldInv'
  <2>1. \A l \in {"drain", "swap"} : pc[Consumer] = l <=> pc'[Consumer] = l
    <3>1. CASE pc' = [pc EXCEPT ![p] = "append"]
      BY <1>0, <1>11, <3>1 DEF AddLock, TypeOK, Procs
    <3>2. CASE pc' = [pc EXCEPT ![p] = AfterMark(p)]
      BY <1>0, <1>11, <3>2, WritersAssumption DEF AddLock, AfterMark, TypeOK, Procs
    <3> QED  BY <1>11, <3>1, <3>2, AddLockCases
  <2> QED  BY <1>0, <1>11, <2>1, FoldFrameStep DEF AddLock, FoldFrame
<1>12. ASSUME NEW p \in Procs, AddAppend(p) PROVE FoldInv'
  <2>1. \A l \in {"drain", "swap"} : pc[Consumer] = l <=> pc'[Consumer] = l
    BY <1>0, <1>12, WritersAssumption DEF AddAppend, AfterMark, TypeOK, Procs
  <2> QED  BY <1>0, <1>12, <2>1, FoldFrameStep DEF AddAppend, FoldFrame
<1>13. ASSUME NEW i \in Instances, FoldSwap(i) PROVE FoldInv'
  <2>1. /\ UNCHANGED <<cut, shard, taking>> /\ taken' = taken \ {i}
        /\ pc[Consumer] = "fold"
    BY <1>13 DEF FoldSwap
  <2>2. OldSide \in Sides  BY <1>0, CutSides
  <2>3. since'[i][OldSide] = 0 /\ \A j \in Instances \ {i} : since'[j] = since[j]
    BY <1>0, <1>13, <2>2 DEF FoldSwap, TypeOK
  <2> QED  BY <1>0, <2>1, <2>3 DEF FoldInv, ToFold, OldSide
<1>14. ASSUME NEW i \in Instances, MarkChanged(i) PROVE FoldInv'
  BY <1>0, <1>14, WritersAssumption, FoldFrameStep
  DEF MarkChanged, FoldFrame, TypeOK, Procs, PutBack
<1>15. CASE BeginCut
  <2>1. /\ pc[Consumer] = "rest" /\ UNCHANGED <<cut, since, shard, taken, taking>>
        /\ pc'[Consumer] = "cut"
    BY <1>0, <1>15 DEF BeginCut, TypeOK, Procs
  <2> QED  BY <1>0, <2>1 DEF FoldInv, ToFold, OldSide
<1>16. CASE MoveCut
  <2>1. pc'[Consumer] = "drain"  BY <1>0, <1>16 DEF MoveCut, TypeOK, Procs
  <2> QED  BY <2>1 DEF FoldInv, ToFold
<1>17. CASE Drain
  <2>1. CASE shard < NumShards
    <3>1. pc'[Consumer] = "drain"  BY <1>17, <2>1 DEF Drain
    <3> QED  BY <3>1 DEF FoldInv, ToFold
  <2>2. CASE ~(shard < NumShards)
    <3>1. shard' = 1 /\ taking' = TRUE /\ pc'[Consumer] = "swap"
      BY <1>0, <1>17, <2>2 DEF Drain, TypeOK, Procs
    <3>2. \A i \in Instances : ShardOf[i] \in Nat /\ (1 < ShardOf[i] \/ 1 = ShardOf[i])
      BY ShardsAssumption DEF Shards
    <3> QED  BY <3>1, <3>2 DEF FoldInv, ToFold
  <2> QED  BY <2>1, <2>2
<1>18. CASE TakeShard
  <2>1. /\ UNCHANGED <<cut, since, shard, taking>> /\ taken' = dirty[shard]
        /\ pc[Consumer] = "swap" /\ mu[shard] = None
    BY <1>18 DEF TakeShard
  <2>2. taking /\ taken = {}  BY <1>0, <2>1 DEF ConsumerPlace
  <2>3. OldSide \in Sides /\ CurSide # OldSide  BY <1>0, CutSides
  <2> SUFFICES ASSUME NEW i \in Instances, since[i][OldSide] # 0 PROVE ToFold(i)'
    BY <2>1 DEF FoldInv, OldSide
  <2>4. shard < ShardOf[i] \/ shard = ShardOf[i]
    BY <1>0, <2>1, <2>2 DEF FoldInv, ToFold
  <2>5. CASE shard = ShardOf[i]
    <3>1. ~Folding(i)  BY <2>1, <2>2 DEF Folding
    <3>2. \A w \in Writers : Marking(w, i) => SideOf(w) = CurSide
      BY <1>0, <2>1 DEF SidesInv, Decided, Marking, SideOf, CurSide
    <3>3. Listed(i)
      BY <1>0, <2>3, <3>1, <3>2 DEF EnlistedInv
    <3> QED  BY <1>0, <2>1, <2>5, <3>3, FreeMutex DEF ToFold
  <2>6. CASE shard < ShardOf[i]  BY <2>1, <2>2, <2>6 DEF ToFold
  <2> QED  BY <2>4, <2>5, <2>6
<1>19. CASE FoldCheck
  BY <1>0, <1>19, WritersAssumption, FoldFrameStep
  DEF FoldCheck, FoldFrame, TypeOK, Procs, PutBack
<1>20. CASE TakeNext
  <2>1. /\ UNCHANGED <<cut, since, taken>> /\ taken = {} /\ pc[Consumer] = "fold"
    BY <1>20 DEF TakeNext
  <2> SUFFICES ASSUME NEW i \in Instances, since[i][OldSide] # 0 PROVE ToFold(i)'
    BY <2>1 DEF FoldInv, OldSide
  <2>2. taking /\ shard < ShardOf[i]  BY <1>0, <2>1 DEF FoldInv, ToFold
  <2>3. shard \in Nat /\ ShardOf[i] \in Nat /\ ShardOf[i] <= NumShards /\ NumShards \in Nat
    <3>1. shard \in Shards  BY <1>0 DEF TypeOK
    <3>2. ShardOf[i] \in Shards /\ NumShards \in Nat  BY ShardsAssumption
    <3> QED  BY <3>1, <3>2 DEF Shards
  <2>4. shard < NumShards  BY <2>2, <2>3
  <2>5. shard' = shard + 1 /\ pc'[Consumer] = "swap" /\ taking'
    BY <1>0, <1>20, <2>2, <2>4 DEF TakeNext, TypeOK, Procs
  <2>6. shard + 1 < ShardOf[i] \/ shard + 1 = ShardOf[i]  BY <2>2, <2>3
  <2> QED  BY <2>5, <2>6 DEF ToFold
<1>21. CASE Deliver
  BY <1>0, <1>21, WritersAssumption, FoldFrameStep
  DEF Deliver, FoldFrame, TypeOK, Procs, PutBack
<1>22. CASE Undelivered
  BY <1>0, <1>22, WritersAssumption, FoldFrameStep
  DEF Undelivered, FoldFrame, TypeOK, Procs, PutBack
<1>23. CASE PutBackDone
  BY <1>0, <1>23, WritersAssumption, FoldFrameStep
  DEF PutBackDone, FoldFrame, TypeOK, Procs, PutBack
<1>24. CASE UNCHANGED vars
  BY <1>0, <1>24, FoldFrameStep DEF vars, FoldFrame
<1> QED
  BY <1>1, <1>2, <1>3, <1>4, <1>5, <1>6, <1>7, <1>8, <1>9, <1>10, <1>11, <1>12, <1>13,
     <1>14, <1>15, <1>16, <1>17, <1>18, <1>19, <1>20, <1>21, <1>22, <1>23, <1>24
  DEF Next, WriterStep, ConsumerStep, Mark, Terminating, Procs

-----------------------------------------------------------------------------
(* Nothing the consumer has in its hands is lost *)

\* A writer's step leaves the consumer where it is.
LEMMA WriterFrame ==
    ASSUME TypeOK, NEW w \in Writers, BeginRequest(w) \/ WriterStep(w)
    PROVE  /\ UNCHANGED <<atCut, shard, taken, taking, batch, delivered>>
           /\ pc'[Consumer] = pc[Consumer] /\ obj'[Consumer] = obj[Consumer]
<1>1. UNCHANGED <<atCut, shard, taken, taking, batch, delivered>>
  BY DEF BeginRequest, WriterStep, Mark, Add, LoadCut, Enter, Recheck, BackOut, Count,
         Leave, MarkLoad, MarkCompare, AddLock, AddAppend
<1>2. w # Consumer /\ Consumer \in Procs  BY WritersAssumption DEF Procs
<1>3. CASE AddLock(w)
  BY <1>2, <1>3, AddLockCases DEF AddLock, TypeOK, Procs
<1>4. CASE Recheck(w)
  BY <1>2, <1>4, RecheckCases DEF Recheck, TypeOK, Procs
<1>5. CASE Leave(w)
  BY <1>2, <1>5 DEF Leave, TypeOK, Procs
<1>6. CASE BeginRequest(w) \/ Add(w) \/ LoadCut(w) \/ Enter(w) \/ BackOut(w) \/ Count(w)
  BY <1>2, <1>6 DEF BeginRequest, Add, LoadCut, Enter, BackOut, Count, TypeOK, Procs
<1>7. CASE MarkLoad(w) \/ MarkCompare(w) \/ AddAppend(w)
  BY <1>2, <1>7 DEF MarkLoad, MarkCompare, AddAppend, TypeOK, Procs
<1> QED  BY <1>1, <1>3, <1>4, <1>5, <1>6, <1>7 DEF WriterStep, Mark

\* So does the consumer's own mark, but for its program counter.
LEMMA ConsumerMarkFrame ==
    ASSUME Mark(Consumer)
    PROVE  /\ UNCHANGED <<atCut, shard, taken, taking, batch, delivered, obj>>
           /\ pc[Consumer] \in {"mark", "compare", "lock", "append"}
  BY DEF Mark, MarkLoad, MarkCompare, AddLock, AddAppend

\* The consumer lets go of an instance once it is listed, or has nothing on
\* either side.
LEMMA FoldingStep ==
    ASSUME IndInv, [Next]_vars, NEW i \in Instances, Folding(i)
    PROVE  Folding(i)' \/ Listed(i)' \/ \A b \in Sides : since'[i][b] = 0
<1>0. TypeOK /\ TypeOK' /\ ConsumerPlace /\ EnlistedInv /\ Consumer \in Procs
  BY TypeStep DEF IndInv, Procs
<1>1. CASE \E w \in Writers : BeginRequest(w) \/ WriterStep(w)
  BY <1>0, <1>1, WriterFrame DEF Folding
<1>2. CASE Mark(Consumer)
  <2>1. CASE i \in taken  BY <1>2, <2>1, ConsumerMarkFrame DEF Folding
  <2>2. CASE i \notin taken
    <3>1. taking /\ Marking(Consumer, i)
      BY <1>2, <2>2, ConsumerMarkFrame DEF Folding, Marking
    <3>2. Listed(i)' \/ Marking(Consumer, i)'
      BY <1>0, <3>1, MarkingStep DEF MarkingKept
    <3> QED  BY <1>2, <3>1, <3>2, ConsumerMarkFrame DEF Folding, Marking
  <2> QED  BY <2>1, <2>2
<1>3. ASSUME NEW j \in Instances, FoldSwap(j) PROVE Folding(i)'
  <2>1. /\ pc[Consumer] = "fold" /\ taken' = taken \ {j} /\ taking' = taking
        /\ pc'[Consumer] = "foldcheck" /\ obj'[Consumer] = j
    BY <1>0, <1>3 DEF FoldSwap, TypeOK
  <2> QED  BY <1>0, <2>1 DEF Folding, ConsumerPlace
<1>4. CASE FoldCheck
  <2>1. /\ pc[Consumer] = "foldcheck" /\ taken' = taken /\ taking' = taking
        /\ since' = since /\ obj' = obj
    BY <1>4 DEF FoldCheck
  <2>2. CASE i \in taken  BY <2>1, <2>2 DEF Folding
  <2>3. CASE i \notin taken
    <3>1. taking /\ obj[Consumer] = i /\ ShardOf[i] = shard
      BY <1>0, <2>1, <2>3 DEF Folding, ConsumerPlace, HomeOf
    <3>2. CASE since[i][CurSide] # 0
      <4>1. pc'[Consumer] = "mark"
        BY <1>0, <1>4, <3>1, <3>2 DEF FoldCheck, WrittenAfterCut, TypeOK
      <4> QED  BY <2>1, <3>1, <4>1 DEF Folding
    <3>3. CASE since[i][CurSide] = 0
      <4>1. shard \in Nat
        <5>1. shard \in Shards  BY <1>0 DEF TypeOK
        <5> QED  BY <5>1, ShardsAssumption DEF Shards
      <4>2. ~(shard < ShardOf[i])  BY <3>1, <4>1
      <4>3. since[i][OldSide] = 0
        BY <1>0, <2>1, <2>3, <4>2 DEF EnlistedInv, ToFold
      <4>4. \A b \in Sides : b = CurSide \/ b = OldSide
        BY <1>0, CutSides DEF Sides
      <4> QED  BY <2>1, <3>3, <4>3, <4>4
    <3> QED  BY <3>2, <3>3
  <2> QED  BY <2>2, <2>3
<1>5. CASE TakeNext  BY <1>5 DEF TakeNext, Folding
<1>6. pc[Consumer] \notin {"rest", "cut", "drain", "swap", "settle", "remark"}
  BY <1>0 DEF Folding, ConsumerPlace
<1>7. CASE \/ BeginCut \/ MoveCut \/ Drain \/ TakeShard \/ Deliver \/ Undelivered
           \/ PutBackDone \/ \E j \in Instances : MarkChanged(j)
  BY <1>6, <1>7 DEF BeginCut, MoveCut, Drain, TakeShard, Deliver, Undelivered,
                    PutBackDone, MarkChanged
<1>8. CASE UNCHANGED vars  BY <1>8 DEF vars, Folding
<1> QED  BY <1>1, <1>2, <1>3, <1>4, <1>5, <1>7, <1>8 DEF Next, ConsumerStep, Terminating

\* What is on a side stays listed, or about to be, or in the consumer's hands.
LEMMA EnlistedStep == IndInv /\ [Next]_vars => EnlistedInv'
<1> SUFFICES ASSUME IndInv, [Next]_vars PROVE EnlistedInv'  OBVIOUS
<1>1. FoldInv'  BY FoldStep
<1>2. ASSUME NEW i \in Instances, NEW b \in Sides, since'[i][b] # 0
      PROVE  \/ Listed(i)'
             \/ \E w \in Writers : Marking(w, i)' /\ SideOf(w)' = b
             \/ Folding(i)'
  <2>1. Listed(i) => Listed(i)' \/ Folding(i)'
    <3>1. Listed(i) => Listed(i)' \/ i \in taken'  BY ListedStep
    <3> QED  BY <3>1 DEF Folding
  <2>2. ASSUME NEW w \in Writers, Marking(w, i), SideOf(w) = b
        PROVE  Listed(i)' \/ (Marking(w, i)' /\ SideOf(w)' = b)
    <3>1. w \in Procs  BY DEF Procs
    <3>2. Listed(i)' \/ MarkingKept(w, i)  BY <2>2, <3>1, MarkingStep
    <3> QED  BY <2>2, <3>2 DEF MarkingKept, SideOf
  <2>3. Folding(i) => Folding(i)' \/ Listed(i)'
    <3>1. Folding(i) => Folding(i)' \/ Listed(i)' \/ \A c \in Sides : since'[i][c] = 0
      BY FoldingStep
    <3> QED  BY <1>2, <3>1
  <2>4. SinceKept(i, b)  BY <1>2, SinceStep
  <2>5. since[i][b] # 0 => \/ Listed(i)
                           \/ \E w \in Writers : Marking(w, i) /\ SideOf(w) = b
                           \/ Folding(i)
    BY DEF IndInv, EnlistedInv
  <2> QED  BY <2>1, <2>2, <2>3, <2>4, <2>5 DEF SinceKept
<1> QED  BY <1>1, <1>2 DEF EnlistedInv, FoldInv

\* What is not delivered stays listed, or in the consumer's hands.
LEMMA DeliveryStep == IndInv /\ [Next]_vars => DeliveryInv'
<1> DEFINE Held(i) == \/ i \in taken \/ i \in batch
                      \/ obj[Consumer] = i /\ pc[Consumer] = "foldcheck"
                      \/ ~taking /\ Marking(Consumer, i)
<1> SUFFICES ASSUME IndInv, [Next]_vars, NEW i \in Instances, delivered'[i] # atCut'[i]
             PROVE  Listed(i)' \/ Held(i)'
  BY DEF DeliveryInv
<1>0. TypeOK /\ TypeOK' /\ ConsumerPlace /\ DeliveryInv /\ Consumer \in Procs
  BY TypeStep DEF IndInv, Procs
<1>1. Listed(i) => Listed(i)' \/ i \in taken'  BY ListedStep
<1>2. CASE \E w \in Writers : BeginRequest(w) \/ WriterStep(w)
  BY <1>0, <1>1, <1>2, WriterFrame DEF DeliveryInv, Marking
<1>3. CASE Mark(Consumer)
  <2>1. Marking(Consumer, i) => Listed(i)' \/ Marking(Consumer, i)'
    BY <1>0, MarkingStep DEF MarkingKept
  <2> QED  BY <1>0, <1>1, <1>3, <2>1, ConsumerMarkFrame DEF DeliveryInv
<1>4. ASSUME NEW j \in Instances, FoldSwap(j) PROVE Listed(i)' \/ Held(i)'
  <2>1. /\ pc[Consumer] = "fold" /\ taken' = taken \ {j} /\ batch' = batch
        /\ pc'[Consumer] = "foldcheck" /\ obj'[Consumer] = j /\ delivered' = delivered
        /\ i # j => atCut'[i] = atCut[i]
    BY <1>0, <1>4 DEF FoldSwap, TypeOK
  <2> QED  BY <1>0, <1>1, <2>1 DEF DeliveryInv, Marking
<1>5. CASE FoldCheck
  <2>1. /\ pc[Consumer] = "foldcheck" /\ taken' = taken /\ batch' = batch \cup {obj[Consumer]}
        /\ UNCHANGED <<atCut, delivered, obj>>
    BY <1>5 DEF FoldCheck
  <2> QED  BY <1>0, <1>1, <2>1 DEF DeliveryInv, Marking
<1>6. CASE TakeShard
  <2>1. pc[Consumer] = "swap" /\ UNCHANGED <<atCut, delivered, batch>> /\ taken = {}
    BY <1>0, <1>6 DEF TakeShard, ConsumerPlace
  <2> QED  BY <1>0, <1>1, <2>1 DEF DeliveryInv, Marking
<1>7. CASE BeginCut \/ MoveCut \/ Drain \/ TakeNext \/ Undelivered \/ PutBackDone
  <2>1. /\ UNCHANGED <<atCut, delivered, batch, taken>>
        /\ pc[Consumer] \notin {"foldcheck", "mark", "compare", "lock", "append"}
    BY <1>7 DEF BeginCut, MoveCut, Drain, TakeNext, Undelivered, PutBackDone, PutBack
  <2> QED  BY <1>0, <1>1, <2>1 DEF DeliveryInv, Marking
<1>8. CASE Deliver
  <2>1. pc[Consumer] = "settle" /\ UNCHANGED <<atCut, taken>>
    BY <1>8 DEF Deliver
  <2>2. i \notin batch /\ delivered'[i] = delivered[i]  BY <1>0, <1>8 DEF Deliver
  <2> QED  BY <1>0, <1>1, <2>1, <2>2 DEF DeliveryInv, Marking
<1>9. ASSUME NEW j \in Instances, MarkChanged(j) PROVE Listed(i)' \/ Held(i)'
  <2>1. /\ pc[Consumer] = "remark" /\ UNCHANGED <<atCut, delivered, taken, taking>>
        /\ batch' = batch \ {j} /\ pc'[Consumer] = "mark" /\ obj'[Consumer] = j
    BY <1>0, <1>9 DEF MarkChanged, TypeOK
  <2>2. ~taking  BY <1>0, <2>1 DEF ConsumerPlace
  <2> QED  BY <1>0, <1>1, <2>1, <2>2 DEF DeliveryInv, Marking
<1>10. CASE UNCHANGED vars
  BY <1>0, <1>1, <1>10 DEF vars, DeliveryInv, Marking
<1> QED  BY <1>2, <1>3, <1>4, <1>5, <1>6, <1>7, <1>8, <1>9, <1>10
         DEF Next, ConsumerStep, Terminating

-----------------------------------------------------------------------------
(* The inductive invariant, and what follows from it *)

\* A tracker whose instances are all listed satisfies the invariant.
LEMMA InitIndInv == Init => IndInv
<1> SUFFICES ASSUME Init PROVE IndInv  OBVIOUS
<1> USE DEF Init
<1>0. Consumer \in Procs /\ \A w \in Writers : w \in Procs  BY DEF Procs
<1>1. TypeOK
  <2>1. /\ value \in [Instances -> Nat] /\ atCut \in [Instances -> Nat]
        /\ dEpoch \in [Instances -> Nat] /\ sEpoch \in [Shards -> Nat]
        /\ delivered \in [Instances -> Nat] /\ made \in [Instances -> Nat]
        /\ snap \in [Instances -> Nat] /\ reported \in [Instances -> Nat]
        /\ sawCut \in [Writers -> Nat] /\ sawEpoch \in [Procs -> Nat]
        /\ step \in [Writers -> Nat] /\ requests \in [Writers -> Nat]
        /\ cut \in Nat /\ readers \subseteq Grouped /\ cutWaits \in BOOLEAN
        /\ taken \subseteq Instances /\ taking \in BOOLEAN /\ batch \subseteq Instances
    OBVIOUS
  <2>2. /\ since \in [Instances -> [Sides -> Nat]] /\ inflight \in [Shards -> [Sides -> Nat]]
    OBVIOUS
  <2>3. dirty \in [Shards -> SUBSET Instances] /\ mu \in [Shards -> Procs \cup {None}]
    OBVIOUS
  <2>4. /\ pc \in [Procs -> WriterLabels \cup ConsumerLabels]
        /\ \A w \in Writers : pc[w] \in WriterLabels
        /\ pc[Consumer] \in ConsumerLabels
    BY <1>0 DEF WriterLabels, ConsumerLabels
  <2>5. obj \in [Procs -> Instances]
    <3>1. (CHOOSE i \in Instances : TRUE) \in Instances  BY InstancesAssumption
    <3> QED  BY <3>1, RequestItems DEF Procs
  <2>6. \A w \in Writers : step[w] \in 1..Len(Request[w])  BY RequestItems
  <2>7. shard \in Shards
    <3>1. NumShards \in Nat /\ NumShards >= 1  BY ShardsAssumption
    <3> QED  BY <3>1 DEF Shards
  <2> QED  BY <2>1, <2>2, <2>3, <2>4, <2>5, <2>6, <2>7 DEF TypeOK
<1>2. \A p \in Procs : pc[p] = "rest"  OBVIOUS
<1>3. ConsumerPlace  BY <1>0, <1>2 DEF ConsumerPlace, InScrape
<1>4. \A i \in Instances : ShardOf[i] \in Shards /\ i \in dirty[ShardOf[i]]
  BY ShardsAssumption
<1>5. ListsInv
  <2>1. \A i \in Instances : Listed(i)  BY <1>4 DEF Listed
  <2>2. \A i \in Instances : dEpoch[i] = 1 /\ sEpoch[ShardOf[i]] = 1  BY <1>4
  <2>3. EpochMeansListed  BY <2>1, <2>2 DEF EpochMeansListed
  <2>4. \A s \in Shards : \A p \in Procs : mu[s] # p  BY NoneAssumption
  <2>5. \A s \in Shards : \A i \in dirty[s] : ShardOf[i] = s  OBVIOUS
  <2> HIDE DEF Init
  <2>6. \A i \in Instances : dEpoch[i] <= sEpoch[ShardOf[i]]  BY <2>2
  <2> QED  BY <1>2, <2>3, <2>4, <2>5, <2>6 DEF ListsInv
<1>6. SidesInv
  <2>1. \A s \in Shards, c \in Sides : RegisteredOn(s, c) = {}
    BY <1>0, <1>2 DEF RegisteredOn, Registered
  <2>2. Cardinality({}) = 0  BY FS_EmptySet
  <2>3. \A w \in Writers : ~Decided(w) /\ sawCut[w] <= cut
    BY <1>0, <1>2 DEF Decided
  <2> QED  BY <2>1, <2>2, <2>3 DEF SidesInv
<1>7. CountsInv
  <2>1. \A i, c : Counting(i, c) = {}  BY <1>0, <1>2 DEF Counting
  <2>2. Cardinality({}) = 0  BY FS_EmptySet
  <2>3. CurSide \in Sides /\ OldSide \in Sides  BY <1>1, CutSides
  <2>4. \A i \in Instances : since[i][CurSide] = 0 /\ since[i][OldSide] = 0  BY <2>3
  <2>5. \A i \in Instances : made[i] = 0 /\ snap[i] = 0 /\ atCut[i] = 0  OBVIOUS
  <2> HIDE DEF Init
  <2>6. \A i \in Instances : /\ Cardinality(Counting(i, cut)) = 0
                             /\ Cardinality(Counting(i, cut - 1)) = 0
    BY <2>1, <2>2
  <2> QED  BY <2>4, <2>5, <2>6 DEF CountsInv
<1>8. EnlistedInv
  <2>1. OldSide \in Sides  BY <1>1, CutSides
  <2> QED  BY <2>1 DEF EnlistedInv
<1>9. DeliveryInv  BY DEF DeliveryInv
<1> QED  BY <1>1, <1>3, <1>5, <1>6, <1>7, <1>8, <1>9 DEF IndInv

\* Every step of a writer and of the consumer keeps it.
LEMMA IndInvStep == IndInv /\ [Next]_vars => IndInv'
  BY TypeStep, ConsumerPlaceStep, ListsStep, SidesStep, CountsStep, EnlistedStep,
     DeliveryStep DEF IndInv

\* The inductive invariant holds of the tracker, whatever the number of writers,
\* counters, shards, requests and scrapes.
THEOREM Invariance == Spec => []IndInv
  BY InitIndInv, IndInvStep, PTL DEF Spec

\* Between scrapes the old side is empty, so atCut is all of snap.
LEMMA CutOfOneMoment == IndInv => CutIsOneMoment
<1> SUFFICES ASSUME IndInv, ~InScrape PROVE atCut = snap  BY DEF CutIsOneMoment
<1>1. TypeOK /\ CountsInv  BY DEF IndInv
<1>2. ASSUME NEW i \in Instances PROVE atCut[i] = snap[i]
  <2>1. since[i][OldSide] = 0 /\ Counting(i, cut - 1) = {}  BY OldSideEmpty
  <2>2. Cardinality({}) = 0  BY FS_EmptySet
  <2>3. snap[i] = atCut[i] + since[i][OldSide] + Cardinality(Counting(i, cut - 1))
    BY <1>1 DEF CountsInv
  <2>4. atCut[i] \in Nat  BY <1>1 DEF TypeOK
  <2> QED  BY <2>1, <2>2, <2>3, <2>4
<1> QED  BY <1>1, <1>2 DEF TypeOK

\* Between scrapes the invariant leaves an undelivered write no place but the lists.
LEMMA NothingLost == IndInv => NoLostWrite
<1> SUFFICES ASSUME IndInv, pc[Consumer] = "rest", NEW i \in Instances, made[i] # delivered[i]
             PROVE  \/ i \in dirty[ShardOf[i]]
                    \/ \E w \in Writers : obj[w] = i /\ Enlisting(w)
  BY DEF NoLostWrite
<1>0. TypeOK /\ ConsumerPlace /\ CountsInv /\ EnlistedInv /\ DeliveryInv  BY DEF IndInv
<1>1. ~taking /\ taken = {} /\ batch = {}  BY <1>0 DEF ConsumerPlace
<1>2. ~Folding(i) /\ ~Marking(Consumer, i)  BY <1>1 DEF Folding, Marking
<1>3. Listed(i) => \/ i \in dirty[ShardOf[i]]
                   \/ \E w \in Writers : obj[w] = i /\ Enlisting(w)
  BY DEF Listed, Appending, Enlisting, Procs
<1>4. CASE delivered[i] # atCut[i]
  BY <1>0, <1>1, <1>2, <1>3, <1>4 DEF DeliveryInv
<1>5. CASE since[i][CurSide] # 0
  <2>1. CurSide \in Sides  BY <1>0, CutSides
  <2>2. Listed(i) \/ \E w \in Writers : Marking(w, i)
    BY <1>0, <1>2, <1>5, <2>1 DEF EnlistedInv
  <2> QED  BY <1>3, <2>2 DEF Marking, Enlisting
<1>6. CASE Counting(i, cut) # {}
  BY <1>6 DEF Counting, Enlisting
<1>7. CASE delivered[i] = atCut[i] /\ since[i][CurSide] = 0 /\ Counting(i, cut) = {}
  <2>1. atCut[i] = snap[i]
    BY <1>1, CutOfOneMoment DEF CutIsOneMoment, InScrape
  <2>2. made[i] = snap[i] + since[i][CurSide] + Cardinality(Counting(i, cut))
    BY <1>0 DEF CountsInv
  <2>3. Cardinality({}) = 0 /\ snap[i] \in Nat  BY <1>0, FS_EmptySet DEF TypeOK
  <2> QED  BY <1>7, <2>1, <2>2, <2>3
<1> QED  BY <1>4, <1>5, <1>6, <1>7

\* Every variable keeps its type: no inflight count goes below zero, so count
\* deregisters from the side it registered on.
THEOREM TypeCorrect == Spec => []TypeOK
<1>1. IndInv => TypeOK  BY DEF IndInv
<1> QED  BY <1>1, Invariance, PTL

\* Equal epochs mean a listed instance, so mark may return without the mutex.
THEOREM EpochsTellListed == Spec => []EpochMeansListed
<1>1. IndInv => EpochMeansListed  BY DEF IndInv, ListsInv
<1> QED  BY <1>1, Invariance, PTL

\* No write is lost between the lock-free mark, Take and an undelivered scrape.
THEOREM NoWriteLost == Spec => []NoLostWrite
  BY NothingLost, Invariance, PTL

\* After Cut and Take every counter has its value at the one moment of the cut.
THEOREM CutConsistent == Spec => []CutIsOneMoment
  BY CutOfOneMoment, Invariance, PTL

-----------------------------------------------------------------------------
(* Cut and Take implement AtomicCut *)

\* A step that neither decides a write, nor moves the cut on, nor ends Take.
LEMMA AbstractStutter ==
    ASSUME UNCHANGED <<made, snap, reported, taking>>,
           pc[Consumer] = "drain" <=> pc'[Consumer] = "drain"
    PROVE  UNCHANGED AtomicCut!vars
  BY DEF AtomicCut!vars, InScrape

\* Every step of the tracker is a step of AtomicCut or leaves its variables alone.
LEMMA AtomicCutStep == IndInv /\ [Next]_vars => [AtomicCut!Next]_(AtomicCut!vars)
<1> SUFFICES ASSUME IndInv, [Next]_vars PROVE AtomicCut!Next \/ UNCHANGED AtomicCut!vars
  OBVIOUS
<1>0. TypeOK /\ TypeOK' /\ ConsumerPlace /\ Consumer \in Procs /\ IndInv'
  BY TypeStep, IndInvStep DEF IndInv, Procs
<1>1. ASSUME NEW w \in Writers, Recheck(w)
      PROVE  AtomicCut!Next \/ UNCHANGED AtomicCut!vars
  <2>1. UNCHANGED <<snap, reported, taking>> /\ pc'[Consumer] = pc[Consumer]
    BY <1>0, <1>1, WriterFrame DEF Recheck, WriterStep
  <2>2. CASE made' = made  BY <2>1, <2>2, AbstractStutter
  <2>3. CASE made' = [made EXCEPT ![obj[w]] = @ + 1]
    <3>1. obj[w] \in Instances /\ InScrape' = InScrape  BY <1>0, <2>1, WriterPlace DEF InScrape
    <3>2. AtomicCut!Write(obj[w])  BY <2>1, <2>3, <3>1 DEF AtomicCut!Write
    <3> QED  BY <3>1, <3>2 DEF AtomicCut!Next
  <2> QED  BY <1>1, <2>2, <2>3, RecheckCases
<1>2. ASSUME NEW w \in Writers, BeginRequest(w) \/ WriterStep(w), ~Recheck(w)
      PROVE  UNCHANGED AtomicCut!vars
  <2>1. UNCHANGED <<made, snap, reported>>
    BY <1>2 DEF BeginRequest, WriterStep, Mark, Add, LoadCut, Enter, BackOut, Count,
                Leave, MarkLoad, MarkCompare, AddLock, AddAppend
  <2> QED  BY <1>0, <1>2, <2>1, WriterFrame, AbstractStutter
<1>3. CASE MoveCut
  <2>1. /\ ~taking /\ taking' = taking /\ pc[Consumer] = "cut" /\ pc'[Consumer] = "drain"
        /\ snap' = made /\ UNCHANGED <<made, reported>>
    BY <1>0, <1>3 DEF MoveCut, ConsumerPlace, TypeOK
  <2>2. ~InScrape /\ InScrape' = TRUE  BY <2>1 DEF InScrape
  <2>3. AtomicCut!Cut  BY <2>1, <2>2 DEF AtomicCut!Cut
  <2> QED  BY <2>3 DEF AtomicCut!Next
<1>4. CASE TakeNext
  <2>1. pc[Consumer] = "fold" /\ taking /\ UNCHANGED <<made, snap, atCut>>
    BY <1>0, <1>4 DEF TakeNext, ConsumerPlace
  <2>2. CASE shard < NumShards
    <3>1. UNCHANGED <<reported, taking>> /\ pc'[Consumer] = "swap"
      BY <1>0, <1>4, <2>2 DEF TakeNext, TypeOK
    <3> QED  BY <2>1, <3>1, AbstractStutter
  <2>3. CASE ~(shard < NumShards)
    <3>1. taking' = FALSE /\ reported' = atCut /\ pc'[Consumer] = "settle"
      BY <1>0, <1>4, <2>3 DEF TakeNext, TypeOK
    <3>2. InScrape /\ InScrape' = FALSE  BY <2>1, <3>1 DEF InScrape
    <3>3. (CutIsOneMoment)'
      <4>1. IndInv'  BY <1>0
      <4> QED  BY <4>1, CutOfOneMoment, PTL
    <3>4. atCut = snap  BY <2>1, <3>2, <3>3 DEF CutIsOneMoment
    <3>5. AtomicCut!Report  BY <2>1, <3>1, <3>2, <3>4 DEF AtomicCut!Report
    <3> QED  BY <3>5 DEF AtomicCut!Next
  <2> QED  BY <2>2, <2>3
<1>5. CASE Drain
  <2>1. UNCHANGED <<made, snap, reported>> /\ pc[Consumer] = "drain"  BY <1>5 DEF Drain
  <2>2. taking' = TRUE \/ (taking' = taking /\ pc' = pc)
    BY <1>5 DEF Drain
  <2>3. InScrape' = InScrape  BY <2>1, <2>2 DEF InScrape
  <2> QED  BY <2>1, <2>3 DEF AtomicCut!vars
<1>6. CASE Mark(Consumer)
  <2>1. UNCHANGED <<made, snap, reported, taking>>
    BY <1>6 DEF Mark, MarkLoad, MarkCompare, AddLock, AddAppend
  <2>2. pc[Consumer] # "drain"  BY <1>6, ConsumerMarkFrame
  <2>3. pc'[Consumer] # "drain"
    <3>1. CASE AddLock(Consumer)
      <4>1. AfterMark(Consumer) # "drain"  BY WritersAssumption DEF AfterMark
      <4>2. pc'[Consumer] \in {"append", AfterMark(Consumer)}
        BY <1>0, <3>1, AddLockCases DEF TypeOK
      <4> QED  BY <4>1, <4>2
    <3>2. CASE MarkLoad(Consumer) \/ MarkCompare(Consumer) \/ AddAppend(Consumer)
      BY <1>0, <3>2, WritersAssumption
      DEF MarkLoad, MarkCompare, AddAppend, AfterMark, TypeOK
    <3> QED  BY <1>6, <3>1, <3>2 DEF Mark
  <2> QED  BY <2>1, <2>2, <2>3, AbstractStutter
<1>7. CASE \/ BeginCut \/ TakeShard \/ FoldCheck \/ Deliver \/ Undelivered \/ PutBackDone
           \/ \E i \in Instances : FoldSwap(i) \/ MarkChanged(i)
  <2>1. UNCHANGED <<made, snap, reported, taking>>
    BY <1>7 DEF BeginCut, TakeShard, FoldCheck, Deliver, Undelivered, PutBackDone,
                FoldSwap, MarkChanged
  <2>2. pc[Consumer] # "drain"
    BY <1>7 DEF BeginCut, TakeShard, FoldCheck, Deliver, Undelivered, PutBackDone,
                FoldSwap, MarkChanged
  <2>3. pc'[Consumer] # "drain"
    BY <1>0, <1>7 DEF BeginCut, TakeShard, FoldCheck, Deliver, Undelivered, PutBackDone,
                FoldSwap, MarkChanged, TypeOK
  <2> QED  BY <2>1, <2>2, <2>3, AbstractStutter
<1>8. CASE UNCHANGED vars
  BY <1>8 DEF vars, AtomicCut!vars, InScrape
<1> QED  BY <1>1, <1>2, <1>3, <1>4, <1>5, <1>6, <1>7, <1>8 DEF Next, ConsumerStep, Terminating

\* Cut, Take and the lock-free writers implement a cut of all counters in one
\* step: what a scrape reports is what one moment saw.
THEOREM Refinement == Spec => ImplementsAtomicCut
<1>1. Init => AtomicCut!Init
  BY DEF Init, AtomicCut!Init, InScrape, Procs
<1> QED  BY <1>1, AtomicCutStep, Invariance, PTL
         DEF Spec, ImplementsAtomicCut, AtomicCut!Spec

-----------------------------------------------------------------------------
(* The order of the writes a scrape reports.  A count is the cardinality of the set of      *)
(* requests whose write of the counter is decided, so that what is written before is a      *)
(* superset, and a whole group is in the sets of all its counters: sets of requests.        *)

\* Sets of requests are finite, and so are their cardinalities.
LEMMA FiniteRequests ==
    ASSUME NEW S \in SUBSET (Writers \X (1..MaxRequests))
    PROVE  IsFiniteSet(S) /\ Cardinality(S) \in Nat
<1>1. IsFiniteSet(1..MaxRequests)  BY BoundsAssumption, FS_Interval
<1>2. IsFiniteSet(Writers \X (1..MaxRequests))
  BY <1>1, WritersAssumption, FS_Product
<1> QED  BY <1>2, FS_Subset, FS_CardinalityType

\* A part of a set of requests is not larger than the set.
LEMMA FewerRequests ==
    ASSUME NEW S \in SUBSET (Writers \X (1..MaxRequests)), NEW T \in SUBSET S
    PROVE  Cardinality(T) <= Cardinality(S)
<1>1. IsFiniteSet(S)  BY FiniteRequests
<1> QED  BY <1>1, FS_Subset

\* What is counted are requests.
LEMMA CountedRequests ==
    ASSUME NEW i, NEW j
    PROVE  /\ DecidedWrites(i) \in SUBSET (Writers \X (1..MaxRequests))
           /\ Apart(i, j) \in SUBSET (Writers \X (1..MaxRequests))
           /\ Cardinality(DecidedWrites(i)) \in Nat /\ Cardinality(Apart(i, j)) \in Nat
<1>1. /\ DecidedWrites(i) \in SUBSET (Writers \X (1..MaxRequests))
      /\ Apart(i, j) \in SUBSET (Writers \X (1..MaxRequests))
  BY DEF DecidedWrites, Apart
<1> QED  BY <1>1, FiniteRequests

\* A writer that has decided a write has decided those before it in the request.
LEMMA DecidedInOrder ==
    ASSUME NEW i \in Instances, NEW j \in Instances, WrittenBefore(i, j), TypeOK
    PROVE  Cardinality(DecidedWrites(j)) <= Cardinality(DecidedWrites(i))
<1>1. ASSUME NEW r \in DecidedWrites(j) PROVE r \in DecidedWrites(i)
  <2>1. r \in Writers \X (1..MaxRequests) /\ r[1] \in Writers /\ r[2] <= requests[r[1]]
    BY DEF DecidedWrites
  <2>2. PICK n \in 1..Len(Request[r[1]]) :
            /\ Request[r[1]][n] = j /\ (r[2] < requests[r[1]] \/ n <= DecidedUpTo(r[1]))
    BY DEF DecidedWrites
  <2>3. PICK m \in 1..(n - 1) : Request[r[1]][m] = i  BY <2>1, <2>2 DEF WrittenBefore
  <2>4. Len(Request[r[1]]) \in Nat  BY <2>1, RequestItems
  <2>5. step[r[1]] \in Nat  BY <2>1 DEF TypeOK
  <2>6. DecidedUpTo(r[1]) \in Int  BY <2>4, <2>5 DEF DecidedUpTo
  <2>7. m \in 1..Len(Request[r[1]]) /\ (n <= DecidedUpTo(r[1]) => m <= DecidedUpTo(r[1]))
    BY <2>4, <2>6
  <2> QED  BY <2>1, <2>2, <2>3, <2>7 DEF DecidedWrites
<1> QED  BY <1>1, CountedRequests, FewerRequests

\* With no group in progress, a group is in the sets of all its counters.
LEMMA DecidedInGroups ==
    ASSUME NEW i \in Instances, NEW j \in Instances, RequestPlace, readers = {}
    PROVE  Cardinality(DecidedWrites(i)) <= Cardinality(DecidedWrites(j)) + Cardinality(Apart(i, j))
<1>1. ASSUME NEW r \in DecidedWrites(i), r \notin Apart(i, j) PROVE r \in DecidedWrites(j)
  <2>1. r \in Writers \X (1..MaxRequests) /\ r[1] \in Writers /\ r[2] <= requests[r[1]]
    BY DEF DecidedWrites
  <2>2. Writes(r[1], i)  BY DEF DecidedWrites, Writes
  <2>3. r[1] \in Grouped /\ Writes(r[1], j)  BY <1>1, <2>1, <2>2 DEF Apart
  <2>4. pc[r[1]] = "rest"  BY <2>1, <2>3 DEF RequestPlace
  <2>5. PICK n \in 1..Len(Request[r[1]]) : Request[r[1]][n] = j  BY <2>3 DEF Writes
  <2>6. n <= DecidedUpTo(r[1])  BY <2>1, <2>4, <2>5, RequestItems DEF DecidedUpTo
  <2> QED  BY <2>1, <2>5, <2>6 DEF DecidedWrites
<1> DEFINE J == DecidedWrites(j)
           A == Apart(i, j)
<1>2. J \cup A \in SUBSET (Writers \X (1..MaxRequests)) /\ DecidedWrites(i) \subseteq J \cup A
  BY <1>1, CountedRequests
<1>3. Cardinality(DecidedWrites(i)) <= Cardinality(J \cup A)  BY <1>2, FewerRequests
<1>4. IsFiniteSet(J) /\ IsFiniteSet(A) /\ IsFiniteSet(J \cap A)
  BY CountedRequests, FiniteRequests, FS_Intersection
<1>5. Cardinality(J \cup A) = Cardinality(J) + Cardinality(A) - Cardinality(J \cap A)
  BY <1>4, FS_Union
<1>6. /\ Cardinality(J) \in Nat /\ Cardinality(A) \in Nat /\ Cardinality(J \cap A) \in Nat
      /\ Cardinality(DecidedWrites(i)) \in Nat
  BY <1>4, CountedRequests, FS_CardinalityType
<1> QED  BY <1>3, <1>5, <1>6

\* As requests begin, the requests that keep two counters apart become no fewer.
LEMMA ApartGrows ==
    ASSUME TypeOK, TypeOK', \A w \in Writers : requests[w] <= requests'[w],
           NEW i \in Instances, NEW j \in Instances
    PROVE  Cardinality(Apart(i, j)) <= Cardinality(Apart(i, j)')
<1>1. \A w \in Writers : requests[w] \in Nat /\ requests'[w] \in Nat  BY DEF TypeOK
<1>2. ASSUME NEW r \in Apart(i, j) PROVE r \in Apart(i, j)'
  <2>1. r \in Writers \X (1..MaxRequests) /\ r[1] \in Writers /\ r[2] \in 1..MaxRequests
    BY DEF Apart
  <2>2. r[2] <= requests[r[1]]  BY DEF Apart
  <2>3. r[2] \in Int  BY <2>1, BoundsAssumption
  <2>4. r[2] <= requests'[r[1]]  BY <1>1, <2>1, <2>2, <2>3
  <2> QED  BY <2>1, <2>4 DEF Apart, Writes
<1>3. Apart(i, j)' \in SUBSET (Writers \X (1..MaxRequests))  BY DEF Apart
<1> QED  BY <1>2, <1>3, FewerRequests

-----------------------------------------------------------------------------
(* The steps *)

\* A step that begins no request, decides no write and ends none.
Quiet(w) == /\ requests'[w] = requests[w] /\ step'[w] = step[w] /\ obj'[w] = obj[w]
            /\ pc'[w] = "rest" <=> pc[w] = "rest"
            /\ Decided(w)' <=> Decided(w)
            /\ w \in readers' <=> w \in readers

\* A step after which the writer is as far as before.
AsFar(w) == requests'[w] = requests[w] /\ DecidedUpTo(w)' = DecidedUpTo(w)

\* If every writer keeps how far it is, the same writes are decided.
LEMMA AsFarFrame ==
    ASSUME \A w \in Writers : AsFar(w),
           NEW i \in Instances
    PROVE  DecidedWrites(i)' = DecidedWrites(i)
<1>1. ASSUME NEW r \in Writers \X (1..MaxRequests)
      PROVE  r \in DecidedWrites(i)' <=> r \in DecidedWrites(i)
  <2>1. /\ r[1] \in Writers
        /\ requests'[r[1]] = requests[r[1]] /\ DecidedUpTo(r[1])' = DecidedUpTo(r[1])
    BY DEF AsFar
  <2> QED  BY <2>1 DEF DecidedWrites
<1>2. /\ DecidedWrites(i)' \subseteq Writers \X (1..MaxRequests)
      /\ DecidedWrites(i) \subseteq Writers \X (1..MaxRequests)
  BY DEF DecidedWrites
<1> QED  BY <1>1, <1>2

\* Most steps are quiet for every writer.
OtherStep ==
    \/ \E w \in Writers : \/ Add(w) \/ LoadCut(w) \/ Enter(w) \/ BackOut(w) \/ Count(w) \/ Mark(w)
    \/ BeginCut \/ MoveCut \/ Drain \/ TakeShard \/ FoldCheck \/ TakeNext
    \/ \E i \in Instances : FoldSwap(i) \/ MarkChanged(i)
    \/ Deliver \/ Undelivered \/ PutBackDone \/ Mark(Consumer)

LEMMA QuietStep ==
    ASSUME TypeOK, OtherStep \/ UNCHANGED vars
    PROVE  (\A w \in Writers : Quiet(w)) /\ made' = made
<1>0. /\ \A w \in Writers : w \in Procs /\ w # Consumer
      /\ Consumer \in Procs
  BY WritersAssumption DEF Procs
<1>t. pc \in [Procs -> WriterLabels \cup ConsumerLabels] /\ obj \in [Procs -> Instances]
  BY DEF TypeOK
<1>1. ASSUME NEW w \in Writers, Add(w) \/ LoadCut(w) \/ Enter(w) \/ BackOut(w) \/ Count(w)
      PROVE  (\A v \in Writers : Quiet(v)) /\ made' = made
  BY <1>0, <1>t, <1>1 DEF Add, LoadCut, Enter, BackOut, Count, Quiet, Decided
<1>2. ASSUME NEW p \in Procs, Mark(p)
      PROVE  (\A v \in Writers : Quiet(v)) /\ made' = made
  <2>1. /\ UNCHANGED <<requests, step, obj, readers, made>>
        /\ pc[p] \in {"mark", "compare", "lock", "append"}
    BY <1>2 DEF Mark, MarkLoad, MarkCompare, AddLock, AddAppend
  <2>2. \E l \in {"compare", "lock", "append", AfterMark(p)} : pc' = [pc EXCEPT ![p] = l]
    <3>1. CASE AddLock(p)  BY <3>1, AddLockCases
    <3>2. CASE MarkLoad(p) \/ MarkCompare(p) \/ AddAppend(p)
      BY <3>2 DEF MarkLoad, MarkCompare, AddAppend
    <3> QED  BY <1>2, <3>1, <3>2 DEF Mark
  <2>3. p \in Writers => AfterMark(p) = "leave"  BY AfterMarkPlace
  <2>4. ASSUME NEW v \in Writers PROVE Quiet(v)
    <3>1. CASE v = p  BY <1>0, <1>t, <2>1, <2>2, <2>3, <3>1 DEF Quiet, Decided
    <3>2. CASE v # p
      <4>1. pc'[v] = pc[v]  BY <1>0, <1>t, <2>2, <3>2
      <4> QED  BY <2>1, <4>1 DEF Quiet, Decided
    <3> QED  BY <3>1, <3>2
  <2> QED  BY <2>1, <2>4
<1>3. CASE \/ BeginCut \/ MoveCut \/ Drain \/ TakeShard \/ FoldCheck \/ TakeNext
           \/ \E i \in Instances : FoldSwap(i) \/ MarkChanged(i)
           \/ Deliver \/ Undelivered \/ PutBackDone
  <2>1. UNCHANGED <<requests, step, readers, made>>
    BY <1>3 DEF BeginCut, MoveCut, Drain, TakeShard, FoldCheck, TakeNext, FoldSwap, MarkChanged,
                Deliver, Undelivered, PutBackDone
  <2>2. \A v \in Writers : pc'[v] = pc[v] /\ obj'[v] = obj[v]
    BY <1>0, <1>3, <1>t DEF BeginCut, MoveCut, Drain, TakeShard, FoldCheck, TakeNext, FoldSwap,
                MarkChanged, Deliver, Undelivered, PutBackDone
  <2> QED  BY <2>1, <2>2 DEF Quiet, Decided
<1>4. CASE UNCHANGED vars  BY <1>4 DEF vars, Quiet, Decided
<1> QED  BY <1>0, <1>1, <1>2, <1>3, <1>4 DEF OtherStep

\* Every step is a request's beginning, a decision, a write's end, or quiet.
LEMMA StepKinds ==
    ASSUME [Next]_vars
    PROVE  \/ \E w \in Writers : BeginRequest(w) \/ Recheck(w) \/ Leave(w)
           \/ OtherStep \/ UNCHANGED vars
  BY DEF Next, WriterStep, ConsumerStep, Terminating, OtherStep

\* Where a writer that begins, decides or ends a write goes, the others unmoved.
LEMMA LoudStep ==
    ASSUME TypeOK, NEW w \in Writers, BeginRequest(w) \/ Recheck(w) \/ Leave(w)
    PROVE  \A v \in Writers \ {w} : Quiet(v)
<1>0. /\ \A v \in Writers : v \in Procs
      /\ pc \in [Procs -> WriterLabels \cup ConsumerLabels] /\ obj \in [Procs -> Instances]
      /\ step \in [Writers -> Nat] /\ requests \in [Writers -> Nat]
  BY DEF TypeOK, Procs
<1>1. CASE BeginRequest(w)  BY <1>0, <1>1 DEF BeginRequest, Quiet, Decided
<1>2. CASE Recheck(w)
  <2>1. UNCHANGED <<obj, step, requests, readers>>  BY <1>2 DEF Recheck
  <2>2. \A v \in Writers \ {w} : pc'[v] = pc[v]  BY <1>0, <1>2, RecheckCases
  <2> QED  BY <2>1, <2>2 DEF Quiet, Decided
<1>3. CASE Leave(w)  BY <1>0, <1>3 DEF Leave, Quiet, Decided
<1> QED  BY <1>1, <1>2, <1>3

\* Quiet writers keep their place in their requests.
LEMMA QuietPlace ==
    ASSUME RequestPlace, NEW v \in Writers, Quiet(v)
    PROVE  /\ requests'[v] <= MaxRequests
           /\ pc'[v] # "rest" => requests'[v] >= 1 /\ obj'[v] = Request[v][step'[v]]
           /\ v \in Grouped /\ pc'[v] # "rest" => v \in readers'
           /\ requests[v] = requests'[v] /\ DecidedUpTo(v)' = DecidedUpTo(v)
  BY DEF RequestPlace, Quiet, DecidedUpTo

\* The writers' places in their requests are kept.
LEMMA RequestPlaceStep ==
    ASSUME TypeOK, TypeOK', RequestPlace, [Next]_vars
    PROVE  RequestPlace' /\ \A v \in Writers : requests[v] <= requests'[v]
<1>0. /\ \A v \in Writers : v \in Procs
      /\ pc \in [Procs -> WriterLabels \cup ConsumerLabels] /\ obj \in [Procs -> Instances]
      /\ step \in [Writers -> Nat] /\ requests \in [Writers -> Nat]
      /\ requests' \in [Writers -> Nat] /\ MaxRequests \in Nat
  BY BoundsAssumption DEF TypeOK, Procs
<1>1. ASSUME NEW w \in Writers, BeginRequest(w) \/ Recheck(w) \/ Leave(w)
      PROVE  /\ requests'[w] <= MaxRequests
             /\ pc'[w] # "rest" => requests'[w] >= 1 /\ obj'[w] = Request[w][step'[w]]
             /\ w \in Grouped /\ pc'[w] # "rest" => w \in readers'
             /\ requests[w] <= requests'[w]
  <2>0. /\ requests[w] <= MaxRequests
        /\ pc[w] # "rest" => requests[w] >= 1 /\ obj[w] = Request[w][step[w]]
        /\ w \in Grouped /\ pc[w] # "rest" => w \in readers
    BY DEF RequestPlace
  <2>1. CASE BeginRequest(w)  BY <1>0, <2>1 DEF BeginRequest
  <2>2. CASE Recheck(w)
    <3>1. UNCHANGED <<obj, step, requests, readers>> /\ pc[w] = "recheck"  BY <2>2 DEF Recheck
    <3> QED  BY <1>0, <2>0, <3>1
  <2>3. CASE Leave(w)  BY <1>0, <2>0, <2>3 DEF Leave
  <2> QED  BY <1>1, <2>1, <2>2, <2>3
<1>2. ASSUME NEW w \in Writers, BeginRequest(w) \/ Recheck(w) \/ Leave(w)
      PROVE  RequestPlace' /\ \A v \in Writers : requests[v] <= requests'[v]
  <2>1. \A v \in Writers \ {w} : Quiet(v)  BY <1>2, LoudStep
  <2> QED  BY <1>0, <1>1, <1>2, <2>1, QuietPlace DEF RequestPlace
<1>3. CASE OtherStep \/ UNCHANGED vars
  BY <1>0, <1>3, QuietStep, QuietPlace DEF RequestPlace
<1> QED  BY <1>2, <1>3, StepKinds

\* A count is that of the requests whose write is decided.
MadeInv == \A i \in Instances : made[i] = Cardinality(DecidedWrites(i))

\* The request under way of a writer that decides a write, and the others.
LEMMA DecisionCounts ==
    ASSUME TypeOK, TypeOK', RequestPlace, NEW w \in Writers, Recheck(w), cut = sawCut[w],
           made' = [made EXCEPT ![obj[w]] = @ + 1], pc' = [pc EXCEPT ![w] = "count"],
           NEW i \in Instances, made[i] = Cardinality(DecidedWrites(i))
    PROVE  made'[i] = Cardinality(DecidedWrites(i)')
<1> DEFINE q == <<w, requests[w]>>
<1>0. /\ w \in Procs /\ pc[w] = "recheck" /\ pc'[w] = "count"
      /\ UNCHANGED <<step, requests>> /\ made \in [Instances -> Nat]
      /\ requests[w] \in Nat /\ requests[w] <= MaxRequests /\ requests[w] >= 1
      /\ step[w] \in 1..Len(Request[w]) /\ Len(Request[w]) \in Nat
      /\ obj[w] = Request[w][step[w]] /\ obj[w] \in Instances
  BY RequestItems DEF TypeOK, Procs, Recheck, RequestPlace
<1>1. DecidedUpTo(w) = step[w] - 1 /\ DecidedUpTo(w)' = step[w]
  BY <1>0 DEF DecidedUpTo, Decided
<1>2. \A v \in Writers \ {w} : Quiet(v)  BY LoudStep
<1>3. \A v \in Writers \ {w} : AsFar(v)
  BY <1>2 DEF Quiet, DecidedUpTo, AsFar
<1>4. q \in Writers \X (1..MaxRequests) /\ q[1] = w /\ q[2] = requests[w]
  BY <1>0, BoundsAssumption
<1>5. \A n \in 1..Len(Request[w]) : Request[w][n] = obj[w] => n = step[w]
  BY <1>0, RequestAssumption
<1>6. ASSUME NEW r \in Writers \X (1..MaxRequests), r # q
      PROVE  r \in DecidedWrites(i)' <=> r \in DecidedWrites(i)
  <2>1. r[1] \in Writers /\ r[2] \in 1..MaxRequests /\ r = <<r[1], r[2]>>  OBVIOUS
  <2>2. CASE r[1] # w
    <3>1. DecidedUpTo(r[1])' = DecidedUpTo(r[1])  BY <1>3, <2>1, <2>2 DEF AsFar
    <3> QED  BY <1>0, <2>1, <3>1 DEF DecidedWrites
  <2>3. CASE r[1] = w
    <3>1. r[2] # requests[w]  BY <1>6, <2>1, <2>3
    <3>2. r[2] <= requests[w] <=> r[2] < requests[w]  BY <1>0, <2>1, <3>1, BoundsAssumption
    <3> QED  BY <1>0, <2>1, <2>3, <3>2 DEF DecidedWrites
  <2> QED  BY <2>2, <2>3
<1>7. /\ DecidedWrites(i)' \subseteq Writers \X (1..MaxRequests)
      /\ DecidedWrites(i) \subseteq Writers \X (1..MaxRequests)
  BY DEF DecidedWrites
<1>8. IsFiniteSet(DecidedWrites(i)) /\ Cardinality(DecidedWrites(i)) \in Nat
  BY <1>7, FiniteRequests
<1>9. CASE i = obj[w]
  <2>1. q \notin DecidedWrites(i)
    <3>1. \A n \in 1..Len(Request[w]) : Request[w][n] = i => ~(n <= step[w] - 1)
      BY <1>0, <1>5, <1>9
    <3> QED  BY <1>0, <1>1, <1>4, <3>1 DEF DecidedWrites
  <2>2. q \in DecidedWrites(i)'
    <3>1. Request[w][step[w]] = i /\ step[w] <= DecidedUpTo(w)' /\ requests'[w] = requests[w]
      BY <1>0, <1>1, <1>9
    <3> QED  BY <1>0, <1>4, <3>1 DEF DecidedWrites
  <2>3. DecidedWrites(i)' = DecidedWrites(i) \cup {q}  BY <1>4, <1>6, <1>7, <2>2
  <2>4. Cardinality(DecidedWrites(i) \cup {q}) = Cardinality(DecidedWrites(i)) + 1
    BY <1>8, <2>1, FS_AddElement
  <2>5. made'[i] = made[i] + 1  BY <1>0, <1>9
  <2> QED  BY <2>3, <2>4, <2>5
<1>10. CASE i # obj[w]
  <2>1. q \in DecidedWrites(i)' <=> q \in DecidedWrites(i)
    <3>1. \A n \in 1..Len(Request[w]) : Request[w][n] = i => (n <= step[w] <=> n <= step[w] - 1)
      <4> SUFFICES ASSUME NEW n \in 1..Len(Request[w]), Request[w][n] = i
                   PROVE n <= step[w] <=> n <= step[w] - 1
        OBVIOUS
      <4>1. n # step[w]  BY <1>0, <1>10
      <4>2. Len(Request[w]) \in Nat /\ step[w] \in 1..Len(Request[w])  BY <1>0
      <4> QED  BY <4>1, <4>2
    <3> QED  BY <1>0, <1>1, <1>4, <3>1 DEF DecidedWrites
  <2>2. DecidedWrites(i)' = DecidedWrites(i)
    <3>1. ASSUME NEW r \in Writers \X (1..MaxRequests)
          PROVE  r \in DecidedWrites(i)' <=> r \in DecidedWrites(i)
      BY <1>6, <2>1
    <3> QED  BY <1>7, <3>1
  <2>3. made'[i] = made[i]  BY <1>0, <1>10
  <2> QED  BY <2>2, <2>3
<1> QED  BY <1>9, <1>10

\* A request that begins or ends decides nothing.
LEMMA BoundaryCounts ==
    ASSUME TypeOK, TypeOK', RequestPlace, NEW w \in Writers, BeginRequest(w) \/ Leave(w),
           NEW i \in Instances
    PROVE  DecidedWrites(i)' = DecidedWrites(i)
<1>0. /\ w \in Procs /\ requests \in [Writers -> Nat] /\ step \in [Writers -> Nat]
      /\ pc \in [Procs -> WriterLabels \cup ConsumerLabels]
      /\ step[w] \in 1..Len(Request[w]) /\ Len(Request[w]) \in Nat /\ requests[w] \in Nat
  BY RequestItems DEF TypeOK, Procs
<1>2. \A v \in Writers \ {w} : Quiet(v)  BY LoudStep
<1>3. \A v \in Writers \ {w} : AsFar(v)
  BY <1>2 DEF Quiet, DecidedUpTo, AsFar
<1>4. CASE Leave(w)
  <2>1. requests' = requests /\ pc[w] = "leave" /\ DecidedUpTo(w) = step[w]
    BY <1>4 DEF Leave, DecidedUpTo, Decided
  <2>2. CASE step[w] < Len(Request[w])
    <3>1. pc'[w] = "add" /\ step'[w] = step[w] + 1  BY <1>0, <1>4, <2>2 DEF Leave
    <3>2. DecidedUpTo(w)' = step[w]  BY <1>0, <3>1 DEF DecidedUpTo, Decided
    <3> QED  BY <1>3, <2>1, <3>2, AsFarFrame DEF AsFar
  <2>3. CASE ~(step[w] < Len(Request[w]))
    <3>1. pc'[w] = "rest"  BY <1>0, <1>4, <2>3 DEF Leave
    <3>2. DecidedUpTo(w)' = step[w]  BY <1>0, <2>3, <3>1 DEF DecidedUpTo
    <3> QED  BY <1>3, <2>1, <3>2, AsFarFrame DEF AsFar
  <2> QED  BY <2>2, <2>3
<1>5. CASE BeginRequest(w)
  <2>1. /\ pc[w] = "rest" /\ pc'[w] = "add" /\ step'[w] = 1 /\ requests'[w] = requests[w] + 1
    BY <1>0, <1>5 DEF BeginRequest
  <2>2. DecidedUpTo(w) = Len(Request[w]) /\ DecidedUpTo(w)' = 0
    BY <2>1 DEF DecidedUpTo, Decided
  <2>3. ASSUME NEW r \in Writers \X (1..MaxRequests)
        PROVE  r \in DecidedWrites(i)' <=> r \in DecidedWrites(i)
    <3>1. r[1] \in Writers /\ r[2] \in 1..MaxRequests /\ r[2] \in Nat
      BY BoundsAssumption
    <3>2. CASE r[1] # w
      <4>1. DecidedUpTo(r[1])' = DecidedUpTo(r[1]) /\ requests'[r[1]] = requests[r[1]]
        BY <1>3, <3>1, <3>2 DEF AsFar
      <4> QED  BY <3>1, <4>1 DEF DecidedWrites
    <3>3. CASE r[1] = w
      <4>1. \A n \in 1..Len(Request[w]) : n <= Len(Request[w]) /\ ~(n <= 0)  BY <1>0
      <4>2. r \in DecidedWrites(i) <=>
                r[2] <= requests[w] /\ \E n \in 1..Len(Request[w]) : Request[w][n] = i
        BY <2>2, <3>3, <4>1 DEF DecidedWrites
      <4>3. r \in DecidedWrites(i)' <=>
                /\ r[2] <= requests'[w] /\ r[2] < requests'[w]
                /\ \E n \in 1..Len(Request[w]) : Request[w][n] = i
        BY <2>2, <3>3, <4>1 DEF DecidedWrites
      <4>4. r[2] <= requests[w] <=> r[2] <= requests'[w] /\ r[2] < requests'[w]
        BY <1>0, <2>1, <3>1
      <4> QED  BY <4>2, <4>3, <4>4
    <3> QED  BY <3>2, <3>3
  <2>4. /\ DecidedWrites(i)' \subseteq Writers \X (1..MaxRequests)
        /\ DecidedWrites(i) \subseteq Writers \X (1..MaxRequests)
    BY DEF DecidedWrites
  <2> QED  BY <2>3, <2>4
<1> QED  BY <1>4, <1>5

LEMMA MadeStep ==
    ASSUME TypeOK, TypeOK', RequestPlace, MadeInv, [Next]_vars
    PROVE  MadeInv'
<1> SUFFICES ASSUME NEW i \in Instances PROVE made'[i] = Cardinality(DecidedWrites(i)')
  BY DEF MadeInv
<1>0. made[i] = Cardinality(DecidedWrites(i))  BY DEF MadeInv
<1>1. ASSUME NEW w \in Writers, BeginRequest(w) \/ Leave(w)
      PROVE  made'[i] = Cardinality(DecidedWrites(i)')
  <2>1. made' = made  BY <1>1 DEF BeginRequest, Leave
  <2>2. DecidedWrites(i)' = DecidedWrites(i)  BY <1>1, BoundaryCounts
  <2> QED  BY <1>0, <2>1, <2>2
<1>2. ASSUME NEW w \in Writers, Recheck(w)
      PROVE  made'[i] = Cardinality(DecidedWrites(i)')
  <2>1. CASE /\ cut = sawCut[w] /\ made' = [made EXCEPT ![obj[w]] = @ + 1]
             /\ pc' = [pc EXCEPT ![w] = "count"]
    BY <1>0, <1>2, <2>1, DecisionCounts
  <2>2. CASE made' = made /\ pc' = [pc EXCEPT ![w] = "backout"]
    <3>1. /\ pc[w] = "recheck" /\ pc'[w] = "backout" /\ UNCHANGED <<step, requests>>
      BY <1>2, <2>2 DEF Recheck, TypeOK, Procs
    <3>2. DecidedUpTo(w)' = DecidedUpTo(w)  BY <3>1 DEF DecidedUpTo, Decided
    <3>3. \A v \in Writers \ {w} : AsFar(v)
      BY <1>2, LoudStep DEF Quiet, DecidedUpTo, AsFar
    <3>4. \A v \in Writers : AsFar(v)  BY <3>1, <3>2, <3>3 DEF AsFar
    <3> QED  BY <1>0, <2>2, <3>4, AsFarFrame
  <2> QED  BY <1>2, <2>1, <2>2, RecheckCases
<1>3. CASE OtherStep \/ UNCHANGED vars
  <2>1. (\A w \in Writers : Quiet(w)) /\ made' = made  BY <1>3, QuietStep
  <2>2. \A v \in Writers : AsFar(v)  BY <2>1 DEF Quiet, DecidedUpTo, AsFar
  <2>3. DecidedWrites(i)' = DecidedWrites(i)  BY <2>2, AsFarFrame
  <2> QED  BY <1>0, <2>1, <2>3
<1> QED  BY <1>1, <1>2, <1>3, StepKinds

\* Begun scrapes and ended ones keep the order and the groups.
LEMMA OrderStep == IndInv /\ OrderInv /\ [Next]_vars => OrderInv'
<1> SUFFICES ASSUME IndInv, OrderInv, [Next]_vars PROVE OrderInv'  OBVIOUS
<1>0. /\ TypeOK /\ TypeOK' /\ IndInv' /\ RequestPlace /\ MadeInv
      /\ OrderKept(snap) /\ OrderKept(reported) /\ GroupsKept(snap) /\ GroupsKept(reported)
  BY IndInvStep DEF IndInv, OrderInv, MadeInv
<1>1. RequestPlace' /\ \A v \in Writers : requests[v] <= requests'[v]
  BY <1>0, RequestPlaceStep
<1>2. MadeInv'  BY <1>0, MadeStep
<1>3. ASSUME NEW i \in Instances, NEW j \in Instances
      PROVE  /\ Cardinality(Apart(i, j)) <= Cardinality(Apart(i, j)')
             /\ Cardinality(Apart(i, j)) \in Nat /\ Cardinality(Apart(i, j)') \in Nat
  <2>1. Cardinality(Apart(i, j)) <= Cardinality(Apart(i, j)')  BY <1>0, <1>1, ApartGrows
  <2>2. Apart(i, j)' \in SUBSET (Writers \X (1..MaxRequests))  BY DEF Apart
  <2> QED  BY <2>1, <2>2, CountedRequests, FiniteRequests
<1>4. ASSUME NEW f \in [Instances -> Nat], GroupsKept(f)
      PROVE  \A i, j \in Instances : f[i] <= f[j] + Cardinality(Apart(i, j)')
  <2> SUFFICES ASSUME NEW i \in Instances, NEW j \in Instances
               PROVE  f[i] <= f[j] + Cardinality(Apart(i, j)')
    OBVIOUS
  <2>1. f[i] <= f[j] + Cardinality(Apart(i, j)) /\ f[i] \in Nat /\ f[j] \in Nat
    BY <1>4 DEF GroupsKept
  <2> QED  BY <1>3, <2>1
<1>5. /\ snap \in [Instances -> Nat] /\ reported \in [Instances -> Nat]
      /\ made \in [Instances -> Nat]
  BY <1>0 DEF TypeOK
<1>6. OrderKept(snap)' /\ GroupsKept(snap)'
  <2>1. CASE snap' = snap
    <3>1. \A i, j \in Instances : snap[i] <= snap[j] + Cardinality(Apart(i, j)')
      BY <1>0, <1>4, <1>5
    <3> QED  BY <1>0, <2>1, <3>1 DEF OrderKept, GroupsKept
  <2>2. CASE MoveCut
    <3>1. snap' = made /\ readers = {} /\ made' = made
      BY <2>2 DEF MoveCut, NoGroupInProgress
    <3>2. OrderKept(made)
      BY <1>0, DecidedInOrder DEF OrderKept, MadeInv
    <3>3. GroupsKept(made)
      BY <1>0, <3>1, DecidedInGroups DEF GroupsKept, MadeInv
    <3>4. \A i, j \in Instances : made[i] <= made[j] + Cardinality(Apart(i, j)')
      BY <1>4, <1>5, <3>3
    <3> QED  BY <3>1, <3>2, <3>4 DEF OrderKept, GroupsKept
  <2>3. snap' = snap \/ MoveCut
    BY DEF Next, BeginRequest, WriterStep, ConsumerStep, Terminating, vars, Mark, Add, LoadCut,
           Enter, Recheck, BackOut, Count, Leave, MarkLoad, MarkCompare, AddLock, AddAppend,
           BeginCut, Drain, TakeShard, FoldCheck, TakeNext, FoldSwap, MarkChanged, Deliver,
           Undelivered, PutBackDone
  <2> QED  BY <2>1, <2>2, <2>3
<1>7. OrderKept(reported)' /\ GroupsKept(reported)'
  <2>1. CASE reported' = reported
    <3>1. \A i, j \in Instances : reported[i] <= reported[j] + Cardinality(Apart(i, j)')
      BY <1>0, <1>4, <1>5
    <3> QED  BY <1>0, <2>1, <3>1 DEF OrderKept, GroupsKept
  <2>2. CASE reported' # reported /\ TakeNext
    <3>1. /\ taking' = FALSE /\ reported' = atCut /\ pc' = [pc EXCEPT ![Consumer] = "settle"]
          /\ atCut' = atCut /\ snap' = snap
      BY <2>2 DEF TakeNext
    <3>2. pc'[Consumer] = "settle"  BY <1>0, <3>1 DEF TypeOK, Procs
    <3>3. (CutIsOneMoment)'  BY <1>0, CutOfOneMoment, PTL
    <3>4. reported' = snap'  BY <3>1, <3>2, <3>3 DEF CutIsOneMoment, InScrape
    <3> QED  BY <1>6, <3>4 DEF OrderKept, GroupsKept
  <2>3. reported' = reported \/ TakeNext
    BY DEF Next, BeginRequest, WriterStep, ConsumerStep, Terminating, vars, Mark, Add, LoadCut,
           Enter, Recheck, BackOut, Count, Leave, MarkLoad, MarkCompare, AddLock, AddAppend,
           BeginCut, MoveCut, Drain, TakeShard, FoldCheck, FoldSwap, MarkChanged, Deliver,
           Undelivered, PutBackDone
  <2> QED  BY <2>1, <2>2, <2>3
<1> QED  BY <1>1, <1>2, <1>6, <1>7 DEF OrderInv, MadeInv

\* At the start nothing is written.
LEMMA InitOrder == Init => OrderInv
<1> SUFFICES ASSUME Init PROVE OrderInv  OBVIOUS
<1>1. /\ \A w \in Writers : requests[w] = 0 /\ pc[w] = "rest"
      /\ \A i \in Instances : made[i] = 0 /\ snap[i] = 0 /\ reported[i] = 0
  BY DEF Init, Procs
<1>2. RequestPlace  BY <1>1, BoundsAssumption DEF RequestPlace
<1>3. ASSUME NEW i \in Instances PROVE Cardinality(DecidedWrites(i)) = 0
  <2>1. DecidedWrites(i) = {}  BY <1>1, BoundsAssumption DEF DecidedWrites
  <2> QED  BY <2>1, FS_EmptySet
<1>4. OrderKept(snap) /\ OrderKept(reported)  BY <1>1 DEF OrderKept
<1>5. ASSUME NEW i \in Instances, NEW j \in Instances
      PROVE  snap[i] <= snap[j] + Cardinality(Apart(i, j)) /\
             reported[i] <= reported[j] + Cardinality(Apart(i, j))
  <2>1. Cardinality(Apart(i, j)) \in Nat  BY CountedRequests
  <2> QED  BY <1>1, <2>1
<1> QED  BY <1>1, <1>2, <1>3, <1>4, <1>5 DEF OrderInv, GroupsKept

\* The order of decided writes, and the groups at a cut, are kept together with IndInv.
THEOREM OrderInvariance == Spec => [](IndInv /\ OrderInv)
<1>1. Init => IndInv /\ OrderInv  BY InitIndInv, InitOrder
<1>2. IndInv /\ OrderInv /\ [Next]_vars => (IndInv /\ OrderInv)'
  BY IndInvStep, OrderStep
<1> QED  BY <1>1, <1>2, PTL DEF Spec

\* A scrape never reports a write without those its writer made before it (Cut).
THEOREM CausallyOrdered == Spec => []CausalPrefix
<1>1. OrderInv => CausalPrefix  BY DEF OrderInv, OrderKept, CausalPrefix
<1> QED  BY <1>1, OrderInvariance, PTL

\* A scrape reports all writes of a group or none (Atomically).
THEOREM GroupsWhole == Spec => []WholeGroups
<1>1. OrderInv => WholeGroups  BY DEF OrderInv, GroupsKept, WholeGroups
<1> QED  BY <1>1, OrderInvariance, PTL
=============================================================================
