--------------------------- MODULE TrackedExposer ---------------------------
(***************************************************************************)
(* The tracked exposer of promhttp/delta (tracked.go, tracked_emit.go,     *)
(* ack.go) for one label set of one Vec, reporting increments: goroutines  *)
(* look the instance up and write to it, now and then holding one that has *)
(* been deleted since; users delete it from the Vec; the exposer serves    *)
(* scrapes, holds rounds until they are acknowledged, settles writes to    *)
(* deleted instances and drops idle ones; a scraper processes, misses or   *)
(* merely peeks at its responses.                                          *)
(*                                                                         *)
(* Abstractions.  A write is an increment of 1, or an observation of a     *)
(* classic histogram, whose sum and buckets follow its count.  The tracker *)
(* is the one of ChangeTracker, at the granularity of AtomicCut: a counter *)
(* write is decided when it is made, Cut waits for those made to be        *)
(* listed, and an equal epoch is membership in the dirty list.  One label  *)
(* set is one shard.  Everything done under the lock of the Vec is a step. *)
(* Scope and Only let everything through.                                  *)
(***************************************************************************)
EXTENDS Integers, FiniteSets, FiniteSetsExt

CONSTANTS
    Writers,           \* goroutines that write
    Instances,         \* metrics the Vec can create for the label set
    Nil,
    Setups             \* the configurations: options, requests and bounds

Outcomes == {"aborted", "processed", "seen", "lost"}

Entries == [value : Nat, changed : Nat, picked : Nat]

ASSUME InstancesAssumption == Nil \notin Instances /\ IsFiniteSet(Instances)
ASSUME NilAssumption == Nil \notin Entries
ASSUME SetupsAssumption ==
    \A s \in Setups :
        /\ s.type \in {"counter", "histogram"}
        /\ s.idleScrapes \in Nat /\ s.heartbeatScrapes \in Nat \ {0}
        /\ {s.shardBucket, s.familyBucket} \subseteq 0..(s.heartbeatScrapes - 1)
        /\ {s.disableHeartbeat, s.delete} \subseteq BOOLEAN
        /\ s.kinds \subseteq {"ack", "final", "plain", "peek"}
        /\ {s.writes, s.lookups, s.deletes, s.rounds} \subseteq Nat

VARIABLES
    setup,     \* the configuration
    child,     \* what the Vec has under the label set, or Nil
    created,   \* instances created so far
    dead,      \* instances deleted from the Vec
    value,     \* each instance's value
    before,    \* its value at the last cut: atCut and the writes Take has still to fold
    atCut,     \* dirtyState.atCut
    dirty,     \* the dirty list of the shard
    hold,      \* per writer: the instance it has looked up, or Nil
    marking,   \* writers that have written and not yet marked
    lookups, deletes,
    pc,        \* the next step of Serve
    kind,      \* the request being served
    round,     \* TrackedExposer.round
    live,      \* TrackedExposer.live
    entry,     \* the entry in each instance's slot, or Nil
    held,      \* TrackedExposer.held: instances with the value to commit, 0 if not
    heldRound, \* ackState.held, 0 when none
    batch,     \* Take's batch, less what has been handed out
    picking,   \* pick's m
    target,    \* settleDeleted's now
    picks,     \* picked this round and not yet emitted
    beats,     \* of those, the heartbeats
    took,      \* TrackedExposer.taken
    rows,      \* what the response reports of each instance
    pending,   \* as held, of this round
    idle,      \* Serve's idle
    had,       \* scraper: has had a round of this target
    processed, \* scraper: the last round it processed, 0 if none
    got,       \* history: what the scraper has processed in total
    heldGot,   \* history: the scraper processed the held round
    excused,   \* history: a round was committed that nobody had processed
    written,   \* history: writes made
    atDeath    \* history: each instance's value when it was last deleted

vecVars == <<child, created, dead, atDeath>>
trackVars == <<value, before, atCut, dirty>>
userVars == <<hold, marking, lookups, deletes, written>>
ackVars == <<held, heldRound, heldGot>>
passVars == <<batch, picking, target, picks, beats, took, rows, pending>>
scraperVars == <<had, processed, got, excused>>
vars == <<setup, vecVars, trackVars, userVars, pc, kind, round, live, entry, ackVars,
          passVars, idle, scraperVars>>

type == setup.type                          \* of the Vec
IdleScrapes == setup.idleScrapes            \* Options.IdleScrapes
DisableHeartbeat == setup.disableHeartbeat  \* Options.DisableHeartbeat
HeartbeatScrapes == setup.heartbeatScrapes  \* Options.HeartbeatScrapes
ShardBucket == setup.shardBucket            \* the bucket of the label set's shard in RangeBucket
FamilyBucket == setup.familyBucket          \* the bucket heartbeatTurn hashes the family to
Delete == setup.delete                      \* Options.Delete is set
Kinds == setup.kinds                        \* the requests made
MaxWrites == setup.writes                   \* bounds: writes, lookups, Vec.Delete, rounds
MaxLookups == setup.lookups
MaxDeletes == setup.deletes
MaxRounds == setup.rounds

None == [i \in Instances |-> 0]

Init ==
    /\ setup \in Setups
    /\ child = Nil /\ created = {} /\ dead = {} /\ atDeath = None
    /\ value = None /\ before = None /\ atCut = None /\ dirty = {}
    /\ hold = [w \in Writers |-> Nil] /\ marking = {}
    /\ lookups = 0 /\ deletes = 0 /\ written = 0
    /\ pc = "rest" /\ kind = "plain" /\ round = 0 /\ live = 0
    /\ entry = [i \in Instances |-> Nil]
    /\ held = None /\ heldRound = 0 /\ heldGot = FALSE
    /\ batch = {} /\ picking = Nil /\ target = Nil
    /\ picks = {} /\ beats = {} /\ took = {}
    /\ rows = None /\ pending = None /\ idle = {}
    /\ had = FALSE /\ processed = 0 /\ got = 0 /\ excused = FALSE

-----------------------------------------------------------------------------
(* The Vec and those who write to it *)

\* getOrCreateMetricWithLabelValues: a new instance is tracked, and listed
Lookup(w) ==
    /\ hold[w] = Nil
    /\ lookups < MaxLookups
    /\ lookups' = lookups + 1
    /\ \/ /\ child # Nil
          /\ hold' = [hold EXCEPT ![w] = child]
          /\ UNCHANGED <<child, created, dirty>>
       \/ /\ child = Nil
          /\ \E i \in Instances \ created :
                /\ hold' = [hold EXCEPT ![w] = i]
                /\ child' = i
                /\ created' = created \cup {i}
                /\ dirty' = dirty \cup {i}
    /\ UNCHANGED <<dead, atDeath, value, before, atCut, marking, deletes, written, pc,
                   kind, round, live, entry, ackVars, passVars, idle, scraperVars>>

\* counter.Add or histogram.observe: the value, in whichever instance is held
Write(w) ==
    /\ hold[w] # Nil /\ w \notin marking
    /\ written < MaxWrites
    /\ value' = [value EXCEPT ![hold[w]] = @ + 1]
    /\ written' = written + 1
    /\ marking' = marking \cup {w}
    /\ UNCHANGED <<vecVars, before, atCut, dirty, hold, lookups, deletes, pc, kind, round,
                   live, entry, ackVars, passVars, idle, scraperVars>>

\* dirtyState.mark, of a deleted instance too
Mark(w) ==
    /\ w \in marking
    /\ marking' = marking \ {w}
    /\ dirty' = dirty \cup {hold[w]}
    /\ UNCHANGED <<vecVars, value, before, atCut, hold, lookups, deletes, written, pc,
                   kind, round, live, entry, ackVars, passVars, idle, scraperVars>>

\* The caller is done with the instance
Release(w) ==
    /\ hold[w] # Nil /\ w \notin marking
    /\ hold' = [hold EXCEPT ![w] = Nil]
    /\ UNCHANGED <<vecVars, trackVars, marking, lookups, deletes, written, pc, kind,
                   round, live, entry, ackVars, passVars, idle, scraperVars>>

\* Mutation of Remove: it is untracked and stays in the map.
Remove_KeepsChild(i) ==
    /\ dead' = dead \cup {i}
    /\ atDeath' = [atDeath EXCEPT ![i] = value[i]]
    /\ UNCHANGED child

\* untrackMetric and the removal from the map, under the lock of the Vec
Remove(i) ==
    /\ dead' = dead \cup {i}
    /\ atDeath' = [atDeath EXCEPT ![i] = value[i]]
    /\ child' = Nil

\* Vec.Delete by anyone
UserDelete ==
    /\ child # Nil
    /\ deletes < MaxDeletes
    /\ deletes' = deletes + 1
    /\ Remove(child)
    /\ UNCHANGED <<created, trackVars, hold, marking, lookups, written, pc, kind, round,
                   live, entry, ackVars, passVars, idle, scraperVars>>

-----------------------------------------------------------------------------
(* Serve: the held round, and the idle walk *)

Goto(l) == pc' = l

\* The value last delivered, 0 for an instance without an entry
Base(i) == IF entry[i] = Nil THEN 0 ELSE entry[i].value

\* Mutation of Committed: the value is read again when it is committed.
Committed_Reread(p) == [i \in Instances |->
                    IF p[i] = 0 THEN entry[i] ELSE [entry[i] EXCEPT !.value = value[i]]]

\* commit: apply of every pendingCommit
Committed(p) == [i \in Instances |->
                    IF p[i] = 0 THEN entry[i] ELSE [entry[i] EXCEPT !.value = p[i]]]

Pended(p) == {i \in Instances : p[i] # 0}

\* Mutation of Settles: a request without acknowledgement leaves the round held.
Settles_PlainLeaves(k) == heldRound # 0 /\ k \in {"ack", "final"}

\* settle: a peek leaves the held round alone
Settles(k) == heldRound # 0 /\ k # "peek"

\* Mutation of Commits: any acknowledgement commits.
Commits_Any(k) == TRUE

\* settle: no acknowledgement, AckNew, or that of the round held
Commits(k) == k = "plain" \/ ~had \/ processed = heldRound

\* RangeBucket: the shard's turn has come
BucketDue(r) == r % HeartbeatScrapes = ShardBucket

IdleAt(i, r) == IdleScrapes > 0 /\ r - entry[i].changed > IdleScrapes

\* walk: the live instances with an entry
Walked == {i \in created \ dead : entry[i] # Nil}

\* The beginning of Serve, up to the cut: the held round is settled, then, unless
\* this is the last acknowledgement, the round begins, with the idle walk when it
\* is all the walk does.
Serve(k) ==
    /\ pc = "rest"
    /\ k = "final" \/ round < MaxRounds
    /\ kind' = k
    /\ \/ ~Settles(k) /\ UNCHANGED <<entry, dirty, ackVars, excused>>
       \/ /\ Settles(k)
          /\ held' = None /\ heldRound' = 0 /\ heldGot' = FALSE
          /\ \/ /\ Commits(k)
                /\ entry' = Committed(held)
                /\ excused' = (excused \/ (~heldGot /\ (k = "plain" \/ ~had)))
                /\ UNCHANGED dirty
             \/ /\ ~Commits(k)
                /\ dirty' = dirty \cup Pended(held)
                /\ UNCHANGED <<entry, excused>>
    /\ \/ /\ k = "final"
          /\ UNCHANGED <<pc, round, idle>>
       \/ /\ k # "final"
          /\ round' = round + 1
          /\ idle' = {i \in Walked : DisableHeartbeat /\ BucketDue(round') /\ IdleAt(i, round')}
          /\ Goto("cut")
    /\ UNCHANGED <<vecVars, value, before, atCut, userVars, live, passVars, had,
                   processed, got>>

\* ChangeTracker.Cut: the counter writes made are listed by the time it returns
Cut ==
    /\ pc = "cut"
    /\ type = "counter" => marking = {}
    /\ before' = value
    /\ Goto("take")
    /\ UNCHANGED <<vecVars, value, atCut, dirty, userVars, kind, round, live, entry,
                   ackVars, passVars, idle, scraperVars>>

\* Take: the list is taken, the writes before the cut folded in, and counters
\* written since listed again
Take ==
    /\ pc = "take"
    /\ batch' = dirty
    /\ dirty' = {i \in dirty : type = "counter" /\ value[i] # before[i]}
    /\ atCut' = [i \in Instances |-> IF i \in dirty THEN before[i] ELSE atCut[i]]
    /\ Goto("next")
    /\ UNCHANGED <<vecVars, value, before, userVars, kind, round, live, entry, ackVars,
                   picking, target, picks, beats, took, rows, pending, idle, scraperVars>>

-----------------------------------------------------------------------------
(* pick and settleDeleted *)

\* Take hands an instance out, to pick
HandOut(i) ==
    /\ pc = "next"
    /\ i \in batch
    /\ batch' = batch \ {i}
    /\ picking' = i
    /\ Goto("pick")
    /\ UNCHANGED <<vecVars, trackVars, userVars, kind, round, live, entry, ackVars, target,
                   picks, beats, took, rows, pending, idle, scraperVars>>

\* Mutation of TrackedDeleted: deleted instances are not looked out for.
TrackedDeleted_Never(i) == FALSE

\* prometheus.TrackedDeleted
TrackedDeleted(i) == i \in dead

\* pick: settleDeleted takes over for a deleted instance
PickChecks ==
    /\ pc = "pick"
    /\ Goto(IF TrackedDeleted(picking) THEN "revive" ELSE "entry")
    /\ UNCHANGED <<vecVars, trackVars, userVars, kind, round, live, entry, ackVars,
                   passVars, idle, scraperVars>>

\* pick: the entry, a new one for an instance without one. An instance deleted
\* since PickChecks has no slot, one picked this round is not picked again.
PickEntry ==
    /\ pc = "entry"
    /\ Goto("next")
    /\ \/ /\ picking \in dead \/ (entry[picking] # Nil /\ entry[picking].picked = round)
          /\ UNCHANGED <<entry, live, picks, took>>
       \/ /\ picking \notin dead
          /\ \/ /\ entry[picking] = Nil
                /\ entry' = [entry EXCEPT ![picking] =
                                [value |-> 0, changed |-> round, picked |-> round]]
                /\ live' = live + 1
             \/ /\ entry[picking] # Nil /\ entry[picking].picked # round
                /\ entry' = [entry EXCEPT ![picking].picked = round]
                /\ UNCHANGED live
          /\ picks' = picks \cup {picking}
          /\ took' = took \cup {picking}
    /\ UNCHANGED <<vecVars, trackVars, userVars, kind, round, ackVars, batch, picking,
                   target, beats, rows, pending, idle, scraperVars>>

\* Mutation of NoneInVec: an instance is put back whatever the Vec has by now.
NoneInVec_Unchecked == TRUE

\* ReviveTracked: under the lock of the Vec
NoneInVec == child = Nil

\* Mutation of CountedIn: it is not counted in again.
CountedIn_Not(i) == live

\* settleDeleted: an instance put back counts again if drop counted it out
CountedIn(i) == IF entry[i] # Nil THEN live + 1 ELSE live

\* settleDeleted with ReviveTracked: the instance is put back and picked, or the
\* one that has its labels now is to get what it has not delivered
Revive ==
    /\ pc = "revive"
    /\ \/ /\ NoneInVec
          /\ child' = picking
          /\ dead' = dead \ {picking}
          /\ live' = CountedIn(picking)
          /\ Goto("pick")
          /\ UNCHANGED target
       \/ /\ ~NoneInVec
          /\ target' = child
          /\ Goto("move")
          /\ UNCHANGED <<child, dead, live>>
    /\ UNCHANGED <<created, atDeath, trackVars, userVars, kind, round, entry, ackVars,
                   batch, picking, picks, beats, took, rows, pending, idle, scraperVars>>

\* What a scrape reads of an instance: a counter as of the cut
Cur(i) == IF type = "counter" THEN atCut[i] ELSE value[i]

\* Mutation of Undelivered: all of it is moved, delivered or not.
Undelivered_All(i) == Cur(i)

\* settleDeleted: cur-en.value, count-dcount
Undelivered(i) == Cur(i) - Base(i)

\* settleDeleted: AddTrackedCut or AddTrackedHistogram, and the old instance is
\* delivered up to here
Move ==
    /\ pc = "move"
    /\ entry' = [entry EXCEPT ![picking] =
                    IF @ = Nil THEN [value |-> Cur(picking), changed |-> 0, picked |-> 0]
                               ELSE [@ EXCEPT !.value = Cur(picking)]]
    /\ LET d == Undelivered(picking) IN
       \/ /\ d > 0
          /\ value' = [value EXCEPT ![target] = @ + d]
          /\ before' = [before EXCEPT ![target] = IF type = "counter" THEN @ + d ELSE @]
          /\ atCut' = [atCut EXCEPT ![target] = IF type = "counter" THEN @ + d ELSE @]
          /\ dirty' = dirty \cup {target}
          /\ picking' = target
          /\ Goto("pick")
       \/ /\ d <= 0
          /\ Goto("next")
          /\ UNCHANGED <<trackVars, picking>>
    /\ UNCHANGED <<vecVars, userVars, kind, round, live, ackVars, batch, target, picks,
                   beats, took, rows, pending, idle, scraperVars>>

-----------------------------------------------------------------------------
(* The heartbeat walk and the second pass *)

\* The batch is handed out; with heartbeats on, the walk of the bucket due, for
\* heartbeats and idle instances
Walk ==
    /\ pc = "next" /\ batch = {}
    /\ Goto("emit")
    /\ LET walked == {i \in Walked : ~DisableHeartbeat /\ BucketDue(round)}
           due == {i \in walked : ~IdleAt(i, round) /\ entry[i].picked # round}
       IN /\ idle' = idle \cup {i \in walked : IdleAt(i, round)}
          /\ beats' = due
          /\ picks' = picks \cup due
          /\ took' = took \cup due
          /\ entry' = [i \in Instances |->
                          IF i \in due THEN [entry[i] EXCEPT !.picked = round] ELSE entry[i]]
    /\ UNCHANGED <<vecVars, trackVars, userVars, kind, round, live, ackVars, batch, picking,
                   target, rows, pending, scraperVars>>

\* Mutation of HeartbeatTurn: it is never an unchanged series' turn.
HeartbeatTurn_Never == FALSE

\* decide: heartbeatTurn
HeartbeatTurn == ~DisableHeartbeat /\ round % HeartbeatScrapes = FamilyBucket

\* emitFamily and decide of one instance: what is reported, and what is to be
\* committed; one neither changed nor due is reported as it is, if it was picked
\* for its heartbeat
Emit(i) ==
    /\ pc = "emit"
    /\ i \in picks
    /\ picks' = picks \ {i}
    /\ LET changed == Cur(i) # entry[i].value IN
       /\ entry' = [entry EXCEPT ![i].changed = IF changed THEN round ELSE @]
       /\ \/ /\ changed \/ HeartbeatTurn
             /\ rows' = [rows EXCEPT ![i] = Cur(i) - entry[i].value]
             /\ pending' = [pending EXCEPT ![i] = Cur(i)]
          \/ /\ ~changed /\ ~HeartbeatTurn
             /\ rows' = [rows EXCEPT ![i] = IF i \in beats THEN Cur(i) ELSE 0]
             /\ UNCHANGED pending
    /\ UNCHANGED <<vecVars, trackVars, userVars, pc, kind, round, live, ackVars, batch,
                   picking, target, beats, took, idle, scraperVars>>

-----------------------------------------------------------------------------
(* The response, and the drop of idle instances *)

Reported == SumFunction(rows)

\* Mutation of PutBack: what was taken is dropped.
PutBack_Dropped == {}

\* Serve: everything taken goes through MarkChanged
PutBack == took

\* The end of the second pass: the response is delivered or broken off, and the
\* round committed, held or put back. Of one delivered, the scraper processes
\* all, sees no more than the header, or gets nothing.
Respond(o) ==
    /\ pc = "emit" /\ picks = {}
    /\ Goto("drop")
    /\ batch' = {} /\ picking' = Nil /\ target' = Nil /\ picks' = {} /\ beats' = {}
    /\ took' = {} /\ rows' = None /\ pending' = None
    /\ \/ /\ kind = "peek" /\ o = "lost"
          /\ dirty' = dirty \cup PutBack
          /\ idle' = {}
          /\ UNCHANGED <<entry, ackVars, scraperVars>>
       \/ /\ kind = "ack" /\ o # "aborted"
          /\ held' = pending /\ heldRound' = round /\ heldGot' = (o = "processed")
          /\ had' = (had \/ o # "lost")
          /\ processed' = IF o = "processed" THEN round ELSE processed
          /\ got' = IF o = "processed" THEN got + Reported ELSE got
          /\ UNCHANGED <<entry, dirty, idle, excused>>
       \/ /\ kind = "plain" /\ o # "aborted"
          /\ entry' = Committed(pending)
          /\ got' = IF o = "processed" THEN got + Reported ELSE got
          /\ excused' = (excused \/ o # "processed")
          /\ UNCHANGED <<dirty, ackVars, idle, had, processed>>
       \/ /\ kind # "peek" /\ o = "aborted"
          /\ dirty' = dirty \cup PutBack
          /\ UNCHANGED <<entry, ackVars, idle, scraperVars>>
    /\ UNCHANGED <<vecVars, value, before, atCut, userVars, kind, round, live>>

\* The scraper restarts, and has had no round of this target
Restart ==
    /\ pc = "rest" /\ had
    /\ had' = FALSE /\ processed' = 0
    /\ UNCHANGED <<vecVars, trackVars, userVars, pc, kind, round, live, entry, ackVars,
                   passVars, idle, got, excused>>

\* drop, an instance found idle: still idle, still in its Vec, and for a callback
\* still unwritten
DropChecks(i) ==
    /\ pc = "drop"
    /\ i \in idle
    /\ idle' = idle \ {i}
    /\ picking' = i
    /\ \/ ~IdleAt(i, round) /\ UNCHANGED <<pc, live>>
       \/ IdleAt(i, round) /\ i \in dead /\ live' = live - 1 /\ UNCHANGED pc
       \/ IdleAt(i, round) /\ i \notin dead /\ UNCHANGED live
            /\ \/ ~Delete /\ Goto("delete")
               \/ Delete /\ i \in dirty /\ UNCHANGED pc
               \/ Delete /\ i \notin dirty /\ Goto("callback")
    /\ UNCHANGED <<vecVars, trackVars, userVars, kind, round, entry, ackVars, batch, target,
                   picks, beats, took, rows, pending, scraperVars>>

\* dirtyState.written, under the lock of the Vec
Unwritten(i) == i \notin dirty

\* drop: DeleteTrackedIfUnwritten
DropDeletes ==
    /\ pc = "delete"
    /\ Goto("drop")
    /\ \/ /\ picking \notin dead /\ Unwritten(picking)
          /\ Remove(picking)
          /\ live' = live - 1
       \/ /\ picking \in dead \/ ~Unwritten(picking)
          /\ UNCHANGED <<child, dead, atDeath, live>>
    /\ UNCHANGED <<created, trackVars, userVars, kind, round, entry, ackVars, passVars, idle,
                   scraperVars>>

\* drop: Options.Delete, which deletes what the Vec has under the labels, or not
Callback ==
    /\ pc = "callback"
    /\ Goto("callbackDone")
    /\ \/ child # Nil /\ Remove(child)
       \/ UNCHANGED <<child, dead, atDeath>>
    /\ UNCHANGED <<created, trackVars, userVars, kind, round, live, entry, ackVars, passVars,
                   idle, scraperVars>>

\* drop: whether the callback deleted it
CallbackDone ==
    /\ pc = "callbackDone"
    /\ Goto("drop")
    /\ \/ /\ picking \in dead
          /\ live' = live - 1
          /\ UNCHANGED entry
       \/ /\ picking \notin dead
          /\ entry' = [entry EXCEPT ![picking].changed = round]
          /\ UNCHANGED live
    /\ UNCHANGED <<vecVars, trackVars, userVars, kind, round, ackVars, passVars, idle,
                   scraperVars>>

\* Serve returns
DropDone ==
    /\ pc = "drop" /\ idle = {}
    /\ picking' = Nil
    /\ Goto("rest")
    /\ UNCHANGED <<vecVars, trackVars, userVars, kind, round, live, entry, ackVars, batch,
                   target, picks, beats, took, rows, pending, idle, scraperVars>>

-----------------------------------------------------------------------------

\* The bounds are reached and nothing is in progress.
Terminating == /\ pc = "rest" /\ round = MaxRounds
               /\ \A w \in Writers : hold[w] = Nil
               /\ UNCHANGED vars

Step ==
    \/ \E w \in Writers : Lookup(w) \/ Write(w) \/ Mark(w) \/ Release(w)
    \/ UserDelete
    \/ \E k \in Kinds : Serve(k)
    \/ Cut \/ Take \/ (\E i \in Instances : HandOut(i)) \/ PickChecks \/ PickEntry
    \/ Revive \/ Move \/ Walk \/ (\E i \in Instances : Emit(i))
    \/ \E o \in Outcomes : Respond(o)
    \/ Restart
    \/ (\E i \in Instances : DropChecks(i)) \/ DropDeletes \/ Callback \/ CallbackDone
    \/ DropDone

Next == (Step /\ UNCHANGED setup) \/ Terminating

Spec == Init /\ [][Next]_vars

-----------------------------------------------------------------------------
(* Properties *)

\* Every variable has its type: in particular no reported increment is negative.
TypeOK ==
    /\ setup \in Setups
    /\ child \in Instances \cup {Nil} /\ created \subseteq Instances
    /\ dead \subseteq created /\ child \in (created \ dead) \cup {Nil}
    /\ value \in [Instances -> Nat] /\ before \in [Instances -> Nat]
    /\ atCut \in [Instances -> Nat] /\ atDeath \in [Instances -> Nat]
    /\ held \in [Instances -> Nat] /\ pending \in [Instances -> Nat]
    /\ rows \in [Instances -> Nat]
    /\ dirty \subseteq created /\ batch \subseteq created /\ picks \subseteq took
    /\ took \subseteq created /\ beats \subseteq took /\ idle \subseteq created
    /\ hold \in [Writers -> created \cup {Nil}]
    /\ marking \subseteq {w \in Writers : hold[w] # Nil}
    /\ lookups \in 0..MaxLookups /\ deletes \in 0..MaxDeletes /\ written \in 0..MaxWrites
    /\ pc \in {"rest", "cut", "take", "next", "pick", "entry", "revive", "move", "emit",
               "drop", "delete", "callback", "callbackDone"}
    /\ kind \in Kinds \cup {"plain"}
    /\ round \in 0..MaxRounds /\ heldRound \in 0..round /\ processed \in 0..round
    /\ live \in Nat
    /\ entry \in [Instances -> Entries \cup {Nil}]
    /\ picking \in created \cup {Nil} /\ target \in created \cup {Nil}
    /\ got \in Nat /\ had \in BOOLEAN /\ heldGot \in BOOLEAN /\ excused \in BOOLEAN

\* What the scraper has of an instance: what is committed, or in the held round
\* if it processed it
Received(i) == IF heldGot /\ held[i] # 0 THEN held[i] ELSE Base(i)

\* Nothing is lost and nothing is counted twice: unless a round nobody processed
\* was committed for want of an acknowledgement, what was written is what the
\* scraper has processed and what the instances, deleted ones included, still
\* have to deliver: through rollbacks, broken responses, peeks, idle deletions,
\* revivals and moves into a newer instance.
Conserved ==
    ~excused => written = got + SumFunction([i \in Instances |-> value[i] - Received(i)])

\* What a scraper that acknowledges has to expect next of an instance
Settled(i) == IF held[i] # 0 THEN held[i] ELSE Base(i)

\* The write is made and the instance about to be listed.
Enlisting(i) == \E w \in marking : hold[w] = i

\* Between scrapes, what is neither delivered nor in the held round will be taken
\* by the next scrape, or is being listed: also in an instance that was deleted
\* while a caller held it ("its writes are not lost", settleDeleted), although
\* not what it had when a user deleted it.
NothingStranded ==
    pc = "rest" => \A i \in created : value[i] # Settled(i) =>
        \/ i \in dirty \/ Enlisting(i)
        \/ deletes > 0 /\ i \in dead /\ value[i] = atDeath[i]

\* The Vec has no two instances of one label set: what it has is what is not dead.
OneChild == created \ dead = {child} \ {Nil}

\* The last delivered value of an instance never goes back, or what was delivered
\* would be reported again.
BaselineForward == [][\A i \in Instances : Base(i)' >= Base(i)]_vars

\* "how many instances this exposer is holding state for" (Tracked), as long as
\* no user deletes one: that is never counted out.
TrackedCounts == pc = "rest" /\ deletes = 0 =>
    live = Cardinality({i \in created \ dead : entry[i] # Nil})

\* The bookkeeping of the Vec, the tracker and the exposer agrees, whichever of them
\* removes an instance: the types, the one child and the count of Tracked.
Bookkeeping == TypeOK /\ OneChild /\ TrackedCounts

\* "the held round is left alone" by a peek (ack.go): until it is settled, what
\* it was reported against stays as it was.
HeldLeftAlone ==
    [][heldRound # 0 /\ heldRound' = heldRound =>
        \A i \in Pended(held) : entry'[i].value = entry[i].value]_vars

\* With Options.ReportIncrements "counters and histograms report what accrued
\* since the last delivered scrape": no row exceeds it.
IncrementsOnly == \A i \in Instances : rows[i] <= value[i] - Base(i)

-----------------------------------------------------------------------------
(* The inductive invariant behind Conserved, NothingStranded, Bookkeeping,    *)
(* BaselineForward and IncrementsOnly                                         *)

Picking == {"next", "pick", "entry", "revive", "move"}
Passes == Picking \cup {"cut", "take", "emit"}
Dropping == {"drop", "delete", "callback", "callbackDone"}

\* What each step of Serve leaves behind.
PassInv ==
    /\ pc \in {"pick", "entry", "revive", "move", "delete", "callback", "callbackDone"} =>
           picking # Nil
    /\ pc \in {"revive", "move"} => picking \in dead
    /\ pc = "move" => target # Nil /\ target # picking
    /\ pc \notin Picking => batch = {}
    /\ pc \notin Picking \cup {"emit"} => took = {}
    /\ pc # "emit" => took = picks /\ beats = {} /\ rows = None /\ pending = None
    /\ pc # "rest" => round > 0
    /\ pc = "rest" => idle = {}

\* The entries: who has one, and who is picked.
EntryInv(i) ==
    /\ i \in took \cup idle \/ held[i] # 0 => entry[i] # Nil
    /\ pending[i] # 0 => i \in took
    /\ i \in picks => rows[i] = 0 /\ pending[i] = 0
    /\ entry[i] # Nil => /\ i \in created /\ entry[i].picked <= round
                         /\ pc \in Passes /\ entry[i].picked = round => i \in took

\* What is delivered, about to be, or held was read of the instance.
ValueInv(i) ==
    /\ atCut[i] <= before[i] /\ before[i] <= value[i]
    /\ Base(i) <= Cur(i) /\ held[i] <= Cur(i) /\ pending[i] <= Cur(i)
    /\ pending[i] # 0 => Base(i) <= pending[i]

\* Tracked counts the instances in the Vec, and those drop is about to count out.
Counted == {i \in created : /\ entry[i] # Nil
                            /\ \/ i \notin dead \ idle
                               \/ picking = i /\ pc \in {"callback", "callbackDone"}}
LiveInv ==
    /\ live >= Cardinality(Counted)
    /\ deletes = 0 => /\ live = Cardinality(Counted)
                      /\ (took \cup idle) \cap dead = {}
                      /\ pc = "callback" => picking \notin dead
    /\ pc \in Dropping \ {"drop"} => entry[picking] # Nil /\ picking \notin idle

\* The held round and the scraper's acknowledgements of it.
RoundInv ==
    /\ heldRound = 0 => held = None /\ ~heldGot
    /\ pc \in Passes => processed < round /\ (kind # "peek" => heldRound = 0)
    /\ heldRound # 0 /\ processed = heldRound => heldGot
    /\ heldGot /\ had => processed = heldRound
    /\ kind = "peek" /\ pc \in Dropping => pc = "drop" /\ idle = {}

\* What is held is not moved into another instance while it is held: nobody peeks, or
\* an instance held is not deleted.
HeldStays == "peek" \notin Kinds \/ (MaxDeletes = 0 /\ DisableHeartbeat)
HeldInv(i) ==
    /\ HeldStays /\ held[i] # 0 =>
           /\ Base(i) <= held[i]
           /\ i \notin dead \/ ("peek" \notin Kinds /\ pc \notin Passes)
    /\ DisableHeartbeat => /\ pending[i] # 0 => entry[i].changed = round
                           /\ held[i] # 0 /\ pc \in Dropping /\ kind # "peek" => entry[i].changed = round
    /\ pc \in {"delete", "callback"} /\ picking = i => IdleAt(i, round)

\* A heartbeat is due to a series when it is due to its shard.
TurnsMeet == DisableHeartbeat \/ ShardBucket = FamilyBucket

\* What the response tells a scraper, and what it leaves for later.
Told(i) == IF pending[i] # 0 THEN pending[i] ELSE Base(i)
RowInv(i) == TurnsMeet => rows[i] = Told(i) - Base(i)
BeatInv == beats # {} => ~DisableHeartbeat /\ BucketDue(round)

Excused(i) == deletes > 0 /\ i \in dead /\ value[i] = atDeath[i]
Listed(i) == i \in dirty \/ Enlisting(i) \/ Excused(i)
Taken(i) == \/ i \in batch \/ i \in took
            \/ picking = i /\ (pc \in {"pick", "revive", "move"} \/ (pc = "entry" /\ i \notin dead))
DueInv(i) ==
    /\ type = "counter" /\ value[i] # atCut[i] => i \in dirty \/ Enlisting(i)
    /\ HeldStays /\ value[i] # Settled(i) => Listed(i) \/ Taken(i)
    /\ i \in took \ picks /\ value[i] # Told(i) => Listed(i)

SumInv == HeldStays /\ TurnsMeet => Conserved

ExposerInv ==
    /\ TypeOK /\ OneChild /\ PassInv /\ LiveInv /\ RoundInv /\ BeatInv /\ SumInv
    /\ \A i \in Instances : EntryInv(i) /\ ValueInv(i) /\ HeldInv(i) /\ RowInv(i)
    /\ \A i \in created : DueInv(i)

=============================================================================
