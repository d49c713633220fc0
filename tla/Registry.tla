------------------------------ MODULE Registry ------------------------------
(***************************************************************************)
(* The registry (prometheus/registry.go) with a vector among its           *)
(* collectors: registration and unregistration, and gather, where workers  *)
(* collect into two bounded channels that one goroutine drains, closed     *)
(* once all collectors are collected.                                      *)
(*                                                                         *)
(* Abstractions.  A descriptor has an id (name and constant labels), a     *)
(* name, a dim (label names and help; dimHash) and may be invalid.  A      *)
(* metric has a descriptor, its labels with their timestamp, a type, and   *)
(* what is wrong with it: nothing, its Write fails, its label names or     *)
(* values are malformed, or its labels are not those of its descriptor.    *)
(* A collectorID is the set of the ids it is the hash of.                  *)
(***************************************************************************)
EXTENDS MetricVec, Sequences

CONSTANTS
    Registrars,     \* goroutines that register and unregister
    Collectors,     \* what they register
    DescsOf,        \* what Describe of each yields
    Vec,            \* the collector that is the vector
    VecMetric(_),   \* the metric of the instance with a label set
    MetricsOf,      \* what Collect of each of the others sends
    Panicking,      \* the collectors whose Collect may panic
    Keeps,          \* the sets of names gather is asked for
    Suffixed,       \* <<name, base, suffix>> for the names with a magic suffix
    NoDesc,         \* the descriptor of NewInvalidDesc
    Pedantic,       \* pedanticChecksEnabled
    Capacity,       \* capMetricChan
    MaxChanges, MaxGathers   \* bounds

Workers == Readers

ASSUME CollectorsAssumption == /\ Vec \in Collectors /\ Panicking \subseteq Collectors
                               /\ DOMAIN DescsOf = Collectors
                               /\ DOMAIN MetricsOf = Collectors \ {Vec}
ASSUME GatherAssumption == Pedantic \in BOOLEAN /\ Capacity \in Nat \ {0} /\ ~NoDesc.valid
ASSUME SuffixAssumption == \A s \in Suffixed : s[1] # s[2]
ASSUME BoundsAssumption == {MaxChanges, MaxGathers} \subseteq Nat

VARIABLES
    collectorsByID,  \* the collectors in it
    descIDs,
    dimHashesByName,
    uncheckedCollectors,
    leaving,         \* per registrar: whom Unregister has found, or None
    keep,            \* gather's argument
    snapshot,        \* the collectors gather goes by
    registeredDescIDs,
    checkedQueue, uncheckedQueue,   \* the channels of collectors
    budget,          \* goroutineBudget
    worker,          \* per worker: what it does
    wg,
    sending,         \* per channel of metrics, checked or not: what is in it
    closed,          \* the channels of metrics are closed
    open,            \* cmc and umc, unless nil
    families, metricHashes,
    accepted,        \* the metrics in the families
    errs,            \* how many errors there are
    collected,       \* history: what Collect has given, per channel and worker
    changes, gathers

registryVars == <<collectorsByID, descIDs, dimHashesByName, uncheckedCollectors, leaving>>
beginVars == <<keep, snapshot, registeredDescIDs>>
workVars == <<checkedQueue, uncheckedQueue, worker, wg, sending, collected>>
resultVars == <<families, metricHashes, accepted, errs>>
gatherVars == <<beginVars, workVars, resultVars, budget, closed, open, gathers>>
vars == <<vecVars, registryVars, gatherVars, changes>>

-----------------------------------------------------------------------------
(* Registration *)

Gathering == open # {}

IDs(c) == {d.id : d \in DescsOf[c]}
Names(c) == {d.name : d \in DescsOf[c]}

\* The collectors equal to c: those with its collectorID
Equal(c) == {e \in collectorsByID : IDs(e) = IDs(c)}

\* An invalid descriptor, or one with other dimensions than the name has had in
\* this registry or has in the same collector
Inconsistent(c) ==
    \/ \E d \in DescsOf[c] : ~d.valid
    \/ \E d \in DescsOf[c] : d.name \in DOMAIN dimHashesByName /\ dimHashesByName[d.name] # d.dim
    \/ \E d, e \in DescsOf[c] : d.name = e.name /\ d.dim # e.dim

\* duplicateDescErr
Duplicate(c) == IDs(c) \cap descIDs # {}

Changed == changes < MaxChanges /\ changes' = changes + 1

\* Register of a collector without descriptors
RegisterUnchecked(c) ==
    /\ DescsOf[c] = {}
    /\ Changed
    /\ uncheckedCollectors' = Append(uncheckedCollectors, c)
    /\ UNCHANGED <<vecVars, collectorsByID, descIDs, dimHashesByName, leaving, gatherVars>>

\* Mutation of Refused: the names are the only thing that is checked.
Refused_NoDuplicates(c) == Inconsistent(c) \/ Equal(c) # {}

Refused(c) == Inconsistent(c) \/ Equal(c) # {} \/ Duplicate(c)

\* Register; where it is refused, nothing is changed
Register(c) ==
    /\ DescsOf[c] # {} /\ ~Refused(c)
    /\ Changed
    /\ collectorsByID' = collectorsByID \cup {c}
    /\ descIDs' = descIDs \cup IDs(c)
    /\ dimHashesByName' = [n \in DOMAIN dimHashesByName \cup Names(c) |->
           IF n \in DOMAIN dimHashesByName THEN dimHashesByName[n]
                                           ELSE (CHOOSE d \in DescsOf[c] : d.name = n).dim]
    /\ UNCHANGED <<vecVars, uncheckedCollectors, leaving, gatherVars>>

\* Unregister, with the read lock
UnregisterCheck(r, c) ==
    /\ leaving[r] = None
    /\ Equal(c) # {}
    /\ Changed
    /\ leaving' = [leaving EXCEPT ![r] = c]
    /\ UNCHANGED <<vecVars, collectorsByID, descIDs, dimHashesByName, uncheckedCollectors,
                   gatherVars>>

\* Unregister, with the write lock
UnregisterDelete(r) ==
    /\ leaving[r] # None
    /\ collectorsByID' = collectorsByID \ Equal(leaving[r])
    /\ descIDs' = descIDs \ IDs(leaving[r])
    /\ leaving' = [leaving EXCEPT ![r] = None]
    /\ UNCHANGED <<vecVars, dimHashesByName, uncheckedCollectors, gatherVars, changes>>

-----------------------------------------------------------------------------
(* gather: the snapshot *)

\* Mutation of KeepsAny: all names are wanted.
KeepsAny_All(c, names) == Names(c) \subseteq names

\* keepsAnyName
KeepsAny(c, names) == Names(c) \cap names # {}

\* The collectors worth walking
Kept(names) == {c \in collectorsByID : KeepsAny(c, names)}

\* Mutation of Work: those not kept are waited for too.
Work_All(names) == Cardinality(collectorsByID) + Len(uncheckedCollectors)

\* How many collectors are to be collected
Work(names) == Cardinality(Kept(names)) + Len(uncheckedCollectors)

Idle == [pc |-> "off", of |-> None, left |-> {}, to |-> "checked"]

First == CHOOSE w \in Workers : TRUE

\* What gather is asked for, and goes by once it has let go of the lock
Snapshot(names) ==
    /\ ~Gathering /\ gathers < MaxGathers
    /\ gathers' = gathers + 1
    /\ keep' = names
    /\ snapshot' = collectorsByID \cup {uncheckedCollectors[i] : i \in DOMAIN uncheckedCollectors}
    /\ registeredDescIDs' = descIDs
    /\ families' = [n \in {} |-> None] /\ metricHashes' = {} /\ accepted' = {}
    /\ errs' = 0 /\ collected' = {}

\* Nothing is registered, or worth walking
GatherNothing(names) ==
    /\ Work(names) = 0
    /\ Snapshot(names)
    /\ UNCHANGED <<vecVars, registryVars, checkedQueue, uncheckedQueue, worker, wg, sending,
                   budget, closed, open, changes>>

\* The snapshot, the queues, the first worker and the goroutine that closes
GatherBegin(names) ==
    /\ Work(names) > 0
    /\ Snapshot(names)
    /\ checkedQueue' = Kept(names) /\ uncheckedQueue' = uncheckedCollectors
    /\ wg' = Work(names)
    /\ budget' = wg' - 1
    /\ worker' = [w \in Workers |-> IF w = First THEN [Idle EXCEPT !.pc = "take"] ELSE Idle]
    /\ sending' = [ch \in {"checked", "unchecked"} |-> <<>>]
    /\ closed' = FALSE /\ open' = {"checked", "unchecked"}
    /\ UNCHANGED <<vecVars, registryVars, changes>>

-----------------------------------------------------------------------------
(* gather: collectWorker and safeCollect *)

\* What Collect of c may send,
Sends(c) == IF c = Vec THEN {VecMetric(l) : l \in LabelSets} ELSE MetricsOf[c]

\* and what it sends: for the vector what is in it
Content(c) == IF c = Vec THEN {VecMetric(values[m]) : m \in Children} ELSE MetricsOf[c]

\* The vector's read lock is taken at the start of its Collect,
Lock(w, c) == IF c = Vec THEN CollectLock(w) ELSE UNCHANGED vecVars

\* and given back at its end, or by a panic.
Unlock(w) == IF w \in reading THEN CollectUnlock(w) ELSE UNCHANGED vecVars

StartCollect(w, c, channel) ==
    /\ worker' = [worker EXCEPT ![w] =
                      [pc |-> "collect", of |-> c, left |-> Content(c), to |-> channel]]
    /\ collected' = collected \cup Content(c)
    /\ Lock(w, c)

Take(w) ==
    /\ worker[w].pc = "take"
    /\ \/ /\ \E c \in checkedQueue : /\ checkedQueue' = checkedQueue \ {c}
                                     /\ StartCollect(w, c, "checked")
          /\ UNCHANGED uncheckedQueue
       \/ /\ uncheckedQueue # <<>>
          /\ uncheckedQueue' = Tail(uncheckedQueue)
          /\ StartCollect(w, Head(uncheckedQueue), "unchecked")
          /\ UNCHANGED checkedQueue
    /\ UNCHANGED <<registryVars, beginVars, wg, sending, resultVars, budget, closed, open,
                   gathers, changes>>

\* Nothing is left to collect
WorkerReturns(w) ==
    /\ worker[w].pc = "take" /\ checkedQueue = {} /\ uncheckedQueue = <<>>
    /\ worker' = [worker EXCEPT ![w] = Idle]
    /\ UNCHANGED <<vecVars, registryVars, beginVars, checkedQueue, uncheckedQueue, wg, sending,
                   collected, resultVars, budget, closed, open, gathers, changes>>

\* A metric into the channel, which blocks while it is full
Send(w) ==
    /\ worker[w].pc \in {"collect", "recovered"}
    /\ Len(sending[worker[w].to]) < Capacity
    /\ \E m \in worker[w].left :
           /\ sending' = [sending EXCEPT ![worker[w].to] = Append(@, m)]
           /\ worker' = [worker EXCEPT ![w].left = @ \ {m}]
    /\ UNCHANGED <<vecVars, registryVars, beginVars, checkedQueue, uncheckedQueue, wg, collected,
                   resultVars, budget, closed, open, gathers, changes>>

Invalid == [desc |-> NoDesc, labels |-> None, type |-> "none", wrong |-> "none"]

\* Collect panics: it lets go of its locks, the error is kept and an invalid
\* metric is to be sent
Panic(w) ==
    /\ worker[w].pc = "collect" /\ worker[w].of \in Panicking
    /\ worker' = [worker EXCEPT ![w].pc = "recovered", ![w].left = {Invalid}]
    /\ errs' = errs + 1
    /\ Unlock(w)
    /\ UNCHANGED <<registryVars, beginVars, checkedQueue, uncheckedQueue, wg, sending, collected,
                   families, metricHashes, accepted, budget, closed, open, gathers,
                   changes>>

\* Collect has returned
Done(w) ==
    /\ worker[w].pc \in {"collect", "recovered"} /\ worker[w].left = {}
    /\ worker' = [worker EXCEPT ![w] = [Idle EXCEPT !.pc = "take"]]
    /\ wg' = wg - 1
    /\ Unlock(w)
    /\ UNCHANGED <<registryVars, beginVars, checkedQueue, uncheckedQueue, sending, collected,
                   resultVars, budget, closed, open, gathers, changes>>

Collect(w) == Take(w) \/ WorkerReturns(w) \/ Send(w) \/ Panic(w) \/ Done(w)

\* The goroutine that waits for the workers
Close ==
    /\ Gathering /\ ~closed /\ wg = 0
    /\ closed' = TRUE
    /\ UNCHANGED <<vecVars, registryVars, beginVars, workVars, resultVars, budget, open, gathers,
                   changes>>

-----------------------------------------------------------------------------
(* gather: processMetric *)

\* Flattening a summary or a histogram adds the suffix to its name.
AddsSuffix(type, suffix) == type = "histogram" \/ (type = "summary" /\ suffix # "bucket")

\* Mutation of SuffixCollides: only the later name is looked at.
SuffixCollides_OneWay(name, type) ==
    \E s \in Suffixed : /\ s[1] = name /\ s[2] \in DOMAIN families
                        /\ AddsSuffix(families[s[2]].type, s[3])

\* checkSuffixCollisions: a name with a magic suffix, and the summary or histogram
\* it is a part of, whichever came first
SuffixCollides(name, type) ==
    \E s \in Suffixed :
        \/ s[1] = name /\ s[2] \in DOMAIN families /\ AddsSuffix(families[s[2]].type, s[3])
        \/ s[2] = name /\ s[1] \in DOMAIN families /\ AddsSuffix(type, s[3])

\* The metric can be written and is of the family of its name, or begins one
HasFamily(m) ==
    LET n == m.desc.name
    IN  /\ m.desc.valid /\ m.wrong # "write"
        /\ IF n \in DOMAIN families
             THEN families[n] = [help |-> m.desc.help, type |-> m.type]
             ELSE m.type # "none" /\ ~SuffixCollides(n, m.type)

\* checkMetricConsistency
HashOf(m) == <<m.desc.name, m.labels>>
Fresh(m) == m.wrong # "labels" /\ HashOf(m) \notin metricHashes

\* The pedantic checks, of what came through cmc
Described(m, ch) ==
    Pedantic /\ ch = "checked" => m.desc.id \in registeredDescIDs /\ m.wrong # "desc"

\* What fails a check is an error, after the family or the hash is entered
ProcessMetric(m, ch) ==
    LET family == HasFamily(m)
        fresh == family /\ Fresh(m)
        fits == fresh /\ Described(m, ch)
    IN  /\ families' = IF ~family THEN families
                       ELSE [n \in DOMAIN families \cup {m.desc.name} |->
                                IF n = m.desc.name THEN [help |-> m.desc.help, type |-> m.type]
                                                   ELSE families[n]]
        /\ metricHashes' = IF fresh THEN metricHashes \cup {HashOf(m)} ELSE metricHashes
        /\ accepted' = IF fits THEN accepted \cup {m} ELSE accepted
        /\ errs' = IF fits THEN errs ELSE errs + 1

\* A metric is received, and processed if its name is to be kept
Receive(ch) ==
    /\ ch \in open /\ sending[ch] # <<>>
    /\ sending' = [sending EXCEPT ![ch] = Tail(@)]
    /\ LET m == Head(sending[ch])
       IN  IF m.desc.name \in keep
             THEN ProcessMetric(m, ch)
             ELSE UNCHANGED resultVars
    /\ UNCHANGED <<vecVars, registryVars, beginVars, checkedQueue, uncheckedQueue, worker, wg,
                   collected, budget, closed, open, gathers, changes>>

\* A closed channel is drained and set to nil; with the second, gather returns
NilOut(ch) ==
    /\ ch \in open /\ closed /\ sending[ch] = <<>>
    /\ open' = open \ {ch}
    /\ UNCHANGED <<vecVars, registryVars, beginVars, workVars, resultVars, budget, closed,
                   gathers, changes>>

\* default: neither channel is ready, and there is work for another worker
StartWorker(w) ==
    /\ Gathering /\ ~closed /\ \A ch \in open : sending[ch] = <<>>
    /\ budget > 0 /\ (checkedQueue # {} \/ uncheckedQueue # <<>>)
    /\ worker[w].pc = "off"
    /\ budget' = budget - 1
    /\ worker' = [worker EXCEPT ![w].pc = "take"]
    /\ UNCHANGED <<vecVars, registryVars, beginVars, checkedQueue, uncheckedQueue, wg, sending,
                   collected, resultVars, closed, open, gathers, changes>>

-----------------------------------------------------------------------------

Init ==
    /\ VecInit
    /\ collectorsByID = {} /\ descIDs = {}
    /\ dimHashesByName = [n \in {} |-> None]
    /\ uncheckedCollectors = <<>>
    /\ leaving = [r \in Registrars |-> None]
    /\ keep = {} /\ snapshot = {} /\ registeredDescIDs = {}
    /\ checkedQueue = {} /\ uncheckedQueue = <<>>
    /\ budget = 0 /\ wg = 0
    /\ worker = [w \in Workers |-> Idle]
    /\ sending = [ch \in {"checked", "unchecked"} |-> <<>>]
    /\ closed = FALSE /\ open = {}
    /\ families = [n \in {} |-> None] /\ metricHashes = {} /\ accepted = {}
    /\ errs = 0 /\ collected = {}
    /\ changes = 0 /\ gathers = 0

UseVec == /\ \/ Use /\ Changed
             \/ \E p \in Callers : Create(p) /\ UNCHANGED changes
          /\ UNCHANGED <<registryVars, gatherVars>>

Change == \/ \E c \in Collectors : Register(c) \/ RegisterUnchecked(c)
          \/ \E r \in Registrars : UnregisterDelete(r) \/ \E c \in Collectors : UnregisterCheck(r, c)

Gather == \/ \E ch \in {"checked", "unchecked"} : Receive(ch) \/ NilOut(ch)
          \/ \E w \in Workers : StartWorker(w)

\* The bounds are reached and nothing is in progress.
Terminating == /\ ~Gathering /\ \A r \in Registrars : leaving[r] = None
               /\ UNCHANGED vars

Next == \/ UseVec \/ Change
        \/ \E names \in Keeps : GatherNothing(names) \/ GatherBegin(names)
        \/ \E w \in Workers : Collect(w)
        \/ Close \/ Gather \/ Terminating

Spec == Init /\ [][Next]_vars

-----------------------------------------------------------------------------
(* Properties *)

\* Every variable has its type, and the vector is locked by those who collect it.
TypeOK ==
    /\ VecTypeOK
    /\ collectorsByID \subseteq Collectors /\ uncheckedCollectors \in Seq(Collectors)
    /\ UNION {Names(c) : c \in collectorsByID} \subseteq DOMAIN dimHashesByName
    /\ leaving \in [Registrars -> Collectors \cup {None}]
    /\ {wg, budget, errs} \subseteq Nat /\ open \subseteq {"checked", "unchecked"}
    /\ \A ch \in {"checked", "unchecked"} : Len(sending[ch]) <= Capacity
    /\ \A w \in Workers : w \in reading <=> worker[w].pc = "collect" /\ worker[w].of = Vec

\* No two registered collectors have a descriptor in common: Register "returns an
\* error if the descriptors ... in combination with descriptors of already
\* registered Collectors ... do not fulfill the consistency and uniqueness criteria".
DescsDisjoint ==
    \A c, e \in collectorsByID : IDs(c) \cap IDs(e) # {} => c = e

\* With one goroutine that unregisters: the descriptors of the registry, which
\* Register checks against and Describes answers by, are those of its collectors.
UniqueDescs == DescsDisjoint /\ descIDs = UNION {IDs(c) : c \in collectorsByID}

Returned == gathers > 0 /\ ~Gathering

\* What Gather returns is consistent in itself: a name has one help text and one
\* type, no two metrics have the same name and labels, and no name is that of a
\* part of a histogram or summary next to it, whatever the collectors send, in
\* whatever order.
SelfConsistent ==
    \A m1, m2 \in accepted :
        /\ m1.desc.name = m2.desc.name =>
               /\ m1.desc.help = m2.desc.help /\ m1.type = m2.type
               /\ m1.labels = m2.labels => m1 = m2
        /\ \A s \in Suffixed :
               s[1] = m1.desc.name /\ s[2] = m2.desc.name =>
                   /\ m2.type # "histogram" /\ (m2.type = "summary" => s[3] = "bucket")

\* A collector that sends what it describes
Honest(c) == /\ DescsOf[c] # {} /\ c \notin Panicking
             /\ \A m \in Sends(c) : m.desc \in DescsOf[c] /\ m.wrong = "none" /\ m.type # "none"

\* The honest collectors among those that can be registered together agree: one help
\* text and one type to a name, no metric that another has too, no name that is part of
\* a histogram or summary next to it.
Compatible ==
    \A c, e \in {h \in Collectors : Honest(h)} :
        c = e \/ IDs(c) \cap IDs(e) = {} =>
            \A m \in Sends(c), n \in Sends(e) :
                /\ m.desc.name = n.desc.name => m.desc.help = n.desc.help /\ m.type = n.type
                /\ HashOf(m) = HashOf(n) => c = e /\ m = n
                /\ \A s \in Suffixed : s[1] = m.desc.name /\ s[2] = n.desc.name =>
                                           ~AddsSuffix(n.type, s[3])

\* What Collect has given and a name to keep has is returned, or there is an error.
Complete == Returned /\ errs = 0 => accepted = {m \in collected : m.desc.name \in keep}

\* Where all collectors are honest, Gather has everything they have under the names
\* it was asked for and no error, although collectors come and go, and the vector
\* is used, while it runs.
HonestServed ==
    Returned /\ (\A c \in snapshot : Honest(c)) =>
        /\ errs = 0
        /\ \A c \in snapshot \ {Vec} :
               \A m \in MetricsOf[c] : m.desc.name \in keep => m \in accepted

\* Nothing is left out silently, and honest collectors are served.
Accounted == Complete /\ HonestServed

\* gather never hangs: as long as it has not returned, one of its own goroutines can
\* take a step, with few workers, full channels, panicking collectors and a vector
\* that is used meanwhile.  Each of these steps brings it closer to its end.
NeverStuck == Gathering => ENABLED (Gather \/ Close \/ \E w \in Workers : Collect(w))

=============================================================================
