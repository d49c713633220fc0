--------------------------- MODULE ServicesProofs ---------------------------
(***************************************************************************)
(* Theorems about the components that share no state with the others: the   *)
(* Pusher, the remote write protocol, the Summary, the words of counters,   *)
(* the client of the HTTP API, and the Graphite bridge.                     *)
(***************************************************************************)
EXTENDS Pusher, RemoteWrite, Summary, ValueCells, ApiClient, GraphiteBridge, SumTheorems,
        FiniteSetTheorems, TLAPS

-----------------------------------------------------------------------------
(* The Pusher. *)

IsFunction(f) == f = [x \in DOMAIN f |-> f[x]]

PushMethods == {"PUT", "POST", "DELETE"}

PusherShape ==
    /\ pusher = [error |-> pusher.error, grouping |-> pusher.grouping,
                 collectors |-> pusher.collectors, gatherers |-> pusher.gatherers]
    /\ pusher.error \in BOOLEAN
    /\ IsFunction(pusher.grouping)

\* The request under way carries the key that the Pusher has, which had no error.
RequestInv ==
    pushing # NoPush =>
      /\ pushing.method \in PushMethods
      /\ pushing.url = FullURL(pusher.grouping)
      /\ ~pusher.error

PushInv == PusherShape /\ RequestInv

\* The gateway reads from the path the key that FullURL wrote there.
LEMMA KeyIsRead ==
    ASSUME NEW g, IsFunction(g)
    PROVE  KeyOf(FullURL(g)) = g
<1>1. \A l \in DOMAIN g : KeyOf(FullURL(g))[l] = g[l]
  BY PusherAssumption DEF KeyOf, FullURL, EncodeComponent
<1>2. KeyOf(FullURL(g)) = [l \in DOMAIN g |-> KeyOf(FullURL(g))[l]]
  BY DEF KeyOf, FullURL
<1> QED BY <1>1, <1>2 DEF IsFunction

LEMMA WithIsFunction ==
    ASSUME NEW f, NEW k, NEW v
    PROVE  /\ IsFunction(With(f, k, v))
           /\ k \in DOMAIN With(f, k, v)
           /\ With(f, k, v)[k] = v
BY DEF IsFunction, With

LEMMA PushInvInit == PusherInit => PushInv
<1> SUFFICES ASSUME PusherInit PROVE PushInv
  OBVIOUS
<1> PICK e \in BOOLEAN : pusher = [error |-> e, grouping |-> << >>, collectors |-> {}, gatherers |-> {}]
  BY DEF PusherInit
<1>1. IsFunction(<< >>)
  BY DEF IsFunction
<1>2. pushing = NoPush
  BY DEF PusherInit
<1> QED BY <1>1, <1>2 DEF PushInv, PusherShape, RequestInv

LEMMA PushInvStep == PushInv /\ [PusherNext]_pVars => PushInv'
<1> SUFFICES ASSUME PushInv, [PusherNext]_pVars PROVE PushInv'
  OBVIOUS
<1>1. ASSUME UNCHANGED <<pusher, pushing>> PROVE PushInv'
  BY <1>1 DEF PushInv, PusherShape, RequestInv
<1>2. ASSUME pushing = NoPush, pushing' = NoPush,
             \/ pusher' = pusher
             \/ pusher' = [pusher EXCEPT !.error = TRUE]
             \/ \E S : pusher' = [pusher EXCEPT !.collectors = S]
             \/ \E S : pusher' = [pusher EXCEPT !.gatherers = S]
             \/ \E l, v : pusher' = [pusher EXCEPT !.grouping = With(@, l, v)]
      PROVE  PushInv'
  <2>1. RequestInv'
    BY <1>2 DEF RequestInv
  <2>2. CASE pusher' = pusher
    BY <2>1, <2>2 DEF PushInv, PusherShape
  <2>3. CASE pusher' = [pusher EXCEPT !.error = TRUE]
    BY <2>1, <2>3 DEF PushInv, PusherShape
  <2>4. ASSUME NEW S, pusher' = [pusher EXCEPT !.collectors = S] PROVE PushInv'
    BY <2>1, <2>4 DEF PushInv, PusherShape
  <2>5. ASSUME NEW S, pusher' = [pusher EXCEPT !.gatherers = S] PROVE PushInv'
    BY <2>1, <2>5 DEF PushInv, PusherShape
  <2>6. ASSUME NEW l, NEW v, pusher' = [pusher EXCEPT !.grouping = With(@, l, v)] PROVE PushInv'
    <3> DEFINE g == With(pusher.grouping, l, v)
    <3>1. IsFunction(g)
      BY WithIsFunction
    <3>2. pusher' = [error |-> pusher.error, grouping |-> g,
                     collectors |-> pusher.collectors, gatherers |-> pusher.gatherers]
      BY <2>6 DEF PushInv, PusherShape
    <3> HIDE DEF g
    <3> QED BY <2>1, <3>1, <3>2 DEF PushInv, PusherShape
  <2> QED BY <1>2, <2>2, <2>3, <2>4, <2>5, <2>6
<1>3. CASE Work
  BY <1>1, <1>3 DEF Work
<1>4. ASSUME NEW c, Collector(c) PROVE PushInv'
  BY <1>2, <1>4 DEF Collector, Calling
<1>5. ASSUME NEW g, Gatherer(g) PROVE PushInv'
  BY <1>2, <1>5 DEF Gatherer, Calling
<1>6. ASSUME NEW l, NEW v, Grouping(l, v) PROVE PushInv'
  BY <1>2, <1>6 DEF Grouping, Calling
<1>7. ASSUME NEW m \in {"PUT", "POST"}, StartPush(m) PROVE PushInv'
  <2>1. PusherShape'
    BY <1>7 DEF StartPush, PushInv, PusherShape
  <2>2. RequestInv'
    <3>1. CASE /\ ~pusher.error
               /\ pushing' = [method |-> m, url |-> FullURL(pusher.grouping), mfs |-> Mfs]
      BY <1>7, <3>1 DEF StartPush, RequestInv, PushMethods
    <3>2. CASE pushing' = pushing
      BY <1>7, <3>2 DEF StartPush, Calling, RequestInv
    <3> QED BY <1>7, <3>1, <3>2 DEF StartPush
  <2> QED BY <2>1, <2>2 DEF PushInv
<1>8. CASE StartDelete
  <2>1. PusherShape'
    BY <1>8 DEF StartDelete, PushInv, PusherShape
  <2>2. RequestInv'
    <3>1. CASE /\ ~pusher.error
               /\ pushing' = [method |-> "DELETE", url |-> FullURL(pusher.grouping), mfs |-> << >>]
      BY <1>8, <3>1 DEF StartDelete, RequestInv, PushMethods
    <3>2. CASE pushing' = pushing
      BY <1>8, <3>2 DEF StartDelete, Calling, RequestInv
    <3> QED BY <1>8, <3>1, <3>2 DEF StartDelete
  <2> QED BY <2>1, <2>2 DEF PushInv
<1>9. CASE Exchange
  BY <1>9 DEF Exchange, PushInv, PusherShape, RequestInv
<1>10. CASE UNCHANGED pVars
  BY <1>1, <1>10 DEF pVars
<1> QED BY <1>3, <1>4, <1>5, <1>6, <1>7, <1>8, <1>9, <1>10 DEF PusherNext

\* What an accepted request leaves in the gateway.
LEMMA GatewayHas ==
    ASSUME NEW p, NEW k, KeyOf(p.url) = k, p.method \in PushMethods
    PROVE  /\ p.method = "PUT" => k \in DOMAIN GatewayAfter(p) /\ GatewayAfter(p)[k] = p.mfs
           /\ p.method = "POST" =>
                /\ k \in DOMAIN GatewayAfter(p)
                /\ GatewayAfter(p)[k] = Merged(IF k \in DOMAIN gateway THEN gateway[k] ELSE << >>, p.mfs)
           /\ p.method = "DELETE" => k \notin DOMAIN GatewayAfter(p)
<1>1. CASE p.method = "PUT"
  BY <1>1, WithIsFunction DEF GatewayAfter
<1>2. CASE p.method = "POST"
  BY <1>2, WithIsFunction DEF GatewayAfter
<1>3. CASE p.method = "DELETE"
  BY <1>3 DEF GatewayAfter
<1> QED BY <1>1, <1>2, <1>3 DEF PushMethods

\* The action of PushIsKept.
PushKept ==
    /\ pushed'.ok /\ pushing # NoPush /\ pushing' = NoPush =>
            LET k == pusher.grouping
                held == IF k \in DOMAIN gateway' THEN gateway'[k] ELSE << >> IN
            CASE pushed'.method = "PUT" -> held = pushed'.mfs
              [] pushed'.method = "POST" -> held = Merged(pushed'.before, pushed'.mfs)
              [] pushed'.method = "DELETE" -> k \notin DOMAIN gateway'
              [] OTHER -> FALSE
    /\ pusher.error => pushing' = NoPush /\ pusher'.error /\ UNCHANGED gateway

LEMMA PushKeptStep == PushInv /\ [PusherNext]_pVars => PushKept \/ UNCHANGED pVars
<1> SUFFICES ASSUME PushInv, PusherNext PROVE PushKept
  OBVIOUS
<1>1. ASSUME UNCHANGED <<gateway, pushing>>, pusher.error => pusher'.error PROVE PushKept
  BY <1>1 DEF PushInv, RequestInv, PushKept
<1>2. CASE Work
  BY <1>1, <1>2 DEF Work
<1>3. ASSUME NEW c, Collector(c) PROVE PushKept
  BY <1>1, <1>3 DEF Collector, PushInv, PusherShape
<1>4. ASSUME NEW g, Gatherer(g) PROVE PushKept
  BY <1>1, <1>4 DEF Gatherer, PushInv, PusherShape
<1>5. ASSUME NEW l, NEW v, Grouping(l, v) PROVE PushKept
  BY <1>1, <1>5 DEF Grouping, PushInv, PusherShape
<1>6. ASSUME NEW m, StartPush(m) PROVE PushKept
  BY <1>6 DEF StartPush, Calling, PushKept
<1>7. CASE StartDelete
  BY <1>7 DEF StartDelete, Calling, PushKept
<1>8. CASE Exchange
  <2>1. pushing # NoPush /\ ~pusher.error
    BY <1>8 DEF Exchange, PushInv, RequestInv
  <2>2. KeyOf(pushing.url) = pusher.grouping /\ pushing.method \in PushMethods
    BY <2>1, KeyIsRead DEF PushInv, PusherShape, RequestInv
  <2>3. PICK status \in {200, 202, 400}, arrives \in BOOLEAN, answered \in BOOLEAN :
          /\ gateway' = IF arrives /\ status # 400 THEN GatewayAfter(pushing) ELSE gateway
          /\ Returns(pushing.method, arrives /\ answered /\ Accepted(pushing.method, status), pushing.mfs)
    BY <1>8 DEF Exchange
  <2>4. ASSUME pushed'.ok PROVE gateway' = GatewayAfter(pushing)
    <3> DEFINE ok == arrives /\ answered /\ Accepted(pushing.method, status)
    <3>1. pushed'.ok = ok
      <4> HIDE DEF ok
      <4>1. Returns(pushing.method, ok, pushing.mfs)
        BY <2>3 DEF ok
      <4> QED BY <4>1 DEF Returns
    <3>2. arrives /\ status # 400
      <4>1. ok
        BY <2>4, <3>1, Zenon
      <4> QED BY <4>1 DEF Accepted
    <3> QED BY <2>3, <3>2
  <2>5. /\ pushed'.method = pushing.method /\ pushed'.mfs = pushing.mfs
        /\ pushed'.before = Before
    BY <2>3 DEF Returns
  <2>6. ASSUME pushed'.ok, pushing.method = "PUT" PROVE PushKept
    BY <2>1, <2>2, <2>4, <2>5, <2>6, GatewayHas DEF PushKept
  <2>7. ASSUME pushed'.ok, pushing.method = "POST" PROVE PushKept
    BY <2>1, <2>2, <2>4, <2>5, <2>7, GatewayHas DEF PushKept, Before
  <2>8. ASSUME pushed'.ok, pushing.method = "DELETE" PROVE PushKept
    BY <2>1, <2>2, <2>4, <2>5, <2>8, GatewayHas DEF PushKept
  <2>9. ASSUME ~pushed'.ok PROVE PushKept
    BY <2>1, <2>9 DEF PushKept
  <2> QED BY <2>2, <2>6, <2>7, <2>8, <2>9 DEF PushMethods
<1> QED BY <1>2, <1>3, <1>4, <1>5, <1>6, <1>7, <1>8 DEF PusherNext

\* Push, Add and Delete: what a call reports is what the gateway has under the key that
\* was set, and a Pusher with an error sends nothing.
THEOREM PushesAreKept == PusherInit /\ [][PusherNext]_pVars => PushIsKept
<1>1. PusherInit /\ [][PusherNext]_pVars => []PushInv
  BY PushInvInit, PushInvStep, PTL
<1>2. PushInv /\ [PusherNext]_pVars => [PushKept]_pVars
  BY PushKeptStep
<1>3. PusherInit /\ [][PusherNext]_pVars => [][PushKept]_pVars
  BY <1>1, <1>2, PTL
<1> QED BY <1>3 DEF PushIsKept, PushKept

-----------------------------------------------------------------------------
(* Remote write. *)

\* Messages that know their size, and a store that sets a status for its errors.
Sound == ~rw.generic /\ ~rw.forgets

Sending == {"attempt", "await", "backoff"}
CallSteps == {"idle", "compress", "end"} \cup Sending
Stats == [samples : Nat, confirmed : BOOLEAN]
Results == [result : {"none", "nil", "error"}, stats : Stats]
CallStates ==
    [pc : CallSteps, buf : Buffers \cup {NoBuffer}, cbuf : Buffers \cup {NoBuffer}, retries : Nat,
     sent : Nat, min : Int, max : Int, acc : Stats,
     got : Results, ctx : BOOLEAN]

\* The request that the attempt number k of a call sends.
Request(c, k) == [from |-> c, n |-> k, version |-> rw.version, payload |-> <<c>>]

RemoteTypes ==
    /\ rw \in RemoteSetups
    /\ content \in [Buffers -> Seq(Calls)]
    /\ pool \subseteq Buffers
    /\ call \in [Calls -> CallStates]
    /\ net \subseteq {Request(c, k) : c \in Calls, k \in Nat}
    /\ replies \subseteq [to : Calls, n : Nat, status : Nat, stats : Stats]
    /\ stored \in [Calls -> Nat]

\* The buffer a call holds is its own, and has its message.
Held(c) == IF call[c].pc = "compress" THEN call[c].buf ELSE call[c].cbuf

BuffersInv ==
    /\ \A c \in Calls :
        /\ call[c].pc = "compress" => call[c].buf # NoBuffer
        /\ call[c].pc # "compress" => call[c].buf = NoBuffer
        /\ call[c].pc \in Sending <=> call[c].cbuf # NoBuffer
        /\ Held(c) \notin pool
        /\ Held(c) # NoBuffer => content[Held(c)] = <<c>>
    /\ \A c, d \in Calls : Held(c) = Held(d) /\ Held(c) # NoBuffer => c = d

\* The attempts of a call, and the range of its delays.
AttemptsInv ==
    \A c \in Calls :
        /\ call[c].sent <= call[c].retries + 1
        /\ call[c].pc \notin {"await", "end"} => call[c].sent <= call[c].retries
        /\ rw.maxRetries > 0 => call[c].retries <= rw.maxRetries
        /\ call[c].min <= call[c].max \/ rw.backoffMax < rw.backoffMin

RequestsOf(c) == {m \in net : m.from = c}

\* Each attempt is stored, on its way, or lost.
StoredInv ==
    /\ IsFiniteSet(net)
    /\ \A c \in Calls : stored[c] + Cardinality(RequestsOf(c)) <= call[c].sent

\* An answer is to the attempt that is waited for, and the only one.
RepliesInv ==
    /\ \A a \in replies : call[a.to].pc = "await"
    /\ \A a, b \in replies : a.to = b.to => a = b
    /\ \A a \in replies, m \in net : m.from = a.to => m.n # call[a.to].retries

\* What was stored covers the statistics received, and those in an answer on its way.
StatsInv ==
    /\ \A c \in Calls :
        /\ call[c].acc.samples <= stored[c]
        /\ call[c].got.stats.samples <= stored[c]
        /\ call[c].got.result = "nil" =>
             /\ stored[c] > 0
             /\ rw.version = "v2" => call[c].got.stats.confirmed \/ call[c].got.stats.samples > 0
    /\ \A a \in replies :
        /\ call[a.to].acc.samples + a.stats.samples <= stored[a.to]
        /\ a.status = 204 => stored[a.to] > 0

RemoteInv == RemoteTypes /\ BuffersInv /\ AttemptsInv /\ StoredInv /\ RepliesInv /\ StatsInv

\* What the parts of a step of API.Write do to its call.
Others(c) == \A d \in Calls : d # c => call'[d] = call[d]

LEMMA FinishParts ==
    ASSUME RemoteTypes, NEW c \in Calls, NEW r \in {"nil", "error"}, NEW s \in Stats, Finish(c, r, s)
    PROVE  /\ call' \in [Calls -> CallStates] /\ Others(c)
           /\ call'[c].pc = "end" /\ call'[c].cbuf = NoBuffer /\ call'[c].buf = call[c].buf
           /\ call'[c].got = [result |-> r, stats |-> s]
           /\ call'[c].sent = call[c].sent /\ call'[c].retries = call[c].retries
           /\ call'[c].min = call[c].min /\ call'[c].max = call[c].max /\ call'[c].acc = call[c].acc
<1> DEFINE g == [result |-> r, stats |-> s]
<1>1. g \in Results
  BY DEF Results
<1>a. call[c] \in CallStates
  BY DEF RemoteTypes
<1> DEFINE k == [call[c] EXCEPT !.pc = "end", !.cbuf = NoBuffer, !.got = g]
<1>2. call' = [call EXCEPT ![c] = k]
  BY DEF Finish, RemoteTypes
<1> HIDE DEF g
<1>3. /\ k \in CallStates
      /\ k.pc = "end" /\ k.cbuf = NoBuffer /\ k.buf = call[c].buf /\ k.got = g
      /\ k.sent = call[c].sent /\ k.retries = call[c].retries
      /\ k.min = call[c].min /\ k.max = call[c].max /\ k.acc = call[c].acc
  BY <1>a, <1>1 DEF CallStates, CallSteps
<1> HIDE DEF k
<1>4. call' \in [Calls -> CallStates] /\ Others(c) /\ call'[c] = k
  BY <1>2, <1>3 DEF RemoteTypes, Others
<1> QED BY <1>3, <1>4 DEF g

LEMMA RetryParts ==
    ASSUME RemoteTypes, NEW c \in Calls, NEW rs \in Stats, Retry(c, rs)
    PROVE  /\ call' \in [Calls -> CallStates] /\ Others(c)
           /\ call'[c].pc = "backoff" /\ call'[c].cbuf = call[c].cbuf /\ call'[c].buf = call[c].buf
           /\ call'[c].got = call[c].got
           /\ call'[c].sent = call[c].sent /\ call'[c].retries = call[c].retries + 1
           /\ call'[c].acc = Accumulated(c, rs)
           /\ \/ call'[c].min = call[c].min /\ call'[c].max = call[c].max
              \/ /\ call'[c].min = DoubleDuration(call[c].min) /\ call'[c].max = DoubleDuration(call[c].max)
                 /\ call[c].min < call[c].max /\ call[c].max < rw.backoffMax
<1>1. Accumulated(c, rs) \in Stats
  BY DEF Accumulated, Stats, RemoteTypes, CallStates
<1>2. DoubleDuration(call[c].min) \in Int /\ DoubleDuration(call[c].max) \in Int
  BY RemoteAssumption DEF DoubleDuration, RemoteTypes, CallStates
<1> QED BY <1>1, <1>2 DEF RemoteTypes, CallStates, CallSteps, Sending, Retry, Others


\* The steps that are not a retry or a return change the step, the buffers, the number of
\* requests sent, or the context, and nothing else of the call.
Kept(c) ==
    /\ call'[c].retries = call[c].retries /\ call'[c].min = call[c].min /\ call'[c].max = call[c].max
    /\ call'[c].acc = call[c].acc

LEMMA CallTyped ==
    ASSUME RemoteTypes, NEW c \in Calls
    PROVE  call[c] \in CallStates
BY DEF RemoteTypes

LEMMA CallBecomes ==
    ASSUME RemoteTypes, NEW c \in Calls, NEW k \in CallStates, call' = [call EXCEPT ![c] = k]
    PROVE  call' \in [Calls -> CallStates] /\ Others(c) /\ call'[c] = k
BY DEF RemoteTypes, Others

LEMMA GetFresh ==
    ASSUME RemoteTypes, BuffersInv, NEW b \in Get
    PROVE  b \in Buffers /\ b # NoBuffer /\ \A d \in Calls : Held(d) # b
<1>1. b \in Buffers
  BY DEF Get, RemoteTypes
<1>2. b # NoBuffer
  BY <1>1, RemoteAssumption DEF NoBuffer
<1>3. ASSUME NEW d \in Calls PROVE Held(d) # b
  <2>1. Held(d) \notin pool
    BY DEF BuffersInv
  <2>2. Held(d) \in InUse
    BY DEF Held, InUse
  <2> QED BY <2>1, <2>2 DEF Get
<1> QED BY <1>1, <1>2, <1>3

LEMMA MarshalParts ==
    ASSUME RemoteTypes, BuffersInv, Sound, NEW c \in Calls, Marshal(c)
    PROVE  /\ call' \in [Calls -> CallStates] /\ Others(c) /\ Kept(c)
           /\ call[c].pc = "idle" /\ call'[c].sent = call[c].sent /\ call'[c].cbuf = call[c].cbuf
           /\ \E b \in Get :
                /\ pool' = pool \ {b}
                /\ \/ /\ call'[c].pc = "end" /\ call'[c].buf = call[c].buf
                      /\ call'[c].got.result = "error" /\ call'[c].got.stats = call[c].got.stats
                      /\ content' = [content EXCEPT ![b] = <<>>]
                   \/ /\ call'[c].pc = "compress" /\ call'[c].buf = b
                      /\ call'[c].got = call[c].got
                      /\ content' = [content EXCEPT ![b] = <<c>>]
<1>a. call[c] \in CallStates
  BY CallTyped
<1> PICK b \in Get :
         /\ pool' = pool \ {b}
         /\ \/ /\ content' = [content EXCEPT ![b] = <<>>]
               /\ call' = [call EXCEPT ![c].pc = "end", ![c].got.result = "error"]
            \/ /\ content' = [content EXCEPT ![b] = Marshalled(c, @)]
               /\ call' = [call EXCEPT ![c].pc = "compress", ![c].buf = b]
  BY DEF Marshal
<1>b. b \in Buffers
  BY GetFresh
<1>c. call[c].pc = "idle"
  BY DEF Marshal
<1>1. ASSUME content' = [content EXCEPT ![b] = <<>>],
             call' = [call EXCEPT ![c].pc = "end", ![c].got.result = "error"]
      PROVE  /\ call' \in [Calls -> CallStates] /\ Others(c) /\ Kept(c)
             /\ call'[c].sent = call[c].sent /\ call'[c].cbuf = call[c].cbuf
             /\ call'[c].pc = "end" /\ call'[c].buf = call[c].buf
             /\ call'[c].got.result = "error" /\ call'[c].got.stats = call[c].got.stats
  <2> DEFINE g == [call[c].got EXCEPT !.result = "error"]
  <2>1. g \in Results /\ g.result = "error" /\ g.stats = call[c].got.stats
    BY <1>a DEF CallStates, Results
  <2> DEFINE k == [call[c] EXCEPT !.pc = "end", !.got = g]
  <2>2. call' = [call EXCEPT ![c] = k]
    BY <1>1, <1>a DEF CallStates
  <2> HIDE DEF g
  <2>3. /\ k \in CallStates
        /\ k.pc = "end" /\ k.buf = call[c].buf /\ k.cbuf = call[c].cbuf /\ k.sent = call[c].sent
        /\ k.retries = call[c].retries /\ k.min = call[c].min /\ k.max = call[c].max
        /\ k.acc = call[c].acc /\ k.got = g
    BY <1>a, <2>1 DEF CallStates, CallSteps
  <2> HIDE DEF k
  <2> QED BY <2>1, <2>2, <2>3, CallBecomes DEF Kept
<1>2. ASSUME content' = [content EXCEPT ![b] = Marshalled(c, @)],
             call' = [call EXCEPT ![c].pc = "compress", ![c].buf = b]
      PROVE  /\ call' \in [Calls -> CallStates] /\ Others(c) /\ Kept(c)
             /\ call'[c].sent = call[c].sent /\ call'[c].cbuf = call[c].cbuf
             /\ call'[c].pc = "compress" /\ call'[c].buf = b /\ call'[c].got = call[c].got
             /\ content' = [content EXCEPT ![b] = <<c>>]
  <2> DEFINE k == [call[c] EXCEPT !.pc = "compress", !.buf = b]
  <2>2. call' = [call EXCEPT ![c] = k]
    BY <1>2, <1>a DEF CallStates
  <2>3. /\ k \in CallStates
        /\ k.pc = "compress" /\ k.buf = b /\ k.cbuf = call[c].cbuf /\ k.sent = call[c].sent
        /\ k.retries = call[c].retries /\ k.min = call[c].min /\ k.max = call[c].max
        /\ k.acc = call[c].acc /\ k.got = call[c].got
    BY <1>a, <1>b DEF CallStates, CallSteps
  <2> HIDE DEF k
  <2> QED BY <1>2, <2>2, <2>3, CallBecomes DEF Kept, Marshalled, Sound
<1>3. CASE /\ content' = [content EXCEPT ![b] = <<>>]
           /\ call' = [call EXCEPT ![c].pc = "end", ![c].got.result = "error"]
  BY <1>1, <1>3, <1>c
<1>4. CASE /\ content' = [content EXCEPT ![b] = Marshalled(c, @)]
           /\ call' = [call EXCEPT ![c].pc = "compress", ![c].buf = b]
  BY <1>2, <1>4, <1>c
<1> QED BY <1>3, <1>4

LEMMA CompressParts ==
    ASSUME RemoteTypes, BuffersInv, NEW c \in Calls, Compress(c)
    PROVE  /\ call' \in [Calls -> CallStates] /\ Others(c) /\ Kept(c)
           /\ call[c].pc = "compress" /\ call'[c].sent = call[c].sent /\ call'[c].got = call[c].got
           /\ call'[c].pc = "attempt" /\ call'[c].buf = NoBuffer
           /\ \E z \in Get :
                /\ call'[c].cbuf = z
                /\ content' = [content EXCEPT ![z] = content[call[c].buf]]
                /\ pool' = (pool \ {z}) \cup {call[c].buf}
<1>a. call[c] \in CallStates
  BY CallTyped
<1> PICK z \in Get :
         /\ content' = [content EXCEPT ![z] = content[call[c].buf]]
         /\ pool' = (pool \ {z}) \cup {call[c].buf}
         /\ call' = [call EXCEPT ![c].pc = "attempt", ![c].cbuf = z, ![c].buf = NoBuffer]
  BY DEF Compress, PutOnCompress
<1>b. z \in Buffers
  BY GetFresh
<1> DEFINE k == [call[c] EXCEPT !.pc = "attempt", !.cbuf = z, !.buf = NoBuffer]
<1>1. call' = [call EXCEPT ![c] = k]
  BY <1>a DEF CallStates
<1>2. /\ k \in CallStates
      /\ k.pc = "attempt" /\ k.buf = NoBuffer /\ k.cbuf = z /\ k.sent = call[c].sent
      /\ k.retries = call[c].retries /\ k.min = call[c].min /\ k.max = call[c].max
      /\ k.acc = call[c].acc /\ k.got = call[c].got
  BY <1>a, <1>b DEF CallStates, CallSteps, Sending
<1> HIDE DEF k
<1>3. call[c].pc = "compress"
  BY DEF Compress
<1> QED BY <1>1, <1>2, <1>3, CallBecomes DEF Kept

LEMMA AttemptParts ==
    ASSUME RemoteTypes, BuffersInv, NEW c \in Calls, Attempt(c)
    PROVE  /\ call' \in [Calls -> CallStates] /\ Others(c) /\ Kept(c)
           /\ call[c].pc = "attempt" /\ call'[c].sent = call[c].sent + 1 /\ call'[c].got = call[c].got
           /\ call'[c].pc = "await" /\ call'[c].buf = call[c].buf /\ call'[c].cbuf = call[c].cbuf
           /\ net' = net \cup {Request(c, call[c].retries)}
<1>a. call[c] \in CallStates
  BY CallTyped
<1>b. call[c].pc = "attempt"
  BY DEF Attempt
<1> DEFINE n == call[c].sent + 1
           k == [call[c] EXCEPT !.pc = "await", !.sent = n]
<1>1. call' = [call EXCEPT ![c] = k]
  BY <1>a DEF CallStates, Attempt
<1>5. n \in Nat /\ n = call[c].sent + 1
  BY <1>a DEF CallStates
<1> HIDE DEF n
<1>2. /\ k \in CallStates
      /\ k.pc = "await" /\ k.buf = call[c].buf /\ k.cbuf = call[c].cbuf /\ k.sent = n
      /\ k.retries = call[c].retries /\ k.min = call[c].min /\ k.max = call[c].max
      /\ k.acc = call[c].acc /\ k.got = call[c].got
  BY <1>a, <1>5 DEF CallStates, CallSteps, Sending
<1> HIDE DEF k
<1>3. content[call[c].cbuf] = <<c>>
  BY <1>b DEF BuffersInv, Held, Sending
<1>4. net' = net \cup {Request(c, call[c].retries)}
  BY <1>3 DEF Attempt, Request
<1> QED BY <1>b, <1>1, <1>2, <1>4, <1>5, CallBecomes DEF Kept

LEMMA BackedOffParts ==
    ASSUME RemoteTypes, NEW c \in Calls, BackedOff(c)
    PROVE  /\ call[c].pc = "backoff"
           /\ \/ /\ call' \in [Calls -> CallStates] /\ Others(c) /\ Kept(c)
                 /\ call'[c].sent = call[c].sent /\ call'[c].got = call[c].got
                 /\ call'[c].pc = "attempt" /\ call'[c].buf = call[c].buf /\ call'[c].cbuf = call[c].cbuf
                 /\ pool' = pool
              \/ Finish(c, "error", NoStats)
<1>a. call[c] \in CallStates
  BY CallTyped
<1>b. call[c].pc = "backoff"
  BY DEF BackedOff
<1>1. ASSUME call' = [call EXCEPT ![c].pc = "attempt"]
      PROVE  /\ call' \in [Calls -> CallStates] /\ Others(c) /\ Kept(c)
             /\ call'[c].sent = call[c].sent /\ call'[c].got = call[c].got
             /\ call'[c].pc = "attempt" /\ call'[c].buf = call[c].buf /\ call'[c].cbuf = call[c].cbuf
  <2> DEFINE k == [call[c] EXCEPT !.pc = "attempt"]
  <2>1. call' = [call EXCEPT ![c] = k]
    BY <1>1
  <2>2. /\ k \in CallStates
        /\ k.pc = "attempt" /\ k.buf = call[c].buf /\ k.cbuf = call[c].cbuf /\ k.sent = call[c].sent
        /\ k.retries = call[c].retries /\ k.min = call[c].min /\ k.max = call[c].max
        /\ k.acc = call[c].acc /\ k.got = call[c].got
    BY <1>a DEF CallStates, CallSteps, Sending
  <2> HIDE DEF k
  <2> QED BY <2>1, <2>2, CallBecomes DEF Kept
<1> QED BY <1>b, <1>1 DEF BackedOff

LEMMA CancelParts ==
    ASSUME RemoteTypes, NEW c \in Calls, Cancel(c)
    PROVE  /\ call' \in [Calls -> CallStates] /\ Others(c) /\ Kept(c)
           /\ call'[c].sent = call[c].sent /\ call'[c].got = call[c].got
           /\ call'[c].pc = call[c].pc /\ call'[c].buf = call[c].buf /\ call'[c].cbuf = call[c].cbuf
<1>a. call[c] \in CallStates
  BY CallTyped
<1> DEFINE k == [call[c] EXCEPT !.ctx = TRUE]
<1>1. call' = [call EXCEPT ![c] = k]
  BY DEF Cancel
<1>2. /\ k \in CallStates
      /\ k.pc = call[c].pc /\ k.buf = call[c].buf /\ k.cbuf = call[c].cbuf /\ k.sent = call[c].sent
      /\ k.retries = call[c].retries /\ k.min = call[c].min /\ k.max = call[c].max
      /\ k.acc = call[c].acc /\ k.got = call[c].got
  BY <1>a DEF CallStates
<1> HIDE DEF k
<1> QED BY <1>1, <1>2, CallBecomes DEF Kept

\* What the store does with a request, and what it answers.
LEMMA ServeParts ==
    ASSUME RemoteTypes, Sound, NEW m \in net, ServeHTTP(m)
    PROVE  /\ m.from \in Calls /\ m.n \in Nat /\ m = Request(m.from, m.n)
           /\ net' = net \ {m}
           /\ \E w \in {0, 1} :
                /\ stored' = [c \in Calls |-> stored[c] + IF c = m.from THEN w ELSE 0]
                /\ \/ replies' = replies
                   \/ /\ Waiting(m)
                      /\ \E status \in Nat, stats \in Stats :
                           /\ replies' = replies \cup {[to |-> m.from, n |-> m.n, status |-> status, stats |-> stats]}
                           /\ stats.samples <= w
                           /\ status = 204 => w = 1
<1> PICK c \in Calls, k \in Nat : m = Request(c, k)
  BY DEF RemoteTypes
<1>1. m.from = c /\ m.n = k /\ m.payload = <<c>> /\ m.version = rw.version
  BY DEF Request
<1>2. net' = net \ {m}
  BY DEF ServeHTTP
<1>3. NoStats \in Stats /\ NoStats.samples = 0
  BY DEF NoStats, Stats
<1>4. Rejection(m) \in {0, 400, 413, 415}
  BY DEF Rejection
<1>5. CASE Rejection(m) # 0
  <2>1. stored' = stored /\ Reply(m, Rejection(m), NoStats)
    BY <1>5 DEF ServeHTTP
  <2>2. stored' = [d \in Calls |-> stored[d] + IF d = m.from THEN 0 ELSE 0]
    BY <2>1 DEF RemoteTypes
  <2>3. Rejection(m) \in Nat /\ Rejection(m) # 204
    BY <1>4
  <2> QED BY <1>1, <1>2, <1>3, <2>1, <2>2, <2>3 DEF Reply
<1>6. CASE Rejection(m) = 0
  <2> PICK o \in StoreOutcomes :
         /\ stored' = [d \in Calls |-> stored[d] + IF o.wrote THEN Times(d, m.payload) ELSE 0]
         /\ Reply(m, StoreStatus(o), StatsFor(m, IF o.wrote THEN Len(m.payload) ELSE 0))
    BY <1>6 DEF ServeHTTP
  <2> DEFINE w == IF o.wrote THEN 1 ELSE 0
  <2>1. ASSUME NEW d \in Calls PROVE Times(d, <<c>>) = IF d = c THEN 1 ELSE 0
    <3>1. CASE d = c
      <4>1. {i \in DOMAIN <<c>> : <<c>>[i] = d} = {1}
        BY <3>1
      <4> QED BY <4>1, <3>1, FS_Singleton DEF Times
    <3>2. CASE d # c
      <4>1. {i \in DOMAIN <<c>> : <<c>>[i] = d} = {}
        BY <3>2
      <4> QED BY <4>1, <3>2, FS_EmptySet DEF Times
    <3> QED BY <3>1, <3>2
  <2>2. stored' = [d \in Calls |-> stored[d] + IF d = m.from THEN w ELSE 0]
    BY <1>1, <2>1
  <2>3. o.code \in {204, 503, 400, 429} /\ (o.code = 204 => o.wrote)
    <3>1. CASE o \in [wrote : {TRUE}, err : {FALSE}, code : {204}]
      BY <3>1
    <3>2. CASE o \in [wrote : BOOLEAN, err : {TRUE}, code : {503}]
      <4>1. o.code = 503
        BY <3>2
      <4> QED BY <4>1
    <3>3. CASE o \in [wrote : {FALSE}, err : {TRUE}, code : {400, 429}]
      <4>1. o.code \in {400, 429}
        BY <3>3
      <4> QED BY <4>1
    <3>4. \/ o \in [wrote : {TRUE}, err : {FALSE}, code : {204}]
          \/ o \in [wrote : BOOLEAN, err : {TRUE}, code : {503}]
          \/ o \in [wrote : {FALSE}, err : {TRUE}, code : {400, 429}]
      BY Zenon DEF StoreOutcomes, Sound
    <3> QED BY <3>1, <3>2, <3>3, <3>4, Zenon
  <2>4. StoreStatus(o) \in Nat /\ (StoreStatus(o) = 204 => w = 1)
    BY <2>3 DEF StoreStatus
  <2>5. /\ StatsFor(m, IF o.wrote THEN Len(m.payload) ELSE 0) \in Stats
        /\ StatsFor(m, IF o.wrote THEN Len(m.payload) ELSE 0).samples <= w
    <3>1. (IF o.wrote THEN Len(m.payload) ELSE 0) = w
      BY <1>1
    <3>2. w \in Nat
      OBVIOUS
    <3> HIDE DEF w
    <3> QED BY <1>3, <3>1, <3>2 DEF StatsFor, Stats
  <2>6. w \in {0, 1}
    OBVIOUS
  <2> HIDE DEF w
  <2> DEFINE stats == StatsFor(m, IF o.wrote THEN Len(m.payload) ELSE 0)
  <2> HIDE DEF stats
  <2>7. \/ replies' = replies
        \/ /\ Waiting(m)
           /\ replies' = replies \cup {[to |-> m.from, n |-> m.n, status |-> StoreStatus(o), stats |-> stats]}
    BY DEF Reply, stats
  <2>8. stats \in Stats /\ stats.samples <= w
    BY <2>5 DEF stats
  <2> QED BY <1>1, <1>2, <2>2, <2>4, <2>6, <2>7, <2>8
<1> QED BY <1>5, <1>6

\* An attempt that failed is retried; a call returns; a delay is over.
RetryStep(c) ==
    /\ call[c].pc = "await" /\ Ongoing(c)
    /\ \E rs \in Stats : Retry(c, rs) /\ call[c].acc.samples + rs.samples <= stored[c]
    /\ replies' = {a \in replies : a.to # c}
    /\ UNCHANGED <<rw, content, net, stored>>

FinishStep(c) ==
    /\ call[c].pc \in {"await", "backoff"}
    /\ \E r \in {"nil", "error"}, s \in Stats :
         /\ Finish(c, r, s)
         /\ s.samples <= stored[c]
         /\ r = "nil" => stored[c] > 0 /\ (rw.version = "v2" => s.confirmed \/ s.samples > 0)
    /\ replies' = {a \in replies : a.to # c}
    /\ UNCHANGED <<rw, content, net, stored>>

ResumeStep(c) ==
    /\ call' \in [Calls -> CallStates] /\ Others(c) /\ Kept(c)
    /\ call'[c].sent = call[c].sent /\ call'[c].got = call[c].got
    /\ call[c].pc = "backoff" /\ call'[c].pc = "attempt"
    /\ call'[c].buf = call[c].buf /\ call'[c].cbuf = call[c].cbuf
    /\ UNCHANGED <<rw, content, pool, net, replies, stored>>

LEMMA AccIsStored ==
    ASSUME RemoteInv, NEW c \in Calls
    PROVE  call[c].acc \in Stats /\ call[c].acc.samples \in Nat /\ call[c].acc.samples <= stored[c]
           /\ stored[c] \in Nat
<1>1. call[c].acc \in Stats
  BY CallTyped DEF RemoteInv, CallStates
<1> QED BY <1>1 DEF RemoteInv, StatsInv, RemoteTypes, Stats

LEMMA NetworkErrorMoves ==
    ASSUME RemoteInv, NEW c \in Calls, NetworkError(c)
    PROVE  RetryStep(c) \/ FinishStep(c)
<1>1. NoStats \in Stats /\ NoStats.samples = 0
  BY DEF NoStats, Stats
<1>2. /\ Accumulated(c, NoStats) \in Stats
      /\ Accumulated(c, NoStats).samples = call[c].acc.samples
  BY <1>1, AccIsStored DEF Accumulated, Stats, NoStats
<1>3. CASE Ongoing(c)
  BY <1>1, <1>3, AccIsStored DEF NetworkError, RetryOrGiveUp, RetryStep
<1>4. CASE ~Ongoing(c)
  BY <1>2, <1>4, AccIsStored DEF NetworkError, RetryOrGiveUp, FinishStep
<1> QED BY <1>3, <1>4

LEMMA ReceiveMoves ==
    ASSUME RemoteInv, NEW c \in Calls, Receive(c)
    PROVE  RetryStep(c) \/ FinishStep(c)
<1> PICK a \in replies :
        LET rs == IF rw.version = "v2" THEN a.stats ELSE NoStats
            acc == Accumulated(c, rs) IN
        /\ call[c].pc = "await" /\ a.to = c
        /\ replies' = replies \ {a}
        /\ \/ /\ a.status = 204
              /\ IF rw.version = "v2" /\ ~acc.confirmed /\ acc.samples = 0
                 THEN Finish(c, "error", acc) ELSE Finish(c, "nil", acc)
           \/ a.status # 204 /\ Retryable(a.status) /\ RetryOrGiveUp(c, rs)
           \/ a.status # 204 /\ ~Retryable(a.status) /\ Finish(c, "error", acc)
           \/ rw.unreliable /\ Finish(c, "error", Accumulated(c, NoStats))
        /\ UNCHANGED <<rw, content, net, stored>>
  BY DEF Receive
<1> DEFINE rs == IF rw.version = "v2" THEN a.stats ELSE NoStats
           acc == Accumulated(c, rs)
<1>1. NoStats \in Stats /\ NoStats.samples = 0
  BY DEF NoStats, Stats
<1>2. a.stats \in Stats /\ a.to = c
  BY DEF RemoteInv, RemoteTypes
<1>3. /\ call[c].acc.samples + a.stats.samples <= stored[c]
      /\ a.status = 204 => stored[c] > 0
  BY <1>2 DEF RemoteInv, StatsInv
<1>4. rs \in Stats /\ rs.samples \in Nat /\ call[c].acc.samples + rs.samples <= stored[c]
  <2>1. CASE rw.version = "v2"
    BY <1>2, <1>3, <2>1 DEF Stats
  <2>2. CASE rw.version # "v2"
    BY <1>1, <2>2, AccIsStored
  <2> QED BY <2>1, <2>2
<1>5. replies' = {b \in replies : b.to # c}
  BY <1>2 DEF RemoteInv, RepliesInv
<1>6. call[c].pc = "await" /\ UNCHANGED <<rw, content, net, stored>>
  OBVIOUS
<1>7. ASSUME NEW t \in Stats, call[c].acc.samples + t.samples <= stored[c]
      PROVE  Accumulated(c, t) \in Stats /\ Accumulated(c, t).samples <= stored[c]
  <2>1. t.samples \in Nat /\ t.confirmed \in BOOLEAN
    BY DEF Stats
  <2>2. call[c].acc.samples + t.samples \in Nat
    BY <2>1, AccIsStored
  <2> QED BY <2>1, <2>2, <1>7 DEF Accumulated, Stats
<1>8. Accumulated(c, NoStats) \in Stats /\ Accumulated(c, NoStats).samples <= stored[c]
  <2>1. call[c].acc.samples + NoStats.samples <= stored[c]
    BY <1>1, AccIsStored
  <2> QED BY <1>1, <1>7, <2>1
<1>9. acc \in Stats /\ acc.samples <= stored[c]
  BY <1>4, <1>7
<1> HIDE DEF rs
<1>10. CASE /\ a.status = 204
            /\ IF rw.version = "v2" /\ ~acc.confirmed /\ acc.samples = 0
               THEN Finish(c, "error", acc) ELSE Finish(c, "nil", acc)
  <2> HIDE DEF acc
  <2>1. acc.samples \in Nat
    BY <1>9 DEF Stats
  <2>2. CASE Finish(c, "error", acc)
    BY <1>5, <1>6, <1>9, <2>2 DEF FinishStep
  <2>3. CASE Finish(c, "nil", acc) /\ ~(rw.version = "v2" /\ ~acc.confirmed /\ acc.samples = 0)
    <3>1. rw.version = "v2" => acc.confirmed \/ acc.samples > 0
      BY <2>1, <2>3
    <3> QED BY <1>3, <1>5, <1>6, <1>9, <1>10, <2>3, <3>1 DEF FinishStep
  <2> QED BY <1>10, <2>2, <2>3
<1>11. CASE RetryOrGiveUp(c, rs)
  <2>1. CASE Ongoing(c)
    BY <1>4, <1>5, <1>6, <1>11, <2>1 DEF RetryOrGiveUp, RetryStep
  <2>2. CASE ~Ongoing(c)
    BY <1>5, <1>6, <1>9, <1>11, <2>2 DEF RetryOrGiveUp, FinishStep
  <2> QED BY <2>1, <2>2
<1>12. CASE Finish(c, "error", acc)
  BY <1>5, <1>6, <1>9, <1>12 DEF FinishStep
<1>13. CASE Finish(c, "error", Accumulated(c, NoStats))
  BY <1>5, <1>6, <1>8, <1>13 DEF FinishStep
<1> QED BY <1>10, <1>11, <1>12, <1>13 DEF rs

LEMMA BackedOffMoves ==
    ASSUME RemoteInv, NEW c \in Calls, BackedOff(c)
    PROVE  ResumeStep(c) \/ FinishStep(c)
<1>1. call[c].pc = "backoff" /\ UNCHANGED <<rw, content, net, replies, stored>>
  BY DEF BackedOff
<1>2. ASSUME Finish(c, "error", NoStats) PROVE FinishStep(c)
  <2>1. replies = {a \in replies : a.to # c}
    BY <1>1 DEF RemoteInv, RepliesInv
  <2>2. NoStats \in Stats /\ NoStats.samples <= stored[c]
    BY AccIsStored DEF NoStats, Stats
  <2> QED BY <1>1, <1>2, <2>1, <2>2 DEF FinishStep
<1> QED BY <1>1, <1>2, BackedOffParts DEF RemoteInv, ResumeStep

LEMMA RemoteMoves ==
    ASSUME RemoteInv, RemoteNext
    PROVE  \/ \E c \in Calls : \/ Marshal(c) \/ Compress(c) \/ Attempt(c) \/ RetryStep(c)
                               \/ FinishStep(c) \/ ResumeStep(c) \/ Cancel(c)
           \/ \E m \in net : ServeHTTP(m)
BY NetworkErrorMoves, ReceiveMoves, BackedOffMoves DEF RemoteNext, WriteCall

-----------------------------------------------------------------------------
LEMMA RemoteTypesStep ==
    ASSUME RemoteInv, Sound, RemoteNext
    PROVE  RemoteTypes'
<1> USE DEF RemoteInv
<1>0. RemoteTypes /\ rw' = rw
  BY DEF RemoteNext, WriteCall, Marshal, Compress, Attempt, NetworkError, Receive, BackedOff, Cancel, ServeHTTP
<1>1. (\A c \in Calls, k \in Nat : Request(c, k)' = Request(c, k)) /\ rw' \in RemoteSetups
  BY <1>0 DEF Request, RemoteTypes
<1>2. ASSUME content' \in [Buffers -> Seq(Calls)], pool' \subseteq Buffers, call' \in [Calls -> CallStates],
             UNCHANGED <<net, stored>>, replies' \subseteq replies
      PROVE  RemoteTypes'
  BY <1>0, <1>1, <1>2 DEF RemoteTypes
<1>3. content \in [Buffers -> Seq(Calls)] /\ pool \subseteq Buffers
  BY DEF RemoteTypes
<1>4. ASSUME NEW c \in Calls, Marshal(c) PROVE RemoteTypes'
  <2> PICK b \in Get :
                /\ pool' = pool \ {b}
                /\ \/ content' = [content EXCEPT ![b] = <<>>]
                   \/ content' = [content EXCEPT ![b] = <<c>>]
    BY <1>4, MarshalParts
  <2>1. content' \in [Buffers -> Seq(Calls)]
    <3>1. <<>> \in Seq(Calls) /\ <<c>> \in Seq(Calls)
      OBVIOUS
    <3>2. ASSUME NEW x \in Seq(Calls) PROVE [content EXCEPT ![b] = x] \in [Buffers -> Seq(Calls)]
      BY <1>3
    <3> QED BY <3>1, <3>2
  <2>2. UNCHANGED <<net, stored>> /\ replies' \subseteq replies
    BY <1>4 DEF Marshal
  <2>3. pool' \subseteq Buffers
    BY <1>3
  <2> QED BY <1>2, <1>4, <2>1, <2>2, <2>3, MarshalParts
<1>5. ASSUME NEW c \in Calls, Compress(c) PROVE RemoteTypes'
  <2> PICK z \in Get :
                /\ content' = [content EXCEPT ![z] = content[call[c].buf]]
                /\ pool' = (pool \ {z}) \cup {call[c].buf}
    BY <1>5, CompressParts
  <2>1. call[c].buf \in Buffers /\ z \in Buffers
    BY <1>5, CallTyped, CompressParts, GetFresh DEF CallStates, BuffersInv
  <2>2. content' \in [Buffers -> Seq(Calls)]
    BY <1>3, <2>1
  <2>3. pool' \subseteq Buffers
    BY <1>3, <2>1
  <2>4. UNCHANGED <<net, stored>> /\ replies' \subseteq replies
    BY <1>5 DEF Compress
  <2> QED BY <1>2, <1>5, <2>2, <2>3, <2>4, CompressParts
<1>6. ASSUME NEW c \in Calls, Attempt(c) PROVE RemoteTypes'
  <2>1. net' = net \cup {Request(c, call[c].retries)} /\ call[c].retries \in Nat
    BY <1>6, AttemptParts, CallTyped DEF CallStates
  <2>2. net' \subseteq {Request(d, k) : d \in Calls, k \in Nat}
    BY <2>1 DEF RemoteTypes
  <2>3. net' \subseteq {Request(d, k) : d \in Calls, k \in Nat}'
    BY <1>1, <2>2
  <2>4. UNCHANGED <<content, pool, replies, stored>>
    BY <1>6 DEF Attempt
  <2>5. call' \in [Calls -> CallStates]
    BY <1>6, AttemptParts
  <2> QED BY <1>1, <2>3, <2>4, <2>5 DEF RemoteTypes
<1>7. ASSUME NEW c \in Calls, RetryStep(c) PROVE RemoteTypes'
  <2>1. call' \in [Calls -> CallStates] /\ pool' = pool
    BY <1>7, RetryParts DEF RetryStep, Retry
  <2> QED BY <1>2, <1>3, <1>7, <2>1 DEF RetryStep
<1>8. ASSUME NEW c \in Calls, FinishStep(c) PROVE RemoteTypes'
  <2>1. call' \in [Calls -> CallStates] /\ pool' = pool \cup {call[c].cbuf}
    BY <1>8, FinishParts DEF FinishStep, Finish
  <2>2. call[c].cbuf \in Buffers
    BY <1>8, CallTyped DEF FinishStep, BuffersInv, Sending, CallStates
  <2> QED BY <1>2, <1>3, <1>8, <2>1, <2>2 DEF FinishStep
<1>9. ASSUME NEW c \in Calls, ResumeStep(c) PROVE RemoteTypes'
  BY <1>2, <1>3, <1>9 DEF ResumeStep
<1>10. ASSUME NEW c \in Calls, Cancel(c) PROVE RemoteTypes'
  <2>1. UNCHANGED <<content, pool, net, replies, stored>>
    BY <1>10 DEF Cancel
  <2> QED BY <1>2, <1>3, <1>10, <2>1, CancelParts
<1>11. ASSUME NEW m \in net, ServeHTTP(m) PROVE RemoteTypes'
  <2>1. UNCHANGED <<content, pool, call>> /\ net' = net \ {m} /\ m.from \in Calls /\ m.n \in Nat
    BY <1>11, ServeParts DEF ServeHTTP
  <2>2. stored' \in [Calls -> Nat]
    <3> PICK w \in {0, 1} : stored' = [c \in Calls |-> stored[c] + IF c = m.from THEN w ELSE 0]
      BY <1>11, ServeParts
    <3> QED BY DEF RemoteTypes
  <2>3. replies' \subseteq [to : Calls, n : Nat, status : Nat, stats : Stats]
    <3>1. replies \subseteq [to : Calls, n : Nat, status : Nat, stats : Stats]
      BY DEF RemoteTypes
    <3>2. CASE replies' = replies
      BY <3>1, <3>2
    <3>3. ASSUME NEW status \in Nat, NEW stats \in Stats,
                 replies' = replies \cup {[to |-> m.from, n |-> m.n, status |-> status, stats |-> stats]}
          PROVE  replies' \subseteq [to : Calls, n : Nat, status : Nat, stats : Stats]
      BY <2>1, <3>1, <3>3
    <3> QED BY <1>11, <3>2, <3>3, ServeParts
  <2>4. net' \subseteq {Request(d, k) : d \in Calls, k \in Nat}'
    BY <1>1, <2>1 DEF RemoteTypes
  <2> QED BY <1>1, <1>3, <2>1, <2>2, <2>3, <2>4 DEF RemoteTypes
<1> QED BY <1>4, <1>5, <1>6, <1>7, <1>8, <1>9, <1>10, <1>11, RemoteMoves

-----------------------------------------------------------------------------
\* The buffers, when one call takes or gives back.
LEMMA HeldStep ==
    ASSUME RemoteTypes', BuffersInv, NEW c \in Calls, Others(c),
           call'[c].pc = "compress" => call'[c].buf # NoBuffer,
           call'[c].pc # "compress" => call'[c].buf = NoBuffer,
           call'[c].pc \in Sending <=> call'[c].cbuf # NoBuffer,
           pool' \subseteq pool \cup {Held(c)}, Held(c)' \notin pool',
           \A d \in Calls : d # c /\ Held(d) # NoBuffer => content'[Held(d)] = content[Held(d)],
           Held(c)' # NoBuffer => content'[Held(c)'] = <<c>>,
           Held(c)' # NoBuffer => \A d \in Calls : d # c => Held(d) # Held(c)'
    PROVE  BuffersInv'
<1>1. ASSUME NEW d \in Calls, d # c PROVE Held(d)' = Held(d) /\ call'[d] = call[d]
  BY <1>1 DEF Held, Others
<1>2. NoBuffer \notin pool'
  BY RemoteAssumption DEF RemoteTypes, NoBuffer
<1>3. ASSUME NEW d \in Calls
      PROVE  /\ call'[d].pc = "compress" => call'[d].buf # NoBuffer
             /\ call'[d].pc # "compress" => call'[d].buf = NoBuffer
             /\ call'[d].pc \in Sending <=> call'[d].cbuf # NoBuffer
  BY <1>1 DEF BuffersInv
<1>4. ASSUME NEW d \in Calls PROVE Held(d)' \notin pool'
  <2>1. CASE d = c
    BY <2>1
  <2>2. CASE d # c
    <3>1. Held(d)' = Held(d) /\ Held(d) \notin pool
      BY <1>1, <2>2 DEF BuffersInv
    <3>2. CASE Held(d) = Held(c)
      BY <1>2, <2>2, <3>1, <3>2 DEF BuffersInv
    <3>3. CASE Held(d) # Held(c)
      BY <3>1, <3>3
    <3> QED BY <3>2, <3>3
  <2> QED BY <2>1, <2>2
<1>5. ASSUME NEW d \in Calls, Held(d)' # NoBuffer PROVE content'[Held(d)'] = <<d>>
  <2>1. CASE d = c
    BY <1>5, <2>1
  <2>2. CASE d # c
    BY <1>1, <1>5, <2>2 DEF BuffersInv
  <2> QED BY <2>1, <2>2
<1>6. ASSUME NEW d \in Calls, NEW e \in Calls, Held(d)' = Held(e)', Held(d)' # NoBuffer PROVE d = e
  <2>1. CASE d # c /\ e # c
    BY <1>1, <1>6, <2>1 DEF BuffersInv
  <2>2. CASE d = c
    BY <1>1, <1>6, <2>2
  <2>3. CASE e = c
    BY <1>1, <1>6, <2>3
  <2> QED BY <2>1, <2>2, <2>3
<1> QED BY <1>3, <1>4, <1>5, <1>6 DEF BuffersInv

LEMMA BuffersStep ==
    ASSUME RemoteInv, Sound, RemoteNext
    PROVE  BuffersInv'
<1> USE DEF RemoteInv
<1>0. RemoteTypes'
  BY RemoteTypesStep
<1>a. /\ content \in [Buffers -> Seq(Calls)]
      /\ NoBuffer \notin pool /\ NoBuffer \notin pool'
  BY <1>0, RemoteAssumption DEF RemoteTypes, NoBuffer
<1>b. ASSUME NEW b \in Get, NEW x, NEW d \in Calls, content' = [content EXCEPT ![b] = x], Held(d) # NoBuffer
      PROVE  content'[Held(d)] = content[Held(d)] /\ content'[b] = x
  <2>1. Held(d) \in Buffers
    BY <1>b, CallTyped DEF Held, CallStates
  <2>2. b \in Buffers /\ Held(d) # b
    BY GetFresh
  <2> QED BY <1>a, <1>b, <2>1, <2>2
<1>1. ASSUME NEW c \in Calls, Marshal(c) PROVE BuffersInv'
  <2> PICK b \in Get :
                /\ pool' = pool \ {b}
                /\ \/ /\ call'[c].pc = "end" /\ call'[c].buf = call[c].buf
                      /\ content' = [content EXCEPT ![b] = <<>>]
                   \/ /\ call'[c].pc = "compress" /\ call'[c].buf = b
                      /\ content' = [content EXCEPT ![b] = <<c>>]
    BY <1>1, MarshalParts
  <2>1. call[c].pc = "idle" /\ call'[c].cbuf = call[c].cbuf /\ Others(c)
    BY <1>1, MarshalParts
  <2>2. call[c].buf = NoBuffer /\ call[c].cbuf = NoBuffer
    BY <2>1 DEF BuffersInv, Sending
  <2>3. b # NoBuffer /\ \A d \in Calls : Held(d) # b
    BY GetFresh
  <2>4. CASE call'[c].pc = "end" /\ call'[c].buf = call[c].buf /\ content' = [content EXCEPT ![b] = <<>>]
    <3>1. Held(c)' = NoBuffer
      BY <2>1, <2>2, <2>4 DEF Held
    <3>2. \A d \in Calls : d # c /\ Held(d) # NoBuffer => content'[Held(d)] = content[Held(d)]
      BY <1>b, <2>4
    <3>3. pool' \subseteq pool \cup {Held(c)}
      OBVIOUS
    <3>4. call'[c].pc = "end" /\ call'[c].buf = NoBuffer /\ call'[c].cbuf = NoBuffer
      BY <2>1, <2>2, <2>4
    <3> QED BY <1>0, <1>a, <2>1, <3>1, <3>2, <3>3, <3>4, HeldStep DEF Sending
  <2>5. CASE call'[c].pc = "compress" /\ call'[c].buf = b /\ content' = [content EXCEPT ![b] = <<c>>]
    <3>1. Held(c)' = b
      BY <2>5 DEF Held
    <3>2. content'[b] = <<c>>
      BY <1>a, <2>5, GetFresh
    <3> QED BY <1>0, <1>a, <1>b, <2>1, <2>2, <2>3, <2>5, <3>1, <3>2, HeldStep DEF Sending
  <2> QED BY <2>4, <2>5
<1>2. ASSUME NEW c \in Calls, Compress(c) PROVE BuffersInv'
  <2> PICK z \in Get :
                /\ call'[c].cbuf = z
                /\ content' = [content EXCEPT ![z] = content[call[c].buf]]
                /\ pool' = (pool \ {z}) \cup {call[c].buf}
    BY <1>2, CompressParts
  <2>1. call[c].pc = "compress" /\ call'[c].pc = "attempt" /\ call'[c].buf = NoBuffer /\ Others(c)
    BY <1>2, CompressParts
  <2>2. z # NoBuffer /\ \A d \in Calls : Held(d) # z
    BY GetFresh
  <2>3. Held(c) = call[c].buf /\ Held(c) # NoBuffer
    BY <2>1 DEF Held, BuffersInv
  <2>4. content[Held(c)] = <<c>>
    BY <2>3 DEF BuffersInv
  <2>5. Held(c)' = z
    BY <2>1 DEF Held
  <2>6. content'[z] = <<c>>
    BY <1>a, <2>3, <2>4, GetFresh
  <2>7. z \notin pool'
    BY <2>2, <2>3
  <2> QED BY <1>0, <1>b, <2>1, <2>2, <2>3, <2>5, <2>6, <2>7, HeldStep DEF Sending
<1>3. ASSUME NEW c \in Calls, Others(c), UNCHANGED content, pool' = pool,
             call'[c].buf = call[c].buf, call'[c].cbuf = call[c].cbuf,
             call[c].pc = call'[c].pc \/ (call[c].pc \in Sending /\ call'[c].pc \in Sending)
      PROVE  BuffersInv'
  <2>1. Held(c)' = Held(c)
    BY <1>3 DEF Held, Sending
  <2>2. /\ call'[c].pc = "compress" => call'[c].buf # NoBuffer
        /\ call'[c].pc # "compress" => call'[c].buf = NoBuffer
        /\ call'[c].pc \in Sending <=> call'[c].cbuf # NoBuffer
    BY <1>3 DEF BuffersInv, Sending
  <2>3. Held(c) \notin pool
    BY DEF BuffersInv
  <2>4. Held(c) # NoBuffer => content[Held(c)] = <<c>> /\ \A d \in Calls : d # c => Held(d) # Held(c)
    BY DEF BuffersInv
  <2> QED BY <1>0, <1>3, <2>1, <2>2, <2>3, <2>4, HeldStep
<1>4. ASSUME NEW c \in Calls, Attempt(c) PROVE BuffersInv'
  BY <1>3, <1>4, AttemptParts DEF Attempt, Sending
<1>5. ASSUME NEW c \in Calls, RetryStep(c) PROVE BuffersInv'
  <2>1. UNCHANGED content /\ pool' = pool
    BY <1>5 DEF RetryStep, Retry
  <2> QED BY <1>3, <1>5, <2>1, RetryParts DEF RetryStep, Sending
<1>6. ASSUME NEW c \in Calls, FinishStep(c) PROVE BuffersInv'
  <2> PICK r \in {"nil", "error"}, s \in Stats : Finish(c, r, s)
    BY <1>6 DEF FinishStep
  <2>1. /\ Others(c) /\ call'[c].pc = "end" /\ call'[c].cbuf = NoBuffer /\ call'[c].buf = call[c].buf
        /\ pool' = pool \cup {call[c].cbuf}
    <3>1. pool' = pool \cup {call[c].cbuf}
      BY DEF Finish
    <3> QED BY <3>1, FinishParts
  <2>2. call[c].pc \in {"await", "backoff"} /\ UNCHANGED content
    BY <1>6 DEF FinishStep
  <2>3. call[c].buf = NoBuffer /\ Held(c) = call[c].cbuf
    BY <2>2 DEF BuffersInv, Held
  <2>4. Held(c)' = NoBuffer
    BY <2>1 DEF Held
  <2> QED BY <1>0, <1>a, <2>1, <2>2, <2>3, <2>4, HeldStep DEF Sending
<1>7. ASSUME NEW c \in Calls, ResumeStep(c) PROVE BuffersInv'
  BY <1>3, <1>7 DEF ResumeStep, Sending
<1>8. ASSUME NEW c \in Calls, Cancel(c) PROVE BuffersInv'
  BY <1>3, <1>8, CancelParts DEF Cancel
<1>9. ASSUME NEW m \in net, ServeHTTP(m) PROVE BuffersInv'
  <2>1. UNCHANGED <<content, pool, call>>
    BY <1>9 DEF ServeHTTP
  <2>2. \A d \in Calls : Held(d)' = Held(d)
    BY <2>1 DEF Held
  <2> QED BY <2>1, <2>2 DEF BuffersInv
<1> QED BY <1>1, <1>2, <1>4, <1>5, <1>6, <1>7, <1>8, <1>9, RemoteMoves

\* The numbers of a call.
LEMMA AttemptsStep ==
    ASSUME RemoteInv, Sound, RemoteNext
    PROVE  AttemptsInv'
<1> USE DEF RemoteInv
<1>0. rw' = rw
  BY DEF RemoteNext, WriteCall, Marshal, Compress, Attempt, NetworkError, Receive, BackedOff, Cancel, ServeHTTP
<1>1. ASSUME NEW c \in Calls, Others(c),
             call'[c].sent <= call'[c].retries + 1,
             call'[c].pc \notin {"await", "end"} => call'[c].sent <= call'[c].retries,
             rw.maxRetries > 0 => call'[c].retries <= rw.maxRetries,
             call'[c].min <= call'[c].max \/ rw.backoffMax < rw.backoffMin
      PROVE  AttemptsInv'
  BY <1>0, <1>1 DEF AttemptsInv, Others
<1>2. ASSUME NEW c \in Calls
      PROVE  call[c].sent \in Nat /\ call[c].retries \in Nat /\ call[c].min \in Int /\ call[c].max \in Int
  BY CallTyped DEF CallStates
<1>3. ASSUME NEW c \in Calls, Others(c), Kept(c), call'[c].sent = call[c].sent,
             call[c].pc \in {"await", "end"} => call'[c].pc \in {"await", "end"}
      PROVE  AttemptsInv'
  BY <1>1, <1>3 DEF Kept, AttemptsInv
<1>4. ASSUME NEW c \in Calls, Marshal(c) PROVE AttemptsInv'
  BY <1>3, <1>4, MarshalParts
<1>5. ASSUME NEW c \in Calls, Compress(c) PROVE AttemptsInv'
  BY <1>3, <1>5, CompressParts
<1>6. ASSUME NEW c \in Calls, Attempt(c) PROVE AttemptsInv'
  <2>1. /\ Others(c) /\ Kept(c) /\ call[c].pc = "attempt" /\ call'[c].sent = call[c].sent + 1
        /\ call'[c].pc = "await"
    BY <1>6, AttemptParts
  <2>2. call[c].sent <= call[c].retries
    BY <2>1 DEF AttemptsInv
  <2>3. call'[c].sent <= call'[c].retries + 1
    BY <1>2, <2>1, <2>2 DEF Kept
  <2> QED BY <1>1, <2>1, <2>3 DEF Kept, AttemptsInv
<1>7. ASSUME NEW c \in Calls, RetryStep(c) PROVE AttemptsInv'
  <2> PICK rs \in Stats : Retry(c, rs)
    BY <1>7 DEF RetryStep
  <2>1. /\ Others(c) /\ call'[c].pc = "backoff" /\ call'[c].sent = call[c].sent
        /\ call'[c].retries = call[c].retries + 1
        /\ \/ call'[c].min = call[c].min /\ call'[c].max = call[c].max
           \/ /\ call'[c].min = DoubleDuration(call[c].min) /\ call'[c].max = DoubleDuration(call[c].max)
              /\ call[c].min < call[c].max /\ call[c].max < rw.backoffMax
    BY RetryParts
  <2>2. rw.maxRetries > 0 => call'[c].retries <= rw.maxRetries
    <3>1. rw.maxRetries \in Int
      BY RemoteAssumption DEF RemoteTypes
    <3>2. rw.maxRetries = 0 \/ call[c].retries < rw.maxRetries
      BY <1>7 DEF RetryStep, Ongoing
    <3> QED BY <1>2, <2>1, <3>1, <3>2
  <2>3. call'[c].min <= call'[c].max \/ rw.backoffMax < rw.backoffMin
    <3>1. CASE call'[c].min = call[c].min /\ call'[c].max = call[c].max
      BY <3>1 DEF AttemptsInv
    <3>2. CASE /\ call'[c].min = DoubleDuration(call[c].min) /\ call'[c].max = DoubleDuration(call[c].max)
               /\ call[c].min < call[c].max
      <4>1. rw.backoffMax \in Nat
        BY RemoteAssumption DEF RemoteTypes
      <4> QED BY <1>2, <3>2, <4>1 DEF DoubleDuration
    <3> QED BY <2>1, <3>1, <3>2
  <2>4. call'[c].sent <= call'[c].retries
    BY <1>2, <2>1 DEF AttemptsInv
  <2> QED BY <1>1, <1>2, <2>1, <2>2, <2>3, <2>4
<1>8. ASSUME NEW c \in Calls, FinishStep(c) PROVE AttemptsInv'
  <2>1. Others(c) /\ Kept(c) /\ call'[c].sent = call[c].sent /\ call'[c].pc = "end"
    BY <1>8, FinishParts DEF FinishStep, Kept
  <2> QED BY <1>3, <2>1
<1>9. ASSUME NEW c \in Calls, ResumeStep(c) PROVE AttemptsInv'
  BY <1>3, <1>9 DEF ResumeStep
<1>10. ASSUME NEW c \in Calls, Cancel(c) PROVE AttemptsInv'
  BY <1>3, <1>10, CancelParts
<1>11. ASSUME NEW m \in net, ServeHTTP(m) PROVE AttemptsInv'
  BY <1>0, <1>11 DEF ServeHTTP, AttemptsInv
<1> QED BY <1>4, <1>5, <1>6, <1>7, <1>8, <1>9, <1>10, <1>11, RemoteMoves

\* What was stored and what is on its way.
LEMMA StoredStep ==
    ASSUME RemoteInv, Sound, RemoteNext
    PROVE  StoredInv'
<1> USE DEF RemoteInv
<1>0. IsFiniteSet(net) /\ \A c \in Calls : RequestsOf(c) \subseteq net
  BY DEF StoredInv, RequestsOf
<1>a. \A c \in Calls : IsFiniteSet(RequestsOf(c)) /\ Cardinality(RequestsOf(c)) \in Nat
  BY <1>0, FS_Subset, FS_CardinalityType
<1>b. \A c \in Calls : stored[c] \in Nat /\ call[c].sent \in Nat
  BY CallTyped DEF RemoteTypes, CallStates
<1>1. ASSUME UNCHANGED <<net, stored>>, \A d \in Calls : call'[d].sent = call[d].sent
      PROVE  StoredInv'
  <2>1. \A d \in Calls : RequestsOf(d)' = RequestsOf(d)
    BY <1>1 DEF RequestsOf
  <2> QED BY <1>1, <2>1 DEF StoredInv
<1>2. ASSUME NEW c \in Calls, Marshal(c) PROVE StoredInv'
  BY <1>1, <1>2, MarshalParts DEF Marshal, Others
<1>3. ASSUME NEW c \in Calls, Compress(c) PROVE StoredInv'
  BY <1>1, <1>3, CompressParts DEF Compress, Others
<1>4. ASSUME NEW c \in Calls, Attempt(c) PROVE StoredInv'
  <2> DEFINE r == Request(c, call[c].retries)
  <2>1. net' = net \cup {r} /\ call'[c].sent = call[c].sent + 1 /\ Others(c)
    BY <1>4, AttemptParts
  <2>2. stored' = stored
    BY <1>4 DEF Attempt
  <2>3. IsFiniteSet(net')
    BY <1>0, <2>1, FS_AddElement
  <2>4. ASSUME NEW d \in Calls PROVE stored'[d] + Cardinality(RequestsOf(d)') <= call'[d].sent
    <3>1. r.from = c
      BY DEF Request
    <3> HIDE DEF r
    <3>2. CASE d # c
      <4>1. RequestsOf(d)' = RequestsOf(d)
        BY <2>1, <3>1, <3>2 DEF RequestsOf
      <4> QED BY <2>1, <2>2, <3>2, <4>1 DEF Others, StoredInv
    <3>3. CASE d = c
      <4>1. RequestsOf(d)' = RequestsOf(d) \cup {r}
        BY <2>1, <3>1, <3>3 DEF RequestsOf
      <4>5. IsFiniteSet(RequestsOf(d)) /\ Cardinality(RequestsOf(d)) \in Nat
        BY <1>a
      <4>6. Cardinality(RequestsOf(d) \cup {r})
              = IF r \in RequestsOf(d) THEN Cardinality(RequestsOf(d)) ELSE Cardinality(RequestsOf(d)) + 1
        BY <4>5, FS_AddElement
      <4>2. Cardinality(RequestsOf(d)') <= Cardinality(RequestsOf(d)) + 1
        BY <4>1, <4>5, <4>6
      <4>3. Cardinality(RequestsOf(d)') \in Nat
        BY <1>a, <4>1, FS_AddElement, FS_CardinalityType
      <4>4. stored[d] + Cardinality(RequestsOf(d)) <= call[d].sent
        BY DEF StoredInv
      <4> QED BY <1>a, <1>b, <2>1, <2>2, <3>3, <4>2, <4>3, <4>4
    <3> QED BY <3>2, <3>3
  <2> QED BY <2>3, <2>4 DEF StoredInv
<1>5. ASSUME NEW c \in Calls, RetryStep(c) PROVE StoredInv'
  BY <1>1, <1>5, RetryParts DEF RetryStep, Others
<1>6. ASSUME NEW c \in Calls, FinishStep(c) PROVE StoredInv'
  BY <1>1, <1>6, FinishParts DEF FinishStep, Others
<1>7. ASSUME NEW c \in Calls, ResumeStep(c) PROVE StoredInv'
  BY <1>1, <1>7 DEF ResumeStep, Others
<1>8. ASSUME NEW c \in Calls, Cancel(c) PROVE StoredInv'
  BY <1>1, <1>8, CancelParts DEF Cancel, Others
<1>9. ASSUME NEW m \in net, ServeHTTP(m) PROVE StoredInv'
  <2> PICK w \in {0, 1} : stored' = [c \in Calls |-> stored[c] + IF c = m.from THEN w ELSE 0]
    BY <1>9, ServeParts
  <2>1. net' = net \ {m} /\ call' = call
    BY <1>9, ServeParts DEF ServeHTTP
  <2>2. IsFiniteSet(net')
    BY <1>0, <2>1, FS_RemoveElement
  <2>3. ASSUME NEW d \in Calls PROVE stored'[d] + Cardinality(RequestsOf(d)') <= call'[d].sent
    <3>1. stored[d] + Cardinality(RequestsOf(d)) <= call[d].sent
      BY DEF StoredInv
    <3>2. CASE d # m.from
      <4>1. RequestsOf(d)' = RequestsOf(d)
        BY <2>1, <3>2 DEF RequestsOf
      <4>2. stored'[d] = stored[d]
        BY <1>b, <3>2
      <4> QED BY <2>1, <3>1, <4>1, <4>2
    <3>3. CASE d = m.from
      <4>1. RequestsOf(d)' = RequestsOf(d) \ {m} /\ m \in RequestsOf(d)
        BY <2>1, <3>3 DEF RequestsOf
      <4>2. Cardinality(RequestsOf(d)') = Cardinality(RequestsOf(d)) - 1
        BY <1>a, <4>1, FS_RemoveElement
      <4>3. stored'[d] = stored[d] + w
        BY <3>3
      <4> QED BY <1>a, <1>b, <2>1, <3>1, <4>2, <4>3
    <3> QED BY <3>2, <3>3
  <2> QED BY <2>2, <2>3 DEF StoredInv
<1> QED BY <1>2, <1>3, <1>4, <1>5, <1>6, <1>7, <1>8, <1>9, RemoteMoves

\* The answers on their way.
LEMMA RepliesStep ==
    ASSUME RemoteInv, Sound, RemoteNext
    PROVE  RepliesInv'
<1> USE DEF RemoteInv
<1>0. \A a \in replies : a.to \in Calls
  BY DEF RemoteTypes
<1>1. ASSUME NEW c \in Calls, Others(c), call'[c].pc = call[c].pc \/ call[c].pc # "await", Kept(c),
             UNCHANGED <<net, replies>>
      PROVE  RepliesInv'
  BY <1>0, <1>1 DEF RepliesInv, Others, Kept
<1>2. ASSUME NEW c \in Calls, Others(c), UNCHANGED net, replies' = {a \in replies : a.to # c}
      PROVE  RepliesInv'
  BY <1>0, <1>2 DEF RepliesInv, Others
<1>3. ASSUME NEW c \in Calls, Marshal(c) PROVE RepliesInv'
  BY <1>1, <1>3, MarshalParts DEF Marshal
<1>4. ASSUME NEW c \in Calls, Compress(c) PROVE RepliesInv'
  BY <1>1, <1>4, CompressParts DEF Compress
<1>5. ASSUME NEW c \in Calls, Attempt(c) PROVE RepliesInv'
  <2>1. /\ net' = net \cup {Request(c, call[c].retries)} /\ Others(c) /\ call[c].pc = "attempt"
        /\ Request(c, call[c].retries).from = c
    BY <1>5, AttemptParts DEF Request
  <2>2. replies' = replies
    BY <1>5 DEF Attempt
  <2>3. \A a \in replies : a.to # c
    BY <2>1 DEF RepliesInv
  <2> QED BY <1>0, <2>1, <2>2, <2>3 DEF RepliesInv, Others
<1>6. ASSUME NEW c \in Calls, RetryStep(c) PROVE RepliesInv'
  <2>1. Others(c)
    BY <1>6, RetryParts DEF RetryStep
  <2> QED BY <1>2, <1>6, <2>1 DEF RetryStep
<1>7. ASSUME NEW c \in Calls, FinishStep(c) PROVE RepliesInv'
  <2>1. Others(c)
    BY <1>7, FinishParts DEF FinishStep
  <2> QED BY <1>2, <1>7, <2>1 DEF FinishStep
<1>8. ASSUME NEW c \in Calls, ResumeStep(c) PROVE RepliesInv'
  BY <1>1, <1>8 DEF ResumeStep
<1>9. ASSUME NEW c \in Calls, Cancel(c) PROVE RepliesInv'
  BY <1>1, <1>9, CancelParts DEF Cancel
<1>10. ASSUME NEW m \in net, ServeHTTP(m) PROVE RepliesInv'
  <2>1. net' = net \ {m} /\ call' = call
    BY <1>10, ServeParts DEF ServeHTTP
  <2>2. CASE replies' = replies
    BY <2>1, <2>2 DEF RepliesInv
  <2>3. ASSUME NEW status \in Nat, NEW stats \in Stats, Waiting(m),
               replies' = replies \cup {[to |-> m.from, n |-> m.n, status |-> status, stats |-> stats]}
        PROVE  RepliesInv'
    <3> DEFINE r == [to |-> m.from, n |-> m.n, status |-> status, stats |-> stats]
    <3>1. r.to = m.from /\ call[m.from].pc = "await" /\ call[m.from].retries = m.n
      BY <2>3 DEF Waiting
    <3> HIDE DEF r
    <3>2. \A a \in replies : a.to # m.from
      BY <3>1 DEF RepliesInv
    <3>3. \A k \in net : k = Request(k.from, k.n)
      BY DEF RemoteTypes, Request
    <3>4. \A k \in net' : k.from = m.from => k.n # call[m.from].retries
      BY <2>1, <3>1, <3>3
    <3>5. replies' = replies \cup {r}
      BY <2>3 DEF r
    <3> QED BY <2>1, <3>1, <3>2, <3>4, <3>5 DEF RepliesInv
  <2> QED BY <1>10, <2>2, <2>3, ServeParts
<1> QED BY <1>3, <1>4, <1>5, <1>6, <1>7, <1>8, <1>9, <1>10, RemoteMoves

\* The statistics.
LEMMA StatsStep ==
    ASSUME RemoteInv, Sound, RemoteNext
    PROVE  StatsInv'
<1> USE DEF RemoteInv
<1>0. rw' = rw
  BY DEF RemoteNext, WriteCall, Marshal, Compress, Attempt, NetworkError, Receive, BackedOff, Cancel, ServeHTTP
<1>a. \A a \in replies : a.to \in Calls
  BY DEF RemoteTypes
<1>b. ASSUME NEW c \in Calls PROVE stored[c] \in Nat /\ call[c].got.stats.samples \in Nat
  <2>1. call[c].got.stats \in Stats
    BY CallTyped DEF CallStates, Results
  <2> QED BY <2>1 DEF Stats, RemoteTypes
<1>1. ASSUME NEW c \in Calls, Others(c), UNCHANGED stored, replies' \subseteq replies,
             \A a \in replies' : a.to # c \/ call'[c].acc = call[c].acc,
             call'[c].acc.samples <= stored[c],
             call'[c].got.stats.samples <= stored[c],
             call'[c].got.result = "nil" =>
                 /\ stored[c] > 0
                 /\ rw.version = "v2" => call'[c].got.stats.confirmed \/ call'[c].got.stats.samples > 0
      PROVE  StatsInv'
  <2>1. ASSUME NEW d \in Calls
        PROVE  /\ call'[d].acc.samples <= stored'[d]
               /\ call'[d].got.stats.samples <= stored'[d]
               /\ call'[d].got.result = "nil" =>
                    /\ stored'[d] > 0
                    /\ rw'.version = "v2" => call'[d].got.stats.confirmed \/ call'[d].got.stats.samples > 0
    <3>1. CASE d = c
      BY <1>0, <1>1, <3>1
    <3>2. CASE d # c
      <4>1. call'[d] = call[d]
        BY <1>1, <3>2 DEF Others
      <4> QED BY <1>0, <1>1, <4>1 DEF StatsInv
    <3> QED BY <3>1, <3>2
  <2>2. ASSUME NEW a \in replies'
        PROVE  /\ call'[a.to].acc.samples + a.stats.samples <= stored'[a.to]
               /\ a.status = 204 => stored'[a.to] > 0
    <3>1. a \in replies /\ a.to \in Calls /\ call'[a.to].acc = call[a.to].acc
      BY <1>1, <1>a DEF Others
    <3> QED BY <1>1, <3>1 DEF StatsInv
  <2> QED BY <2>1, <2>2 DEF StatsInv
<1>2. ASSUME NEW c \in Calls, Others(c), Kept(c), UNCHANGED <<stored, replies>>,
             \/ call'[c].got = call[c].got
             \/ call'[c].got.result = "error" /\ call'[c].got.stats = call[c].got.stats
      PROVE  StatsInv'
  <2>1. call'[c].acc.samples <= stored[c] /\ call'[c].got.stats.samples <= stored[c]
    BY <1>2 DEF Kept, StatsInv
  <2>2. call'[c].got.result = "nil" =>
                 /\ stored[c] > 0
                 /\ rw.version = "v2" => call'[c].got.stats.confirmed \/ call'[c].got.stats.samples > 0
    BY <1>2 DEF StatsInv
  <2> QED BY <1>1, <1>2, <2>1, <2>2 DEF Kept
<1>3. ASSUME NEW c \in Calls, Marshal(c) PROVE StatsInv'
  BY <1>2, <1>3, MarshalParts DEF Marshal
<1>4. ASSUME NEW c \in Calls, Compress(c) PROVE StatsInv'
  BY <1>2, <1>4, CompressParts DEF Compress
<1>5. ASSUME NEW c \in Calls, Attempt(c) PROVE StatsInv'
  BY <1>2, <1>5, AttemptParts DEF Attempt
<1>6. ASSUME NEW c \in Calls, RetryStep(c) PROVE StatsInv'
  <2> PICK rs \in Stats : Retry(c, rs) /\ call[c].acc.samples + rs.samples <= stored[c]
    BY <1>6 DEF RetryStep
  <2>1. Others(c) /\ call'[c].acc = Accumulated(c, rs) /\ call'[c].got = call[c].got
    BY RetryParts
  <2>2. call'[c].acc.samples <= stored[c]
    BY <2>1 DEF Accumulated
  <2>3. /\ call'[c].got.stats.samples <= stored[c]
        /\ call'[c].got.result = "nil" =>
                 /\ stored[c] > 0
                 /\ rw.version = "v2" => call'[c].got.stats.confirmed \/ call'[c].got.stats.samples > 0
    BY <2>1 DEF StatsInv
  <2>4. UNCHANGED stored /\ replies' = {a \in replies : a.to # c}
    BY <1>6 DEF RetryStep
  <2> QED BY <1>1, <2>1, <2>2, <2>3, <2>4
<1>7. ASSUME NEW c \in Calls, FinishStep(c) PROVE StatsInv'
  <2> PICK r \in {"nil", "error"}, s \in Stats :
         /\ Finish(c, r, s)
         /\ s.samples <= stored[c]
         /\ r = "nil" => stored[c] > 0 /\ (rw.version = "v2" => s.confirmed \/ s.samples > 0)
    BY <1>7 DEF FinishStep
  <2>1. Others(c) /\ call'[c].acc = call[c].acc /\ call'[c].got = [result |-> r, stats |-> s]
    BY FinishParts
  <2>2. call'[c].acc.samples <= stored[c]
    BY <2>1 DEF StatsInv
  <2>3. call'[c].got.result = r /\ call'[c].got.stats = s
    BY <2>1
  <2>4. UNCHANGED stored /\ replies' = {a \in replies : a.to # c}
    BY <1>7 DEF FinishStep
  <2> QED BY <1>1, <2>1, <2>2, <2>3, <2>4
<1>8. ASSUME NEW c \in Calls, ResumeStep(c) PROVE StatsInv'
  BY <1>2, <1>8 DEF ResumeStep
<1>9. ASSUME NEW c \in Calls, Cancel(c) PROVE StatsInv'
  BY <1>2, <1>9, CancelParts DEF Cancel
<1>10. ASSUME NEW m \in net, ServeHTTP(m) PROVE StatsInv'
  <2>1. call' = call /\ m.from \in Calls
    BY <1>10, ServeParts DEF ServeHTTP
  <2> PICK w \in {0, 1} :
                /\ stored' = [c \in Calls |-> stored[c] + IF c = m.from THEN w ELSE 0]
                /\ \/ replies' = replies
                   \/ \E status \in Nat, stats \in Stats :
                           /\ replies' = replies \cup {[to |-> m.from, n |-> m.n, status |-> status, stats |-> stats]}
                           /\ stats.samples <= w
                           /\ status = 204 => w = 1
    BY <1>10, ServeParts
  <2>2. \A c \in Calls : stored[c] <= stored'[c] /\ stored'[c] \in Nat
    BY <1>b
  <2>3. stored'[m.from] = stored[m.from] + w
    BY <2>1
  <2>4. ASSUME NEW d \in Calls
        PROVE  /\ call'[d].acc.samples <= stored'[d]
               /\ call'[d].got.stats.samples <= stored'[d]
               /\ call'[d].got.result = "nil" =>
                    /\ stored'[d] > 0
                    /\ rw'.version = "v2" => call'[d].got.stats.confirmed \/ call'[d].got.stats.samples > 0
    <3>1. call[d].acc.samples <= stored[d] /\ call[d].got.stats.samples <= stored[d]
      BY DEF StatsInv
    <3>2. call[d].got.result = "nil" =>
                    /\ stored[d] > 0
                    /\ rw.version = "v2" => call[d].got.stats.confirmed \/ call[d].got.stats.samples > 0
      BY DEF StatsInv
    <3>3. stored[d] \in Nat /\ call[d].acc.samples \in Nat /\ call[d].got.stats.samples \in Nat
      BY <1>b, AccIsStored
    <3>4. stored[d] <= stored'[d] /\ stored'[d] \in Nat
      BY <2>2
    <3> QED BY <1>0, <2>1, <3>1, <3>2, <3>3, <3>4
  <2>5. ASSUME NEW a \in replies
        PROVE  /\ call[a.to].acc.samples + a.stats.samples <= stored'[a.to]
               /\ a.status = 204 => stored'[a.to] > 0
    <3>1. /\ call[a.to].acc.samples + a.stats.samples <= stored[a.to]
          /\ a.status = 204 => stored[a.to] > 0
      BY DEF StatsInv
    <3>2. a.to \in Calls /\ a.stats.samples \in Nat
      BY DEF RemoteTypes, Stats
    <3>3. stored[a.to] \in Nat /\ call[a.to].acc.samples \in Nat
      BY <3>2, AccIsStored
    <3> QED BY <2>2, <3>1, <3>2, <3>3
  <2>6. ASSUME NEW status \in Nat, NEW stats \in Stats, stats.samples <= w, status = 204 => w = 1
        PROVE  /\ call[m.from].acc.samples + stats.samples <= stored'[m.from]
               /\ status = 204 => stored'[m.from] > 0
    <3>1. stats.samples \in Nat
      BY DEF Stats
    <3>2. call[m.from].acc.samples \in Nat /\ call[m.from].acc.samples <= stored[m.from] /\ stored[m.from] \in Nat
      BY <2>1, AccIsStored
    <3> QED BY <2>3, <2>6, <3>1, <3>2
  <2>7. ASSUME NEW a \in replies'
        PROVE  /\ call'[a.to].acc.samples + a.stats.samples <= stored'[a.to]
               /\ a.status = 204 => stored'[a.to] > 0
    <3>1. CASE a \in replies
      BY <2>1, <2>5, <3>1
    <3>2. CASE a \notin replies
      <4> PICK status \in Nat, stats \in Stats :
                 /\ a = [to |-> m.from, n |-> m.n, status |-> status, stats |-> stats]
                 /\ stats.samples <= w
                 /\ status = 204 => w = 1
        BY <3>2
      <4>1. a.to = m.from /\ a.stats = stats /\ a.status = status
        OBVIOUS
      <4> QED BY <2>1, <2>6, <4>1
    <3> QED BY <3>1, <3>2
  <2> QED BY <2>4, <2>7 DEF StatsInv
<1> QED BY <1>3, <1>4, <1>5, <1>6, <1>7, <1>8, <1>9, <1>10, RemoteMoves

LEMMA RemoteInvInit == RemoteInit => RemoteInv
<1> SUFFICES ASSUME RemoteInit PROVE RemoteInv
  OBVIOUS
<1>a. rw \in RemoteSetups /\ rw.backoffMin \in Nat /\ rw.backoffMax \in Nat /\ rw.maxRetries \in Int
  BY RemoteAssumption DEF RemoteInit
<1>b. /\ NoStats \in Stats /\ NoStats.samples = 0
      /\ NoResult \in Results /\ NoResult.stats = NoStats /\ NoResult.result = "none"
  BY DEF NoStats, Stats, NoResult, Results
<1> DEFINE k == [pc |-> "idle", buf |-> NoBuffer, cbuf |-> NoBuffer, retries |-> 0, sent |-> 0,
                 min |-> rw.backoffMin, max |-> DoubleDuration(rw.backoffMin),
                 acc |-> NoStats, got |-> NoResult, ctx |-> FALSE]
<1>c. call = [c \in Calls |-> k] /\ net = {} /\ replies = {} /\ pool = {} /\ stored = [c \in Calls |-> 0]
      /\ content = [b \in Buffers |-> <<>>]
  BY DEF RemoteInit
<1>d. DoubleDuration(rw.backoffMin) \in Int
      /\ (rw.backoffMin <= DoubleDuration(rw.backoffMin) \/ rw.backoffMax < rw.backoffMin)
  BY <1>a DEF DoubleDuration
<1>e. /\ k \in CallStates /\ k.pc = "idle" /\ k.buf = NoBuffer /\ k.cbuf = NoBuffer /\ k.retries = 0 /\ k.sent = 0
      /\ k.min = rw.backoffMin /\ k.max = DoubleDuration(rw.backoffMin) /\ k.acc = NoStats /\ k.got = NoResult
  BY <1>a, <1>b, <1>d DEF CallStates, CallSteps
<1> HIDE DEF k
<1>1. RemoteTypes
  <2>1. <<>> \in Seq(Calls)
    OBVIOUS
  <2> QED BY <1>a, <1>c, <1>e, <2>1 DEF RemoteTypes
<1>2. BuffersInv
  BY <1>c, <1>e DEF BuffersInv, Held, Sending
<1>3. AttemptsInv
  BY <1>a, <1>c, <1>d, <1>e DEF AttemptsInv
<1>4. StoredInv
  <2>1. \A c \in Calls : RequestsOf(c) = {}
    BY <1>c DEF RequestsOf
  <2>2. IsFiniteSet({}) /\ Cardinality({}) = 0
    BY FS_EmptySet
  <2>3. \A c \in Calls : stored[c] = 0 /\ call[c].sent = 0
    BY <1>c, <1>e
  <2>4. \A c \in Calls : stored[c] + Cardinality(RequestsOf(c)) <= call[c].sent
    BY <2>1, <2>2, <2>3
  <2>5. IsFiniteSet(net)
    BY <1>c, <2>2
  <2> QED BY <2>4, <2>5 DEF StoredInv
<1>5. RepliesInv
  BY <1>c DEF RepliesInv
<1>6. StatsInv
  BY <1>b, <1>c, <1>e DEF StatsInv
<1> QED BY <1>1, <1>2, <1>3, <1>4, <1>5, <1>6 DEF RemoteInv

LEMMA RemoteInvStep ==
    (Sound => RemoteInv) /\ [RemoteNext]_rVars => (Sound => RemoteInv)'
<1> SUFFICES ASSUME Sound => RemoteInv, [RemoteNext]_rVars, Sound' PROVE RemoteInv'
  OBVIOUS
<1>1. CASE UNCHANGED rVars
  <2>1. Sound
    BY <1>1 DEF rVars, Sound
  <2>2. /\ \A c \in Calls, k \in Nat : Request(c, k)' = Request(c, k)
        /\ \A c \in Calls : RequestsOf(c)' = RequestsOf(c) /\ Held(c)' = Held(c)
    BY <1>1 DEF rVars, Request, RequestsOf, Held
  <2>3. RemoteTypes'
    BY <1>1, <2>1, <2>2 DEF rVars, RemoteInv, RemoteTypes
  <2> QED BY <1>1, <2>1, <2>2, <2>3
          DEF rVars, RemoteInv, BuffersInv, AttemptsInv, StoredInv, RepliesInv, StatsInv
<1>2. CASE RemoteNext
  <2>1. rw' = rw
    BY <1>2 DEF RemoteNext, WriteCall, Marshal, Compress, Attempt, NetworkError, Receive, BackedOff, Cancel, ServeHTTP
  <2>2. Sound
    BY <2>1 DEF Sound
  <2> QED BY <1>2, <2>2, RemoteTypesStep, BuffersStep, AttemptsStep, StoredStep, RepliesStep, StatsStep
          DEF RemoteInv
<1> QED BY <1>1, <1>2

LEMMA RemoteInvAccounts == RemoteInv => WritesAccounted
<1> SUFFICES ASSUME RemoteInv PROVE WritesAccounted
  OBVIOUS
<1> USE DEF RemoteInv
<1>1. OwnPayload
  <2>1. \A c \in Calls : call[c].pc \in {"attempt", "await", "backoff"} => content[call[c].cbuf] = <<c>>
    BY DEF BuffersInv, Held, Sending
  <2>2. \A m \in net : m.payload = <<m.from>>
    BY DEF RemoteTypes, Request
  <2> QED BY <2>1, <2>2 DEF OwnPayload
<1>2. SuccessIsStored
  BY DEF StatsInv, SuccessIsStored
<1>3. ASSUME NEW c \in Calls PROVE stored[c] <= call[c].sent
  <2>1. IsFiniteSet(RequestsOf(c))
    BY FS_Subset DEF RequestsOf, StoredInv
  <2>2. Cardinality(RequestsOf(c)) \in Nat
    BY <2>1, FS_CardinalityType
  <2>3. stored[c] \in Nat /\ call[c].sent \in Nat
    BY CallTyped DEF RemoteTypes, CallStates
  <2> QED BY <2>2, <2>3 DEF StoredInv
<1>4. ASSUME NEW c \in Calls PROVE rw.maxRetries > 0 => call[c].sent <= rw.maxRetries + 1
  <2>1. rw.maxRetries \in Int /\ call[c].retries \in Nat /\ call[c].sent \in Nat
    BY CallTyped, RemoteAssumption DEF RemoteTypes, CallStates
  <2> QED BY <2>1 DEF AttemptsInv
<1> QED BY <1>1, <1>2, <1>3, <1>4 DEF WritesAccounted, AttemptsInv, StatsInv

\* Remote write, with messages that know their size and a store that sets a status for its
\* errors: each attempt sends the message of its call, what is reported was stored, and no
\* more is stored than attempts are made, of which there are at most one more than retries.
THEOREM WritesAreAccounted == RemoteSpec => [](~rw.generic /\ ~rw.forgets => WritesAccounted)
<1>1. RemoteInit => (Sound => RemoteInv)
  BY RemoteInvInit
<1>2. (Sound => RemoteInv) => (~rw.generic /\ ~rw.forgets => WritesAccounted)
  BY RemoteInvAccounts DEF Sound
<1> QED BY <1>1, <1>2, RemoteInvStep, PTL DEF RemoteSpec

-----------------------------------------------------------------------------
(* The Summary. *)

ObserverSteps == {"rest", "expired", "append", "full", "sum", "count"}
WriterSteps == {"rest", "swap", "flush", "cool", "mergeCount", "mergeSum"}

Outputs == [count : Nat, sum : Nat, head : SUBSET Observations, now : Nat]

ControlTypes ==
    /\ objectives \in BOOLEAN
    /\ now \in 0..MaxTime
    /\ pc \in [Procs -> ObserverSteps \cup WriterSteps]
    /\ bufMtx \in Procs \cup {Nil}
    /\ mtx \in Writers \cup {Nil, Flusher}
BufferTypes ==
    /\ mine \in [Observers -> [obs : 0..MaxObservations, counts : {0, 1}]]
    /\ at \in [Observations -> 0..(MaxTime + 1)]
    /\ hotBuf \subseteq Observations /\ coldBuf \subseteq Observations
    /\ hotBufExpTime \in Nat
StreamTypes ==
    /\ streams \in [0..(AgeBuckets - 1) -> SUBSET Observations]
    /\ headStreamIdx \in 0..(AgeBuckets - 1)
    /\ headStreamExpTime \in Nat
    /\ cnt \in Nat
FreeTypes ==
    /\ hotIdx \in {0, 1} /\ started \in Nat
    /\ counts \in [{0, 1} -> [count : Nat, sum : Nat]]
CallTypes ==
    /\ writes \in Nat /\ returned \in Nat
    /\ calls \in [Writers -> Nat] /\ out \in [Writers -> Outputs]
SummaryTypes == ControlTypes /\ BufferTypes /\ StreamTypes /\ FreeTypes /\ CallTypes

\* Who holds which lock; a summary without objectives has one for writes only.
LocksInv ==
    /\ objectives =>
        /\ \A p \in Observers : pc[p] \in {"rest", "expired", "append", "full"}
        /\ \A p \in Observers : pc[p] # "rest" <=> bufMtx = p
        /\ \A w \in Writers : pc[w] \in {"rest", "swap", "flush"}
        /\ \A w \in Writers : pc[w] = "swap" <=> bufMtx = w
        /\ \A w \in Writers : pc[w] = "flush" <=> mtx = w
    /\ ~objectives =>
        /\ \A p \in Observers : pc[p] \in {"rest", "sum", "count"}
        /\ \A w \in Writers : pc[w] \in {"rest", "cool", "mergeCount", "mergeSum"}
        /\ \A w \in Writers : pc[w] # "rest" <=> mtx = w
        /\ mtx # Flusher

Made == {o \in Observations : at[o] # 0}

\* Observations are flushed, wait in the cold buffer and in the hot one in the order in
\* which they were made, but for the one that is made just now.
BeingMade == \E p \in Observers : pc[p] \in {"expired", "append"}
BuffersHave(c, h, u) ==
    /\ coldBuf = (cnt + 1)..(cnt + c)
    /\ hotBuf = (cnt + c + 1)..(cnt + c + h)
    /\ Made = 1..(cnt + c + h + u)
    /\ u = 1 <=> BeingMade
    /\ \A p \in Observers : pc[p] \in {"expired", "append"} => mine[p].obs = cnt + c + h + 1
    /\ \A p \in Observers : pc[p] = "full" => mine[p].obs = cnt + c + h
    /\ returned = cnt + c + h + u - IF bufMtx \in Observers THEN 1 ELSE 0
    /\ \A w \in Writers : pc[w] = "flush" => calls[w] <= cnt + c
    /\ \A w \in Writers : objectives /\ pc[w] = "rest" => out[w].count <= cnt
BufferedInv ==
    objectives =>
        /\ \E c, h \in Nat, u \in {0, 1} : BuffersHave(c, h, u)
        /\ mtx = Nil => coldBuf = {}
        /\ \A w \in Writers : calls[w] <= returned
        /\ \A w \in Writers : pc[w] = "rest" => calls[w] <= out[w].count /\ out[w].count = out[w].sum

At(i, S) == {p \in Observers : pc[p] \in S /\ mine[p].counts = i}
CountOf(i) == counts[i].count + Cardinality(At(i, {"sum", "count"}))
SumOf(i) == counts[i].sum + Cardinality(At(i, {"sum"}))
Cold == 1 - hotIdx

\* Without objectives: what one of the counts, and the goroutines that use it, have.
FreeInv ==
    ~objectives =>
        /\ returned + Cardinality({p \in Observers : pc[p] # "rest"}) = started
        /\ mtx = Nil =>
             /\ CountOf(hotIdx) = started /\ SumOf(hotIdx) = started
             /\ CountOf(Cold) = 0 /\ SumOf(Cold) = 0
        /\ \A w \in Writers :
             /\ calls[w] <= out[w].count /\ out[w].count <= started
             /\ pc[w] # "cool" => out[w].sum = out[w].count
             /\ pc[w] = "cool" => CountOf(Cold) = out[w].count /\ SumOf(Cold) = out[w].count
             /\ pc[w] = "mergeCount" => CountOf(Cold) = out[w].count /\ At(Cold, {"sum", "count"}) = {}
             /\ pc[w] \in {"cool", "mergeCount"} =>
                  CountOf(hotIdx) + out[w].count = started /\ SumOf(hotIdx) + out[w].count = started
             /\ pc[w] = "mergeSum" =>
                  /\ CountOf(Cold) = 0 /\ At(Cold, {"sum", "count"}) = {}
                  /\ CountOf(hotIdx) = started /\ SumOf(hotIdx) + out[w].count = started

\* The times: the hot buffer expires whole stream durations after the head stream, and at
\* its time but for a flush that is due.
TimesInv ==
    /\ headStreamExpTime > 0
    /\ \E k \in Nat : hotBufExpTime = headStreamExpTime + k * StreamDuration
    /\ mtx = Nil \/ ~objectives => hotBufExpTime = headStreamExpTime

\* The hot buffer, and the observation that is made, are of the last stream duration.
After(o, l) == at[o] - 1 > l \/ l <= 0
HotInv ==
    /\ now > hotBufExpTime - StreamDuration \/ hotBufExpTime = StreamDuration
    /\ \A o \in hotBuf : at[o] - 1 <= hotBufExpTime /\ After(o, hotBufExpTime - StreamDuration)
    /\ \A p \in Observers : pc[p] \in {"expired", "append", "full"} =>
         /\ at[mine[p].obs] - 1 <= now
         /\ After(mine[p].obs, hotBufExpTime - StreamDuration)
         /\ pc[p] = "append" => at[mine[p].obs] - 1 <= hotBufExpTime

\* The cold buffer, and the streams, each with the observations of its age and after.
RankFrom(i, head) == IF i >= head THEN i - head ELSE i - head + AgeBuckets
StreamsInv ==
    /\ \A o \in coldBuf : at[o] - 1 <= headStreamExpTime /\ After(o, headStreamExpTime - StreamDuration)
    /\ \A o \in 1..cnt : at[o] - 1 <= headStreamExpTime
    /\ \A i \in 0..(AgeBuckets - 1) : streams[i] =
         {o \in 1..cnt : After(o, headStreamExpTime - (AgeBuckets - RankFrom(i, headStreamIdx)) * StreamDuration)}

\* What a Write has read.
InWindow(w) ==
    /\ \A o \in out[w].head : at[o] - 1 >= out[w].now - MaxAge
    /\ \A o \in Observations :
         at[o] # 0 /\ o <= out[w].count /\ at[o] - 1 > out[w].now - (MaxAge - StreamDuration) => o \in out[w].head
ReadsInv ==
    /\ \A w \in Writers : out[w].head \subseteq Made
    /\ \A w \in Writers : pc[w] = "flush" =>
         /\ out[w].now <= hotBufExpTime
         /\ out[w].now > hotBufExpTime - StreamDuration \/ hotBufExpTime = StreamDuration
    /\ \A w \in Writers : pc[w] = "rest" => InWindow(w)

WindowInv ==
    /\ objectives => HotInv /\ StreamsInv /\ ReadsInv
    /\ ~objectives => Made = {} /\ coldBuf = {} /\ \A w \in Writers : out[w].head = {}

SummaryInv == SummaryTypes /\ LocksInv /\ BufferedInv /\ FreeInv /\ TimesInv /\ WindowInv

-----------------------------------------------------------------------------
(* Arithmetic of times and of the ring of streams. *)

LEMMA DivisionBounds ==
    ASSUME NEW a \in Nat, NEW d \in Nat, d > 0
    PROVE  /\ a \div d \in Int
           /\ d * (a \div d) <= a
           /\ a < d * (a \div d) + d
<1>1. a \div d \in Int
  OBVIOUS
<1>2. ASSUME NEW q \in Int, q = a \div d PROVE d * q <= a
  BY <1>2
<1>3. ASSUME NEW q \in Int, q = a \div d PROVE d * q + d > a
  BY <1>3
<1> QED BY <1>1, <1>2, <1>3

LEMMA QuotientOfMultiple == ASSUME NEW n \in Nat, NEW d \in Nat \ {0} PROVE (n * d) \div d = n
OBVIOUS

LEMMA RemainderOf ==
    ASSUME NEW a \in Int, NEW d \in Nat \ {0}, NEW q \in Int, NEW r \in 0..(d - 1), a = d * q + r
    PROVE  a % d = r
OBVIOUS

LEMMA RemainderRange == ASSUME NEW a \in Int, NEW d \in Nat \ {0} PROVE a % d \in 0..(d - 1)
OBVIOUS

LEMMA MultiplesApart ==
    ASSUME NEW a \in Int, NEW b \in Int, NEW d \in Nat \ {0}, a < b
    PROVE  a * d + d <= b * d
OBVIOUS

LEMMA Beyond == ASSUME NEW t \in Nat, NEW n \in Nat, NEW e \in Int, t > e, t <= n PROVE n > e
OBVIOUS

\* swapBufs advances the expiration by whole stream durations, just past the time given.
LEMMA NextExpIs ==
    ASSUME NEW t \in 0..MaxTime, hotBufExpTime \in Nat
    PROVE  /\ NextExp(t) \in Nat
           /\ \E k \in Nat : NextExp(t) = hotBufExpTime + k * StreamDuration
           /\ t <= NextExp(t)
           /\ NextExp(t) = hotBufExpTime \/ t > NextExp(t) - StreamDuration
           /\ t <= hotBufExpTime => NextExp(t) = hotBufExpTime
<1> DEFINE S == {hotBufExpTime + k * StreamDuration : k \in 0..(MaxTime + 1)}
           P(e) == t <= e /\ (e = hotBufExpTime \/ t > e - StreamDuration)
<1>a. StreamDuration \in Nat /\ StreamDuration > 0 /\ MaxTime \in Nat
  BY SummaryAssumption
<1>1. \E e \in S : P(e)
  <2>1. CASE t <= hotBufExpTime
    <3>1. hotBufExpTime = hotBufExpTime + 0 * StreamDuration
      BY <1>a
    <3>2. hotBufExpTime \in S
      BY <1>a, <3>1
    <3> QED BY <2>1, <3>2
  <2>2. CASE t > hotBufExpTime
    <3> DEFINE a == t - hotBufExpTime - 1
               q == a \div StreamDuration
    <3>1. a \in Nat /\ a <= MaxTime - 1
      BY <1>a, <2>2
    <3>2. q \in Int /\ StreamDuration * q <= a /\ a < StreamDuration * q + StreamDuration
      BY <1>a, <3>1, DivisionBounds
    <3> HIDE DEF q
    <3>3. q \in 0..MaxTime
      <4>1. q >= 0
        <5>1. ASSUME q < 0 PROVE FALSE
          <6>1. q * StreamDuration + StreamDuration <= 0 * StreamDuration
            BY <1>a, <3>2, <5>1, MultiplesApart
          <6> QED BY <1>a, <3>1, <3>2, <6>1
        <5> QED BY <3>2, <5>1
      <4>2. q <= StreamDuration * q
        BY <1>a, <3>2, <4>1
      <4> QED BY <1>a, <3>1, <3>2, <4>1, <4>2
    <3> DEFINE e == hotBufExpTime + (q + 1) * StreamDuration
    <3>4. (q + 1) * StreamDuration = StreamDuration * q + StreamDuration
      BY <1>a, <3>2
    <3>5. StreamDuration * q \in Int
      BY <1>a, <3>2
    <3>6. t <= e /\ t > e - StreamDuration
      BY <1>a, <3>2, <3>4, <3>5
    <3>7. e \in S
      BY <1>a, <3>3
    <3> QED BY <3>6, <3>7
  <2> QED BY <1>a, <2>1, <2>2
<1>2. NextExp(t) \in S /\ P(NextExp(t))
  BY <1>1 DEF NextExp
<1>3. PICK k \in 0..(MaxTime + 1) : NextExp(t) = hotBufExpTime + k * StreamDuration
  BY <1>2
<1>4. k * StreamDuration \in Nat
  BY <1>a, <1>3
<1>5. ASSUME t <= hotBufExpTime PROVE NextExp(t) = hotBufExpTime
  <2>1. CASE k = 0
    BY <1>a, <1>3, <2>1
  <2>2. CASE k > 0
    <3>1. StreamDuration <= k * StreamDuration
      BY <1>a, <2>2
    <3> QED BY <1>2, <1>3, <1>4, <1>5, <3>1, <1>a
  <2> QED BY <2>1, <2>2
<1> QED BY <1>a, <1>2, <1>3, <1>4, <1>5

-----------------------------------------------------------------------------
LEMMA SummaryCases ==
    ASSUME SummaryNext
    PROVE  \/ Tick \/ Flush
           \/ \E p \in Observers : \/ Observe(p) \/ ObserveFree(p) \/ Expired(p) \/ AppendToBuf(p) \/ Full(p)
                                   \/ AddSum(p) \/ AddCount(p)
           \/ \E w \in Writers : \/ WriteBegin(w) \/ WriteFree(w) \/ WriteSwap(w) \/ WriteFlush(w)
                                 \/ Cool(w) \/ MergeCount(w) \/ MergeSum(w)
BY DEF SummaryNext, Step

LEMMA ObservationsFinite ==
    ASSUME NEW S, S \subseteq Observations
    PROVE  IsFiniteSet(S) /\ Cardinality(S) \in Nat
<1>1. IsFiniteSet(Observations)
  BY SummaryAssumption, FS_Interval DEF Observations
<1> QED BY <1>1, FS_Subset, FS_CardinalityType

\* The observation that is being made.
LEMMA OwnObservation ==
    ASSUME SummaryTypes, LocksInv, BufferedInv, NEW p \in Observers, pc[p] \in {"expired", "append", "full"}
    PROVE  objectives /\ mine[p].obs \in Made /\ at[mine[p].obs] - 1 \in 0..MaxTime
<1>1. objectives
  BY DEF LocksInv, SummaryTypes, ControlTypes
<1>2. PICK c \in Nat, h \in Nat, u \in {0, 1} : BuffersHave(c, h, u)
  BY <1>1 DEF BufferedInv
<1>3. bufMtx = p /\ bufMtx \in Observers
  BY <1>1 DEF LocksInv
<1>4. mine[p].obs \in Made
  <2>1. CASE pc[p] = "full"
    <3>1. ~BeingMade
      BY <1>1, <1>3, <2>1 DEF BeingMade, LocksInv
    <3>2. u = 0 /\ mine[p].obs = cnt + c + h /\ Made = 1..(cnt + c + h + u) /\ returned = cnt + c + h + u - 1
      BY <1>2, <1>3, <2>1, <3>1 DEF BuffersHave
    <3>3. cnt \in Nat /\ returned \in Nat
      BY DEF SummaryTypes, StreamTypes, CallTypes
    <3>4. cnt + c + h \in Nat /\ cnt + c + h > 0
      BY <3>2, <3>3
    <3> QED BY <3>2, <3>4
  <2>2. CASE pc[p] # "full"
    <3>1. BeingMade
      BY <2>2 DEF BeingMade
    <3>2. u = 1 /\ mine[p].obs = cnt + c + h + 1 /\ Made = 1..(cnt + c + h + u)
      BY <1>2, <2>2, <3>1 DEF BuffersHave
    <3>3. cnt \in Nat
      BY DEF SummaryTypes, StreamTypes
    <3> QED BY <3>2, <3>3
  <2> QED BY <2>1, <2>2
<1>5. at[mine[p].obs] \in 1..(MaxTime + 1)
  BY <1>4, SummaryAssumption DEF Made, SummaryTypes, BufferTypes
<1> QED BY <1>1, <1>4, <1>5, SummaryAssumption

LEMMA ControlTypesStep ==
    ASSUME SummaryTypes, SummaryNext
    PROVE  ControlTypes'
<1> USE DEF SummaryTypes, ControlTypes, ObserverSteps, WriterSteps, Procs, Goto
<1>1. CASE Tick
  BY <1>1, SummaryAssumption DEF Tick
<1>2. CASE Flush
  BY <1>2 DEF Flush
<1>3. ASSUME NEW p \in Observers, \/ Observe(p) \/ Expired(p) \/ AppendToBuf(p) \/ Full(p)
      PROVE  ControlTypes'
  BY <1>3 DEF Observe, Expired, AppendToBuf, Full, AsyncFlush
<1>4. ASSUME NEW p \in Observers, \/ ObserveFree(p) \/ AddSum(p) \/ AddCount(p)
      PROVE  ControlTypes'
  BY <1>4 DEF ObserveFree, AddSum, AddCount
<1>5. ASSUME NEW w \in Writers, \/ WriteBegin(w) \/ WriteFree(w) \/ WriteSwap(w) \/ WriteFlush(w)
      PROVE  ControlTypes'
  BY <1>5 DEF WriteBegin, WriteFree, WriteSwap, WriteFlush
<1>6. ASSUME NEW w \in Writers, \/ Cool(w) \/ MergeCount(w) \/ MergeSum(w)
      PROVE  ControlTypes'
  BY <1>6 DEF Cool, MergeCount, MergeSum
<1> QED BY <1>1, <1>2, <1>3, <1>4, <1>5, <1>6, SummaryCases

LEMMA BufferTypesStep ==
    ASSUME SummaryInv, SummaryNext
    PROVE  BufferTypes'
<1> USE DEF BufferTypes, bufVars
<1>0. BufferTypes /\ hotIdx \in {0, 1} /\ now \in 0..MaxTime
  BY DEF SummaryInv, SummaryTypes, FreeTypes, ControlTypes
<1>1. ASSUME UNCHANGED <<mine, at, hotBuf, coldBuf, hotBufExpTime>> PROVE BufferTypes'
  BY <1>0, <1>1
<1>2. ASSUME NEW t \in 0..MaxTime, SwapBufs(t), UNCHANGED <<mine, at>> PROVE BufferTypes'
  BY <1>0, <1>2, NextExpIs DEF SwapBufs
<1>3. CASE Tick
  BY <1>1, <1>3 DEF Tick
<1>4. CASE Flush
  BY <1>0, <1>4 DEF Flush, FlushColdBuf
<1>5. ASSUME NEW p \in Observers, Observe(p) PROVE BufferTypes'
  <2> PICK o \in Observations : at' = [at EXCEPT ![o] = now + 1] /\ mine' = [mine EXCEPT ![p].obs = o]
    BY <1>5 DEF Observe
  <2>1. mine' \in [Observers -> [obs : 0..MaxObservations, counts : {0, 1}]]
    <3>1. o \in 0..MaxObservations
      BY SummaryAssumption DEF Observations
    <3> QED BY <1>0, <3>1
  <2>2. at' \in [Observations -> 0..(MaxTime + 1)]
    BY <1>0, SummaryAssumption
  <2>3. UNCHANGED <<hotBuf, coldBuf, hotBufExpTime>>
    BY <1>5 DEF Observe
  <2> QED BY <1>0, <2>1, <2>2, <2>3
<1>6. ASSUME NEW p \in Observers, Expired(p) \/ Full(p) PROVE BufferTypes'
  <2>1. at[mine[p].obs] - 1 \in 0..MaxTime
    BY <1>6, OwnObservation DEF SummaryInv, Expired, Full
  <2>2. SwapBufs(at[mine[p].obs] - 1) /\ UNCHANGED <<mine, at>>
    BY <1>6 DEF Expired, Full, AsyncFlush
  <2> QED BY <1>2, <2>1, <2>2
<1>7. ASSUME NEW p \in Observers, AppendToBuf(p) PROVE BufferTypes'
  <2>1. mine[p].obs \in Observations
    BY <1>7, OwnObservation DEF SummaryInv, AppendToBuf, Made
  <2>2. hotBuf' = hotBuf \cup {mine[p].obs} /\ UNCHANGED <<mine, at, coldBuf, hotBufExpTime>>
    BY <1>7 DEF AppendToBuf
  <2> QED BY <1>0, <2>1, <2>2
<1>8. ASSUME NEW p \in Observers, ObserveFree(p) PROVE BufferTypes'
  <2>1. mine' = [mine EXCEPT ![p].counts = hotIdx] /\ UNCHANGED <<at, hotBuf, coldBuf, hotBufExpTime>>
    BY <1>8 DEF ObserveFree
  <2>2. mine' \in [Observers -> [obs : 0..MaxObservations, counts : {0, 1}]]
    BY <1>0, <2>1
  <2> QED BY <1>0, <2>1, <2>2
<1>9. ASSUME NEW p \in Observers, AddSum(p) \/ AddCount(p) PROVE BufferTypes'
  BY <1>1, <1>9 DEF AddSum, AddCount
<1>10. ASSUME NEW w \in Writers, WriteSwap(w) PROVE BufferTypes'
  BY <1>0, <1>2, <1>10 DEF WriteSwap
<1>11. ASSUME NEW w \in Writers, WriteFlush(w) PROVE BufferTypes'
  BY <1>0, <1>11 DEF WriteFlush, FlushColdBuf
<1>12. ASSUME NEW w \in Writers, WriteBegin(w) \/ WriteFree(w) \/ Cool(w) \/ MergeCount(w) \/ MergeSum(w)
       PROVE  BufferTypes'
  BY <1>1, <1>12 DEF WriteBegin, WriteFree, Cool, MergeCount, MergeSum
<1> QED BY <1>3, <1>4, <1>5, <1>6, <1>7, <1>8, <1>9, <1>10, <1>11, <1>12, SummaryCases

LEMMA FlushTypes ==
    ASSUME SummaryInv, FlushColdBuf
    PROVE  StreamTypes'
<1>0. /\ streams \in [0..(AgeBuckets - 1) -> SUBSET Observations]
      /\ headStreamIdx \in 0..(AgeBuckets - 1) /\ headStreamExpTime \in Nat /\ hotBufExpTime \in Nat /\ cnt \in Nat
      /\ coldBuf \subseteq Observations
  BY DEF SummaryInv, SummaryTypes, StreamTypes, BufferTypes
<1>1. streams' \in [0..(AgeBuckets - 1) -> SUBSET Observations]
  BY <1>0 DEF FlushColdBuf, Rotated
<1>2. headStreamIdx' \in 0..(AgeBuckets - 1)
  <2> DEFINE n == (hotBufExpTime - headStreamExpTime) \div StreamDuration
  <2>1. n \in Int
    BY <1>0, SummaryAssumption
  <2>2. headStreamIdx' = (headStreamIdx + n) % AgeBuckets
    BY DEF FlushColdBuf, RotatedIdx
  <2> HIDE DEF n
  <2>3. headStreamIdx + n \in Int
    BY <1>0, <2>1
  <2> QED BY <2>2, <2>3, RemainderRange, SummaryAssumption
<1>3. headStreamExpTime' \in Nat /\ cnt' \in Nat
  BY <1>0, ObservationsFinite DEF FlushColdBuf
<1> QED BY <1>1, <1>2, <1>3 DEF StreamTypes

LEMMA StreamTypesStep ==
    ASSUME SummaryInv, SummaryNext
    PROVE  StreamTypes'
<1>1. ASSUME UNCHANGED streamVars PROVE StreamTypes'
  BY <1>1 DEF StreamTypes, streamVars, SummaryInv, SummaryTypes
<1>2. CASE Tick
  BY <1>1, <1>2 DEF Tick
<1>3. CASE Flush
  BY <1>3, FlushTypes DEF Flush
<1>4. ASSUME NEW p \in Observers, \/ Observe(p) \/ ObserveFree(p) \/ Expired(p) \/ AppendToBuf(p) \/ Full(p)
                                  \/ AddSum(p) \/ AddCount(p)
      PROVE  StreamTypes'
  BY <1>1, <1>4 DEF Observe, ObserveFree, Expired, AppendToBuf, Full, AddSum, AddCount
<1>5. ASSUME NEW w \in Writers, WriteFlush(w) PROVE StreamTypes'
  BY <1>5, FlushTypes DEF WriteFlush
<1>6. ASSUME NEW w \in Writers, \/ WriteBegin(w) \/ WriteFree(w) \/ WriteSwap(w) \/ Cool(w) \/ MergeCount(w) \/ MergeSum(w)
      PROVE  StreamTypes'
  BY <1>1, <1>6 DEF WriteBegin, WriteFree, WriteSwap, Cool, MergeCount, MergeSum
<1> QED BY <1>2, <1>3, <1>4, <1>5, <1>6, SummaryCases

LEMMA FreeTypesStep ==
    ASSUME SummaryTypes, SummaryNext
    PROVE  FreeTypes'
<1> USE DEF FreeTypes, freeVars
<1>0. FreeTypes /\ mine \in [Observers -> [obs : 0..MaxObservations, counts : {0, 1}]]
      /\ \A w \in Writers : out[w].count \in Nat /\ out[w].sum \in Nat
  BY DEF SummaryTypes, BufferTypes, CallTypes, Outputs
<1>1. ASSUME UNCHANGED freeVars PROVE FreeTypes'
  BY <1>0, <1>1
<1>2. CASE Tick \/ Flush
  BY <1>1, <1>2 DEF Tick, Flush
<1>3. ASSUME NEW p \in Observers, \/ Observe(p) \/ Expired(p) \/ AppendToBuf(p) \/ Full(p)
      PROVE  FreeTypes'
  BY <1>1, <1>3 DEF Observe, Expired, AppendToBuf, Full
<1>4. ASSUME NEW p \in Observers, ObserveFree(p) PROVE FreeTypes'
  BY <1>0, <1>4 DEF ObserveFree
<1>5. ASSUME NEW p \in Observers, AddSum(p) \/ AddCount(p) PROVE FreeTypes'
  BY <1>0, <1>5 DEF AddSum, AddCount
<1>6. ASSUME NEW w \in Writers, \/ WriteBegin(w) \/ WriteSwap(w) \/ WriteFlush(w) \/ Cool(w)
      PROVE  FreeTypes'
  BY <1>1, <1>6 DEF WriteBegin, WriteSwap, WriteFlush, Cool
<1>7. ASSUME NEW w \in Writers, WriteFree(w) PROVE FreeTypes'
  BY <1>0, <1>7 DEF WriteFree
<1>8. ASSUME NEW w \in Writers, MergeCount(w) \/ MergeSum(w) PROVE FreeTypes'
  BY <1>0, <1>8 DEF MergeCount, MergeSum
<1> QED BY <1>2, <1>3, <1>4, <1>5, <1>6, <1>7, <1>8, SummaryCases

LEMMA CallTypesStep ==
    ASSUME SummaryInv, SummaryNext
    PROVE  CallTypes'
<1> USE DEF CallTypes, callVars
<1>0. /\ CallTypes /\ StreamTypes' /\ now \in Nat
      /\ started \in Nat /\ counts \in [{0, 1} -> [count : Nat, sum : Nat]] /\ hotIdx \in {0, 1}
  BY StreamTypesStep, SummaryAssumption DEF SummaryInv, SummaryTypes, ControlTypes, FreeTypes
<1>1. ASSUME UNCHANGED callVars PROVE CallTypes'
  BY <1>0, <1>1
<1>2. CASE Tick \/ Flush
  BY <1>1, <1>2 DEF Tick, Flush
<1>3. ASSUME NEW p \in Observers, \/ Observe(p) \/ ObserveFree(p) \/ Expired(p) \/ AddSum(p)
      PROVE  CallTypes'
  BY <1>1, <1>3 DEF Observe, ObserveFree, Expired, AddSum
<1>4. ASSUME NEW p \in Observers, AppendToBuf(p) \/ Full(p) \/ AddCount(p) PROVE CallTypes'
  BY <1>0, <1>4 DEF AppendToBuf, Full, AddCount
<1>5. ASSUME NEW w \in Writers, WriteBegin(w) PROVE CallTypes'
  BY <1>0, <1>5 DEF WriteBegin
<1>6. ASSUME NEW w \in Writers, WriteFree(w) PROVE CallTypes'
  <2>1. [Nothing EXCEPT !.count = started] \in Outputs
    BY <1>0 DEF Nothing, Outputs
  <2>2. out' = [out EXCEPT ![w] = [Nothing EXCEPT !.count = started]]
        /\ calls' = [calls EXCEPT ![w] = returned] /\ writes' = writes + 1 /\ returned' = returned
    BY <1>6 DEF WriteFree
  <2> QED BY <1>0, <2>1, <2>2
<1>7. ASSUME NEW w \in Writers, WriteSwap(w) PROVE CallTypes'
  BY <1>0, <1>7 DEF WriteSwap, Outputs
<1>8. ASSUME NEW w \in Writers, WriteFlush(w) PROVE CallTypes'
  <2>0. out' = [out EXCEPT ![w] = [count |-> cnt', sum |-> cnt', head |-> streams'[headStreamIdx'],
                                   now |-> out[w].now]]
        /\ UNCHANGED <<calls, writes, returned>>
    BY <1>8 DEF WriteFlush
  <2>1. cnt' \in Nat /\ streams'[headStreamIdx'] \subseteq Observations /\ out[w].now \in Nat
    BY <1>0 DEF StreamTypes, Outputs
  <2>2. [count |-> cnt', sum |-> cnt', head |-> streams'[headStreamIdx'], now |-> out[w].now] \in Outputs
    BY <2>1 DEF Outputs
  <2> QED BY <1>0, <2>0, <2>2
<1>9. ASSUME NEW w \in Writers, Cool(w) PROVE CallTypes'
  <2>1. counts[1 - hotIdx].sum \in Nat
    BY <1>0
  <2> QED BY <1>0, <1>9, <2>1 DEF Cool, Outputs
<1>10. ASSUME NEW w \in Writers, MergeCount(w) \/ MergeSum(w) PROVE CallTypes'
  BY <1>1, <1>10 DEF MergeCount, MergeSum
<1> QED BY <1>2, <1>3, <1>4, <1>5, <1>6, <1>7, <1>8, <1>9, <1>10, SummaryCases

LEMMA SummaryTypesStep ==
    ASSUME SummaryInv, SummaryNext
    PROVE  SummaryTypes'
BY ControlTypesStep, BufferTypesStep, StreamTypesStep, FreeTypesStep, CallTypesStep DEF SummaryInv, SummaryTypes

-----------------------------------------------------------------------------
LEMMA Distinct ==
    /\ \A p \in Observers : p # Nil /\ p # Flusher /\ p \notin Writers
    /\ \A w \in Writers : w # Nil /\ w # Flusher /\ w \notin Observers
    /\ Nil # Flusher
BY SummaryAssumption, FlusherAssumption DEF Procs

\* What a step is, of a summary with objectives and of one without.
LEMMA ObjectivesCases ==
    ASSUME SummaryInv, SummaryNext, objectives
    PROVE  /\ objectives'
           /\ \/ Tick \/ Flush
              \/ \E p \in Observers : Observe(p) \/ Expired(p) \/ AppendToBuf(p) \/ Full(p)
              \/ \E w \in Writers : WriteBegin(w) \/ WriteSwap(w) \/ WriteFlush(w)
<1>1. /\ \A p \in Observers : ~ObserveFree(p) /\ ~AddSum(p) /\ ~AddCount(p)
      /\ \A w \in Writers : ~WriteFree(w) /\ ~Cool(w) /\ ~MergeCount(w) /\ ~MergeSum(w)
  BY DEF SummaryInv, LocksInv, ObserveFree, AddSum, AddCount, WriteFree, Cool, MergeCount, MergeSum
<1>2. \/ Tick \/ Flush
      \/ \E p \in Observers : Observe(p) \/ Expired(p) \/ AppendToBuf(p) \/ Full(p)
      \/ \E w \in Writers : WriteBegin(w) \/ WriteSwap(w) \/ WriteFlush(w)
  BY <1>1, SummaryCases
<1>3. objectives' = objectives
  BY <1>2 DEF Tick, Flush, Observe, Expired, AppendToBuf, Full, WriteBegin, WriteSwap, WriteFlush
<1> QED BY <1>2, <1>3

LEMMA FreeCases ==
    ASSUME SummaryInv, SummaryNext, ~objectives
    PROVE  /\ ~objectives'
           /\ \/ \E p \in Observers : ObserveFree(p) \/ AddSum(p) \/ AddCount(p)
              \/ \E w \in Writers : WriteFree(w) \/ Cool(w) \/ MergeCount(w) \/ MergeSum(w)
<1>1. /\ ~Tick /\ ~Flush
      /\ \A p \in Observers : ~Observe(p) /\ ~Expired(p) /\ ~AppendToBuf(p) /\ ~Full(p)
      /\ \A w \in Writers : ~WriteBegin(w) /\ ~WriteSwap(w) /\ ~WriteFlush(w)
  BY DEF SummaryInv, LocksInv, Tick, Flush, Observe, Expired, AppendToBuf, Full, WriteBegin, WriteSwap, WriteFlush
<1>2. \/ \E p \in Observers : ObserveFree(p) \/ AddSum(p) \/ AddCount(p)
      \/ \E w \in Writers : WriteFree(w) \/ Cool(w) \/ MergeCount(w) \/ MergeSum(w)
  BY <1>1, SummaryCases
<1>3. objectives' = objectives
  BY <1>2 DEF ObserveFree, AddSum, AddCount, WriteFree, Cool, MergeCount, MergeSum
<1> QED BY <1>2, <1>3

\* What a step does to the steps of the goroutines.
Moves(p, l) == pc'[p] = l /\ \A q \in Procs : q # p => pc'[q] = pc[q]

LEMMA GotoMoves ==
    ASSUME SummaryTypes, NEW p \in Procs, NEW l, Goto(p, l)
    PROVE  Moves(p, l)
BY DEF SummaryTypes, ControlTypes, Goto, Moves

LEMMA LocksStep ==
    ASSUME SummaryInv, SummaryNext
    PROVE  LocksInv'
<1> USE DEF LocksInv
<1>0. LocksInv /\ SummaryTypes
  BY DEF SummaryInv
<1>1. Observers \subseteq Procs /\ Writers \subseteq Procs
  BY DEF Procs
<1>2. CASE objectives
  <2>1. objectives'
    BY <1>2, ObjectivesCases
  <2>2. CASE Tick
    BY <1>0, <2>1, <2>2 DEF Tick
  <2>3. CASE Flush
    BY <1>0, <2>1, <2>3, Distinct DEF Flush
  <2>4. ASSUME NEW p \in Observers, Observe(p) PROVE LocksInv'
    <3>1. bufMtx = Nil /\ bufMtx' = p /\ mtx' = mtx
      BY <2>4 DEF Observe
    <3>2. Moves(p, "expired") \/ Moves(p, "append")
      BY <1>0, <1>1, <2>4, GotoMoves DEF Observe
    <3> QED BY <1>0, <1>1, <1>2, <2>1, <3>1, <3>2, Distinct DEF Moves
  <2>5. ASSUME NEW p \in Observers, Expired(p) PROVE LocksInv'
    <3>1. pc[p] = "expired" /\ bufMtx' = bufMtx /\ mtx = Nil /\ mtx' = Flusher
      BY <2>5 DEF Expired, AsyncFlush
    <3>2. Moves(p, "append")
      BY <1>0, <1>1, <2>5, GotoMoves DEF Expired
    <3> QED BY <1>0, <1>1, <1>2, <2>1, <3>1, <3>2, Distinct DEF Moves
  <2>6. ASSUME NEW p \in Observers, AppendToBuf(p) PROVE LocksInv'
    <3>1. pc[p] = "append" /\ mtx' = mtx
      BY <2>6 DEF AppendToBuf
    <3>2. (Goto(p, "full") /\ bufMtx' = bufMtx) \/ (Goto(p, "rest") /\ bufMtx' = Nil)
      BY <2>6 DEF AppendToBuf
    <3>3. (Moves(p, "full") /\ bufMtx' = bufMtx) \/ (Moves(p, "rest") /\ bufMtx' = Nil)
      BY <1>0, <1>1, <3>2, GotoMoves
    <3> QED BY <1>0, <1>1, <1>2, <2>1, <3>1, <3>3, Distinct DEF Moves
  <2>7. ASSUME NEW p \in Observers, Full(p) PROVE LocksInv'
    <3>1. pc[p] = "full" /\ bufMtx' = Nil /\ mtx = Nil /\ mtx' = Flusher
      BY <2>7 DEF Full, AsyncFlush
    <3>2. Moves(p, "rest")
      BY <1>0, <1>1, <2>7, GotoMoves DEF Full
    <3> QED BY <1>0, <1>1, <1>2, <2>1, <3>1, <3>2, Distinct DEF Moves
  <2>8. ASSUME NEW w \in Writers, WriteBegin(w) PROVE LocksInv'
    <3>1. bufMtx = Nil /\ bufMtx' = w /\ mtx' = mtx /\ pc[w] = "rest"
      BY <2>8 DEF WriteBegin
    <3>2. Moves(w, "swap")
      BY <1>0, <1>1, <2>8, GotoMoves DEF WriteBegin
    <3> QED BY <1>0, <1>1, <1>2, <2>1, <3>1, <3>2, Distinct DEF Moves
  <2>9. ASSUME NEW w \in Writers, WriteSwap(w) PROVE LocksInv'
    <3>1. pc[w] = "swap" /\ bufMtx' = Nil /\ mtx = Nil /\ mtx' = w
      BY <2>9 DEF WriteSwap
    <3>2. Moves(w, "flush")
      BY <1>0, <1>1, <2>9, GotoMoves DEF WriteSwap
    <3> QED BY <1>0, <1>1, <1>2, <2>1, <3>1, <3>2, Distinct DEF Moves
  <2>10. ASSUME NEW w \in Writers, WriteFlush(w) PROVE LocksInv'
    <3>1. pc[w] = "flush" /\ bufMtx' = bufMtx /\ mtx' = Nil
      BY <2>10 DEF WriteFlush
    <3>2. Moves(w, "rest")
      BY <1>0, <1>1, <2>10, GotoMoves DEF WriteFlush
    <3> QED BY <1>0, <1>1, <1>2, <2>1, <3>1, <3>2, Distinct DEF Moves
  <2> QED BY <1>2, <2>2, <2>3, <2>4, <2>5, <2>6, <2>7, <2>8, <2>9, <2>10, ObjectivesCases
<1>3. CASE ~objectives
  <2>1. ~objectives'
    BY <1>3, FreeCases
  <2>2. ASSUME NEW p \in Observers, ObserveFree(p) \/ AddSum(p) \/ AddCount(p) PROVE LocksInv'
    <3>1. mtx' = mtx
      BY <2>2 DEF ObserveFree, AddSum, AddCount
    <3>2. Moves(p, "sum") \/ Moves(p, "count") \/ Moves(p, "rest")
      BY <1>0, <1>1, <2>2, GotoMoves DEF ObserveFree, AddSum, AddCount
    <3> QED BY <1>0, <1>1, <1>3, <2>1, <3>1, <3>2, Distinct DEF Moves
  <2>3. ASSUME NEW w \in Writers, WriteFree(w) PROVE LocksInv'
    <3>1. mtx = Nil /\ mtx' = w
      BY <2>3 DEF WriteFree
    <3>2. Moves(w, "cool")
      BY <1>0, <1>1, <2>3, GotoMoves DEF WriteFree
    <3> QED BY <1>0, <1>1, <1>3, <2>1, <3>1, <3>2, Distinct DEF Moves
  <2>4. ASSUME NEW w \in Writers, Cool(w) \/ MergeCount(w) PROVE LocksInv'
    <3>1. pc[w] # "rest" /\ mtx' = mtx
      BY <2>4 DEF Cool, MergeCount
    <3>2. Moves(w, "mergeCount") \/ Moves(w, "mergeSum")
      BY <1>0, <1>1, <2>4, GotoMoves DEF Cool, MergeCount
    <3> QED BY <1>0, <1>1, <1>3, <2>1, <3>1, <3>2, Distinct DEF Moves
  <2>5. ASSUME NEW w \in Writers, MergeSum(w) PROVE LocksInv'
    <3>1. pc[w] # "rest" /\ mtx' = Nil
      BY <2>5 DEF MergeSum
    <3>2. Moves(w, "rest")
      BY <1>0, <1>1, <2>5, GotoMoves DEF MergeSum
    <3> QED BY <1>0, <1>1, <1>3, <2>1, <3>1, <3>2, Distinct DEF Moves
  <2> QED BY <1>3, <2>2, <2>3, <2>4, <2>5, FreeCases
<1> QED BY <1>2, <1>3

-----------------------------------------------------------------------------
(* With objectives: the buffers and the count. *)

LEMMA IntervalSize == ASSUME NEW a \in Nat, NEW n \in Nat PROVE Cardinality((a + 1)..(a + n)) = n
<1>1. CASE n = 0
  BY <1>1, FS_Interval
<1>2. CASE n > 0
  BY <1>2, FS_Interval
<1> QED BY <1>1, <1>2

LEMMA BuffersHold ==
    ASSUME SummaryInv, objectives
    PROVE  \E c, h \in Nat, u \in {0, 1} : BuffersHave(c, h, u)
BY DEF SummaryInv, BufferedInv

LEMMA Naturals ==
    ASSUME SummaryInv
    PROVE  /\ cnt \in Nat /\ returned \in Nat
           /\ \A w \in Writers : calls[w] \in Nat /\ out[w].count \in Nat /\ out[w].sum \in Nat
BY DEF SummaryInv, SummaryTypes, StreamTypes, CallTypes, Outputs

LEMMA NothingCold ==
    ASSUME SummaryInv, objectives, mtx = Nil, NEW c \in Nat, NEW h \in Nat, NEW u \in {0, 1}, BuffersHave(c, h, u)
    PROVE  c = 0
<1>1. coldBuf = {} /\ coldBuf = (cnt + 1)..(cnt + c) /\ cnt \in Nat
  BY Naturals DEF SummaryInv, BufferedInv, BuffersHave
<1>2. c > 0 => cnt + 1 \in coldBuf
  BY <1>1
<1> QED BY <1>1, <1>2

\* Nothing is being made while bufMtx is free or a Write has it.
LEMMA NotMaking ==
    ASSUME SummaryInv, objectives, bufMtx \notin Observers,
           NEW c \in Nat, NEW h \in Nat, NEW u \in {0, 1}, BuffersHave(c, h, u)
    PROVE  ~BeingMade /\ u = 0 /\ returned = cnt + c + h /\ \A p \in Observers : pc[p] = "rest"
<1>1. \A p \in Observers : pc[p] = "rest"
  BY DEF SummaryInv, LocksInv
<1>2. ~BeingMade
  BY <1>1 DEF BeingMade
<1>3. u = 0
  BY <1>2 DEF BuffersHave
<1>4. returned = cnt + c + h + u - 0
  BY DEF BuffersHave
<1> QED BY <1>1, <1>2, <1>3, <1>4, Naturals

LEMMA Swapped ==
    ASSUME SummaryInv, objectives, mtx = Nil, NEW t, SwapBufs(t),
           NEW c \in Nat, NEW h \in Nat, NEW u \in {0, 1}, BuffersHave(c, h, u), UNCHANGED cnt
    PROVE  /\ coldBuf' = (cnt' + 1)..(cnt' + h)
           /\ hotBuf' = (cnt' + h + 1)..(cnt' + h + 0)
<1>1. c = 0 /\ coldBuf = {} /\ hotBuf = (cnt + c + 1)..(cnt + c + h)
  BY NothingCold DEF SummaryInv, BufferedInv, BuffersHave
<1>2. cnt \in Nat
  BY Naturals
<1>3. (cnt + h + 1)..(cnt + h + 0) = {}
  BY <1>2
<1> QED BY <1>1, <1>2, <1>3 DEF SwapBufs

LEMMA Flushed ==
    ASSUME SummaryInv, FlushColdBuf, NEW c \in Nat, NEW h \in Nat, NEW u \in {0, 1}, BuffersHave(c, h, u), UNCHANGED hotBuf
    PROVE  /\ cnt' = cnt + c
           /\ coldBuf' = (cnt' + 1)..(cnt' + 0)
           /\ hotBuf' = (cnt' + 0 + 1)..(cnt' + 0 + h)
<1>1. coldBuf = (cnt + 1)..(cnt + c) /\ hotBuf = (cnt + c + 1)..(cnt + c + h)
  BY DEF BuffersHave
<1>2. cnt \in Nat
  BY Naturals
<1>3. cnt' = cnt + c
  BY <1>1, <1>2, IntervalSize DEF FlushColdBuf
<1>4. coldBuf' = {}
  BY DEF FlushColdBuf
<1>5. (cnt' + 1)..(cnt' + 0) = {}
  BY <1>2, <1>3
<1> QED BY <1>1, <1>2, <1>3, <1>4, <1>5

\* The observation that Observe makes follows those that have been made.
LEMMA ObserveMakes ==
    ASSUME SummaryInv, NEW p \in Observers, Observe(p),
           NEW c \in Nat, NEW h \in Nat, NEW u \in {0, 1}, BuffersHave(c, h, u)
    PROVE  \E o \in Observations :
             /\ o = cnt + c + h + 1 /\ mine'[p].obs = o
             /\ at' = [at EXCEPT ![o] = now + 1] /\ mine' = [mine EXCEPT ![p].obs = o]
             /\ Made = 1..(cnt + c + h) /\ Made' = 1..(cnt + c + h + 1)
<1>0. objectives /\ bufMtx = Nil /\ cnt \in Nat /\ Made = 1..(cnt + c + h + u) /\ SummaryTypes
  BY Naturals DEF SummaryInv, Observe, BuffersHave
<1>1. u = 0
  BY <1>0, NotMaking, Distinct
<1>2. PICK o \in Observations : /\ o = Cardinality({x \in Observations : at[x] # 0}) + 1
                                /\ at' = [at EXCEPT ![o] = now + 1] /\ mine' = [mine EXCEPT ![p].obs = o]
  BY DEF Observe
<1>3. o = cnt + c + h + 1
  <2>1. Cardinality((0 + 1)..(0 + (cnt + c + h))) = cnt + c + h
    <3>1. cnt + c + h \in Nat
      BY <1>0
    <3> QED BY <3>1, IntervalSize
  <2>2. {x \in Observations : at[x] # 0} = (0 + 1)..(0 + (cnt + c + h))
    BY <1>0, <1>1 DEF Made
  <2> QED BY <1>2, <2>1, <2>2
<1>4. Made' = Made \cup {o}
  <2>1. now + 1 # 0 /\ at \in [Observations -> 0..(MaxTime + 1)]
    BY <1>0, SummaryAssumption DEF SummaryTypes, BufferTypes, ControlTypes
  <2>2. \A x \in Observations : at'[x] = IF x = o THEN now + 1 ELSE at[x]
    BY <1>2, <2>1
  <2>3. \A x \in Observations : at'[x] # 0 <=> at[x] # 0 \/ x = o
    BY <2>1, <2>2
  <2> QED BY <2>3 DEF Made
<1>5. Made = 1..(cnt + c + h) /\ Made' = 1..(cnt + c + h + 1)
  BY <1>0, <1>1, <1>3, <1>4
<1>6. mine'[p].obs = o
  BY <1>0, <1>2 DEF SummaryTypes, BufferTypes
<1> QED BY <1>2, <1>3, <1>5, <1>6

LEMMA BuffersHaveStep ==
    ASSUME SummaryInv, SummaryNext, objectives
    PROVE  \E c, h \in Nat, u \in {0, 1} : BuffersHave(c, h, u)'
<1>0. objectives' /\ LocksInv /\ LocksInv' /\ SummaryTypes
  BY LocksStep, ObjectivesCases DEF SummaryInv
<1>a. Observers \subseteq Procs /\ Writers \subseteq Procs
  BY DEF Procs
<1>b. /\ cnt \in Nat /\ returned \in Nat
      /\ \A w \in Writers : calls[w] \in Nat /\ out[w].count \in Nat /\ out[w].sum \in Nat
  BY Naturals
<1> PICK c \in Nat, h \in Nat, u \in {0, 1} : BuffersHave(c, h, u)
  BY BuffersHold
<1>c. /\ coldBuf = (cnt + 1)..(cnt + c) /\ hotBuf = (cnt + c + 1)..(cnt + c + h)
      /\ Made = 1..(cnt + c + h + u)
  BY DEF BuffersHave
<1>d. /\ u = 1 <=> BeingMade
      /\ \A p \in Observers : pc[p] \in {"expired", "append"} => mine[p].obs = cnt + c + h + 1
      /\ \A p \in Observers : pc[p] = "full" => mine[p].obs = cnt + c + h
  BY DEF BuffersHave
<1>e. /\ returned = cnt + c + h + u - IF bufMtx \in Observers THEN 1 ELSE 0
      /\ \A w \in Writers : pc[w] = "flush" => calls[w] <= cnt + c
      /\ \A w \in Writers : pc[w] = "rest" => out[w].count <= cnt
  BY DEF BuffersHave
<1>1. CASE Tick
  <2>1. UNCHANGED <<pc, mine, at, bufMtx, mtx, hotBuf, coldBuf, cnt, returned, calls, out>>
    BY <1>1 DEF Tick, bufVars, streamVars, callVars
  <2>2. Made' = Made /\ BeingMade' = BeingMade
    BY <2>1 DEF Made, BeingMade
  <2>3. BuffersHave(c, h, u)'
    BY <1>0, <1>c, <1>d, <1>e, <2>1, <2>2 DEF BuffersHave
  <2> QED BY <2>3
<1>2. CASE Flush
  <2>1. FlushColdBuf /\ UNCHANGED <<pc, mine, at, bufMtx, hotBuf, returned, calls, out>> /\ mtx = Flusher
    BY <1>2 DEF Flush, callVars
  <2>2. Made' = Made /\ BeingMade' = BeingMade
    BY <2>1 DEF Made, BeingMade
  <2>3. cnt' = cnt + c /\ coldBuf' = (cnt' + 1)..(cnt' + 0) /\ hotBuf' = (cnt' + 0 + 1)..(cnt' + 0 + h)
    BY <2>1, Flushed
  <2>4. Made' = 1..(cnt' + 0 + h + u) /\ returned' = cnt' + 0 + h + u - IF bufMtx' \in Observers THEN 1 ELSE 0
    BY <1>b, <1>c, <1>e, <2>1, <2>2, <2>3
  <2>5. /\ \A p \in Observers : pc'[p] \in {"expired", "append"} => mine'[p].obs = cnt' + 0 + h + 1
        /\ \A p \in Observers : pc'[p] = "full" => mine'[p].obs = cnt' + 0 + h
    BY <1>b, <1>d, <2>1, <2>3
  <2>6. /\ \A w \in Writers : pc'[w] = "flush" => calls'[w] <= cnt' + 0
        /\ \A w \in Writers : pc'[w] = "rest" => out'[w].count <= cnt'
    BY <1>b, <1>e, <2>1, <2>3
  <2>7. BuffersHave(0, h, u)'
    BY <1>d, <2>2, <2>3, <2>4, <2>5, <2>6 DEF BuffersHave
  <2> QED BY <2>7
<1>3. ASSUME NEW p \in Observers, Observe(p) PROVE \E d, k \in Nat, v \in {0, 1} : BuffersHave(d, k, v)'
  <2>1. /\ bufMtx = Nil /\ bufMtx' = p /\ UNCHANGED <<mtx, hotBuf, coldBuf, cnt, returned, calls, out>>
    BY <1>3 DEF Observe, bufVars, streamVars, callVars
  <2>2. Moves(p, "expired") \/ Moves(p, "append")
    BY <1>0, <1>a, <1>3, GotoMoves DEF Observe
  <2>3. ~BeingMade /\ u = 0 /\ returned = cnt + c + h /\ \A q \in Observers : pc[q] = "rest"
    BY <2>1, NotMaking, Distinct
  <2>4. PICK o \in Observations : o = cnt + c + h + 1 /\ mine'[p].obs = o /\ Made' = 1..(cnt + c + h + 1)
    BY <1>3, ObserveMakes
  <2>7. BeingMade'
    BY <2>2 DEF BeingMade, Moves
  <2>9. /\ \A q \in Observers : pc'[q] \in {"expired", "append"} => mine'[q].obs = cnt' + c + h + 1
        /\ \A q \in Observers : pc'[q] = "full" => mine'[q].obs = cnt' + c + h
    BY <1>a, <2>1, <2>2, <2>3, <2>4 DEF Moves
  <2>10. returned' = cnt' + c + h + 1 - IF bufMtx' \in Observers THEN 1 ELSE 0
    BY <1>b, <2>1, <2>3
  <2>11. /\ \A w \in Writers : pc'[w] = "flush" => calls'[w] <= cnt' + c
         /\ \A w \in Writers : pc'[w] = "rest" => out'[w].count <= cnt'
    BY <1>a, <1>e, <2>1, <2>2, Distinct DEF Moves
  <2>12. BuffersHave(c, h, 1)'
    BY <1>c, <2>1, <2>4, <2>7, <2>9, <2>10, <2>11 DEF BuffersHave
  <2> QED BY <2>12
<1>4. ASSUME NEW p \in Observers, Expired(p) PROVE \E d, k \in Nat, v \in {0, 1} : BuffersHave(d, k, v)'
  <2>1. /\ pc[p] = "expired" /\ mtx = Nil /\ UNCHANGED <<mine, at, bufMtx, cnt, returned, calls, out>>
        /\ SwapBufs(at[mine[p].obs] - 1)
    BY <1>4 DEF Expired, AsyncFlush, streamVars, callVars
  <2>2. Moves(p, "append")
    BY <1>0, <1>a, <1>4, GotoMoves DEF Expired
  <2>3. coldBuf' = (cnt' + 1)..(cnt' + h) /\ hotBuf' = (cnt' + h + 1)..(cnt' + h + 0) /\ c = 0
    BY <2>1, Swapped, NothingCold
  <2>4. BeingMade /\ BeingMade' /\ Made' = Made /\ u = 1
    BY <1>d, <2>1, <2>2 DEF BeingMade, Made, Moves
  <2>5. Made' = 1..(cnt' + h + 0 + 1) /\ returned' = cnt' + h + 0 + 1 - IF bufMtx' \in Observers THEN 1 ELSE 0
    BY <1>b, <1>c, <1>e, <2>1, <2>3, <2>4
  <2>6. \A q \in Observers : q # p => pc[q] = "rest"
    BY <1>0, <2>1 DEF LocksInv
  <2>7. /\ \A q \in Observers : pc'[q] \in {"expired", "append"} => mine'[q].obs = cnt' + h + 0 + 1
        /\ \A q \in Observers : pc'[q] = "full" => mine'[q].obs = cnt' + h + 0
    BY <1>a, <1>b, <1>d, <2>1, <2>2, <2>3, <2>6 DEF Moves
  <2>8. /\ \A w \in Writers : pc'[w] = "flush" => calls'[w] <= cnt' + h
        /\ \A w \in Writers : pc'[w] = "rest" => out'[w].count <= cnt'
    BY <1>a, <1>b, <1>e, <2>1, <2>2, <2>3, Distinct DEF Moves
  <2>9. BuffersHave(h, 0, 1)'
    BY <2>3, <2>4, <2>5, <2>7, <2>8 DEF BuffersHave
  <2> QED BY <2>9
<1>5. ASSUME NEW p \in Observers, AppendToBuf(p) PROVE \E d, k \in Nat, v \in {0, 1} : BuffersHave(d, k, v)'
  <2>1. /\ pc[p] = "append" /\ UNCHANGED <<mine, at, mtx, coldBuf, cnt, calls, out>>
        /\ hotBuf' = hotBuf \cup {mine[p].obs}
    BY <1>5 DEF AppendToBuf, streamVars
  <2>2. \/ Goto(p, "full") /\ bufMtx' = bufMtx /\ returned' = returned
        \/ Goto(p, "rest") /\ bufMtx' = Nil /\ returned' = returned + 1
    BY <1>5 DEF AppendToBuf
  <2>3. \/ Moves(p, "full") /\ bufMtx' = bufMtx /\ returned' = returned
        \/ Moves(p, "rest") /\ bufMtx' = Nil /\ returned' = returned + 1
    BY <1>0, <1>a, <2>2, GotoMoves
  <2>4. BeingMade /\ u = 1 /\ mine[p].obs = cnt + c + h + 1 /\ bufMtx = p
    BY <1>0, <1>d, <2>1 DEF BeingMade, LocksInv
  <2>5. \A q \in Observers : q # p => pc[q] = "rest"
    BY <1>0, <2>4 DEF LocksInv
  <2>6. ~BeingMade' /\ Made' = Made
    BY <1>a, <2>1, <2>3, <2>5 DEF BeingMade, Made, Moves
  <2>7. hotBuf' = (cnt' + c + 1)..(cnt' + c + (h + 1)) /\ coldBuf' = (cnt' + 1)..(cnt' + c)
    BY <1>b, <1>c, <2>1, <2>4
  <2>8. Made' = 1..(cnt' + c + (h + 1) + 0)
    BY <1>b, <1>c, <2>1, <2>4, <2>6
  <2>9. returned' = cnt' + c + (h + 1) + 0 - IF bufMtx' \in Observers THEN 1 ELSE 0
    BY <1>b, <1>e, <2>1, <2>3, <2>4, Distinct
  <2>10. /\ \A q \in Observers : pc'[q] \in {"expired", "append"} => mine'[q].obs = cnt' + c + (h + 1) + 1
         /\ \A q \in Observers : pc'[q] = "full" => mine'[q].obs = cnt' + c + (h + 1)
    BY <1>a, <1>b, <2>1, <2>3, <2>4, <2>5 DEF Moves
  <2>11. /\ \A w \in Writers : pc'[w] = "flush" => calls'[w] <= cnt' + c
         /\ \A w \in Writers : pc'[w] = "rest" => out'[w].count <= cnt'
    BY <1>a, <1>e, <2>1, <2>3, Distinct DEF Moves
  <2>12. BuffersHave(c, h + 1, 0)'
    BY <2>6, <2>7, <2>8, <2>9, <2>10, <2>11 DEF BuffersHave
  <2>13. h + 1 \in Nat
    OBVIOUS
  <2> QED BY <2>12, <2>13
<1>6. ASSUME NEW p \in Observers, Full(p) PROVE \E d, k \in Nat, v \in {0, 1} : BuffersHave(d, k, v)'
  <2>1. /\ pc[p] = "full" /\ mtx = Nil /\ bufMtx' = Nil /\ returned' = returned + 1
        /\ UNCHANGED <<mine, at, cnt, calls, out>>
        /\ SwapBufs(at[mine[p].obs] - 1)
    BY <1>6 DEF Full, AsyncFlush, streamVars
  <2>2. Moves(p, "rest")
    BY <1>0, <1>a, <1>6, GotoMoves DEF Full
  <2>3. coldBuf' = (cnt' + 1)..(cnt' + h) /\ hotBuf' = (cnt' + h + 1)..(cnt' + h + 0) /\ c = 0
    BY <2>1, Swapped, NothingCold
  <2>4. bufMtx = p
    BY <1>0, <2>1 DEF LocksInv
  <2>5. \A q \in Observers : q # p => pc[q] = "rest"
    BY <1>0, <2>4 DEF LocksInv
  <2>6. ~BeingMade /\ ~BeingMade' /\ Made' = Made
    BY <1>a, <2>1, <2>2, <2>5 DEF BeingMade, Made, Moves
  <2>7. u = 0
    BY <1>d, <2>6
  <2>8. Made' = 1..(cnt' + h + 0 + 0) /\ returned' = cnt' + h + 0 + 0 - IF bufMtx' \in Observers THEN 1 ELSE 0
    BY <1>b, <1>c, <1>e, <2>1, <2>3, <2>4, <2>6, <2>7, Distinct
  <2>9. /\ \A q \in Observers : pc'[q] \in {"expired", "append"} => mine'[q].obs = cnt' + h + 0 + 1
        /\ \A q \in Observers : pc'[q] = "full" => mine'[q].obs = cnt' + h + 0
    BY <1>a, <2>2, <2>5 DEF Moves
  <2>10. /\ \A w \in Writers : pc'[w] = "flush" => calls'[w] <= cnt' + h
         /\ \A w \in Writers : pc'[w] = "rest" => out'[w].count <= cnt'
    <3>1. ASSUME NEW w \in Writers PROVE pc'[w] = pc[w]
      BY <2>2, Distinct DEF Moves, Procs
    <3>2. UNCHANGED <<calls, out, cnt>> /\ c = 0
      BY <2>1, <2>3
    <3> QED BY <1>a, <1>b, <1>e, <3>1, <3>2
  <2>11. BuffersHave(h, 0, 0)'
    BY <2>3, <2>6, <2>8, <2>9, <2>10 DEF BuffersHave
  <2> QED BY <2>11
<1>7. ASSUME NEW w \in Writers, WriteBegin(w) PROVE \E d, k \in Nat, v \in {0, 1} : BuffersHave(d, k, v)'
  <2>1. /\ bufMtx = Nil /\ bufMtx' = w /\ UNCHANGED <<mine, at, mtx, hotBuf, coldBuf, cnt, returned, out>>
        /\ calls' = [calls EXCEPT ![w] = returned]
    BY <1>7 DEF WriteBegin, bufVars, streamVars
  <2>2. Moves(w, "swap")
    BY <1>0, <1>a, <1>7, GotoMoves DEF WriteBegin
  <2>3. u = 0 /\ returned = cnt + c + h /\ \A q \in Observers : pc[q] = "rest"
    BY <2>1, NotMaking, Distinct
  <2>4. \A q \in Observers : pc'[q] = "rest"
    BY <1>a, <2>2, <2>3, Distinct DEF Moves
  <2>5. ~BeingMade' /\ Made' = Made
    BY <2>1, <2>4 DEF BeingMade, Made
  <2>6. returned' = cnt' + c + h + 0 - IF bufMtx' \in Observers THEN 1 ELSE 0
    BY <1>b, <2>1, <2>3, Distinct
  <2>7. /\ \A v \in Writers : pc'[v] = "flush" => calls'[v] <= cnt' + c
        /\ \A v \in Writers : pc'[v] = "rest" => out'[v].count <= cnt'
    BY <1>a, <1>e, <2>1, <2>2 DEF Moves
  <2>8. BuffersHave(c, h, 0)'
    BY <1>c, <2>1, <2>3, <2>4, <2>5, <2>6, <2>7 DEF BuffersHave
  <2> QED BY <2>8
<1>8. ASSUME NEW w \in Writers, WriteSwap(w) PROVE \E d, k \in Nat, v \in {0, 1} : BuffersHave(d, k, v)'
  <2>1. /\ pc[w] = "swap" /\ mtx = Nil /\ bufMtx' = Nil /\ SwapBufs(now)
        /\ UNCHANGED <<mine, at, cnt, returned, calls>> /\ out' = [out EXCEPT ![w].now = now]
    BY <1>8 DEF WriteSwap, streamVars
  <2>2. Moves(w, "flush")
    BY <1>0, <1>a, <1>8, GotoMoves DEF WriteSwap
  <2>3. coldBuf' = (cnt' + 1)..(cnt' + h) /\ hotBuf' = (cnt' + h + 1)..(cnt' + h + 0) /\ c = 0
    BY <2>1, Swapped, NothingCold
  <2>4. bufMtx = w
    BY <1>0, <2>1 DEF LocksInv
  <2>5. u = 0 /\ returned = cnt + c + h /\ \A q \in Observers : pc[q] = "rest"
    BY <2>4, NotMaking, Distinct
  <2>6. \A q \in Observers : pc'[q] = "rest"
    BY <1>a, <2>2, <2>5, Distinct DEF Moves
  <2>7. ~BeingMade' /\ Made' = Made
    BY <2>1, <2>6 DEF BeingMade, Made
  <2>8. Made' = 1..(cnt' + h + 0 + 0) /\ returned' = cnt' + h + 0 + 0 - IF bufMtx' \in Observers THEN 1 ELSE 0
    BY <1>b, <1>c, <2>1, <2>3, <2>5, <2>7, Distinct
  <2>9. calls[w] <= returned /\ \A v \in Writers : pc[v] # "flush"
    BY <1>0, <2>1, Distinct DEF SummaryInv, BufferedInv, LocksInv
  <2>10. \A v \in Writers : pc'[v] = "flush" => calls'[v] <= cnt' + h
    BY <1>a, <1>b, <2>1, <2>2, <2>3, <2>5, <2>9 DEF Moves
  <2>11. \A v \in Writers : pc'[v] = "rest" => out'[v].count <= cnt'
    BY <1>a, <1>e, <2>1, <2>2 DEF Moves
  <2>12. BuffersHave(h, 0, 0)'
    BY <2>3, <2>6, <2>7, <2>8, <2>10, <2>11 DEF BuffersHave
  <2> QED BY <2>12
<1>9. ASSUME NEW w \in Writers, WriteFlush(w) PROVE \E d, k \in Nat, v \in {0, 1} : BuffersHave(d, k, v)'
  <2>1. /\ pc[w] = "flush" /\ FlushColdBuf /\ UNCHANGED <<mine, at, bufMtx, hotBuf, returned, calls>>
        /\ out' = [out EXCEPT ![w] = [count |-> cnt', sum |-> cnt', head |-> streams'[headStreamIdx'],
                                      now |-> @.now]]
    BY <1>9 DEF WriteFlush
  <2>2. Moves(w, "rest")
    BY <1>0, <1>a, <1>9, GotoMoves DEF WriteFlush
  <2>3. cnt' = cnt + c /\ coldBuf' = (cnt' + 1)..(cnt' + 0) /\ hotBuf' = (cnt' + 0 + 1)..(cnt' + 0 + h)
    BY <2>1, Flushed
  <2>4. \A q \in Observers : pc'[q] = pc[q]
    BY <1>a, <2>2, Distinct DEF Moves
  <2>5. Made' = Made /\ BeingMade' = BeingMade
    BY <2>1, <2>4 DEF Made, BeingMade
  <2>6. Made' = 1..(cnt' + 0 + h + u) /\ returned' = cnt' + 0 + h + u - IF bufMtx' \in Observers THEN 1 ELSE 0
    BY <1>b, <1>c, <1>e, <2>1, <2>3, <2>5
  <2>7. /\ \A p \in Observers : pc'[p] \in {"expired", "append"} => mine'[p].obs = cnt' + 0 + h + 1
        /\ \A p \in Observers : pc'[p] = "full" => mine'[p].obs = cnt' + 0 + h
    BY <1>b, <1>d, <2>1, <2>3, <2>4
  <2>8. \A v \in Writers : pc'[v] = "flush" => calls'[v] <= cnt' + 0
    BY <1>a, <1>b, <1>e, <2>1, <2>2, <2>3 DEF Moves
  <2>9. out'[w].count = cnt' /\ \A v \in Writers : v # w => out'[v] = out[v]
    BY <1>0, <2>1 DEF SummaryTypes, CallTypes
  <2>10. \A v \in Writers : pc'[v] = "rest" => out'[v].count <= cnt'
    BY <1>a, <1>b, <1>e, <2>2, <2>3, <2>9 DEF Moves
  <2>11. BuffersHave(0, h, u)'
    BY <1>d, <2>3, <2>5, <2>6, <2>7, <2>8, <2>10 DEF BuffersHave
  <2> QED BY <2>11
<1> QED BY <1>1, <1>2, <1>3, <1>4, <1>5, <1>6, <1>7, <1>8, <1>9, ObjectivesCases

LEMMA BufferedStep ==
    ASSUME SummaryInv, SummaryNext
    PROVE  BufferedInv'
<1>0. CASE ~objectives
  BY <1>0, FreeCases DEF BufferedInv
<1> SUFFICES ASSUME objectives PROVE BufferedInv'
  BY <1>0
<1>1. objectives' /\ LocksInv /\ LocksInv' /\ SummaryTypes /\ BufferedInv
  BY LocksStep, ObjectivesCases DEF SummaryInv
<1>a. Observers \subseteq Procs /\ Writers \subseteq Procs
  BY DEF Procs
<1>2. /\ cnt \in Nat /\ returned \in Nat
      /\ \A w \in Writers : calls[w] \in Nat /\ out[w].count \in Nat /\ out[w].sum \in Nat
  BY Naturals
<1>3. /\ mtx = Nil => coldBuf = {}
      /\ \A w \in Writers : calls[w] <= returned
      /\ \A w \in Writers : pc[w] = "rest" => calls[w] <= out[w].count /\ out[w].count = out[w].sum
  BY <1>1 DEF BufferedInv
<1>4. (mtx = Nil => coldBuf = {})'
  <2>1. CASE Tick
    BY <1>3, <2>1 DEF Tick, bufVars
  <2>2. CASE Flush
    BY <2>2 DEF Flush, FlushColdBuf
  <2>3. ASSUME NEW p \in Observers, Observe(p) \/ AppendToBuf(p) PROVE (mtx = Nil => coldBuf = {})'
    BY <1>3, <2>3 DEF Observe, AppendToBuf, bufVars
  <2>4. ASSUME NEW p \in Observers, Expired(p) \/ Full(p) PROVE mtx' # Nil
    BY <2>4, Distinct DEF Expired, Full, AsyncFlush
  <2>5. ASSUME NEW w \in Writers, WriteBegin(w) \/ WriteFlush(w) PROVE (mtx = Nil => coldBuf = {})'
    BY <1>3, <2>5 DEF WriteBegin, WriteFlush, FlushColdBuf, bufVars
  <2>6. ASSUME NEW w \in Writers, WriteSwap(w) PROVE mtx' # Nil
    BY <2>6, Distinct DEF WriteSwap
  <2> QED BY <2>1, <2>2, <2>3, <2>4, <2>5, <2>6, ObjectivesCases
<1>5. /\ \A w \in Writers : calls'[w] <= returned'
      /\ \A w \in Writers : pc'[w] = "rest" => calls'[w] <= out'[w].count /\ out'[w].count = out'[w].sum
  <2> DEFINE Good == /\ \A w \in Writers : calls'[w] <= returned'
                     /\ \A w \in Writers : pc'[w] = "rest" => calls'[w] <= out'[w].count /\ out'[w].count = out'[w].sum
  <2>1. CASE Tick \/ Flush
    BY <1>3, <2>1 DEF Tick, Flush, callVars
  <2>2. ASSUME NEW p \in Observers, Observe(p) \/ Expired(p) \/ AppendToBuf(p) \/ Full(p) PROVE Good
    <3>1. calls' = calls /\ out' = out /\ (returned' = returned \/ returned' = returned + 1)
      BY <2>2 DEF Observe, Expired, AppendToBuf, Full, callVars
    <3>2. \E l : Goto(p, l)
      BY <2>2 DEF Observe, Expired, AppendToBuf, Full
    <3>3. \A w \in Writers : pc'[w] = pc[w]
      BY <1>1, <1>a, <3>2, GotoMoves, Distinct DEF Moves
    <3> QED BY <1>2, <1>3, <3>1, <3>3
  <2>3. ASSUME NEW w \in Writers, WriteBegin(w) PROVE Good
    <3>1. calls' = [calls EXCEPT ![w] = returned] /\ out' = out /\ returned' = returned
      BY <2>3 DEF WriteBegin
    <3>2. Moves(w, "swap")
      BY <1>1, <1>a, <2>3, GotoMoves DEF WriteBegin
    <3>3. calls'[w] = returned /\ \A v \in Writers : v # w => calls'[v] = calls[v]
      BY <1>1, <3>1 DEF SummaryTypes, CallTypes
    <3> QED BY <1>a, <1>2, <1>3, <3>1, <3>2, <3>3 DEF Moves
  <2>4. ASSUME NEW w \in Writers, WriteSwap(w) PROVE Good
    <3>1. UNCHANGED <<calls, returned>> /\ out' = [out EXCEPT ![w].now = now]
      BY <2>4 DEF WriteSwap
    <3>2. Moves(w, "flush")
      BY <1>1, <1>a, <2>4, GotoMoves DEF WriteSwap
    <3>3. \A v \in Writers : v # w => out'[v] = out[v]
      BY <1>1, <3>1 DEF SummaryTypes, CallTypes
    <3> QED BY <1>a, <1>2, <1>3, <3>1, <3>2, <3>3 DEF Moves
  <2>5. ASSUME NEW w \in Writers, WriteFlush(w) PROVE Good
    <3>1. /\ pc[w] = "flush" /\ FlushColdBuf /\ UNCHANGED <<returned, calls, hotBuf>>
          /\ out' = [out EXCEPT ![w] = [count |-> cnt', sum |-> cnt', head |-> streams'[headStreamIdx'],
                                        now |-> @.now]]
      BY <2>5 DEF WriteFlush
    <3>2. Moves(w, "rest")
      BY <1>1, <1>a, <2>5, GotoMoves DEF WriteFlush
    <3>3. /\ out'[w].count = cnt' /\ out'[w].sum = cnt'
          /\ \A v \in Writers : v # w => out'[v] = out[v]
      BY <1>1, <3>1 DEF SummaryTypes, CallTypes
    <3>4. PICK c \in Nat, h \in Nat, u \in {0, 1} : BuffersHave(c, h, u)
      BY BuffersHold
    <3>5. calls[w] <= cnt + c /\ cnt' = cnt + c
      BY <3>1, <3>4, Flushed DEF BuffersHave
    <3> QED BY <1>a, <1>2, <1>3, <3>1, <3>2, <3>3, <3>5 DEF Moves
  <2> HIDE DEF Good
  <2>6. Good
    BY <2>1, <2>2, <2>3, <2>4, <2>5, ObjectivesCases DEF Good
  <2> QED BY <2>6 DEF Good
<1> QED BY <1>4, <1>5, BuffersHaveStep DEF BufferedInv

-----------------------------------------------------------------------------
(* Without objectives: the two counts. *)

Busy == {p \in Observers : pc[p] # "rest"}
Pending(i) == At(i, {"sum", "count"})
Unsummed(i) == At(i, {"sum"})

LEMMA Sizes ==
    /\ IsFiniteSet(Busy) /\ Cardinality(Busy) \in Nat
    /\ \A i : IsFiniteSet(Pending(i)) /\ Cardinality(Pending(i)) \in Nat
    /\ \A i : IsFiniteSet(Unsummed(i)) /\ Cardinality(Unsummed(i)) \in Nat
    /\ \A i : Cardinality(Pending(i)) = 0 <=> Pending(i) = {}
    /\ \A i : Pending(i) = {} => Unsummed(i) = {} /\ Cardinality(Unsummed(i)) = 0
<1>1. ASSUME NEW S, S \subseteq Observers
      PROVE  IsFiniteSet(S) /\ Cardinality(S) \in Nat /\ (Cardinality(S) = 0 <=> S = {})
  <2>1. IsFiniteSet(S)
    BY <1>1, FS_Subset, SummaryAssumption
  <2> QED BY <2>1, FS_CardinalityType, FS_EmptySet
<1>2. Busy \subseteq Observers /\ \A i : Pending(i) \subseteq Observers /\ Unsummed(i) \subseteq Pending(i)
  BY DEF Busy, Pending, Unsummed, At
<1>3. \A i : Unsummed(i) \subseteq Observers
  BY <1>2
<1> QED BY <1>1, <1>2, <1>3

LEMMA Gains ==
    ASSUME NEW S, NEW T, IsFiniteSet(S), NEW p, p \notin S, T = S \cup {p}
    PROVE  Cardinality(T) = Cardinality(S) + 1
BY FS_AddElement

LEMMA Loses ==
    ASSUME NEW S, NEW T, IsFiniteSet(S), NEW p, p \in S, T = S \ {p}
    PROVE  Cardinality(T) = Cardinality(S) - 1
BY FS_RemoveElement

LEMMA CountsAre ==
    ASSUME SummaryInv
    PROVE  /\ hotIdx \in {0, 1} /\ Cold \in {0, 1} /\ Cold # hotIdx
           /\ started \in Nat /\ returned \in Nat
           /\ counts \in [{0, 1} -> [count : Nat, sum : Nat]]
           /\ \A i \in {0, 1} : counts[i].count \in Nat /\ counts[i].sum \in Nat
           /\ \A i \in {0, 1} : CountOf(i) = counts[i].count + Cardinality(Pending(i)) /\ CountOf(i) \in Nat
           /\ \A i \in {0, 1} : SumOf(i) = counts[i].sum + Cardinality(Unsummed(i)) /\ SumOf(i) \in Nat
           /\ \A p \in Observers : mine[p].counts \in {0, 1}
<1>1. FreeTypes /\ returned \in Nat /\ mine \in [Observers -> [obs : 0..MaxObservations, counts : {0, 1}]]
  BY DEF SummaryInv, SummaryTypes, CallTypes, BufferTypes
<1>2. hotIdx \in {0, 1} /\ Cold \in {0, 1} /\ Cold # hotIdx /\ started \in Nat
  BY <1>1 DEF FreeTypes, Cold
<1>3. counts \in [{0, 1} -> [count : Nat, sum : Nat]] /\ \A i \in {0, 1} : counts[i].count \in Nat /\ counts[i].sum \in Nat
  BY <1>1 DEF FreeTypes
<1>4. \A i \in {0, 1} : CountOf(i) = counts[i].count + Cardinality(Pending(i)) /\ CountOf(i) \in Nat
  BY <1>3, Sizes DEF CountOf, Pending
<1>5. \A i \in {0, 1} : SumOf(i) = counts[i].sum + Cardinality(Unsummed(i)) /\ SumOf(i) \in Nat
  BY <1>3, Sizes DEF SumOf, Unsummed
<1> QED BY <1>1, <1>2, <1>3, <1>4, <1>5

\* What Observe does to the counts, an observation d of them being new.
ObserveEffect(d) ==
    /\ started' = started + d
    /\ CountOf(hotIdx)' = CountOf(hotIdx) + d /\ SumOf(hotIdx)' = SumOf(hotIdx) + d
    /\ CountOf(Cold)' = CountOf(Cold) /\ SumOf(Cold)' = SumOf(Cold)
    /\ Pending(Cold)' \subseteq Pending(Cold)
    /\ returned' + Cardinality(Busy)' = returned + Cardinality(Busy) + d

LEMMA FreeEffect ==
    ASSUME SummaryInv, NEW p \in Observers
    PROVE  /\ ObserveFree(p) => ObserveEffect(1)
           /\ AddSum(p) \/ AddCount(p) => ObserveEffect(0)
<1>a. p \in Procs /\ Observers \subseteq Procs /\ SummaryTypes
  BY DEF Procs, SummaryInv
<1>b. /\ IsFiniteSet(Busy) /\ Cardinality(Busy) \in Nat
      /\ \A i : IsFiniteSet(Pending(i)) /\ Cardinality(Pending(i)) \in Nat
      /\ \A i : IsFiniteSet(Unsummed(i)) /\ Cardinality(Unsummed(i)) \in Nat
  BY Sizes
<1>1. ASSUME ObserveFree(p) PROVE ObserveEffect(1)
  <2>1. /\ pc[p] = "rest" /\ UNCHANGED <<hotIdx, counts, returned>> /\ started' = started + 1
        /\ mine' = [mine EXCEPT ![p].counts = hotIdx]
    BY <1>1 DEF ObserveFree, callVars
  <2>2. pc'[p] = "sum" /\ \A q \in Observers : q # p => pc'[q] = pc[q]
    BY <1>1, <1>a, GotoMoves DEF ObserveFree, Moves
  <2>3. mine'[p].counts = hotIdx /\ \A q \in Observers : q # p => mine'[q] = mine[q]
    BY <1>a, <2>1 DEF SummaryTypes, BufferTypes
  <2>4. Cold' = Cold /\ Cold # hotIdx /\ hotIdx \in {0, 1} /\ Cold \in {0, 1}
    BY <2>1, CountsAre DEF Cold
  <2>5. /\ Busy' = Busy \cup {p} /\ p \notin Busy
        /\ Pending(hotIdx)' = Pending(hotIdx) \cup {p} /\ p \notin Pending(hotIdx)
        /\ Unsummed(hotIdx)' = Unsummed(hotIdx) \cup {p} /\ p \notin Unsummed(hotIdx)
        /\ Pending(Cold)' = Pending(Cold) /\ Unsummed(Cold)' = Unsummed(Cold)
    BY <2>1, <2>2, <2>3, <2>4 DEF Busy, Pending, Unsummed, At
  <2>6. /\ Cardinality(Busy)' = Cardinality(Busy) + 1
        /\ Cardinality(Pending(hotIdx)') = Cardinality(Pending(hotIdx)) + 1
        /\ Cardinality(Unsummed(hotIdx)') = Cardinality(Unsummed(hotIdx)) + 1
    BY <1>b, <2>5, Gains
  <2>7. /\ CountOf(hotIdx)' = counts[hotIdx].count + Cardinality(Pending(hotIdx)')
        /\ SumOf(hotIdx)' = counts[hotIdx].sum + Cardinality(Unsummed(hotIdx)')
        /\ CountOf(Cold)' = counts[Cold].count + Cardinality(Pending(Cold)')
        /\ SumOf(Cold)' = counts[Cold].sum + Cardinality(Unsummed(Cold)')
    BY <2>1, <2>4 DEF CountOf, SumOf, Pending, Unsummed
  <2> QED BY <1>b, <2>1, <2>4, <2>5, <2>6, <2>7, CountsAre DEF ObserveEffect
<1>2. ASSUME AddSum(p) PROVE ObserveEffect(0)
  <2> PICK i \in {0, 1} : i = mine[p].counts
    BY CountsAre
  <2>1. /\ pc[p] = "sum" /\ UNCHANGED <<hotIdx, started, returned, mine>>
        /\ counts' = [counts EXCEPT ![i].sum = @ + 1]
    BY <1>2 DEF AddSum, callVars
  <2>2. pc'[p] = "count" /\ \A q \in Observers : q # p => pc'[q] = pc[q]
    BY <1>2, <1>a, GotoMoves DEF AddSum, Moves
  <2>3. i \in {0, 1} /\ hotIdx \in {0, 1} /\ Cold \in {0, 1} /\ Cold' = Cold
    BY <2>1, CountsAre DEF Cold
  <2>4. /\ Busy' = Busy
        /\ \A k \in {0, 1} : Pending(k)' = Pending(k)
        /\ \A k \in {0, 1} : k # i => Unsummed(k)' = Unsummed(k)
        /\ Unsummed(i)' = Unsummed(i) \ {p} /\ p \in Unsummed(i)
    BY <2>1, <2>2, <2>3 DEF Busy, Pending, Unsummed, At
  <2>5. Cardinality(Unsummed(i)') = Cardinality(Unsummed(i)) - 1
    BY <1>b, <2>4, Loses
  <2>6. /\ counts'[i].sum = counts[i].sum + 1 /\ counts'[i].count = counts[i].count
        /\ \A k \in {0, 1} : k # i => counts'[k] = counts[k]
    BY <2>1, <2>3, CountsAre
  <2>7. ASSUME NEW k \in {0, 1} PROVE CountOf(k)' = CountOf(k) /\ SumOf(k)' = SumOf(k)
    <3>1. /\ CountOf(k)' = counts'[k].count + Cardinality(Pending(k)')
          /\ SumOf(k)' = counts'[k].sum + Cardinality(Unsummed(k)')
      BY DEF CountOf, SumOf, Pending, Unsummed
    <3>2. CASE k = i
      <4>1. /\ CountOf(i) = counts[i].count + Cardinality(Pending(i))
            /\ SumOf(i) = counts[i].sum + Cardinality(Unsummed(i)) /\ counts[i].sum \in Nat
        BY <2>3, CountsAre
      <4>2. CountOf(i)' = counts[i].count + Cardinality(Pending(i))
        BY <2>3, <2>4, <2>6, <3>1, <3>2
      <4>3. SumOf(i)' = (counts[i].sum + 1) + (Cardinality(Unsummed(i)) - 1) /\ Cardinality(Unsummed(i)) \in Nat
        BY <1>b, <2>5, <2>6, <3>1, <3>2
      <4> QED BY <3>2, <4>1, <4>2, <4>3
    <3>3. CASE k # i
      BY <1>b, <2>3, <2>4, <2>6, <3>1, <3>3, CountsAre
    <3> QED BY <3>2, <3>3
  <2>8. CountOf(hotIdx)' = CountOf(hotIdx) /\ SumOf(hotIdx)' = SumOf(hotIdx)
    <3>1. \A k \in {0, 1} : k = hotIdx => CountOf(hotIdx)' = CountOf(k)' /\ SumOf(hotIdx)' = SumOf(k)'
      BY <2>1
    <3> QED BY <2>3, <2>7, <3>1
  <2> QED BY <1>b, <2>1, <2>3, <2>4, <2>7, <2>8, CountsAre DEF ObserveEffect
<1>3. ASSUME AddCount(p) PROVE ObserveEffect(0)
  <2> PICK i \in {0, 1} : i = mine[p].counts
    BY CountsAre
  <2>1. /\ pc[p] = "count" /\ UNCHANGED <<hotIdx, started, mine>> /\ returned' = returned + 1
        /\ counts' = [counts EXCEPT ![i].count = @ + 1]
    BY <1>3 DEF AddCount
  <2>2. pc'[p] = "rest" /\ \A q \in Observers : q # p => pc'[q] = pc[q]
    BY <1>3, <1>a, GotoMoves DEF AddCount, Moves
  <2>3. i \in {0, 1} /\ hotIdx \in {0, 1} /\ Cold \in {0, 1} /\ Cold' = Cold
    BY <2>1, CountsAre DEF Cold
  <2>4. /\ Busy' = Busy \ {p} /\ p \in Busy
        /\ \A k \in {0, 1} : Unsummed(k)' = Unsummed(k)
        /\ \A k \in {0, 1} : k # i => Pending(k)' = Pending(k)
        /\ Pending(i)' = Pending(i) \ {p} /\ p \in Pending(i)
    BY <2>1, <2>2, <2>3 DEF Busy, Pending, Unsummed, At
  <2>5. Cardinality(Pending(i)') = Cardinality(Pending(i)) - 1 /\ Cardinality(Busy') = Cardinality(Busy) - 1
    BY <1>b, <2>4, Loses
  <2>6. /\ counts'[i].count = counts[i].count + 1 /\ counts'[i].sum = counts[i].sum
        /\ \A k \in {0, 1} : k # i => counts'[k] = counts[k]
    BY <2>1, <2>3, CountsAre
  <2>7. ASSUME NEW k \in {0, 1} PROVE CountOf(k)' = CountOf(k) /\ SumOf(k)' = SumOf(k) /\ Pending(k)' \subseteq Pending(k)
    <3>1. /\ CountOf(k)' = counts'[k].count + Cardinality(Pending(k)')
          /\ SumOf(k)' = counts'[k].sum + Cardinality(Unsummed(k)')
      BY DEF CountOf, SumOf, Pending, Unsummed
    <3>a. /\ CountOf(k) = counts[k].count + Cardinality(Pending(k))
          /\ SumOf(k) = counts[k].sum + Cardinality(Unsummed(k))
          /\ counts[k].count \in Nat /\ counts[k].sum \in Nat
      BY CountsAre
    <3>2. CASE k = i
      <4>1. CountOf(k)' = counts[k].count + 1 + (Cardinality(Pending(k)) - 1)
        BY <2>5, <2>6, <3>1, <3>2
      <4>2. SumOf(k)' = SumOf(k) /\ Pending(k)' \subseteq Pending(k)
        BY <2>4, <2>6, <3>1, <3>2, <3>a
      <4> QED BY <1>b, <3>a, <4>1, <4>2
    <3>3. CASE k # i
      BY <1>b, <2>3, <2>4, <2>6, <3>1, <3>3, CountsAre
    <3> QED BY <3>2, <3>3
  <2>8. CountOf(hotIdx)' = CountOf(hotIdx) /\ SumOf(hotIdx)' = SumOf(hotIdx)
    <3>1. \A k \in {0, 1} : k = hotIdx => CountOf(hotIdx)' = CountOf(k)' /\ SumOf(hotIdx)' = SumOf(k)'
      BY <2>1
    <3> QED BY <2>3, <2>7, <3>1
  <2> QED BY <1>b, <2>1, <2>3, <2>4, <2>5, <2>7, <2>8, CountsAre DEF ObserveEffect
<1> QED BY <1>1, <1>2, <1>3

\* The invariant, in terms of what FreeEffect says.
LEMMA FreeIs ==
    ASSUME SummaryInv, ~objectives
    PROVE  /\ returned + Cardinality(Busy) = started
           /\ mtx = Nil =>
                /\ CountOf(hotIdx) = started /\ SumOf(hotIdx) = started
                /\ CountOf(Cold) = 0 /\ SumOf(Cold) = 0
           /\ \A w \in Writers :
                /\ calls[w] <= out[w].count /\ out[w].count <= started
                /\ pc[w] # "cool" => out[w].sum = out[w].count
                /\ pc[w] = "cool" => CountOf(Cold) = out[w].count /\ SumOf(Cold) = out[w].count
                /\ pc[w] = "mergeCount" => CountOf(Cold) = out[w].count /\ Pending(Cold) = {}
                /\ pc[w] \in {"cool", "mergeCount"} =>
                     CountOf(hotIdx) + out[w].count = started /\ SumOf(hotIdx) + out[w].count = started
                /\ pc[w] = "mergeSum" =>
                     /\ CountOf(Cold) = 0 /\ Pending(Cold) = {}
                     /\ CountOf(hotIdx) = started /\ SumOf(hotIdx) + out[w].count = started
BY DEF SummaryInv, FreeInv, Busy, Pending

\* Only the goroutine that has mtx is in the middle of a Write.
LEMMA OneWriter ==
    ASSUME LocksInv, ~objectives, NEW w \in Writers, pc[w] # "rest"
    PROVE  mtx = w /\ mtx # Nil /\ \A v \in Writers : v # w => pc[v] = "rest"
BY Distinct DEF LocksInv

LEMMA FreeStep ==
    ASSUME SummaryInv, SummaryNext
    PROVE  FreeInv'
<1>0. CASE objectives
  BY <1>0, ObjectivesCases DEF FreeInv
<1> SUFFICES ASSUME ~objectives PROVE FreeInv'
  BY <1>0
<1>a. LocksInv /\ LocksInv' /\ SummaryTypes /\ Observers \subseteq Procs /\ Writers \subseteq Procs
  BY LocksStep DEF SummaryInv, Procs
<1>b. /\ returned + Cardinality(Busy) = started
      /\ mtx = Nil =>
           /\ CountOf(hotIdx) = started /\ SumOf(hotIdx) = started
           /\ CountOf(Cold) = 0 /\ SumOf(Cold) = 0
  BY FreeIs
<1>c. /\ hotIdx \in {0, 1} /\ Cold \in {0, 1} /\ Cold # hotIdx /\ started \in Nat /\ returned \in Nat
      /\ CountOf(hotIdx) \in Nat /\ SumOf(hotIdx) \in Nat /\ CountOf(Cold) \in Nat /\ SumOf(Cold) \in Nat
      /\ Cardinality(Busy) \in Nat
      /\ \A w \in Writers : calls[w] \in Nat /\ out[w].count \in Nat /\ out[w].sum \in Nat
  BY CountsAre, Sizes, Naturals
<1> DEFINE WriteKeeps(w) ==
      /\ calls[w] <= out[w].count /\ out[w].count <= started
      /\ pc[w] # "cool" => out[w].sum = out[w].count
      /\ pc[w] = "cool" => CountOf(Cold) = out[w].count /\ SumOf(Cold) = out[w].count
      /\ pc[w] = "mergeCount" => CountOf(Cold) = out[w].count /\ Pending(Cold) = {}
      /\ pc[w] \in {"cool", "mergeCount"} =>
           CountOf(hotIdx) + out[w].count = started /\ SumOf(hotIdx) + out[w].count = started
      /\ pc[w] = "mergeSum" =>
           /\ CountOf(Cold) = 0 /\ Pending(Cold) = {}
           /\ CountOf(hotIdx) = started /\ SumOf(hotIdx) + out[w].count = started
      NewInv ==
      /\ returned' + Cardinality(Busy)' = started'
      /\ mtx' = Nil =>
           /\ CountOf(hotIdx)' = started' /\ SumOf(hotIdx)' = started'
           /\ CountOf(Cold)' = 0 /\ SumOf(Cold)' = 0
      /\ \A w \in Writers : WriteKeeps(w)'
<1>d. \A w \in Writers : WriteKeeps(w)
  BY FreeIs
<1>e. NewInv => FreeInv'
  BY DEF FreeInv, Busy, Pending
<1>1. ASSUME NEW p \in Observers, ObserveFree(p) \/ AddSum(p) \/ AddCount(p) PROVE NewInv
  <2>1. PICK d \in {0, 1} : ObserveEffect(d)
    BY <1>1, FreeEffect
  <2>2. UNCHANGED <<mtx, calls, out>>
    BY <1>1 DEF ObserveFree, AddSum, AddCount, callVars
  <2>3. \E l : Goto(p, l)
    BY <1>1 DEF ObserveFree, AddSum, AddCount
  <2>4. \A w \in Writers : pc'[w] = pc[w]
    BY <1>a, <2>3, GotoMoves, Distinct DEF Moves
  <2>5. started' = started + d /\ returned' + Cardinality(Busy)' = started'
    BY <1>b, <1>c, <2>1 DEF ObserveEffect
  <2>6. mtx' = Nil => /\ CountOf(hotIdx)' = started' /\ SumOf(hotIdx)' = started'
                      /\ CountOf(Cold)' = 0 /\ SumOf(Cold)' = 0
    BY <1>b, <1>c, <2>1, <2>2 DEF ObserveEffect
  <2>7. ASSUME NEW w \in Writers PROVE WriteKeeps(w)'
    <3>1. WriteKeeps(w)
      BY <1>d
    <3>2. calls'[w] = calls[w] /\ out'[w] = out[w] /\ pc'[w] = pc[w]
      BY <2>2, <2>4
    <3>3. /\ CountOf(hotIdx)' = CountOf(hotIdx) + d /\ SumOf(hotIdx)' = SumOf(hotIdx) + d
          /\ CountOf(Cold)' = CountOf(Cold) /\ SumOf(Cold)' = SumOf(Cold)
          /\ Pending(Cold)' \subseteq Pending(Cold)
      BY <2>1 DEF ObserveEffect
    <3>4. Pending(Cold) = {} => Pending(Cold)' = {}
      BY <3>3
    <3> QED BY <1>c, <2>5, <3>1, <3>2, <3>3, <3>4
  <2> QED BY <2>5, <2>6, <2>7
<1>2. ASSUME NEW w \in Writers, WriteFree(w) PROVE NewInv
  <2>1. /\ pc[w] = "rest" /\ mtx = Nil /\ mtx' = w /\ hotIdx' = 1 - hotIdx
        /\ UNCHANGED <<mine, started, counts, returned>>
        /\ calls' = [calls EXCEPT ![w] = returned]
        /\ out' = [out EXCEPT ![w] = [Nothing EXCEPT !.count = started]]
    BY <1>2 DEF WriteFree
  <2>2. pc'[w] = "cool" /\ \A q \in Procs : q # w => pc'[q] = pc[q]
    BY <1>2, <1>a, GotoMoves DEF WriteFree, Moves
  <2>3. \A p \in Observers : pc'[p] = pc[p]
    BY <1>a, <2>2, Distinct
  <2>4. Busy' = Busy /\ \A i : Pending(i)' = Pending(i) /\ CountOf(i)' = CountOf(i) /\ SumOf(i)' = SumOf(i)
    BY <2>1, <2>3 DEF Busy, Pending, CountOf, SumOf, At
  <2>5. hotIdx' = Cold /\ Cold' = hotIdx
    BY <1>c, <2>1 DEF Cold
  <2>6. /\ CountOf(hotIdx)' = 0 /\ SumOf(hotIdx)' = 0
        /\ CountOf(Cold)' = started /\ SumOf(Cold)' = started
    <3>1. \A i : /\ i = hotIdx' => CountOf(hotIdx)' = CountOf(i)' /\ SumOf(hotIdx)' = SumOf(i)'
                 /\ i = Cold' => CountOf(Cold)' = CountOf(i)' /\ SumOf(Cold)' = SumOf(i)'
      OBVIOUS
    <3> QED BY <1>b, <2>1, <2>4, <2>5, <3>1
  <2>7. returned' + Cardinality(Busy)' = started' /\ mtx' # Nil
    BY <1>b, <2>1, <2>4, Distinct
  <2>8. WriteKeeps(w)'
    <3>1. calls'[w] = returned /\ out'[w].count = started
      BY <1>a, <2>1 DEF SummaryTypes, CallTypes, Nothing
    <3>2. returned <= started
      BY <1>b, <1>c
    <3> QED BY <1>c, <2>1, <2>2, <2>6, <3>1, <3>2
  <2>9. ASSUME NEW v \in Writers, v # w PROVE WriteKeeps(v)'
    <3>1. calls'[v] = calls[v] /\ out'[v] = out[v] /\ pc'[v] = pc[v]
      BY <1>a, <2>1, <2>2, <2>9 DEF SummaryTypes, CallTypes
    <3>2. pc[v] = "rest"
      BY <1>a, <2>1, <2>9, Distinct DEF LocksInv
    <3>3. WriteKeeps(v)
      BY <1>d
    <3> QED BY <2>1, <3>1, <3>2, <3>3
  <2>10. \A v \in Writers : WriteKeeps(v)'
    BY <2>8, <2>9
  <2> QED BY <2>7, <2>10
<1>3. ASSUME NEW w \in Writers, Cool(w) \/ MergeCount(w) \/ MergeSum(w) PROVE NewInv
  <2>1. pc[w] # "rest" /\ UNCHANGED <<mine, hotIdx, started, returned, calls>>
    BY <1>3 DEF Cool, MergeCount, MergeSum, callVars, freeVars
  <2>2. mtx = w /\ mtx # Nil /\ \A v \in Writers : v # w => pc[v] = "rest"
    BY <1>a, <2>1, OneWriter
  <2>3. \E l : Goto(w, l)
    BY <1>3 DEF Cool, MergeCount, MergeSum
  <2>4. \A q \in Procs : q # w => pc'[q] = pc[q]
    BY <1>a, <2>3, GotoMoves DEF Moves
  <2>5. \A p \in Observers : pc'[p] = pc[p]
    BY <1>a, <2>4, Distinct
  <2>6. Busy' = Busy /\ \A i : Pending(i)' = Pending(i) /\ Unsummed(i)' = Unsummed(i)
    BY <2>1, <2>5 DEF Busy, Pending, Unsummed, At
  <2>7. Cold' = Cold /\ hotIdx' = hotIdx
    BY <2>1 DEF Cold
  <2>8. /\ CountOf(hotIdx)' = counts'[hotIdx].count + Cardinality(Pending(hotIdx))
        /\ SumOf(hotIdx)' = counts'[hotIdx].sum + Cardinality(Unsummed(hotIdx))
        /\ CountOf(Cold)' = counts'[Cold].count + Cardinality(Pending(Cold))
        /\ SumOf(Cold)' = counts'[Cold].sum + Cardinality(Unsummed(Cold))
        /\ Pending(Cold)' = Pending(Cold)
    <3>1. /\ CountOf(hotIdx)' = counts'[hotIdx'].count + Cardinality(Pending(hotIdx)')
          /\ SumOf(hotIdx)' = counts'[hotIdx'].sum + Cardinality(Unsummed(hotIdx)')
          /\ CountOf(Cold)' = counts'[Cold'].count + Cardinality(Pending(Cold)')
          /\ SumOf(Cold)' = counts'[Cold'].sum + Cardinality(Unsummed(Cold)')
      BY DEF CountOf, SumOf, Pending, Unsummed
    <3>2. /\ Pending(hotIdx)' = Pending(hotIdx) /\ Unsummed(hotIdx)' = Unsummed(hotIdx)
          /\ Pending(Cold)' = Pending(Cold) /\ Unsummed(Cold)' = Unsummed(Cold)
      BY <2>1, <2>5, <2>7 DEF Pending, Unsummed, At
    <3> QED BY <2>7, <3>1, <3>2
  <2>9. /\ CountOf(hotIdx) = counts[hotIdx].count + Cardinality(Pending(hotIdx))
        /\ SumOf(hotIdx) = counts[hotIdx].sum + Cardinality(Unsummed(hotIdx))
        /\ CountOf(Cold) = counts[Cold].count + Cardinality(Pending(Cold))
        /\ SumOf(Cold) = counts[Cold].sum + Cardinality(Unsummed(Cold))
        /\ counts[hotIdx].count \in Nat /\ counts[hotIdx].sum \in Nat
        /\ counts[Cold].count \in Nat /\ counts[Cold].sum \in Nat
        /\ counts \in [{0, 1} -> [count : Nat, sum : Nat]]
    BY <1>c, CountsAre
  <2>10. /\ Cardinality(Pending(hotIdx)) \in Nat /\ Cardinality(Unsummed(hotIdx)) \in Nat
         /\ Cardinality(Pending(Cold)) \in Nat /\ Cardinality(Unsummed(Cold)) \in Nat
         /\ Cardinality(Pending(Cold)) = 0 <=> Pending(Cold) = {}
         /\ Pending(Cold) = {} => Cardinality(Pending(Cold)) = 0 /\ Cardinality(Unsummed(Cold)) = 0
    BY Sizes
  <2>11. returned' + Cardinality(Busy)' = started'
    BY <1>b, <2>1, <2>6
  <2>12. ASSUME NEW v \in Writers, v # w, out'[v] = out[v] PROVE WriteKeeps(v)'
    <3>1. calls'[v] = calls[v] /\ pc'[v] = "rest" /\ pc[v] = "rest"
      BY <1>a, <2>1, <2>2, <2>4, <2>12
    <3>2. WriteKeeps(v)
      BY <1>d
    <3> QED BY <2>1, <2>12, <3>1, <3>2
  <2>13. WriteKeeps(w)
    BY <1>d
  <2>14. CASE Cool(w)
    <3>1. /\ pc[w] = "cool" /\ counts[1 - hotIdx].count = out[w].count /\ counts' = counts /\ mtx' = mtx
          /\ out' = [out EXCEPT ![w].sum = counts[1 - hotIdx].sum]
      BY <2>14 DEF Cool, freeVars
    <3>2. Moves(w, "mergeCount")
      BY <1>a, <2>14, GotoMoves DEF Cool
    <3>3. /\ out'[w].sum = counts[Cold].sum /\ out'[w].count = out[w].count
          /\ \A v \in Writers : v # w => out'[v] = out[v]
      BY <1>a, <3>1 DEF SummaryTypes, CallTypes, Outputs, Cold
    <3>4. counts[Cold].count = out[w].count /\ CountOf(Cold) = out[w].count /\ SumOf(Cold) = out[w].count
      BY <2>13, <3>1 DEF Cold
    <3>5. Pending(Cold) = {}
      <4>1. CountOf(Cold) = counts[Cold].count + Cardinality(Pending(Cold))
        BY <2>9
      <4>2. Cardinality(Pending(Cold)) \in Nat /\ counts[Cold].count \in Nat
        BY <2>9, <2>10
      <4>3. Cardinality(Pending(Cold)) = 0
        BY <3>4, <4>1, <4>2
      <4> QED BY <2>10, <4>3
    <3>6. counts[Cold].sum = out[w].count
      BY <1>c, <2>9, <2>10, <3>4, <3>5
    <3>7. /\ CountOf(hotIdx)' = CountOf(hotIdx) /\ SumOf(hotIdx)' = SumOf(hotIdx)
          /\ CountOf(Cold)' = CountOf(Cold) /\ Pending(Cold)' = {}
      BY <2>8, <2>9, <3>1, <3>5
    <3>8. WriteKeeps(w)'
      BY <2>1, <2>13, <3>1, <3>2, <3>3, <3>4, <3>6, <3>7 DEF Moves
    <3>9. \A v \in Writers : WriteKeeps(v)'
      BY <2>12, <3>3, <3>8
    <3> QED BY <2>2, <2>11, <3>1, <3>9
  <2>15. CASE MergeCount(w)
    <3>1. /\ pc[w] = "mergeCount" /\ out' = out /\ mtx' = mtx
          /\ counts' = [counts EXCEPT ![hotIdx].count = @ + out[w].count, ![1 - hotIdx].count = 0]
      BY <2>15 DEF MergeCount, callVars
    <3>2. Moves(w, "mergeSum")
      BY <1>a, <2>15, GotoMoves DEF MergeCount
    <3>3. /\ counts'[hotIdx].count = counts[hotIdx].count + out[w].count /\ counts'[hotIdx].sum = counts[hotIdx].sum
          /\ counts'[Cold].count = 0 /\ counts'[Cold].sum = counts[Cold].sum
      BY <1>c, <2>9, <3>1 DEF Cold
    <3>4. /\ Pending(Cold) = {} /\ out[w].sum = out[w].count
          /\ CountOf(hotIdx) + out[w].count = started /\ SumOf(hotIdx) + out[w].count = started
      BY <2>13, <3>1
    <3>5. CountOf(hotIdx)' = CountOf(hotIdx) + out[w].count /\ SumOf(hotIdx)' = SumOf(hotIdx)
      BY <1>c, <2>8, <2>9, <2>10, <3>3
    <3>6. CountOf(Cold)' = 0 /\ Pending(Cold)' = {}
      BY <2>8, <2>10, <3>3, <3>4
    <3>7. WriteKeeps(w)'
      BY <1>c, <2>1, <2>13, <3>1, <3>2, <3>4, <3>5, <3>6 DEF Moves
    <3>8. \A v \in Writers : WriteKeeps(v)'
      BY <2>12, <3>1, <3>7
    <3> QED BY <2>2, <2>11, <3>1, <3>8
  <2>16. CASE MergeSum(w)
    <3>1. /\ pc[w] = "mergeSum" /\ out' = out /\ mtx' = Nil
          /\ counts' = [counts EXCEPT ![hotIdx].sum = @ + out[w].sum, ![1 - hotIdx].sum = 0]
      BY <2>16 DEF MergeSum, callVars
    <3>2. Moves(w, "rest")
      BY <1>a, <2>16, GotoMoves DEF MergeSum
    <3>3. /\ counts'[hotIdx].sum = counts[hotIdx].sum + out[w].sum /\ counts'[hotIdx].count = counts[hotIdx].count
          /\ counts'[Cold].sum = 0 /\ counts'[Cold].count = counts[Cold].count
      BY <1>c, <2>9, <3>1 DEF Cold
    <3>4. /\ Pending(Cold) = {} /\ out[w].sum = out[w].count /\ CountOf(Cold) = 0
          /\ CountOf(hotIdx) = started /\ SumOf(hotIdx) + out[w].count = started
      BY <2>13, <3>1
    <3>5. SumOf(hotIdx)' = SumOf(hotIdx) + out[w].sum /\ CountOf(hotIdx)' = CountOf(hotIdx)
      BY <1>c, <2>8, <2>9, <2>10, <3>3
    <3>6. CountOf(Cold)' = 0 /\ SumOf(Cold)' = 0
      BY <2>8, <2>9, <2>10, <3>3, <3>4
    <3>7. WriteKeeps(w)'
      BY <2>1, <2>13, <3>1, <3>2, <3>4 DEF Moves
    <3>8. \A v \in Writers : WriteKeeps(v)'
      BY <2>12, <3>1, <3>7
    <3>9. /\ CountOf(hotIdx)' = started' /\ SumOf(hotIdx)' = started'
          /\ CountOf(Cold)' = 0 /\ SumOf(Cold)' = 0
      BY <2>1, <3>4, <3>5, <3>6
    <3> QED BY <2>11, <3>8, <3>9
  <2> QED BY <1>3, <2>14, <2>15, <2>16
<1> HIDE DEF NewInv
<1> QED BY <1>e, <1>1, <1>2, <1>3, FreeCases

-----------------------------------------------------------------------------
(* The ring of streams. *)

LEMMA Rings ==
    /\ AgeBuckets \in Nat /\ AgeBuckets > 0 /\ StreamDuration \in Nat /\ StreamDuration > 0
    /\ MaxTime \in Nat /\ MaxAge = AgeBuckets * StreamDuration /\ MaxAge \in Nat
    /\ \A i, j \in 0..(AgeBuckets - 1) : RankFrom(i, j) \in 0..(AgeBuckets - 1)
BY SummaryAssumption DEF MaxAge, RankFrom

\* The stream k after the head is the one of rank k.
LEMMA RankIs ==
    ASSUME NEW i \in 0..(AgeBuckets - 1), NEW h \in 0..(AgeBuckets - 1), NEW k \in 0..(AgeBuckets - 1)
    PROVE  i = (h + k) % AgeBuckets <=> RankFrom(i, h) = k
<1>1. CASE h + k < AgeBuckets
  <2>1. (h + k) % AgeBuckets = h + k
    <3>1. h + k = AgeBuckets * 0 + (h + k) /\ h + k \in 0..(AgeBuckets - 1)
      BY <1>1, Rings
    <3> QED BY <3>1, RemainderOf, SummaryAssumption
  <2> QED BY <1>1, <2>1, Rings DEF RankFrom
<1>2. CASE h + k >= AgeBuckets
  <2>1. (h + k) % AgeBuckets = h + k - AgeBuckets
    <3>1. h + k = AgeBuckets * 1 + (h + k - AgeBuckets) /\ h + k - AgeBuckets \in 0..(AgeBuckets - 1)
      BY <1>2, Rings
    <3> QED BY <3>1, RemainderOf, SummaryAssumption
  <2> QED BY <1>2, <2>1, Rings DEF RankFrom
<1> QED BY <1>1, <1>2, Rings

\* The streams that n rotations reset are those of a rank below n.
LEMMA ResetRanks ==
    ASSUME NEW i \in 0..(AgeBuckets - 1), NEW h \in 0..(AgeBuckets - 1), NEW n \in Nat
    PROVE  (\E k \in 0..(n - 1) : i = (h + k) % AgeBuckets) <=> RankFrom(i, h) < n
<1>1. ASSUME NEW k \in 0..(n - 1), i = (h + k) % AgeBuckets PROVE RankFrom(i, h) < n
  <2>1. CASE k < AgeBuckets
    <3>1. k \in 0..(AgeBuckets - 1)
      BY <2>1, Rings
    <3>2. RankFrom(i, h) = k
      BY <1>1, <3>1, RankIs
    <3> QED BY <3>2
  <2>2. CASE k >= AgeBuckets
    <3>1. RankFrom(i, h) \in 0..(AgeBuckets - 1)
      BY Rings
    <3> QED BY <2>2, <3>1, Rings
  <2> QED BY <2>1, <2>2, Rings
<1>2. ASSUME RankFrom(i, h) < n PROVE \E k \in 0..(n - 1) : i = (h + k) % AgeBuckets
  <2>1. PICK k : k = RankFrom(i, h)
    OBVIOUS
  <2>2. k \in 0..(AgeBuckets - 1)
    BY <2>1, Rings
  <2>3. i = (h + k) % AgeBuckets
    BY <2>1, <2>2, RankIs
  <2>4. k \in 0..(n - 1)
    BY <1>2, <2>1, <2>2, Rings
  <2> QED BY <2>3, <2>4
<1> QED BY <1>1, <1>2

\* After fewer rotations than there are streams, every rank is n lower, around the ring.
LEMMA RotatedRanks ==
    ASSUME NEW i \in 0..(AgeBuckets - 1), NEW h \in 0..(AgeBuckets - 1), NEW n \in 0..(AgeBuckets - 1)
    PROVE  RankFrom(i, (h + n) % AgeBuckets) =
             IF RankFrom(i, h) < n THEN RankFrom(i, h) - n + AgeBuckets ELSE RankFrom(i, h) - n
<1>1. CASE h + n < AgeBuckets
  <2>1. (h + n) % AgeBuckets = h + n
    <3>1. h + n = AgeBuckets * 0 + (h + n) /\ h + n \in 0..(AgeBuckets - 1)
      BY <1>1, Rings
    <3> QED BY <3>1, RemainderOf, SummaryAssumption
  <2> QED BY <1>1, <2>1, Rings DEF RankFrom
<1>2. CASE h + n >= AgeBuckets
  <2>1. (h + n) % AgeBuckets = h + n - AgeBuckets
    <3>1. h + n = AgeBuckets * 1 + (h + n - AgeBuckets) /\ h + n - AgeBuckets \in 0..(AgeBuckets - 1)
      BY <1>2, Rings
    <3> QED BY <3>1, RemainderOf, SummaryAssumption
  <2> QED BY <1>2, <2>1, Rings DEF RankFrom
<1> QED BY <1>1, <1>2, Rings

\* Where the age of a stream starts: a stream that is not reset keeps it, and one that is
\* reset starts at the expiration of the old head stream or later.
LEMMA AgesKept ==
    ASSUME NEW i \in 0..(AgeBuckets - 1), NEW h \in 0..(AgeBuckets - 1), NEW n \in Nat, NEW e \in Nat, NEW f \in Nat,
           f = e + n * StreamDuration
    PROVE  LET old == e - (AgeBuckets - RankFrom(i, h)) * StreamDuration
               new == f - (AgeBuckets - RankFrom(i, (h + n) % AgeBuckets)) * StreamDuration
           IN  /\ old \in Int /\ new \in Int /\ old <= e - StreamDuration
               /\ RankFrom(i, h) >= n => new = old
               /\ RankFrom(i, h) < n => new >= e
<1> DEFINE r == RankFrom(i, h)
           s == RankFrom(i, (h + n) % AgeBuckets)
<1>1. r \in 0..(AgeBuckets - 1) /\ s \in 0..(AgeBuckets - 1)
  <2>1. (h + n) % AgeBuckets \in 0..(AgeBuckets - 1)
    BY SummaryAssumption, RemainderRange
  <2> QED BY <2>1, Rings
<1>2. n < AgeBuckets => s = IF r < n THEN r - n + AgeBuckets ELSE r - n
  <2>1. ASSUME n < AgeBuckets PROVE n \in 0..(AgeBuckets - 1)
    BY <2>1, Rings
  <2> QED BY <2>1, RotatedRanks
<1> HIDE DEF r, s
<1>3. (AgeBuckets - r) * StreamDuration \in Int /\ (AgeBuckets - s) * StreamDuration \in Int
      /\ n * StreamDuration \in Int
  BY <1>1, Rings
<1>4. (AgeBuckets - r) * StreamDuration >= StreamDuration
  <2>1. 0 * StreamDuration + StreamDuration <= (AgeBuckets - r) * StreamDuration
    BY <1>1, Rings, MultiplesApart, SummaryAssumption
  <2> QED BY <2>1, <1>3, Rings
<1>5. ASSUME r >= n PROVE n * StreamDuration - (AgeBuckets - s) * StreamDuration = -((AgeBuckets - r) * StreamDuration)
  <2>1. s = r - n
    BY <1>1, <1>2, <1>5, Rings
  <2>2. AgeBuckets - s = (AgeBuckets - r) + n
    BY <1>1, <2>1, Rings
  <2>3. ASSUME NEW a \in Int PROVE (a + n) * StreamDuration = a * StreamDuration + n * StreamDuration
    BY Rings
  <2>4. AgeBuckets - r \in Int
    BY <1>1, Rings
  <2>5. (AgeBuckets - s) * StreamDuration = (AgeBuckets - r) * StreamDuration + n * StreamDuration
    BY <2>2, <2>3, <2>4
  <2> QED BY <1>3, <2>5
<1>6. ASSUME r < n PROVE (AgeBuckets - s) * StreamDuration <= n * StreamDuration
  <2>1. AgeBuckets - s \in Int /\ AgeBuckets - s <= n
    BY <1>1, <1>2, <1>6, Rings
  <2>2. CASE AgeBuckets - s = n
    BY <1>3, <2>2
  <2>3. CASE AgeBuckets - s < n
    <3>1. (AgeBuckets - s) * StreamDuration + StreamDuration <= n * StreamDuration
      BY <2>1, <2>3, MultiplesApart, SummaryAssumption
    <3> QED BY <1>3, <3>1, Rings
  <2> QED BY <2>1, <2>2, <2>3
<1>7. /\ e - (AgeBuckets - r) * StreamDuration \in Int /\ f - (AgeBuckets - s) * StreamDuration \in Int
      /\ e - (AgeBuckets - r) * StreamDuration <= e - StreamDuration
  BY <1>3, <1>4, Rings
<1>8. r >= n => f - (AgeBuckets - s) * StreamDuration = e - (AgeBuckets - r) * StreamDuration
  BY <1>3, <1>5
<1>9. r < n => f - (AgeBuckets - s) * StreamDuration >= e
  BY <1>3, <1>6
<1> QED BY <1>7, <1>8, <1>9 DEF r, s

-----------------------------------------------------------------------------
(* Flushes and swaps, and the times. *)

LEMMA TimesAre ==
    ASSUME SummaryInv
    PROVE  /\ now \in 0..MaxTime /\ now \in Nat /\ hotBufExpTime \in Nat /\ headStreamExpTime \in Nat /\ headStreamExpTime > 0
           /\ at \in [Observations -> 0..(MaxTime + 1)]
           /\ headStreamIdx \in 0..(AgeBuckets - 1)
           /\ streams \in [0..(AgeBuckets - 1) -> SUBSET Observations]
           /\ \A w \in Writers : out[w].now \in Nat
           /\ out \in [Writers -> Outputs]
           /\ mine \in [Observers -> [obs : 0..MaxObservations, counts : {0, 1}]]
<1>1. ControlTypes /\ BufferTypes /\ StreamTypes /\ CallTypes /\ headStreamExpTime > 0
  BY DEF SummaryInv, SummaryTypes, TimesInv
<1>2. now \in 0..MaxTime /\ now \in Nat
  BY <1>1, Rings DEF ControlTypes
<1>3. out \in [Writers -> Outputs] /\ \A w \in Writers : out[w].now \in Nat
  BY <1>1 DEF CallTypes, Outputs
<1>4. /\ hotBufExpTime \in Nat /\ at \in [Observations -> 0..(MaxTime + 1)]
      /\ mine \in [Observers -> [obs : 0..MaxObservations, counts : {0, 1}]]
  BY <1>1 DEF BufferTypes
<1>5. /\ headStreamExpTime \in Nat /\ headStreamIdx \in 0..(AgeBuckets - 1)
      /\ streams \in [0..(AgeBuckets - 1) -> SUBSET Observations]
  BY <1>1 DEF StreamTypes
<1> QED BY <1>1, <1>2, <1>3, <1>4, <1>5

LEMMA Later ==
    ASSUME NEW k \in Nat, NEW j \in Nat, NEW e \in Nat
    PROVE  \E m \in Nat : e + k * StreamDuration + j * StreamDuration = e + m * StreamDuration
<1>1. k + j \in Nat /\ e + k * StreamDuration + j * StreamDuration = e + (k + j) * StreamDuration
  BY Rings
<1> QED BY <1>1

LEMMA TimesStep ==
    ASSUME SummaryInv, SummaryNext
    PROVE  TimesInv'
<1>0. TimesInv /\ (objectives' <=> objectives)
  BY ObjectivesCases, FreeCases DEF SummaryInv
<1>1. ASSUME UNCHANGED <<headStreamExpTime, hotBufExpTime>>, mtx' = mtx \/ ~objectives PROVE TimesInv'
  BY <1>0, <1>1 DEF TimesInv
<1>2. ASSUME FlushColdBuf, UNCHANGED hotBufExpTime PROVE TimesInv'
  <2>1. headStreamExpTime' = hotBufExpTime'
    BY <1>2 DEF FlushColdBuf
  <2>2. hotBufExpTime' > 0
    <3>1. PICK k \in Nat : hotBufExpTime = headStreamExpTime + k * StreamDuration
      BY <1>0 DEF TimesInv
    <3>2. k * StreamDuration \in Nat
      BY Rings
    <3> QED BY <1>2, <3>1, <3>2, TimesAre
  <2>3. hotBufExpTime' = headStreamExpTime' + 0 * StreamDuration
    BY <1>2, <2>1, TimesAre, Rings
  <2> QED BY <2>1, <2>2, <2>3 DEF TimesInv
<1>3. ASSUME NEW t \in 0..MaxTime, SwapBufs(t), UNCHANGED headStreamExpTime, mtx' # Nil, objectives PROVE TimesInv'
  <2>1. PICK k \in Nat : hotBufExpTime = headStreamExpTime + k * StreamDuration
    BY <1>0 DEF TimesInv
  <2>2. PICK j \in Nat : hotBufExpTime' = hotBufExpTime + j * StreamDuration
    BY <1>3, NextExpIs, TimesAre DEF SwapBufs
  <2>3. PICK m \in Nat :
          headStreamExpTime + k * StreamDuration + j * StreamDuration = headStreamExpTime + m * StreamDuration
    <3>1. headStreamExpTime \in Nat
      BY TimesAre
    <3> QED BY <3>1, Later
  <2>4. hotBufExpTime' = headStreamExpTime + m * StreamDuration
    BY <2>1, <2>2, <2>3
  <2> QED BY <1>0, <1>3, <2>4 DEF TimesInv
<1>4. CASE Tick
  BY <1>1, <1>4 DEF Tick, bufVars, streamVars
<1>5. CASE Flush
  BY <1>2, <1>5 DEF Flush
<1>6. ASSUME NEW p \in Observers, \/ Observe(p) \/ AppendToBuf(p) \/ ObserveFree(p) \/ AddSum(p) \/ AddCount(p)
      PROVE  TimesInv'
  BY <1>1, <1>6 DEF Observe, AppendToBuf, ObserveFree, AddSum, AddCount, bufVars, streamVars
<1>7. ASSUME NEW p \in Observers, Expired(p) \/ Full(p) PROVE TimesInv'
  <2>1. at[mine[p].obs] - 1 \in 0..MaxTime /\ objectives
    BY <1>7, OwnObservation DEF SummaryInv, Expired, Full
  <2>2. SwapBufs(at[mine[p].obs] - 1) /\ mtx' = Flusher /\ UNCHANGED headStreamExpTime
    BY <1>7 DEF Expired, Full, AsyncFlush, streamVars
  <2> QED BY <1>3, <2>1, <2>2, Distinct
<1>8. ASSUME NEW w \in Writers, WriteBegin(w) PROVE TimesInv'
  BY <1>1, <1>8 DEF WriteBegin, bufVars, streamVars
<1>9. ASSUME NEW w \in Writers, WriteSwap(w) PROVE TimesInv'
  <2>1. objectives
    BY <1>9 DEF WriteSwap, SummaryInv, LocksInv
  <2>2. SwapBufs(now) /\ mtx' = w /\ UNCHANGED headStreamExpTime
    BY <1>9 DEF WriteSwap, streamVars
  <2> QED BY <1>3, <2>1, <2>2, Distinct, TimesAre
<1>10. ASSUME NEW w \in Writers, WriteFlush(w) PROVE TimesInv'
  BY <1>2, <1>10 DEF WriteFlush
<1>11. ASSUME NEW w \in Writers, WriteFree(w) \/ Cool(w) \/ MergeCount(w) \/ MergeSum(w) PROVE TimesInv'
  <2>1. ~objectives
    BY <1>11 DEF WriteFree, Cool, MergeCount, MergeSum, SummaryInv, LocksInv
  <2>2. UNCHANGED <<headStreamExpTime, hotBufExpTime>>
    BY <1>11 DEF WriteFree, Cool, MergeCount, MergeSum, bufVars, streamVars
  <2> QED BY <1>1, <2>1, <2>2
<1> QED BY <1>4, <1>5, <1>6, <1>7, <1>8, <1>9, <1>10, <1>11, SummaryCases

\* A flush puts the cold buffer into the streams, and resets those that have got too old.
LEMMA FlushStreams ==
    ASSUME SummaryInv, objectives, FlushColdBuf, UNCHANGED <<hotBufExpTime, hotBuf, at>>
    PROVE  /\ StreamsInv'
           /\ \A i \in 0..(AgeBuckets - 1) : streams'[i] =
                {o \in 1..cnt' : After(o, hotBufExpTime - (AgeBuckets - RankFrom(i, headStreamIdx')) * StreamDuration)}
           /\ cnt' \in Nat /\ cnt' >= cnt /\ 1..cnt' \subseteq Made
<1>0. StreamsInv /\ SummaryTypes /\ TimesInv /\ cnt \in Nat
  BY Naturals DEF SummaryInv, WindowInv
<1>1. PICK c \in Nat, h \in Nat, u \in {0, 1} : BuffersHave(c, h, u)
  BY BuffersHold
<1>2. coldBuf = (cnt + 1)..(cnt + c) /\ Made = 1..(cnt + c + h + u) /\ cnt' = cnt + c
  BY <1>1, Flushed DEF BuffersHave
<1>3. cnt' \in Nat /\ cnt' >= cnt /\ 1..cnt' \subseteq Made /\ 1..cnt' = 1..cnt \cup coldBuf
  BY <1>0, <1>2
<1>4. PICK n \in Nat : hotBufExpTime = headStreamExpTime + n * StreamDuration
  BY <1>0 DEF TimesInv
<1>5. (hotBufExpTime - headStreamExpTime) \div StreamDuration = n
  <2>1. hotBufExpTime - headStreamExpTime = n * StreamDuration
    <3>1. n * StreamDuration \in Nat
      BY Rings
    <3> QED BY <1>4, <3>1, TimesAre
  <2>2. (n * StreamDuration) \div StreamDuration = n
    BY QuotientOfMultiple, SummaryAssumption
  <2> QED BY <2>1, <2>2
<1>6. headStreamIdx' = (headStreamIdx + n) % AgeBuckets /\ headStreamExpTime' = hotBufExpTime /\ coldBuf' = {}
  BY <1>5 DEF FlushColdBuf, RotatedIdx
<1>7. ASSUME NEW i \in 0..(AgeBuckets - 1)
      PROVE  streams'[i] = IF RankFrom(i, headStreamIdx) < n THEN {} ELSE streams[i] \cup coldBuf
  <2>1. streams'[i] = IF \E k \in 0..(n - 1) : i = (headStreamIdx + k) % AgeBuckets THEN {} ELSE streams[i] \cup coldBuf
    BY <1>5, TimesAre DEF FlushColdBuf, Rotated
  <2> QED BY <2>1, ResetRanks, TimesAre
<1>8. \A o \in 1..cnt' : at[o] \in Nat /\ at[o] - 1 <= headStreamExpTime
  <2>1. 1..cnt' \subseteq Observations
    BY <1>3 DEF Made
  <2>2. \A o \in 1..cnt' : at[o] \in Nat
    <3>1. at \in [Observations -> 0..(MaxTime + 1)] /\ MaxTime \in Nat
      BY TimesAre, Rings
    <3> QED BY <2>1, <3>1
  <2> QED BY <1>0, <1>3, <2>2 DEF StreamsInv
<1>9. hotBufExpTime >= headStreamExpTime
  <2>1. n * StreamDuration \in Nat
    BY Rings
  <2> QED BY <1>4, <2>1, TimesAre
<1>10. \A o \in 1..cnt' : at[o] - 1 <= hotBufExpTime
  BY <1>8, <1>9, TimesAre
<1>11. ASSUME NEW i \in 0..(AgeBuckets - 1)
       PROVE  streams'[i] =
                {o \in 1..cnt' : After(o, hotBufExpTime - (AgeBuckets - RankFrom(i, headStreamIdx')) * StreamDuration)}
  <2> DEFINE old == headStreamExpTime - (AgeBuckets - RankFrom(i, headStreamIdx)) * StreamDuration
             new == hotBufExpTime - (AgeBuckets - RankFrom(i, headStreamIdx')) * StreamDuration
  <2>1. /\ old \in Int /\ new \in Int /\ old <= headStreamExpTime - StreamDuration
        /\ RankFrom(i, headStreamIdx) >= n => new = old
        /\ RankFrom(i, headStreamIdx) < n => new >= headStreamExpTime
    BY <1>4, <1>6, AgesKept, TimesAre
  <2>2. streams[i] = {o \in 1..cnt : After(o, old)}
    BY <1>0 DEF StreamsInv
  <2> HIDE DEF old, new
  <2>3. RankFrom(i, headStreamIdx) \in Int
    BY Rings, TimesAre
  <2>4. CASE RankFrom(i, headStreamIdx) < n
    <3>1. streams'[i] = {} /\ new >= headStreamExpTime
      BY <1>7, <2>1, <2>4
    <3>2. \A o \in 1..cnt' : ~After(o, new)
      BY <1>8, <2>1, <3>1, TimesAre DEF After
    <3>3. streams'[i] = {o \in 1..cnt' : After(o, new)}
      BY <3>1, <3>2
    <3> QED BY <3>3 DEF new
  <2>5. CASE RankFrom(i, headStreamIdx) >= n
    <3>0. ~(RankFrom(i, headStreamIdx) < n)
      BY <2>3, <2>5
    <3>1. streams'[i] = streams[i] \cup coldBuf /\ new = old
      BY <1>7, <2>1, <2>5, <3>0
    <3>2. \A o \in coldBuf : After(o, headStreamExpTime - StreamDuration) /\ at[o] \in Nat
      BY <1>0, <1>3, <1>8 DEF StreamsInv
    <3>3. ASSUME NEW o \in coldBuf PROVE After(o, old)
      <4>1. headStreamExpTime \in Nat /\ StreamDuration \in Nat /\ old \in Int /\ old <= headStreamExpTime - StreamDuration
        BY <2>1, TimesAre, Rings
      <4>2. at[o] \in Nat /\ After(o, headStreamExpTime - StreamDuration)
        BY <3>2
      <4> QED BY <4>1, <4>2 DEF After
    <3>4. streams'[i] = {o \in 1..cnt' : After(o, old)}
      BY <1>3, <2>2, <3>1, <3>3
    <3> QED BY <3>1, <3>4 DEF new
  <2> QED BY <2>3, <2>4, <2>5
<1>12. \A o, l : After(o, l)' <=> After(o, l')
  BY DEF After
<1>13. StreamsInv'
  <2>1. \A i \in 0..(AgeBuckets - 1) : streams'[i] =
          {o \in 1..cnt' : After(o, headStreamExpTime' - (AgeBuckets - RankFrom(i, headStreamIdx')) * StreamDuration)}
    BY <1>6, <1>11
  <2>2. \A o \in 1..cnt' : at'[o] - 1 <= headStreamExpTime'
    BY <1>6, <1>10
  <2>3. (\A i \in 0..(AgeBuckets - 1) : streams[i] =
          {o \in 1..cnt : After(o, headStreamExpTime - (AgeBuckets - RankFrom(i, headStreamIdx)) * StreamDuration)})'
    BY <2>1 DEF After, RankFrom
  <2> QED BY <1>6, <2>2, <2>3 DEF StreamsInv
<1> QED BY <1>3, <1>11, <1>13

-----------------------------------------------------------------------------
(* The age windows. *)

\* When an observation was made never changes, and a new one is none of the flushed ones.
LEMMA MadeKept ==
    ASSUME SummaryInv, SummaryNext, objectives
    PROVE  /\ Made \subseteq Made' /\ \A o \in Made : at'[o] = at[o]
           /\ \A o \in Made' : o <= cnt => o \in Made
           /\ hotBuf \subseteq Made /\ coldBuf \subseteq Made /\ 1..cnt \subseteq Made
<1>1. PICK c \in Nat, h \in Nat, u \in {0, 1} : BuffersHave(c, h, u)
  BY BuffersHold
<1>2. /\ coldBuf = (cnt + 1)..(cnt + c) /\ hotBuf = (cnt + c + 1)..(cnt + c + h)
      /\ Made = 1..(cnt + c + h + u) /\ cnt \in Nat
  BY <1>1, Naturals DEF BuffersHave
<1>3. hotBuf \subseteq Made /\ coldBuf \subseteq Made /\ 1..cnt \subseteq Made
  BY <1>2
<1>4. CASE at' = at
  BY <1>3, <1>4 DEF Made
<1>5. ASSUME NEW p \in Observers, Observe(p)
      PROVE  Made \subseteq Made' /\ (\A o \in Made : at'[o] = at[o]) /\ (\A o \in Made' : o <= cnt => o \in Made)
  <2>1. PICK o \in Observations :
           /\ o = cnt + c + h + 1 /\ at' = [at EXCEPT ![o] = now + 1]
           /\ Made = 1..(cnt + c + h) /\ Made' = 1..(cnt + c + h + 1)
    BY <1>1, <1>5, ObserveMakes
  <2>2. \A x \in Made : x # o /\ x \in Observations
    BY <1>2, <2>1 DEF Made
  <2>3. \A x \in Made : at'[x] = at[x]
    BY <2>1, <2>2, TimesAre
  <2> QED BY <1>2, <2>1, <2>3
<1>6. at' = at \/ \E p \in Observers : Observe(p)
  BY ObjectivesCases DEF Tick, Flush, Expired, AppendToBuf, Full, WriteBegin, WriteSwap, WriteFlush
<1> QED BY <1>3, <1>4, <1>5, <1>6

LEMMA WindowKept ==
    ASSUME SummaryInv, SummaryNext, objectives, NEW w \in Writers, out'[w] = out[w], pc[w] = "rest"
    PROVE  InWindow(w)'
<1>1. InWindow(w) /\ out[w].head \subseteq Made
  BY DEF SummaryInv, WindowInv, ReadsInv
<1>2. out[w].count <= cnt
  <2>1. PICK c \in Nat, h \in Nat, u \in {0, 1} : BuffersHave(c, h, u)
    BY BuffersHold
  <2> QED BY <2>1 DEF BuffersHave
<1>3. \A o \in out'[w].head : at'[o] - 1 >= out'[w].now - MaxAge
  BY <1>1, MadeKept DEF InWindow
<1>4. ASSUME NEW o \in Observations, at'[o] # 0, o <= out'[w].count, at'[o] - 1 > out'[w].now - (MaxAge - StreamDuration)
      PROVE  o \in out'[w].head
  <2>1. o \in Made'
    BY <1>4 DEF Made
  <2>2. o <= cnt
    BY <1>2, <1>4, Naturals DEF Observations
  <2>3. o \in Made /\ at'[o] = at[o] /\ at[o] # 0
    BY <2>1, <2>2, MadeKept DEF Made
  <2> QED BY <1>1, <1>4, <2>3 DEF InWindow
<1> QED BY <1>3, <1>4 DEF InWindow

\* A buffer that is swapped in is of the last stream duration.
LEMMA SwapTimes ==
    ASSUME SummaryInv, objectives, mtx = Nil, NEW t \in 0..MaxTime, SwapBufs(t),
           UNCHANGED <<at, cnt, streams, headStreamIdx, headStreamExpTime>>
    PROVE  /\ StreamsInv' /\ hotBuf' = {}
           /\ hotBufExpTime' \in Nat /\ t <= hotBufExpTime'
           /\ t > hotBufExpTime' - StreamDuration \/ hotBufExpTime' = hotBufExpTime
<1>0. StreamsInv /\ HotInv /\ hotBufExpTime = headStreamExpTime /\ coldBuf = {}
  BY DEF SummaryInv, WindowInv, TimesInv, BufferedInv
<1>1. coldBuf' = hotBuf /\ hotBuf' = {} /\ hotBufExpTime' = NextExp(t)
  BY <1>0 DEF SwapBufs
<1>2. \A o \in coldBuf' : at[o] - 1 <= headStreamExpTime /\ After(o, headStreamExpTime - StreamDuration)
  BY <1>0, <1>1 DEF HotInv
<1>3. StreamsInv'
  BY <1>0, <1>2 DEF StreamsInv, After, RankFrom
<1> QED BY <1>1, <1>3, NextExpIs, TimesAre

LEMMA StreamsStep ==
    ASSUME SummaryInv, SummaryNext, objectives
    PROVE  StreamsInv'
<1>0. StreamsInv
  BY DEF SummaryInv, WindowInv
<1>1. ASSUME UNCHANGED <<coldBuf, streamVars>> PROVE StreamsInv'
  <2>1. \A o \in coldBuf \cup 1..cnt : at'[o] = at[o]
    BY MadeKept
  <2>2. \A o \in coldBuf \cup 1..cnt : \A l : After(o, l)' <=> After(o, l')
    BY <2>1 DEF After
  <2>3. UNCHANGED <<coldBuf, cnt, streams, headStreamIdx, headStreamExpTime>>
    BY <1>1 DEF streamVars
  <2>4. \A o \in coldBuf' : at'[o] - 1 <= headStreamExpTime' /\ After(o, headStreamExpTime - StreamDuration)'
    BY <1>0, <2>1, <2>3 DEF StreamsInv, After
  <2>5. \A o \in 1..cnt' : at'[o] - 1 <= headStreamExpTime'
    BY <1>0, <2>1, <2>3 DEF StreamsInv
  <2>6. ASSUME NEW i \in 0..(AgeBuckets - 1)
        PROVE  (streams[i] = {o \in 1..cnt : After(o, headStreamExpTime - (AgeBuckets - RankFrom(i, headStreamIdx)) * StreamDuration)})'
    <3> DEFINE l == headStreamExpTime - (AgeBuckets - RankFrom(i, headStreamIdx)) * StreamDuration
    <3>1. l' = l
      BY <2>3 DEF RankFrom
    <3>2. streams[i] = {o \in 1..cnt : After(o, l)}
      BY <1>0 DEF StreamsInv
    <3> HIDE DEF l
    <3>3. \A o \in 1..cnt : After(o, l)' <=> After(o, l)
      BY <2>1, <3>1 DEF After
    <3>4. streams'[i] = {o \in 1..cnt' : After(o, l)'}
      BY <2>3, <3>2, <3>3
    <3> QED BY <3>4 DEF l
  <2> QED BY <2>4, <2>5, <2>6 DEF StreamsInv
<1>2. CASE Tick
  BY <1>1, <1>2 DEF Tick, bufVars
<1>3. CASE Flush
  BY <1>3, FlushStreams DEF Flush
<1>4. ASSUME NEW p \in Observers, Observe(p) \/ AppendToBuf(p) PROVE StreamsInv'
  BY <1>1, <1>4 DEF Observe, AppendToBuf, bufVars
<1>5. ASSUME NEW p \in Observers, Expired(p) \/ Full(p) PROVE StreamsInv'
  <2>1. at[mine[p].obs] - 1 \in 0..MaxTime
    BY <1>5, OwnObservation DEF SummaryInv, Expired, Full
  <2>2. /\ SwapBufs(at[mine[p].obs] - 1) /\ mtx = Nil
        /\ UNCHANGED <<at, cnt, streams, headStreamIdx, headStreamExpTime>>
    BY <1>5 DEF Expired, Full, AsyncFlush, streamVars
  <2> QED BY <2>1, <2>2, SwapTimes
<1>6. ASSUME NEW w \in Writers, WriteBegin(w) PROVE StreamsInv'
  BY <1>1, <1>6 DEF WriteBegin, bufVars
<1>7. ASSUME NEW w \in Writers, WriteSwap(w) PROVE StreamsInv'
  <2>1. SwapBufs(now) /\ mtx = Nil /\ UNCHANGED <<at, cnt, streams, headStreamIdx, headStreamExpTime>>
    BY <1>7 DEF WriteSwap, streamVars
  <2> QED BY <2>1, SwapTimes, TimesAre
<1>8. ASSUME NEW w \in Writers, WriteFlush(w) PROVE StreamsInv'
  BY <1>8, FlushStreams DEF WriteFlush
<1> QED BY <1>2, <1>3, <1>4, <1>5, <1>6, <1>7, <1>8, ObjectivesCases

LEMMA HotStep ==
    ASSUME SummaryInv, SummaryNext, objectives
    PROVE  HotInv'
<1>0. HotInv /\ LocksInv /\ SummaryTypes
  BY DEF SummaryInv, WindowInv
<1>a. Observers \subseteq Procs /\ Writers \subseteq Procs
  BY DEF Procs
<1>b. /\ now \in Nat /\ hotBufExpTime \in Nat /\ StreamDuration \in Nat /\ StreamDuration > 0
      /\ hotBuf \subseteq Observations /\ \A o \in Observations : at[o] \in Nat
      /\ at \in [Observations -> 0..(MaxTime + 1)]
  <2>1. at \in [Observations -> 0..(MaxTime + 1)] /\ MaxTime \in Nat
    BY TimesAre, Rings
  <2>2. \A o \in Observations : at[o] \in Nat
    BY <2>1
  <2>3. hotBuf \subseteq Observations
    BY <1>0 DEF SummaryTypes, BufferTypes
  <2> QED BY <2>1, <2>2, <2>3, TimesAre, Rings
<1>c. \A o \in hotBuf : at'[o] = at[o]
  BY MadeKept
<1> DEFINE Making(p) == /\ at[mine[p].obs] - 1 <= now
                        /\ After(mine[p].obs, hotBufExpTime - StreamDuration)
                        /\ pc[p] = "append" => at[mine[p].obs] - 1 <= hotBufExpTime
<1>d. \A p \in Observers : pc[p] \in {"expired", "append", "full"} => Making(p)
  BY <1>0 DEF HotInv
\* A step that leaves the buffer alone, and begins or ends nothing but p's observation.
<1>1. ASSUME UNCHANGED <<hotBuf, hotBufExpTime>>, now' \in Nat, now' >= now,
             \A p \in Observers : pc'[p] \in {"expired", "append", "full"} => Making(p)'
      PROVE  HotInv'
  <2>1. now' > hotBufExpTime' - StreamDuration \/ hotBufExpTime' = StreamDuration
    BY <1>0, <1>b, <1>1 DEF HotInv
  <2>2. \A o \in hotBuf' : at'[o] - 1 <= hotBufExpTime' /\ After(o, hotBufExpTime - StreamDuration)'
    BY <1>0, <1>c, <1>1 DEF HotInv, After
  <2> QED BY <1>1, <2>1, <2>2 DEF HotInv
<1>2. ASSUME UNCHANGED <<hotBuf, hotBufExpTime, mine, at, now>>, \A p \in Observers : pc'[p] = pc[p] PROVE HotInv'
  <2>1. \A p \in Observers : pc'[p] \in {"expired", "append", "full"} => Making(p)'
    BY <1>d, <1>2 DEF After
  <2> HIDE DEF Making
  <2> QED BY <1>1, <1>2, <1>b, <2>1
<1>3. CASE Tick
  <2>1. UNCHANGED <<hotBuf, hotBufExpTime, mine, at, pc>> /\ now' = now + 1
    BY <1>3 DEF Tick, bufVars
  <2>2. ASSUME NEW p \in Observers, pc'[p] \in {"expired", "append", "full"} PROVE Making(p)'
    <3>1. Making(p)
      BY <1>d, <2>1, <2>2
    <3>2. at[mine[p].obs] \in Nat
      <4>1. mine[p].obs \in Observations
        BY <2>1, <2>2, OwnObservation DEF SummaryInv, Made
      <4> QED BY <1>b, <4>1
    <3> QED BY <1>b, <2>1, <3>1, <3>2 DEF After
  <2> HIDE DEF Making
  <2>3. now' \in Nat /\ now' >= now
    BY <1>b, <2>1
  <2> QED BY <1>1, <2>1, <2>2, <2>3
<1>4. CASE Flush
  BY <1>2, <1>4 DEF Flush
<1>5. ASSUME NEW p \in Observers, Observe(p) PROVE HotInv'
  <2>1. UNCHANGED <<hotBuf, hotBufExpTime, now>> /\ bufMtx = Nil
        /\ Goto(p, IF now > hotBufExpTime THEN "expired" ELSE "append")
    BY <1>5 DEF Observe, bufVars
  <2>2. PICK c \in Nat, h \in Nat, u \in {0, 1} : BuffersHave(c, h, u)
    BY BuffersHold
  <2>3. PICK o \in Observations : mine'[p].obs = o /\ at' = [at EXCEPT ![o] = now + 1]
    BY <1>5, <2>2, ObserveMakes
  <2>4. at'[mine'[p].obs] = now + 1
    BY <1>b, <2>3
  <2>5. Moves(p, IF now > hotBufExpTime THEN "expired" ELSE "append")
    BY <1>0, <1>a, <2>1, GotoMoves
  <2>6. \A q \in Observers : q # p => pc'[q] = "rest"
    BY <1>0, <1>a, <2>1, <2>5, Distinct DEF LocksInv, Moves
  <2>7. pc'[p] = "append" => now <= hotBufExpTime
    BY <1>b, <2>5 DEF Moves
  <2>8. now > hotBufExpTime - StreamDuration \/ hotBufExpTime - StreamDuration <= 0
    BY <1>0, <1>b DEF HotInv
  <2>9. Making(p)'
    BY <1>b, <2>1, <2>4, <2>7, <2>8 DEF After
  <2>10. \A q \in Observers : pc'[q] \in {"expired", "append", "full"} => Making(q)'
    BY <2>6, <2>9
  <2> HIDE DEF Making
  <2> QED BY <1>1, <1>b, <2>1, <2>10
<1>6. ASSUME NEW p \in Observers, Expired(p) PROVE HotInv'
  <2>1. /\ pc[p] = "expired" /\ mtx = Nil /\ UNCHANGED <<now, mine, at>> /\ SwapBufs(at[mine[p].obs] - 1)
        /\ UNCHANGED <<at, cnt, streams, headStreamIdx, headStreamExpTime>> /\ Goto(p, "append")
    BY <1>6 DEF Expired, AsyncFlush, streamVars
  <2>2. PICK t \in Nat : t \in 0..MaxTime /\ t = at[mine[p].obs] - 1
    BY <2>1, OwnObservation, Rings DEF SummaryInv
  <2>3. /\ hotBuf' = {} /\ hotBufExpTime' \in Nat /\ t <= hotBufExpTime'
        /\ t > hotBufExpTime' - StreamDuration \/ hotBufExpTime' = hotBufExpTime
    BY <2>1, <2>2, SwapTimes
  <2>4. t <= now /\ After(mine[p].obs, hotBufExpTime - StreamDuration)
    BY <1>d, <2>1, <2>2
  <2>5. Moves(p, "append") /\ bufMtx = p
    BY <1>0, <1>a, <2>1, GotoMoves DEF LocksInv
  <2>6. \A q \in Observers : q # p => pc'[q] = "rest"
    BY <1>0, <1>a, <2>5 DEF LocksInv, Moves
  <2>7. now' > hotBufExpTime' - StreamDuration \/ hotBufExpTime' = StreamDuration
    <3>1. now > hotBufExpTime - StreamDuration \/ hotBufExpTime = StreamDuration
      BY <1>0 DEF HotInv
    <3>2. now' = now /\ now' \in Nat
      BY <1>b, <2>1
    <3>3. now \in Nat /\ hotBufExpTime' \in Nat /\ StreamDuration \in Nat /\ t <= now
      BY <1>b, <2>3, <2>4
    <3>4. ASSUME t > hotBufExpTime' - StreamDuration PROVE now > hotBufExpTime' - StreamDuration
      <4>1. hotBufExpTime' - StreamDuration \in Int
        BY <3>3
      <4> QED BY <3>3, <3>4, <4>1, Beyond
    <3>5. CASE hotBufExpTime' = hotBufExpTime
      BY <3>1, <3>2, <3>5
    <3> QED BY <2>3, <3>2, <3>4, <3>5
  <2>8. Making(p)'
    BY <2>1, <2>2, <2>3, <2>4 DEF After
  <2>9. \A q \in Observers : pc'[q] \in {"expired", "append", "full"} => Making(q)'
    BY <2>6, <2>8
  <2> QED BY <2>3, <2>7, <2>9 DEF HotInv
<1>7. ASSUME NEW p \in Observers, AppendToBuf(p) PROVE HotInv'
  <2>1. /\ pc[p] = "append" /\ UNCHANGED <<now, mine, at, hotBufExpTime>> /\ hotBuf' = hotBuf \cup {mine[p].obs}
    BY <1>7 DEF AppendToBuf
  <2>2. (Goto(p, "full") \/ Goto(p, "rest"))
    BY <1>7 DEF AppendToBuf
  <2>3. (Moves(p, "full") \/ Moves(p, "rest")) /\ bufMtx = p
    BY <1>0, <1>a, <2>1, <2>2, GotoMoves DEF LocksInv
  <2>4. \A q \in Observers : q # p => pc'[q] = "rest"
    BY <1>0, <1>a, <2>3 DEF LocksInv, Moves
  <2>5. Making(p) /\ at[mine[p].obs] - 1 <= hotBufExpTime
    BY <1>d, <2>1
  <2>6. Making(p)'
    BY <2>1, <2>5 DEF After
  <2>7. \A q \in Observers : pc'[q] \in {"expired", "append", "full"} => Making(q)'
    BY <2>4, <2>6
  <2>8. \A o \in hotBuf' : at'[o] - 1 <= hotBufExpTime' /\ After(o, hotBufExpTime - StreamDuration)'
    BY <1>0, <2>1, <2>5 DEF HotInv, After
  <2> QED BY <1>0, <2>1, <2>7, <2>8 DEF HotInv
<1>8. ASSUME NEW p \in Observers, Full(p) PROVE HotInv'
  <2>1. /\ pc[p] = "full" /\ mtx = Nil /\ UNCHANGED <<now, mine, at>> /\ SwapBufs(at[mine[p].obs] - 1)
        /\ UNCHANGED <<at, cnt, streams, headStreamIdx, headStreamExpTime>> /\ Goto(p, "rest")
    BY <1>8 DEF Full, AsyncFlush, streamVars
  <2>2. PICK t \in Nat : t \in 0..MaxTime /\ t = at[mine[p].obs] - 1
    BY <2>1, OwnObservation, Rings DEF SummaryInv
  <2>3. /\ hotBuf' = {} /\ hotBufExpTime' \in Nat /\ t <= hotBufExpTime'
        /\ t > hotBufExpTime' - StreamDuration \/ hotBufExpTime' = hotBufExpTime
    BY <2>1, <2>2, SwapTimes
  <2>4. t <= now
    BY <1>d, <2>1, <2>2
  <2>5. Moves(p, "rest") /\ bufMtx = p
    BY <1>0, <1>a, <2>1, GotoMoves DEF LocksInv
  <2>6. \A q \in Observers : pc'[q] = "rest"
    BY <1>0, <1>a, <2>5 DEF LocksInv, Moves
  <2>7. now' > hotBufExpTime' - StreamDuration \/ hotBufExpTime' = StreamDuration
    <3>1. now > hotBufExpTime - StreamDuration \/ hotBufExpTime = StreamDuration
      BY <1>0 DEF HotInv
    <3>2. now' = now /\ now' \in Nat
      BY <1>b, <2>1
    <3>3. now \in Nat /\ hotBufExpTime' \in Nat /\ StreamDuration \in Nat /\ t <= now
      BY <1>b, <2>3, <2>4
    <3>4. ASSUME t > hotBufExpTime' - StreamDuration PROVE now > hotBufExpTime' - StreamDuration
      <4>1. hotBufExpTime' - StreamDuration \in Int
        BY <3>3
      <4> QED BY <3>3, <3>4, <4>1, Beyond
    <3>5. CASE hotBufExpTime' = hotBufExpTime
      BY <3>1, <3>2, <3>5
    <3> QED BY <2>3, <3>2, <3>4, <3>5
  <2> QED BY <2>3, <2>6, <2>7 DEF HotInv
<1>9. ASSUME NEW w \in Writers, WriteBegin(w) \/ WriteFlush(w) PROVE HotInv'
  <2>1. UNCHANGED <<hotBuf, hotBufExpTime, mine, at, now>> /\ \E l : Goto(w, l)
    BY <1>9 DEF WriteBegin, WriteFlush, bufVars
  <2>2. \A p \in Observers : pc'[p] = pc[p]
    BY <1>0, <1>a, <2>1, GotoMoves, Distinct DEF Moves
  <2> QED BY <1>2, <2>1, <2>2
<1>10. ASSUME NEW w \in Writers, WriteSwap(w) PROVE HotInv'
  <2>1. /\ pc[w] = "swap" /\ mtx = Nil /\ UNCHANGED <<now, mine, at>> /\ SwapBufs(now)
        /\ UNCHANGED <<at, cnt, streams, headStreamIdx, headStreamExpTime>> /\ Goto(w, "flush")
    BY <1>10 DEF WriteSwap, streamVars
  <2>2. /\ hotBuf' = {} /\ hotBufExpTime' \in Nat /\ now <= hotBufExpTime'
        /\ now > hotBufExpTime' - StreamDuration \/ hotBufExpTime' = hotBufExpTime
    BY <2>1, SwapTimes, TimesAre
  <2>3. Moves(w, "flush") /\ bufMtx = w
    BY <1>0, <1>a, <2>1, GotoMoves DEF LocksInv
  <2>4. \A q \in Observers : pc'[q] = "rest"
    BY <1>0, <1>a, <2>3, Distinct DEF LocksInv, Moves
  <2>5. now' > hotBufExpTime' - StreamDuration \/ hotBufExpTime' = StreamDuration
    BY <1>0, <1>b, <2>1, <2>2 DEF HotInv
  <2> QED BY <2>2, <2>4, <2>5 DEF HotInv
<1> QED BY <1>3, <1>4, <1>5, <1>6, <1>7, <1>8, <1>9, <1>10, ObjectivesCases

LEMMA ReadsStep ==
    ASSUME SummaryInv, SummaryNext, objectives
    PROVE  ReadsInv'
<1>0. ReadsInv /\ LocksInv /\ SummaryTypes /\ Observers \subseteq Procs /\ Writers \subseteq Procs
  BY DEF SummaryInv, WindowInv, Procs
<1>1. \A w \in Writers : out[w].head \subseteq Made'
  BY <1>0, MadeKept DEF ReadsInv
<1> DEFINE Read(w) == /\ out[w].now <= hotBufExpTime
                      /\ out[w].now > hotBufExpTime - StreamDuration \/ hotBufExpTime = StreamDuration
           Good(w) == /\ out'[w].head \subseteq Made'
                      /\ pc'[w] = "flush" => Read(w)'
                      /\ pc'[w] = "rest" => InWindow(w)'
<1>2. \A w \in Writers : pc[w] = "flush" => Read(w)
  BY <1>0 DEF ReadsInv
<1>3. (\A w \in Writers : Good(w)) => ReadsInv'
  BY DEF ReadsInv
\* A Write that is not the one that goes on.
<1>4. ASSUME NEW w \in Writers, out'[w] = out[w], pc'[w] = pc[w], pc[w] = "flush" => hotBufExpTime' = hotBufExpTime
      PROVE  Good(w)
  BY <1>1, <1>2, <1>4, WindowKept
<1>5. CASE Tick \/ Flush
  <2>1. UNCHANGED <<out, pc, hotBufExpTime>>
    BY <1>5 DEF Tick, Flush, callVars, bufVars
  <2> HIDE DEF Good
  <2> QED BY <1>3, <1>4, <2>1
<1>6. ASSUME NEW p \in Observers, Observe(p) \/ Expired(p) \/ AppendToBuf(p) \/ Full(p) PROVE ReadsInv'
  <2>1. out' = out /\ \E l : Goto(p, l)
    BY <1>6 DEF Observe, Expired, AppendToBuf, Full, callVars
  <2>2. \A w \in Writers : pc'[w] = pc[w]
    BY <1>0, <2>1, GotoMoves, Distinct DEF Moves
  <2>3. mtx = Nil \/ hotBufExpTime' = hotBufExpTime
    BY <1>6 DEF Observe, Expired, AppendToBuf, Full, AsyncFlush, bufVars
  <2>4. \A w \in Writers : pc[w] = "flush" => hotBufExpTime' = hotBufExpTime
    BY <1>0, <2>3, Distinct DEF LocksInv
  <2> HIDE DEF Good
  <2> QED BY <1>3, <1>4, <2>1, <2>2, <2>4
<1>7. ASSUME NEW w \in Writers, WriteBegin(w) PROVE ReadsInv'
  <2>1. UNCHANGED <<out, hotBufExpTime>>
    BY <1>7 DEF WriteBegin, bufVars
  <2>2. Moves(w, "swap")
    BY <1>0, <1>7, GotoMoves DEF WriteBegin
  <2>3. Good(w)
    BY <1>0, <1>1, <2>1, <2>2 DEF Moves
  <2>4. ASSUME NEW v \in Writers, v # w PROVE Good(v)
    <3>1. pc'[v] = pc[v]
      BY <1>0, <2>2, <2>4 DEF Moves
    <3> HIDE DEF Good
    <3> QED BY <1>4, <2>1, <3>1
  <2> HIDE DEF Good
  <2> QED BY <1>3, <2>3, <2>4
<1>8. ASSUME NEW w \in Writers, WriteSwap(w) PROVE ReadsInv'
  <2>1. /\ pc[w] = "swap" /\ mtx = Nil /\ SwapBufs(now) /\ out' = [out EXCEPT ![w].now = now]
        /\ UNCHANGED <<at, cnt, streams, headStreamIdx, headStreamExpTime>>
    BY <1>8 DEF WriteSwap, streamVars
  <2>2. Moves(w, "flush")
    BY <1>0, <1>8, GotoMoves DEF WriteSwap
  <2>3. /\ out'[w].now = now /\ out'[w].head = out[w].head
        /\ \A v \in Writers : v # w => out'[v] = out[v]
    BY <2>1, TimesAre DEF Outputs
  <2>4. /\ hotBufExpTime' \in Nat /\ now <= hotBufExpTime'
        /\ now > hotBufExpTime' - StreamDuration \/ hotBufExpTime' = hotBufExpTime
    BY <2>1, SwapTimes, TimesAre
  <2>5. now > hotBufExpTime - StreamDuration \/ hotBufExpTime = StreamDuration
    BY DEF SummaryInv, WindowInv, HotInv
  <2>6. Read(w)'
    BY <2>3, <2>4, <2>5
  <2>7. Good(w)
    BY <1>0, <1>1, <2>2, <2>3, <2>6 DEF Moves
  <2>8. ASSUME NEW v \in Writers, v # w PROVE Good(v)
    <3>1. pc'[v] = pc[v] /\ out'[v] = out[v] /\ pc[v] # "flush"
      BY <1>0, <2>1, <2>2, <2>3, <2>8, Distinct DEF Moves, LocksInv
    <3> HIDE DEF Good
    <3> QED BY <1>4, <3>1
  <2> HIDE DEF Good
  <2> QED BY <1>3, <2>7, <2>8
<1>9. ASSUME NEW w \in Writers, WriteFlush(w) PROVE ReadsInv'
  <2>1. /\ pc[w] = "flush" /\ FlushColdBuf /\ UNCHANGED <<at, hotBuf, hotBufExpTime>>
        /\ out' = [out EXCEPT ![w] = [count |-> cnt', sum |-> cnt', head |-> streams'[headStreamIdx'],
                                      now |-> @.now]]
    BY <1>9 DEF WriteFlush
  <2>2. Moves(w, "rest")
    BY <1>0, <1>9, GotoMoves DEF WriteFlush
  <2>3. /\ out'[w].now = out[w].now /\ out'[w].head = streams'[headStreamIdx'] /\ out'[w].count = cnt'
        /\ \A v \in Writers : v # w => out'[v] = out[v]
    BY <2>1, TimesAre
  <2>4. StreamsInv' /\ cnt' \in Nat /\ 1..cnt' \subseteq Made /\ headStreamExpTime' = hotBufExpTime
    BY <2>1, FlushStreams DEF FlushColdBuf
  <2>5. headStreamIdx' \in 0..(AgeBuckets - 1)
    BY SummaryTypesStep DEF SummaryTypes, StreamTypes
  <2>6. ASSUME NEW i \in 0..(AgeBuckets - 1) PROVE RankFrom(i, i) = 0
    BY SummaryAssumption DEF RankFrom
  <2>7. out'[w].head = {o \in 1..cnt' : After(o, hotBufExpTime - MaxAge)}
    <3>1. PICK i \in 0..(AgeBuckets - 1) : i = headStreamIdx'
      BY <2>5
    <3>2. streams'[i] = {o \in 1..cnt' : After(o, hotBufExpTime - (AgeBuckets - RankFrom(i, i)) * StreamDuration)}
      BY <2>1, <3>1, FlushStreams
    <3>3. (AgeBuckets - RankFrom(i, i)) * StreamDuration = MaxAge
      BY <2>6, Rings
    <3> QED BY <2>3, <3>1, <3>2, <3>3
  <2>8. out'[w].head = {o \in 1..cnt' : at[o] - 1 > hotBufExpTime - MaxAge \/ hotBufExpTime - MaxAge <= 0}
    BY <2>7 DEF After
  <2>9. Read(w) /\ out[w].now \in Nat /\ hotBufExpTime \in Nat
    BY <1>2, <2>1, TimesAre
  <2>10. \A o \in 1..cnt' : at[o] \in Nat /\ at[o] > 0
    <3>1. at \in [Observations -> 0..(MaxTime + 1)] /\ MaxTime \in Nat
      BY TimesAre, Rings
    <3> QED BY <2>4, <3>1 DEF Made
  <2>11. ASSUME NEW o \in out'[w].head PROVE at'[o] - 1 >= out'[w].now - MaxAge
    <3>1. o \in 1..cnt' /\ (at[o] - 1 > hotBufExpTime - MaxAge \/ hotBufExpTime - MaxAge <= 0)
      BY <2>8, <2>11
    <3>2. at[o] \in Nat /\ at[o] > 0
      BY <2>10, <3>1
    <3> QED BY <2>1, <2>3, <2>9, <3>1, <3>2, Rings
  <2>12. ASSUME NEW o \in Observations, at'[o] # 0, o <= out'[w].count, at'[o] - 1 > out'[w].now - (MaxAge - StreamDuration)
         PROVE  o \in out'[w].head
    <3>1. o \in 1..cnt'
      BY <2>3, <2>4, <2>12 DEF Observations
    <3>2. at[o] \in Nat
      BY <2>10, <3>1
    <3>3. hotBufExpTime = StreamDuration => hotBufExpTime - MaxAge <= 0
      <4>1. StreamDuration <= MaxAge
        <5>1. 0 * StreamDuration + StreamDuration <= AgeBuckets * StreamDuration
          BY Rings, MultiplesApart, SummaryAssumption
        <5> QED BY <5>1, Rings
      <4> QED BY <4>1, Rings
    <3>4. at[o] - 1 > out[w].now - (MaxAge - StreamDuration)
      BY <2>1, <2>3, <2>12
    <3>5. at[o] - 1 > hotBufExpTime - MaxAge \/ hotBufExpTime - MaxAge <= 0
      <4>1. MaxAge \in Nat /\ StreamDuration \in Nat
        BY Rings
      <4> QED BY <2>9, <3>2, <3>3, <3>4, <4>1
    <3> QED BY <2>8, <3>1, <3>5
  <2>13. InWindow(w)'
    BY <2>11, <2>12 DEF InWindow
  <2>14. out'[w].head \subseteq Made'
    <3>1. Made' = Made
      BY <2>1 DEF Made
    <3> QED BY <2>4, <2>8, <3>1
  <2>15. Good(w)
    BY <1>0, <2>2, <2>13, <2>14 DEF Moves
  <2>16. ASSUME NEW v \in Writers, v # w PROVE Good(v)
    <3>1. pc'[v] = pc[v] /\ out'[v] = out[v]
      BY <1>0, <2>2, <2>3, <2>16 DEF Moves
    <3> HIDE DEF Good
    <3> QED BY <1>4, <2>1, <3>1
  <2> HIDE DEF Good
  <2> QED BY <1>3, <2>15, <2>16
<1> QED BY <1>5, <1>6, <1>7, <1>8, <1>9, ObjectivesCases

LEMMA WindowStep ==
    ASSUME SummaryInv, SummaryNext
    PROVE  WindowInv'
<1>1. ASSUME objectives PROVE WindowInv'
  BY <1>1, HotStep, StreamsStep, ReadsStep, ObjectivesCases DEF WindowInv
<1>2. ASSUME ~objectives PROVE WindowInv'
  <2>1. Made = {} /\ coldBuf = {} /\ \A w \in Writers : out[w].head = {}
    BY <1>2 DEF SummaryInv, WindowInv
  <2>2. ~objectives' /\ at' = at /\ coldBuf' = coldBuf
    BY <1>2, FreeCases DEF ObserveFree, AddSum, AddCount, WriteFree, Cool, MergeCount, MergeSum, bufVars
  <2>3. Made' = {}
    BY <2>1, <2>2 DEF Made
  <2>4. CASE out' = out
    BY <2>1, <2>2, <2>3, <2>4 DEF WindowInv
  <2>5. ASSUME NEW w \in Writers, WriteFree(w) PROVE \A v \in Writers : out'[v].head = {}
    BY <2>1, <2>5, TimesAre DEF WriteFree, Nothing
  <2>6. ASSUME NEW w \in Writers, Cool(w) PROVE \A v \in Writers : out'[v].head = {}
    BY <2>1, <2>6, TimesAre DEF Cool, Outputs
  <2>7. \/ out' = out
        \/ \E w \in Writers : WriteFree(w) \/ Cool(w)
    BY <1>2, FreeCases DEF ObserveFree, AddSum, AddCount, MergeCount, MergeSum, callVars
  <2> QED BY <2>1, <2>2, <2>3, <2>4, <2>5, <2>6, <2>7 DEF WindowInv
<1> QED BY <1>1, <1>2

-----------------------------------------------------------------------------
LEMMA SummaryInitial ==
    ASSUME SummaryInit
    PROVE  SummaryInv
<1> USE DEF SummaryInit
<1>1. SummaryTypes
  <2>1. ControlTypes
    BY Rings DEF ControlTypes, ObserverSteps, WriterSteps
  <2>2. BufferTypes
    BY Rings, SummaryAssumption DEF BufferTypes
  <2>3. StreamTypes
    BY Rings DEF StreamTypes
  <2>4. FreeTypes
    BY DEF FreeTypes, NoCounts
  <2>5. CallTypes
    BY DEF CallTypes, Nothing, Outputs
  <2> QED BY <2>1, <2>2, <2>3, <2>4, <2>5 DEF SummaryTypes
<1>2. LocksInv
  BY Distinct DEF LocksInv, Procs
<1>3. Made = {}
  BY DEF Made
<1>4. BufferedInv
  <2>0. cnt = 0 /\ returned = 0
    OBVIOUS
  <2>1. ~BeingMade /\ bufMtx \notin Observers
    BY Distinct DEF BeingMade, Procs
  <2>2. 1..0 = {} /\ (cnt + 1)..(cnt + 0) = {} /\ (cnt + 0 + 1)..(cnt + 0 + 0) = {} /\ cnt + 0 + 0 + 0 = 0
    OBVIOUS
  <2>3. BuffersHave(0, 0, 0)
    <3>1. /\ coldBuf = (cnt + 1)..(cnt + 0) /\ hotBuf = (cnt + 0 + 1)..(cnt + 0 + 0)
          /\ Made = 1..(cnt + 0 + 0 + 0)
      BY <1>3, <2>2
    <3>2. returned = cnt + 0 + 0 + 0 - IF bufMtx \in Observers THEN 1 ELSE 0
      <4> HIDE DEF SummaryInit
      <4> DEFINE own == IF bufMtx \in Observers THEN 1 ELSE 0
      <4>1. own = 0
        BY <2>1
      <4> HIDE DEF own
      <4>2. returned = cnt + 0 + 0 + 0 - own
        BY <2>0, <4>1
      <4> QED BY <4>2 DEF own
    <3>3. \A p \in Procs : pc[p] = "rest"
      OBVIOUS
    <3>4. \A w \in Writers : out[w].count <= cnt
      BY DEF Nothing
    <3>5. (0 = 1) <=> BeingMade
      BY <2>1
    <3> QED BY <3>1, <3>2, <3>3, <3>4, <3>5 DEF BuffersHave, Procs
  <2>4. \A w \in Writers : calls[w] = 0 /\ out[w].count = 0 /\ out[w].sum = 0
    BY DEF Nothing
  <2> QED BY <2>3, <2>4 DEF BufferedInv
<1>5. FreeInv
  <2>1. /\ {p \in Observers : pc[p] # "rest"} = {}
        /\ \A i : At(i, {"sum", "count"}) = {} /\ At(i, {"sum"}) = {}
    BY DEF At, Procs
  <2>2. Cardinality({}) = 0
    BY FS_EmptySet
  <2>3. ASSUME NEW i \in {0, 1} PROVE CountOf(i) = 0 /\ SumOf(i) = 0
    <3>1. Cardinality(At(i, {"sum", "count"})) = 0 /\ Cardinality(At(i, {"sum"})) = 0
      BY <2>1, <2>2
    <3>2. counts[i].count = 0 /\ counts[i].sum = 0
      BY DEF NoCounts
    <3> QED BY <3>1, <3>2 DEF CountOf, SumOf
  <2>4. hotIdx \in {0, 1} /\ Cold \in {0, 1}
    BY DEF Cold
  <2>5. \A w \in Writers : /\ calls[w] = 0 /\ out[w].count = 0 /\ out[w].sum = 0 /\ pc[w] = "rest"
    BY DEF Nothing, Procs
  <2>6. /\ CountOf(hotIdx) = 0 /\ SumOf(hotIdx) = 0
        /\ CountOf(Cold) = 0 /\ SumOf(Cold) = 0
    BY <2>3, <2>4
  <2>8. started = 0 /\ returned = 0
    OBVIOUS
  <2>7. returned + Cardinality({p \in Observers : pc[p] # "rest"}) = started
    <3> HIDE DEF SummaryInit
    <3> QED BY <2>1, <2>2, <2>8
  <2> HIDE DEF SummaryInit
  <2> QED BY <2>5, <2>6, <2>7, <2>8 DEF FreeInv
<1>6. TimesInv
  <2>1. hotBufExpTime = headStreamExpTime + 0 * StreamDuration
    BY Rings
  <2> QED BY <2>1, Rings DEF TimesInv
<1>7. WindowInv
  <2>1. HotInv
    BY DEF HotInv, Procs
  <2>2. StreamsInv
    BY Rings DEF StreamsInv
  <2>3. ReadsInv
    <3>1. \A w \in Writers : out[w].head = {} /\ out[w].count = 0 /\ pc[w] = "rest"
      BY DEF Nothing, Procs
    <3>2. \A o \in Observations : at[o] = 0
      OBVIOUS
    <3> QED BY <3>1, <3>2 DEF ReadsInv, InWindow
  <2>4. \A w \in Writers : out[w].head = {}
    BY DEF Nothing
  <2> QED BY <1>3, <2>1, <2>2, <2>3, <2>4 DEF WindowInv
<1> QED BY <1>1, <1>2, <1>4, <1>5, <1>6, <1>7 DEF SummaryInv

LEMMA SummaryStutters ==
    ASSUME SummaryInv, UNCHANGED summaryVars
    PROVE  SummaryInv'
<1> USE DEF summaryVars, bufVars, streamVars, freeVars, callVars
<1>1. SummaryTypes'
  BY DEF SummaryInv, SummaryTypes, ControlTypes, BufferTypes, StreamTypes, FreeTypes, CallTypes
<1>2. LocksInv'
  BY DEF SummaryInv, LocksInv
<1>3. BufferedInv'
  BY DEF SummaryInv, BufferedInv, BuffersHave, Made, BeingMade
<1>4. FreeInv'
  BY DEF SummaryInv, FreeInv, CountOf, SumOf, At, Cold
<1>5. TimesInv'
  BY DEF SummaryInv, TimesInv
<1>6. WindowInv'
  BY DEF SummaryInv, WindowInv, HotInv, StreamsInv, ReadsInv, InWindow, After, RankFrom, Made
<1> QED BY <1>1, <1>2, <1>3, <1>4, <1>5, <1>6 DEF SummaryInv

LEMMA SummaryInvariance ==
    SummarySpec => []SummaryInv
<1>1. SummaryInv /\ [SummaryNext]_summaryVars => SummaryInv'
  BY SummaryStutters, SummaryTypesStep, LocksStep, BufferedStep, FreeStep, TimesStep, WindowStep DEF SummaryInv
<1> QED BY <1>1, SummaryInitial, PTL DEF SummarySpec

\* Every observation that had returned before a Write was called is in what it reports, none
\* is in it that has not been made, and its sum is that of the observations it counts:
\* with the buffers of one lock and the streams of another, and without locks.
THEOREM WritesAreExact ==
    SummarySpec => []WriteExact
<1>1. ASSUME SummaryInv, NEW w \in Writers, pc[w] \in {"rest", "mergeCount", "mergeSum"}
      PROVE  /\ calls[w] <= out[w].count /\ out[w].count = out[w].sum
             /\ out[w].count <= IF objectives THEN Cardinality({o \in Observations : at[o] # 0}) ELSE started
  <2>1. CASE objectives
    <3>1. pc[w] = "rest"
      BY <1>1, <2>1 DEF SummaryInv, LocksInv
    <3>2. PICK c \in Nat, h \in Nat, u \in {0, 1} : BuffersHave(c, h, u)
      BY <1>1, <2>1, BuffersHold
    <3>3. Made = 1..(cnt + c + h + u) /\ out[w].count <= cnt /\ cnt \in Nat /\ out[w].count \in Nat
      BY <1>1, <2>1, <3>1, <3>2, Naturals DEF BuffersHave
    <3>4. Cardinality((0 + 1)..(0 + (cnt + c + h + u))) = cnt + c + h + u
      <4>1. cnt + c + h + u \in Nat
        BY <3>3
      <4> QED BY <4>1, IntervalSize
    <3>5. Cardinality({o \in Observations : at[o] # 0}) = cnt + c + h + u
      <4>1. Made = (0 + 1)..(0 + (cnt + c + h + u))
        BY <3>3
      <4> QED BY <3>4, <4>1 DEF Made
    <3>6. calls[w] <= out[w].count /\ out[w].count = out[w].sum
      BY <1>1, <2>1, <3>1 DEF SummaryInv, BufferedInv
    <3> QED BY <2>1, <3>3, <3>5, <3>6
  <2>2. CASE ~objectives
    BY <1>1, <2>2, FreeIs
  <2> QED BY <2>1, <2>2
<1>2. SummaryInv => WriteExact
  BY <1>1 DEF WriteExact
<1> QED BY <1>2, SummaryInvariance, PTL

\* The quantiles that Write reports are those of an age window: of no observation older than
\* MaxAge and of every one of the last MaxAge less an age bucket, however late a flush is.
\* swapBufs never finds a cold buffer that is not empty, where it panics, and the rotation of
\* the streams comes to its end.
THEOREM QuantilesInWindow ==
    SummarySpec => []Window
<1>1. ASSUME SummaryInv PROVE SwapReady
  <2>1. mtx = Nil => coldBuf = {}
    BY <1>1 DEF SummaryInv, BufferedInv, WindowInv
  <2>2. PICK k \in Nat : hotBufExpTime = headStreamExpTime + k * StreamDuration
    BY <1>1 DEF SummaryInv, TimesInv
  <2>3. k * StreamDuration \in Nat /\ hotBufExpTime \in Nat /\ headStreamExpTime \in Nat
    BY <1>1, TimesAre, Rings
  <2>4. hotBufExpTime - headStreamExpTime = StreamDuration * k + 0
    BY <2>2, <2>3, Rings
  <2>5. 0 \in 0..(StreamDuration - 1)
    BY Rings
  <2>6. (hotBufExpTime - headStreamExpTime) % StreamDuration = 0
    BY <2>3, <2>4, <2>5, RemainderOf, SummaryAssumption
  <2> QED BY <2>1, <2>2, <2>3, <2>6 DEF SwapReady
<1>2. ASSUME SummaryInv, NEW w \in Writers, pc[w] = "rest" PROVE InWindow(w)
  <2>1. CASE objectives
    BY <1>2, <2>1 DEF SummaryInv, WindowInv, ReadsInv
  <2>2. CASE ~objectives
    BY <1>2, <2>2 DEF SummaryInv, WindowInv, InWindow, Made
  <2> QED BY <2>1, <2>2
<1>3. SummaryInv => Window
  BY <1>1, <1>2 DEF Window, InWindow
<1> QED BY <1>3, SummaryInvariance, PTL
-----------------------------------------------------------------------------
(* Counters and gauges. *)

\* Sums over sets of calls.
Worth(c, a) == c[a[1]][a[2]].v
Worths(c, A) == [a \in A |-> Worth(c, a)]

LEMMA WorthOfBoth ==
    ASSUME NEW c, NEW A, NEW B, IsFiniteSet(A), IsFiniteSet(B), A \cap B = {},
           \A a \in A \cup B : Worth(c, a) \in Nat
    PROVE  /\ SumFunction(Worths(c, A)) \in Nat /\ SumFunction(Worths(c, B)) \in Nat
           /\ SumFunction(Worths(c, A \cup B)) = SumFunction(Worths(c, A)) + SumFunction(Worths(c, B))
<1>1. ASSUME NEW S, IsFiniteSet(S), \A a \in S : Worth(c, a) \in Nat
      PROVE  /\ SumFunction(Worths(c, S)) = Cardinality(Points(Worths(c, S), S))
             /\ IsFiniteSet(Points(Worths(c, S), S)) /\ SumFunction(Worths(c, S)) \in Nat
             /\ Points(Worths(c, S), S) = {p \in S \X Nat : p[2] < Worth(c, p[1])}
  <2>1. Worths(c, S) \in [S -> Nat]
    BY <1>1 DEF Worths
  <2>2. S \in SUBSET S
    OBVIOUS
  <2>3. SumFunction(Worths(c, S)) = SumFunctionOnSet(Worths(c, S), S) /\ SumFunction(Worths(c, S)) \in Nat
    BY <1>1, <2>1, SumFunctionType
  <2>4. SumFunctionOnSet(Worths(c, S), S) = Cardinality(Points(Worths(c, S), S))
    BY <1>1, <2>1, <2>2, SumIsPoints
  <2>5. IsFiniteSet(Points(Worths(c, S), S))
    BY <1>1, <2>1, <2>2, PointsFinite
  <2>6. Points(Worths(c, S), S) = {p \in S \X Nat : p[2] < Worth(c, p[1])}
    BY DEF Points, Worths
  <2> QED BY <2>3, <2>4, <2>5, <2>6
<1> DEFINE P(S) == {p \in S \X Nat : p[2] < Worth(c, p[1])}
<1>2. IsFiniteSet(A \cup B)
  BY FS_Union
<1>3. P(A \cup B) = P(A) \cup P(B) /\ P(A) \cap P(B) = {}
  OBVIOUS
<1>4. IsFiniteSet(P(A)) /\ IsFiniteSet(P(B))
  BY <1>1
<1> HIDE DEF P
<1>5. Cardinality(P(A) \cup P(B)) = Cardinality(P(A)) + Cardinality(P(B))
  <2>1. Cardinality({}) = 0
    BY FS_EmptySet
  <2>2. Cardinality(P(A)) \in Nat /\ Cardinality(P(B)) \in Nat
    BY <1>4, FS_CardinalityType
  <2>3. Cardinality(P(A) \cup P(B)) = Cardinality(P(A)) + Cardinality(P(B)) - Cardinality(P(A) \cap P(B))
    BY <1>4, FS_Union
  <2>4. Cardinality(P(A) \cap P(B)) = 0
    BY <1>3, <2>1
  <2> QED BY <2>2, <2>3, <2>4
<1>6. ASSUME NEW S, IsFiniteSet(S), \A a \in S : Worth(c, a) \in Nat
      PROVE  SumFunction(Worths(c, S)) = Cardinality(P(S)) /\ SumFunction(Worths(c, S)) \in Nat
  <2>1. Points(Worths(c, S), S) = P(S)
    BY DEF P, Points, Worths
  <2> QED BY <1>1, <1>6, <2>1
<1>7. /\ SumFunction(Worths(c, A)) = Cardinality(P(A)) /\ SumFunction(Worths(c, A)) \in Nat
      /\ SumFunction(Worths(c, B)) = Cardinality(P(B)) /\ SumFunction(Worths(c, B)) \in Nat
  BY <1>6
<1>8. SumFunction(Worths(c, A \cup B)) = Cardinality(P(A \cup B))
  BY <1>2, <1>6
<1> QED BY <1>3, <1>5, <1>7, <1>8

LEMMA WorthOfOne ==
    ASSUME NEW c, NEW a, Worth(c, a) \in Nat
    PROVE  SumFunction(Worths(c, {a})) = Worth(c, a)
<1>1. IsFiniteSet({a}) /\ Worths(c, {a}) \in [{a} -> Nat] /\ a \in {a} /\ {a} \in SUBSET {a}
  BY FS_Singleton DEF Worths
<1>2. SumFunction(Worths(c, {a})) = SumFunctionOnSet(Worths(c, {a}), {a})
  BY <1>1, SumFunctionType
<1>3. SumFunctionOnSet(Worths(c, {a}), {a}) = Worths(c, {a})[a] + SumFunctionOnSet(Worths(c, {a}), {a} \ {a})
  BY <1>1, SumRemove
<1>4. SumFunctionOnSet(Worths(c, {a}), {a} \ {a}) = 0
  <2>1. {a} \ {a} = {}
    OBVIOUS
  <2> QED BY <1>1, <2>1, SumEmpty
<1> QED BY <1>2, <1>3, <1>4 DEF Worths

LEMMA WorthOfNone ==
    ASSUME NEW c
    PROVE  SumFunction(Worths(c, {})) = 0
<1>1. IsFiniteSet({}) /\ Worths(c, {}) \in [{} -> Nat]
  BY FS_EmptySet DEF Worths
<1>2. SumFunction(Worths(c, {})) = SumFunctionOnSet(Worths(c, {}), {})
  BY <1>1, SumFunctionType
<1> QED BY <1>1, <1>2, SumEmpty

\* A call more.
LEMMA OneCallMore ==
    ASSUME NEW c, NEW A, IsFiniteSet(A), NEW a, a \notin A, \A b \in A \cup {a} : Worth(c, b) \in Nat
    PROVE  SumFunction(Worths(c, A \cup {a})) = SumFunction(Worths(c, A)) + Worth(c, a)
<1>1. IsFiniteSet({a}) /\ A \cap {a} = {}
  BY FS_Singleton
<1>2. SumFunction(Worths(c, {a})) = Worth(c, a)
  BY WorthOfOne
<1>3. PICK B : B = {a}
  OBVIOUS
<1>4. SumFunction(Worths(c, A \cup B)) = SumFunction(Worths(c, A)) + SumFunction(Worths(c, B))
  BY <1>1, <1>3, WorthOfBoth
<1> QED BY <1>2, <1>3, <1>4

-----------------------------------------------------------------------------
CallsMade == CellUsers \X Nat
Whole(c, A) == {a \in A : IsInteger(Worth(c, a))}
Broken(c, A) == {a \in A : ~IsInteger(Worth(c, a))}
Total(c, A) == SumFunction(Worths(c, A))


\* Whole and broken values of two sets of calls.
LEMMA TotalOfBoth ==
    ASSUME NEW c, NEW A, NEW B, IsFiniteSet(A), IsFiniteSet(B), \A a \in A \cup B : Worth(c, a) \in Nat
    PROVE  /\ Total(c, Whole(c, A)) \in Nat /\ Total(c, Broken(c, B)) \in Nat
           /\ Total(c, Whole(c, A) \cup Broken(c, B)) = Total(c, Whole(c, A)) + Total(c, Broken(c, B))
<1>1. PICK W, R : W = Whole(c, A) /\ R = Broken(c, B)
  OBVIOUS
<1>2. W \subseteq A /\ R \subseteq B /\ W \cap R = {}
  BY <1>1 DEF Whole, Broken
<1>3. IsFiniteSet(W) /\ IsFiniteSet(R)
  BY <1>2, FS_Subset
<1>4. \A a \in W \cup R : Worth(c, a) \in Nat
  BY <1>2
<1> QED BY <1>1, <1>2, <1>3, <1>4, WorthOfBoth DEF Total

LEMMA TotalOfParts ==
    ASSUME NEW c, NEW A, IsFiniteSet(A), \A a \in A : Worth(c, a) \in Nat
    PROVE  /\ Total(c, Whole(c, A)) \in Nat /\ Total(c, Broken(c, A)) \in Nat
           /\ Total(c, A) = Total(c, Whole(c, A)) + Total(c, Broken(c, A))
<1>1. Whole(c, A) \cup Broken(c, A) = A
  BY DEF Whole, Broken
<1>2. \A a \in A \cup A : Worth(c, a) \in Nat
  OBVIOUS
<1> QED BY <1>1, <1>2, TotalOfBoth

\* A call whose value comes in.
LEMMA CallComesIn ==
    ASSUME NEW c, NEW A, IsFiniteSet(A), NEW x, x \notin A, \A a \in A \cup {x} : Worth(c, a) \in Nat
    PROVE  /\ IsInteger(Worth(c, x)) =>
                /\ Total(c, Whole(c, A \cup {x})) = Total(c, Whole(c, A)) + Worth(c, x)
                /\ Broken(c, A \cup {x}) = Broken(c, A)
           /\ ~IsInteger(Worth(c, x)) =>
                /\ Total(c, Broken(c, A \cup {x})) = Total(c, Broken(c, A)) + Worth(c, x)
                /\ Whole(c, A \cup {x}) = Whole(c, A)
<1>1. ASSUME NEW S \in SUBSET A
      PROVE  SumFunction(Worths(c, S \cup {x})) = SumFunction(Worths(c, S)) + Worth(c, x)
  <2>1. IsFiniteSet(S) /\ x \notin S /\ \A b \in S \cup {x} : Worth(c, b) \in Nat
    BY FS_Subset
  <2> QED BY <2>1, OneCallMore
<1>2. Whole(c, A) \in SUBSET A /\ Broken(c, A) \in SUBSET A
  BY DEF Whole, Broken
<1>3. ASSUME IsInteger(Worth(c, x))
      PROVE  Whole(c, A \cup {x}) = Whole(c, A) \cup {x} /\ Broken(c, A \cup {x}) = Broken(c, A)
  BY <1>3 DEF Whole, Broken
<1>4. ASSUME ~IsInteger(Worth(c, x))
      PROVE  Broken(c, A \cup {x}) = Broken(c, A) \cup {x} /\ Whole(c, A \cup {x}) = Whole(c, A)
  BY <1>4 DEF Whole, Broken
<1>5. /\ Total(c, Whole(c, A) \cup {x}) = Total(c, Whole(c, A)) + Worth(c, x)
      /\ Total(c, Broken(c, A) \cup {x}) = Total(c, Broken(c, A)) + Worth(c, x)
  BY <1>1, <1>2 DEF Total
<1> QED BY <1>3, <1>4, <1>5

UserStates == [pc : {"idle", "counter", "swap counter", "exemplar", "set", "add", "swap gauge"}, made : Nat, old : Int]
ReaderStates == [pc : {"idle", "reads", "done"}, next : Nat, before : SUBSET CallsMade, exemplar : CallsMade \cup {NoCall},
                 bits : Nat, int : Nat, reads : Nat]

\* A call on the counter has a value that is not negative, and is counted when its value is in.
CallsKept(u) ==
    /\ user[u].made <= Len(cellCalls[u])
    /\ user[u].pc # "idle" => user[u].made > 0
    /\ user[u].pc \in {"counter", "swap counter", "exemplar"} => Worth(cellCalls, This(u)) \in Nat
    /\ user[u].pc \in {"counter", "swap counter"} => This(u) \notin landed
    /\ user[u].pc = "swap counter" => ~IsInteger(Worth(cellCalls, This(u)))
    /\ user[u].pc = "exemplar" => This(u) \in landed

UsersInv ==
    /\ cellCalls \in CellSetups /\ user \in [CellUsers -> UserStates]
    /\ \A u \in CellUsers : CallsKept(u)

\* What is in the two words of the counter.
WordsInv ==
    /\ landed \in SUBSET CallsMade /\ IsFiniteSet(landed)
    /\ \A a \in landed : Worth(cellCalls, a) \in Nat /\ a[2] <= user[a[1]].made
    /\ lastExemplar \in landed \cup {NoCall}
    /\ valInt = Total(cellCalls, Whole(cellCalls, landed)) /\ valBits = Total(cellCalls, Broken(cellCalls, landed))
    /\ gaugeBits = gaugeWant /\ gaugeBits \in Int

\* What a reader has read by now: the word of the floats is from a moment when the
\* exemplar's call was in, the word of the integers from a later one.
ReadKept(r) ==
    LET q == cellReader[r] IN
    /\ q.pc # "idle" => q.before \subseteq landed
    /\ q.pc = "reads" => q.next \in 1..3
    /\ q.pc = "reads" /\ q.next >= 2 => q.exemplar \in landed \cup {NoCall}
    /\ q.pc = "reads" /\ q.next = 3 =>
         \E B \in SUBSET landed : /\ q.before \subseteq B /\ q.exemplar \in B \cup {NoCall}
                                  /\ q.bits = Total(cellCalls, Broken(cellCalls, B))
    /\ q.pc = "done" =>
         \E A \in SUBSET landed : /\ q.before \subseteq A /\ q.exemplar \in A \cup {NoCall}
                                  /\ q.bits + q.int = Total(cellCalls, A)

ReadersInv == cellReader \in [CellReaders -> ReaderStates] /\ \A r \in CellReaders : ReadKept(r)

CellInv == UsersInv /\ WordsInv /\ ReadersInv

LEMMA CellsAreExact == CellInv => CellsExact
<1> SUFFICES ASSUME CellInv PROVE CellsExact
  OBVIOUS
<1>0. \A A : TotalOf(A) = Total(cellCalls, A)
  BY DEF TotalOf, CallOf, Worths, Worth, Total
<1>1. WriteBetween
  BY <1>0 DEF CellInv, ReadersInv, ReadKept, WriteBetween
<1>2. valBits + valInt = TotalOf(landed)
  <2>1. IsFiniteSet(landed) /\ \A a \in landed : Worth(cellCalls, a) \in Nat
    BY DEF CellInv, WordsInv
  <2>2. /\ Total(cellCalls, Whole(cellCalls, landed)) \in Nat /\ Total(cellCalls, Broken(cellCalls, landed)) \in Nat
        /\ Total(cellCalls, landed) = Total(cellCalls, Whole(cellCalls, landed)) + Total(cellCalls, Broken(cellCalls, landed))
    BY <2>1, TotalOfParts
  <2> QED BY <1>0, <2>2 DEF CellInv, WordsInv
<1> QED BY <1>1, <1>2 DEF CellsExact, NoCallLost, CellInv, WordsInv

\* A step of one goroutine.
LEMMA UserMoves ==
    ASSUME UsersInv, NEW u \in CellUsers, NEW q \in UserStates, user' = [user EXCEPT ![u] = q],
           cellCalls' = cellCalls, landed \subseteq landed', landed' \subseteq landed \cup {This(u)},
           CallsKept(u)'
    PROVE  UsersInv'
<1>1. user' \in [CellUsers -> UserStates]
  BY DEF UsersInv
<1>2. ASSUME NEW v \in CellUsers \ {u} PROVE CallsKept(v)'
  <2>1. user'[v] = user[v] /\ This(v)' = This(v) /\ This(v) # This(u)
    BY DEF UsersInv, This
  <2>2. CallsKept(v)
    BY DEF UsersInv
  <2> QED BY <2>1, <2>2 DEF CallsKept
<1> QED BY <1>1, <1>2 DEF UsersInv

LEMMA Goings ==
    ASSUME UsersInv, NEW u \in CellUsers, NEW place \in {"idle", "counter", "swap counter", "exemplar", "set", "add", "swap gauge"},
           Goes(u, place)
    PROVE  \E q \in UserStates : /\ user' = [user EXCEPT ![u] = q] /\ q.pc = place
                                 /\ q.made = user[u].made /\ q.old = user[u].old
<1>1. user[u] \in UserStates
  BY DEF UsersInv
<1>2. [user[u] EXCEPT !.pc = place] \in UserStates
  BY <1>1 DEF UserStates
<1>3. PICK q \in UserStates : q = [user[u] EXCEPT !.pc = place]
  BY <1>2
<1>4. q.pc = place /\ q.made = user[u].made /\ q.old = user[u].old
  BY <1>1, <1>3 DEF UserStates
<1>5. user' = [user EXCEPT ![u] = q]
  BY <1>3 DEF Goes
<1> QED BY <1>4, <1>5

\* What readers have read stays so when more calls come in.
LEMMA ReadersStay ==
    ASSUME ReadersInv, cellReader' = cellReader, cellCalls' = cellCalls, landed \subseteq landed'
    PROVE  ReadersInv'
<1>1. ASSUME NEW r \in CellReaders PROVE ReadKept(r)'
  <2>1. ReadKept(r)
    BY DEF ReadersInv
  <2> QED BY <2>1 DEF ReadKept
<1> QED BY <1>1 DEF ReadersInv

LEMMA NothingComesIn ==
    ASSUME CellInv, NEW u \in CellUsers, NEW q \in UserStates, user' = [user EXCEPT ![u] = q],
           q.made \in {user[u].made, user[u].made + 1}, UNCHANGED <<cellCalls, valBits, valInt, landed, cellReader>>,
           lastExemplar' \in landed \cup {NoCall}, gaugeBits' = gaugeWant', gaugeBits' \in Int, CallsKept(u)'
    PROVE  CellInv'
<1>1. UsersInv' /\ ReadersInv'
  BY UserMoves, ReadersStay DEF CellInv
<1>2. ASSUME NEW a \in landed PROVE a[2] <= user'[a[1]].made
  <2>1. a[1] \in CellUsers /\ a[2] \in Nat /\ a[2] <= user[a[1]].made
    BY DEF CellInv, WordsInv, CallsMade
  <2>2. user[a[1]].made \in Nat /\ q.made \in Nat
    BY <2>1 DEF CellInv, UsersInv, UserStates
  <2>3. CASE a[1] = u
    BY <2>1, <2>2, <2>3 DEF CellInv, UsersInv
  <2>4. CASE a[1] # u
    BY <2>1, <2>4 DEF CellInv, UsersInv
  <2> QED BY <2>3, <2>4
<1>3. WordsInv'
  BY <1>2 DEF CellInv, WordsInv
<1> QED BY <1>1, <1>3 DEF CellInv

Adding(u) == user[u].pc \in {"counter", "swap counter"}

\* The word that a value is added to.
WordGains(v) == /\ IsInteger(v) => valInt' = valInt + v /\ valBits' = valBits
                /\ ~IsInteger(v) => valBits' = valBits + v /\ valInt' = valInt

LEMMA SomethingComesIn ==
    ASSUME CellInv, NEW u \in CellUsers, Adding(u),
           Goes(u, AfterAdd(u)), landed' = landed \cup {This(u)},
           WordGains(Worth(cellCalls, This(u))),
           UNCHANGED <<cellCalls, lastExemplar, gaugeVars, cellReader>>
    PROVE  CellInv'
<1>0. user[u].made \in Nat
  BY DEF CellInv, UsersInv, UserStates
<1>1. /\ UsersInv /\ WordsInv /\ CallsKept(u) /\ user[u].made \in Nat
      /\ This(u) \in CallsMade /\ This(u) \notin landed /\ Worth(cellCalls, This(u)) \in Nat
  BY DEF Adding, CellInv, UsersInv, UserStates, CallsKept, This, CallsMade
<1>2. PICK q \in UserStates : /\ user' = [user EXCEPT ![u] = q] /\ q.pc = AfterAdd(u)
                              /\ q.made = user[u].made /\ q.old = user[u].old
  BY <1>1, Goings DEF AfterAdd
<1>3. user'[u] = q /\ This(u)' = This(u)
  BY <1>1, <1>2 DEF UsersInv, This
<1>4. CallsKept(u)'
  BY <1>1, <1>2, <1>3 DEF Adding, CallsKept, AfterAdd
<1>5. UsersInv' /\ ReadersInv'
  BY <1>1, <1>2, <1>4, UserMoves, ReadersStay DEF CellInv
<1>6. /\ landed' \in SUBSET CallsMade /\ IsFiniteSet(landed') /\ lastExemplar' \in landed' \cup {NoCall}
      /\ \A a \in landed' : Worth(cellCalls, a) \in Nat
  <2>1. landed \in SUBSET CallsMade /\ IsFiniteSet(landed) /\ lastExemplar \in landed \cup {NoCall}
        /\ \A a \in landed : Worth(cellCalls, a) \in Nat
    BY <1>1 DEF WordsInv
  <2>2. IsFiniteSet(landed \cup {This(u)})
    BY <2>1, FS_AddElement
  <2> QED BY <1>1, <2>1, <2>2
<1>7. ASSUME NEW a \in landed' PROVE a[2] <= user'[a[1]].made
  <2>1. CASE a \in landed
    <3>1. a[1] \in CellUsers /\ a[2] <= user[a[1]].made
      BY <1>1, <2>1 DEF WordsInv, CallsMade
    <3> QED BY <1>1, <1>2, <3>1 DEF UsersInv
  <2>2. CASE a = This(u)
    <3>1. a[1] = u /\ a[2] = user[u].made
      BY <2>2 DEF This
    <3>2. user'[u].made = user[u].made
      BY <1>2, <1>3
    <3>3. user[u].made <= user[u].made
      BY <1>0
    <3> QED BY <3>1, <3>2, <3>3, Zenon
  <2> QED BY <2>1, <2>2
<1>8. /\ valInt' = Total(cellCalls, Whole(cellCalls, landed'))
      /\ valBits' = Total(cellCalls, Broken(cellCalls, landed'))
  <2>1. IsFiniteSet(landed) /\ \A a \in landed \cup {This(u)} : Worth(cellCalls, a) \in Nat
    BY <1>1 DEF WordsInv
  <2>2. /\ valInt = Total(cellCalls, Whole(cellCalls, landed))
        /\ valBits = Total(cellCalls, Broken(cellCalls, landed))
    BY <1>1 DEF WordsInv
  <2>3. CASE IsInteger(Worth(cellCalls, This(u)))
    BY <1>1, <2>1, <2>2, <2>3, CallComesIn DEF WordGains
  <2>4. CASE ~IsInteger(Worth(cellCalls, This(u)))
    BY <1>1, <2>1, <2>2, <2>4, CallComesIn DEF WordGains
  <2> QED BY <2>3, <2>4
<1>9. WordsInv'
  BY <1>1, <1>6, <1>7, <1>8 DEF WordsInv, gaugeVars
<1> QED BY <1>5, <1>9 DEF CellInv

LEMMA UserCellStep ==
    ASSUME CellInv, NEW u \in CellUsers, Begin(u) \/ UserStep(u)
    PROVE  CellInv'
<1>1. /\ UsersInv /\ WordsInv /\ CallsKept(u) /\ user[u] \in UserStates /\ user[u].made \in Nat
      /\ lastExemplar \in landed \cup {NoCall} /\ gaugeBits = gaugeWant /\ gaugeBits \in Int
  BY DEF CellInv, UsersInv, WordsInv, UserStates
<1>2. ThisCall(u).v = Worth(cellCalls, This(u)) /\ ThisCall(u) = cellCalls[u][user[u].made]
  BY DEF ThisCall, CallOf, Worth, This
<1>3. cellCalls[u] \in Seq(CellCalls)
  BY <1>1, CellAssumption DEF UsersInv
<1>v. user[u].made > 0 => ThisCall(u).v \in Int
  <2>1. ASSUME user[u].made > 0 PROVE cellCalls[u][user[u].made] \in CellCalls
    <3>1. user[u].made \in 1 .. Len(cellCalls[u])
      <4>1. PICK m \in Nat : m = user[u].made
        BY <1>1
      <4>2. Len(cellCalls[u]) \in Nat
        BY <1>3
      <4>3. m <= Len(cellCalls[u]) /\ m > 0
        BY <1>1, <2>1, <4>1 DEF CallsKept
      <4>4. m \in 1 .. Len(cellCalls[u])
        BY <4>1, <4>2, <4>3
      <4> QED BY <4>1, <4>4
    <3> QED BY <1>3, <3>1
  <2> QED BY <1>2, <2>1 DEF CellCalls
<1>4. CASE Begin(u)
  <2>1. PICK n \in Nat : n = user[u].made + 1
    BY <1>1
  <2>2. n \in 1 .. Len(cellCalls[u])
    BY <1>1, <1>3, <1>4, <2>1 DEF Begin
  <2>3. cellCalls[u][n] \in CellCalls
    BY <1>3, <2>2
  <2>4. PICK place \in {"idle", "counter", "set", "add"} :
          place = IF cellCalls[u][n].op = "counter" /\ cellCalls[u][n].v < 0 THEN "idle" ELSE cellCalls[u][n].op
    BY <2>3 DEF CellCalls
  <2>5. place = "counter" => cellCalls[u][n].v \in Nat
    BY <2>3, <2>4 DEF CellCalls
  <2>6. PICK q \in UserStates : q = [user[u] EXCEPT !.made = n, !.pc = place]
    BY <1>1 DEF UserStates
  <2>7. q.made = n /\ q.pc = place
    BY <1>1, <2>6 DEF UserStates
  <2>8. user' = [user EXCEPT ![u] = q]
    BY <1>4, <2>1, <2>4, <2>6 DEF Begin
  <2>9. This(u)' = <<u, n>> /\ user'[u] = q
    BY <1>1, <2>7, <2>8 DEF UsersInv, This
  <2>10. <<u, n>> \notin landed
    <3>1. ASSUME <<u, n>> \in landed PROVE FALSE
      <4>1. <<u, n>>[2] <= user[<<u, n>>[1]].made
        BY <1>1, <3>1 DEF WordsInv
      <4> QED BY <1>1, <2>1, <4>1
    <3> QED BY <3>1
  <2>11. Worth(cellCalls, <<u, n>>) = cellCalls[u][n].v
    BY DEF Worth
  <2>12. CallsKept(u)'
    <3>1. cellCalls' = cellCalls /\ landed' = landed /\ user'[u].made = n /\ user'[u].pc = place
      BY <1>4, <2>7, <2>9 DEF Begin, counterVars
    <3>2. n > 0 /\ n <= Len(cellCalls[u])
      BY <2>2
    <3>3. place \notin {"swap counter", "exemplar"}
      OBVIOUS
    <3> QED BY <2>5, <2>9, <2>10, <2>11, <3>1, <3>2, <3>3 DEF CallsKept
  <2> QED BY <1>1, <1>4, <2>1, <2>7, <2>8, <2>12, NothingComesIn DEF Begin, counterVars, gaugeVars
<1>5. CASE AddInteger(u)
  <2>1. WordGains(Worth(cellCalls, This(u)))
    BY <1>2, <1>5 DEF AddInteger, WordGains
  <2> QED BY <1>5, <2>1, SomethingComesIn DEF AddInteger, Adding
<1>6. CASE SwapCounter(u) /\ Swaps(valBits, user[u].old)
  <2>1. ~IsInteger(Worth(cellCalls, This(u)))
    BY <1>1, <1>6 DEF SwapCounter, CallsKept
  <2>2. valBits' = valBits + Worth(cellCalls, This(u))
    BY <1>2, <1>6 DEF SwapCounter, Swaps
  <2>3. WordGains(Worth(cellCalls, This(u)))
    BY <1>6, <2>1, <2>2 DEF SwapCounter, WordGains
  <2> QED BY <1>6, <2>3, SomethingComesIn DEF SwapCounter, Adding
<1>7. ASSUME NEW place \in {"idle", "counter", "swap counter", "exemplar", "set", "add", "swap gauge"},
             NEW q \in UserStates, user' = [user EXCEPT ![u] = q], q.pc = place, q.made = user[u].made,
             user[u].pc # "idle", place \in {"counter", "swap counter"} => user[u].pc \in {"counter", "swap counter"},
             place = "swap counter" => ~IsInteger(ThisCall(u).v), place # "exemplar",
             UNCHANGED <<cellCalls, valBits, valInt, landed, cellReader>>,
             lastExemplar' \in landed \cup {NoCall}, gaugeBits' = gaugeWant', gaugeBits' \in Int
      PROVE  CellInv'
  <2>1. user'[u] = q /\ This(u)' = This(u)
    BY <1>1, <1>7 DEF UsersInv, This
  <2>2. CallsKept(u)'
    BY <1>1, <1>2, <1>7, <2>1 DEF CallsKept
  <2> QED BY <1>7, <2>2, NothingComesIn
<1>8. ASSUME NEW place \in {"idle", "counter", "swap counter", "exemplar", "set", "add", "swap gauge"},
             Goes(u, place), user[u].pc # "idle", place # "exemplar", place # "swap counter",
             place = "counter" => user[u].pc = "swap counter",
             UNCHANGED <<cellCalls, valBits, valInt, landed, cellReader>>,
             lastExemplar' \in landed \cup {NoCall}, gaugeBits' = gaugeWant', gaugeBits' \in Int
      PROVE  CellInv'
  <2>1. PICK q \in UserStates : /\ user' = [user EXCEPT ![u] = q] /\ q.pc = place
                                /\ q.made = user[u].made /\ q.old = user[u].old
    BY <1>1, <1>8, Goings
  <2> QED BY <1>7, <1>8, <2>1
<1>9. CASE SwapCounter(u) /\ ~Swaps(valBits, user[u].old)
  BY <1>1, <1>8, <1>9 DEF SwapCounter, gaugeVars
<1>10. CASE UpdateExemplar(u)
  <2>1. This(u) \in landed
    BY <1>1, <1>10 DEF UpdateExemplar, CallsKept
  <2> QED BY <1>1, <1>8, <1>10, <2>1 DEF UpdateExemplar, gaugeVars
<1>11. CASE SetGauge(u)
  <2>1. ThisCall(u).v \in Int
    BY <1>1, <1>v, <1>11 DEF SetGauge, CallsKept
  <2> QED BY <1>1, <1>8, <1>11, <2>1 DEF SetGauge, counterVars
<1>12. CASE SwapGauge(u)
  <2>1. CASE Swaps(gaugeBits, user[u].old)
    <3>1. ThisCall(u).v \in Int
      BY <1>1, <1>v, <1>12 DEF SwapGauge, CallsKept
    <3>2. gaugeBits' \in Int
      <4>1. PICK g \in Int, v \in Int : g = gaugeBits /\ v = ThisCall(u).v
        BY <1>1, <3>1
      <4>2. gaugeBits' = g + v
        BY <1>12, <2>1, <4>1 DEF SwapGauge, Swaps
      <4> QED BY <4>1, <4>2
    <3> QED BY <1>1, <1>8, <1>12, <2>1, <3>2 DEF SwapGauge, Swaps, counterVars
  <2>2. CASE ~Swaps(gaugeBits, user[u].old)
    BY <1>1, <1>8, <1>12, <2>2 DEF SwapGauge, counterVars, gaugeVars
  <2> QED BY <2>1, <2>2
<1>13. ASSUME NEW place \in {"swap counter", "swap gauge"}, NEW old \in Int,
              user' = [user EXCEPT ![u].pc = place, ![u].old = old], user[u].pc # "idle",
              place = "swap counter" => user[u].pc = "counter" /\ ~IsInteger(ThisCall(u).v),
              UNCHANGED <<cellCalls, counterVars, gaugeVars, cellReader>>
       PROVE  CellInv'
  <2>1. PICK q \in UserStates : q = [user[u] EXCEPT !.pc = place, !.old = old]
    BY <1>1 DEF UserStates
  <2>2. q.made = user[u].made /\ q.pc = place
    BY <1>1, <2>1 DEF UserStates
  <2>3. user' = [user EXCEPT ![u] = q]
    BY <1>13, <2>1
  <2> QED BY <1>1, <1>7, <1>13, <2>2, <2>3 DEF counterVars, gaugeVars
<1>14. CASE LoadCounter(u)
  <2>1. valBits \in Int
    <3>1. IsFiniteSet(landed) /\ \A a \in landed : Worth(cellCalls, a) \in Nat
      BY <1>1 DEF WordsInv
    <3> QED BY <1>1, <3>1, TotalOfParts DEF WordsInv
  <2> QED BY <1>13, <1>14, <2>1 DEF LoadCounter
<1>15. CASE LoadGauge(u)
  BY <1>1, <1>13, <1>15 DEF LoadGauge
<1> QED BY <1>4, <1>5, <1>6, <1>9, <1>10, <1>11, <1>12, <1>14, <1>15 DEF UserStep

\* The steps of a reader.
NewReading(A, n) == [NewCellReader EXCEPT !.pc = "reads", !.before = A, !.reads = n]
ReadingMore(q, place, n, e, b, i) == [q EXCEPT !.pc = place, !.next = n, !.exemplar = e, !.bits = b, !.int = i]

HasRead(p, q, place, n, e, b, i) ==
    /\ p \in ReaderStates /\ p.pc = place /\ p.next = n /\ p.before = q.before
    /\ p.exemplar = e /\ p.bits = b /\ p.int = i

LEMMA ReaderForm ==
    ASSUME NEW q \in ReaderStates, NEW place \in {"idle", "reads", "done"}, NEW n \in Nat,
           NEW e \in CallsMade \cup {NoCall}, NEW b \in Nat, NEW i \in Nat
    PROVE  HasRead(ReadingMore(q, place, n, e, b, i), q, place, n, e, b, i)
<1>1. PICK q1 : q1 = [q EXCEPT !.pc = place]
  OBVIOUS
<1>2. q1 \in ReaderStates /\ q1.pc = place /\ q1.before = q.before
  BY <1>1 DEF ReaderStates
<1>3. PICK q2 : q2 = [q1 EXCEPT !.next = n]
  OBVIOUS
<1>4. q2 \in ReaderStates /\ q2.pc = place /\ q2.before = q.before /\ q2.next = n
  BY <1>2, <1>3 DEF ReaderStates
<1>5. PICK q3 : q3 = [q2 EXCEPT !.exemplar = e]
  OBVIOUS
<1>6. q3 \in ReaderStates /\ q3.pc = place /\ q3.before = q.before /\ q3.next = n /\ q3.exemplar = e
  BY <1>4, <1>5 DEF ReaderStates
<1>7. PICK q4 : q4 = [q3 EXCEPT !.bits = b]
  OBVIOUS
<1>8. /\ q4 \in ReaderStates /\ q4.pc = place /\ q4.before = q.before /\ q4.next = n /\ q4.exemplar = e
      /\ q4.bits = b
  BY <1>6, <1>7 DEF ReaderStates
<1>9. ReadingMore(q, place, n, e, b, i) = [q4 EXCEPT !.int = i]
  BY <1>1, <1>3, <1>5, <1>7 DEF ReadingMore
<1>10. PICK p : p = [q4 EXCEPT !.int = i]
  OBVIOUS
<1>11. HasRead(p, q, place, n, e, b, i)
  BY <1>8, <1>10 DEF ReaderStates, HasRead
<1> QED BY <1>9, <1>10, <1>11

LEMMA NewReaderForm ==
    ASSUME NEW A \in SUBSET CallsMade, NEW n \in Nat,
           NEW p, p = NewReading(A, n)
    PROVE  p \in ReaderStates /\ p.pc = "reads" /\ p.next = 1 /\ p.before = A
<1>1. NewCellReader \in ReaderStates /\ NewCellReader.next = 1
  BY DEF NewCellReader, ReaderStates
<1>2. PICK q1 : q1 = [NewCellReader EXCEPT !.pc = "reads"]
  OBVIOUS
<1>3. q1 \in ReaderStates /\ q1.pc = "reads" /\ q1.next = 1
  BY <1>1, <1>2 DEF ReaderStates
<1>4. PICK q2 : q2 = [q1 EXCEPT !.before = A]
  OBVIOUS
<1>5. q2 \in ReaderStates /\ q2.pc = "reads" /\ q2.next = 1 /\ q2.before = A
  BY <1>3, <1>4 DEF ReaderStates
<1>6. p = [q2 EXCEPT !.reads = n]
  BY <1>2, <1>4 DEF NewReading
<1> QED BY <1>5, <1>6 DEF ReaderStates

LEMMA ReaderCellStep ==
    ASSUME CellInv, NEW r \in CellReaders, StartWriteCounter(r) \/ ReadWord(r) \/ CounterWritten(r)
    PROVE  CellInv'
<1> DEFINE q == cellReader[r]
<1>1. /\ UsersInv /\ WordsInv /\ ReadersInv /\ q \in ReaderStates /\ ReadKept(r)
      /\ landed \in SUBSET CallsMade /\ IsFiniteSet(landed) /\ lastExemplar \in landed \cup {NoCall}
      /\ \A a \in landed : Worth(cellCalls, a) \in Nat
  BY DEF CellInv, WordsInv, ReadersInv
<1>2. UNCHANGED <<cellCalls, counterVars, gaugeVars, user>>
  BY DEF StartWriteCounter, ReadWord, CounterWritten
<1>3. UsersInv' /\ WordsInv'
  BY <1>1, <1>2 DEF UsersInv, CallsKept, WordsInv, counterVars, gaugeVars, This
<1>4. ASSUME NEW p \in ReaderStates, cellReader' = [cellReader EXCEPT ![r] = p], ReadKept(r)'
      PROVE  CellInv'
  <2>1. ASSUME NEW s \in CellReaders PROVE ReadKept(s)'
    <3>1. CASE s = r
      BY <1>4, <3>1
    <3>2. CASE s # r
      <4>1. cellReader'[s] = cellReader[s] /\ ReadKept(s)
        BY <1>1, <1>4, <3>2 DEF ReadersInv
      <4> QED BY <1>2, <4>1 DEF ReadKept, counterVars
    <3> QED BY <3>1, <3>2
  <2>2. cellReader' \in [CellReaders -> ReaderStates]
    BY <1>1, <1>4 DEF ReadersInv
  <2> QED BY <1>3, <2>1, <2>2 DEF CellInv, ReadersInv
<1>5. CASE StartWriteCounter(r)
  <2>0. PICK n \in Nat : n = q.reads + 1
    BY <1>1 DEF ReaderStates
  <2>1. PICK p : p = NewReading(landed, n)
    OBVIOUS
  <2>2. p \in ReaderStates /\ p.pc = "reads" /\ p.next = 1 /\ p.before = landed
    BY <1>1, <2>0, <2>1, NewReaderForm
  <2>3. cellReader' = [cellReader EXCEPT ![r] = p]
    BY <1>5, <2>0, <2>1 DEF StartWriteCounter, NewReading
  <2>4. cellReader'[r] = p
    BY <1>1, <2>3 DEF ReadersInv
  <2>5. ReadKept(r)'
    BY <1>2, <2>2, <2>4 DEF ReadKept, counterVars
  <2> QED BY <1>4, <2>2, <2>3, <2>5
<1>6. CASE CounterWritten(r)
  <2>1. PICK p : p = [q EXCEPT !.pc = "idle"]
    OBVIOUS
  <2>2. p \in ReaderStates /\ p.pc = "idle"
    BY <1>1, <2>1 DEF ReaderStates
  <2>3. cellReader' = [cellReader EXCEPT ![r] = p]
    BY <1>6, <2>1 DEF CounterWritten
  <2>4. cellReader'[r] = p
    BY <1>1, <2>3 DEF ReadersInv
  <2>5. ReadKept(r)'
    BY <2>2, <2>4 DEF ReadKept
  <2> QED BY <1>4, <2>2, <2>3, <2>5
<1>7. CASE ReadWord(r)
  <2>1. q.pc = "reads" /\ q.next \in 1 .. 3 /\ q.before \subseteq landed /\ Len(ReadOrder) = 3
    BY <1>1, <1>7 DEF ReadWord, ReadKept, ReadOrder
  <2>2. /\ Total(cellCalls, Whole(cellCalls, landed)) \in Nat /\ Total(cellCalls, Broken(cellCalls, landed)) \in Nat
        /\ valInt = Total(cellCalls, Whole(cellCalls, landed)) /\ valBits = Total(cellCalls, Broken(cellCalls, landed))
    BY <1>1, TotalOfParts DEF WordsInv
  <2>3. ASSUME NEW place \in {"idle", "reads", "done"}, NEW e \in CallsMade \cup {NoCall}, NEW b \in Nat, NEW i \in Nat,
               place = IF q.next = 3 THEN "done" ELSE "reads",
               e = IF q.next = 1 THEN lastExemplar ELSE q.exemplar,
               b = IF q.next = 2 THEN valBits ELSE q.bits,
               i = IF q.next = 3 THEN valInt ELSE q.int
        PROVE  \E p \in ReaderStates :
                 /\ cellReader' = [cellReader EXCEPT ![r] = p]
                 /\ p.pc = place /\ p.next = q.next + 1 /\ p.before = q.before
                 /\ p.exemplar = e /\ p.bits = b /\ p.int = i
    <3>1. /\ ReadOrder[q.next] = "exemplar" <=> q.next = 1
          /\ ReadOrder[q.next] = "bits" <=> q.next = 2
          /\ ReadOrder[q.next] = "int" <=> q.next = 3
      BY <2>1 DEF ReadOrder
    <3>2. PICK n \in Nat : n = q.next + 1
      BY <2>1
    <3>3. PICK p : p = ReadingMore(q, place, n, e, b, i)
      OBVIOUS
    <3>4. cellReader' = [cellReader EXCEPT ![r] = p]
      BY <1>7, <2>1, <2>3, <3>1, <3>2, <3>3 DEF ReadWord, ReadingMore
    <3>5. /\ p \in ReaderStates /\ p.pc = place /\ p.next = n /\ p.before = q.before
          /\ p.exemplar = e /\ p.bits = b /\ p.int = i
      <4>1. q \in ReaderStates /\ n \in Nat
        BY <1>1, <3>2
      <4>2. place \in {"idle", "reads", "done"} /\ e \in CallsMade \cup {NoCall} /\ b \in Nat /\ i \in Nat
        BY <2>3
      <4>3. HasRead(ReadingMore(q, place, n, e, b, i), q, place, n, e, b, i)
        BY <4>1, <4>2, ReaderForm, Zenon
      <4> QED BY <3>3, <4>3 DEF HasRead
    <3> QED BY <3>2, <3>4, <3>5
  <2>t. /\ q.exemplar \in CallsMade \cup {NoCall} /\ lastExemplar \in CallsMade \cup {NoCall}
        /\ q.bits \in Nat /\ q.int \in Nat /\ valBits \in Nat /\ valInt \in Nat
    BY <1>1, <2>2 DEF ReaderStates
  <2>4. CASE q.next = 1
    <3>1. PICK p \in ReaderStates :
            /\ cellReader' = [cellReader EXCEPT ![r] = p]
            /\ p.pc = "reads" /\ p.next = q.next + 1 /\ p.before = q.before
            /\ p.exemplar = lastExemplar /\ p.bits = q.bits /\ p.int = q.int
      BY <2>3, <2>t, <2>4
    <3>2. p.next = 2
      BY <2>4, <3>1
    <3>4. cellReader'[r] = p
      BY <1>1, <3>1 DEF ReadersInv
    <3>5. ReadKept(r)'
      BY <1>1, <1>2, <2>1, <3>1, <3>2, <3>4 DEF ReadKept, counterVars
    <3> QED BY <1>4, <3>1, <3>5
  <2>5. CASE q.next = 2
    <3>1. PICK p \in ReaderStates :
            /\ cellReader' = [cellReader EXCEPT ![r] = p]
            /\ p.pc = "reads" /\ p.next = q.next + 1 /\ p.before = q.before
            /\ p.exemplar = q.exemplar /\ p.bits = valBits /\ p.int = q.int
      BY <2>3, <2>t, <2>5
    <3>2. p.next = 3
      BY <2>5, <3>1
    <3>4. cellReader'[r] = p
      BY <1>1, <3>1 DEF ReadersInv
    <3>5. q.exemplar \in landed \cup {NoCall}
      BY <1>1, <2>1, <2>5 DEF ReadKept
    <3>6. ReadKept(r)'
      BY <1>1, <1>2, <2>1, <2>2, <3>1, <3>2, <3>4, <3>5 DEF ReadKept, counterVars
    <3> QED BY <1>4, <3>1, <3>6
  <2>6. CASE q.next = 3
    <3>1. PICK p \in ReaderStates :
            /\ cellReader' = [cellReader EXCEPT ![r] = p]
            /\ p.pc = "done" /\ p.next = q.next + 1 /\ p.before = q.before
            /\ p.exemplar = q.exemplar /\ p.bits = q.bits /\ p.int = valInt
      BY <2>3, <2>t, <2>6
    <3>2. p.next = 4
      BY <2>6, <3>1
    <3>4. cellReader'[r] = p
      BY <1>1, <3>1 DEF ReadersInv
    <3>5. PICK B \in SUBSET landed : /\ q.before \subseteq B /\ q.exemplar \in B \cup {NoCall}
                                     /\ q.bits = Total(cellCalls, Broken(cellCalls, B))
      BY <1>1, <2>1, <2>6 DEF ReadKept
    <3>6. PICK A : A = Whole(cellCalls, landed) \cup Broken(cellCalls, B)
      OBVIOUS
    <3>7. B \subseteq A /\ A \subseteq landed
      BY <3>5, <3>6 DEF Whole, Broken
    <3>8. q.bits + valInt = Total(cellCalls, A)
      <4>1. IsFiniteSet(B) /\ \A a \in landed \cup B : Worth(cellCalls, a) \in Nat
        BY <1>1, <3>5, FS_Subset
      <4>2. /\ Total(cellCalls, Broken(cellCalls, B)) \in Nat
            /\ Total(cellCalls, A) = Total(cellCalls, Whole(cellCalls, landed)) + Total(cellCalls, Broken(cellCalls, B))
        BY <1>1, <3>6, <4>1, TotalOfBoth
      <4> QED BY <2>2, <3>5, <4>2
    <3>9. ReadKept(r)'
      BY <1>2, <2>1, <3>1, <3>2, <3>4, <3>5, <3>7, <3>8 DEF ReadKept, counterVars
    <3> QED BY <1>4, <3>1, <3>9
  <2> QED BY <2>1, <2>4, <2>5, <2>6
<1> QED BY <1>5, <1>6, <1>7

LEMMA CellInitial == CellInit => CellInv
<1> SUFFICES ASSUME CellInit PROVE CellInv
  OBVIOUS
<1>1. UsersInv
  <2>1. ASSUME NEW u \in CellUsers PROVE user[u] \in UserStates /\ CallsKept(u)
    <3>1. user[u] = [pc |-> "idle", made |-> 0, old |-> 0]
      BY DEF CellInit
    <3>2. cellCalls[u] \in Seq(CellCalls)
      BY CellAssumption DEF CellInit
    <3>3. 0 <= Len(cellCalls[u])
      BY <3>2
    <3> QED BY <3>1, <3>3 DEF UserStates, CallsKept
  <2> QED BY <2>1 DEF CellInit, UsersInv
<1>2. WordsInv
  <2>1. Whole(cellCalls, {}) = {} /\ Broken(cellCalls, {}) = {} /\ Total(cellCalls, {}) = 0
    BY WorthOfNone DEF Whole, Broken, Total
  <2> QED BY <2>1, FS_EmptySet DEF CellInit, WordsInv
<1>3. ReadersInv
  <2>1. ASSUME NEW r \in CellReaders PROVE cellReader[r] \in ReaderStates /\ ReadKept(r)
    <3>1. cellReader[r] = NewCellReader
      BY DEF CellInit
    <3> QED BY <3>1 DEF NewCellReader, ReaderStates, ReadKept
  <2> QED BY <2>1 DEF CellInit, ReadersInv
<1> QED BY <1>1, <1>2, <1>3 DEF CellInv

\* Counters and gauges lose no call, count none twice, and what Write reads in three loads,
\* while goroutines go on, is a value between those at its beginning and at its end, with the
\* exemplar of a call that is in it; for any goroutines, readers and calls.
THEOREM CountersAreExact == CellInit /\ [][CellNext]_cellVars => []CellsExact
<1>1. CellInv /\ [CellNext]_cellVars => CellInv'
  <2> SUFFICES ASSUME CellInv, [CellNext]_cellVars PROVE CellInv'
    OBVIOUS
  <2>1. CASE CellNext
    BY <2>1, UserCellStep, ReaderCellStep DEF CellNext
  <2>2. CASE UNCHANGED cellVars
    <3>1. UsersInv' /\ WordsInv'
      BY <2>2 DEF cellVars, counterVars, gaugeVars, CellInv, UsersInv, CallsKept, WordsInv, This
    <3>2. ReadersInv'
      BY <2>2, ReadersStay DEF cellVars, counterVars, CellInv
    <3> QED BY <3>1, <3>2 DEF CellInv
  <2> QED BY <2>1, <2>2
<1> QED BY <1>1, CellInitial, CellsAreExact, PTL
-----------------------------------------------------------------------------
(* The client of the HTTP API. *)

\* An endpoint that falls back is asked with POST first.
LEMMA EndpointMethods ==
    ASSUME NEW e \in Endpoints
    PROVE  /\ Endpoint(e).fallback \in BOOLEAN /\ Endpoint(e).method \in {"GET", "POST"}
           /\ Endpoint(e).fallback => Endpoint(e).method = "POST"
<1> DEFINE HasMethod(x) == /\ x.fallback \in BOOLEAN /\ x.method \in {"GET", "POST"}
                           /\ x.fallback => x.method = "POST"
<1>1. \A d, p : \A m \in {"GET", "POST"} : HasMethod(Plain(m, d, p))
  BY DEF Plain
<1>2. \A d, p : HasMethod(Fallback(d, p))
  BY DEF Fallback
<1> HIDE DEF HasMethod
<1>3. CASE e \in LabelEndpoints
  <2>1. Endpoint(e) = LabelEndpoint(e)
    BY <1>3 DEF Endpoint
  <2>2. HasMethod(LabelEndpoint(e))
    BY <1>1, <1>2, <1>3 DEF LabelEndpoint, LabelEndpoints
  <2> QED BY <2>1, <2>2 DEF HasMethod
<1>4. CASE e \in QueryEndpoints
  <2>1. Endpoint(e) = QueryEndpoint(e)
    BY <1>4 DEF Endpoint, LabelEndpoints, QueryEndpoints
  <2>2. HasMethod(QueryEndpoint(e))
    BY <1>1, <1>2, <1>4 DEF QueryEndpoint, QueryEndpoints
  <2> QED BY <2>1, <2>2 DEF HasMethod
<1>5. CASE e \in StatusEndpoints
  <2>1. Endpoint(e) = Status(e)
    BY <1>5 DEF Endpoint, LabelEndpoints, QueryEndpoints, StatusEndpoints
  <2>2. HasMethod(Status(e))
    BY <1>1, <1>2, <1>5 DEF Status, StatusEndpoints
  <2> QED BY <2>1, <2>2 DEF HasMethod
<1>6. CASE e \in MetadataEndpoints
  <2>1. Endpoint(e) = MetadataEndpoint(e)
    BY <1>6 DEF Endpoint, LabelEndpoints, QueryEndpoints, StatusEndpoints, MetadataEndpoints
  <2>2. HasMethod(MetadataEndpoint(e))
    BY <1>1, <1>2, <1>6 DEF MetadataEndpoint, MetadataEndpoints
  <2> QED BY <2>1, <2>2 DEF HasMethod
<1> QED BY <1>3, <1>4, <1>5, <1>6, ApiAssumption

Responses == [code : Nat, body : Bodies]
RequestsSent == Seq([method : {"GET", "POST"}, params : SUBSET ask.params])

\* Whether a response asks for a second request.
Refused == Endpoint(ask.endpoint).fallback /\ FallsBack(resp.code)

\* The first request of the call, and one more only where it falls back.
Asked(n) ==
    /\ Len(requests) = n
    /\ n >= 1 => requests[1] = [method |-> Endpoint(ask.endpoint).method,
                                params |-> ask.params \cap Endpoint(ask.endpoint).params]
    /\ n = 2 => /\ Endpoint(ask.endpoint).fallback
                /\ requests[2] = [method |-> "GET", params |-> ask.params \cap Endpoint(ask.endpoint).params]

\* Where the call is, with what it asked for.
CallPlace ==
    \/ apiPc = "idle" /\ Asked(0) /\ ret = "none" /\ resp = NoResp
    \/ apiPc = "sent" /\ Asked(1) /\ ret = "none" /\ resp = NoResp
    \/ apiPc = "sent" /\ Asked(2) /\ ret = "none"
    \/ apiPc = "select" /\ (Asked(1) \/ Asked(2)) /\ ret = "none"
    \/ apiPc = "end" /\ (Asked(1) \/ Asked(2)) /\ ret # "none" /\ (Refused => Asked(2))

\* A call that returned nil had a whole body, and nothing that says otherwise.
GoodAnswer ==
    /\ reader = "done" /\ DoError(resp) = "nil"
    /\ Endpoint(ask.endpoint).decodes => Decoded(resp)

ApiInv ==
    /\ ask.endpoint \in Endpoints /\ requests \in RequestsSent /\ resp \in Responses
    /\ CallPlace
    /\ ret = "nil" => apiPc = "end" /\ GoodAnswer

\* The status of a body that is no JSON.
LEMMA StatusOfNoJson ==
    ASSUME NEW b, b = [status |-> "no json", data |-> FALSE]
    PROVE  b.status = "no json"
<1> QED OBVIOUS

\* What the invariant says of a call that returned.
LEMMA ApiCallsAreHonest == ASSUME ApiInv PROVE ApiHonest
<1>1. /\ Endpoint(ask.endpoint).fallback \in BOOLEAN
      /\ Endpoint(ask.endpoint).fallback => Endpoint(ask.endpoint).method = "POST"
  BY EndpointMethods DEF ApiInv
<1>2. ASSUME ret = "nil"
      PROVE  /\ reader = "done"
             /\ resp.code \div 100 = 2 \/
                  (ApiError(resp.code) /\ resp.body.status = "none"
                   /\ (Endpoint(ask.endpoint).decodes => resp.body.data))
             /\ resp.code # 204 => resp.body.status \in {"success", "none"}
             /\ Endpoint(ask.endpoint).decodes => resp.body.data
  <2>1. GoodAnswer
    BY <1>2 DEF ApiInv
  <2>2. resp.body.status \in {"success", "error", "none", "no json"}
    <3>1. resp.body \in [status : {"success", "error", "none"}, data : BOOLEAN]
            \/ resp.body = [status |-> "no json", data |-> FALSE]
      BY DEF ApiInv, Responses, Bodies
    <3>2. CASE resp.body \in [status : {"success", "error", "none"}, data : BOOLEAN]
      BY <3>2
    <3>3. CASE resp.body = [status |-> "no json", data |-> FALSE]
      BY <3>3, StatusOfNoJson
    <3> QED BY <3>1, <3>2, <3>3
  <2>3. /\ resp.code \div 100 = 2 \/ ApiError(resp.code)
        /\ resp.code # 204 => /\ resp.body.status \notin {"no json", "error"}
                              /\ ~(ApiError(resp.code) /\ resp.body.status = "success")
    <3>1. ErrorTypeFor(resp.code) # "nil"
      BY DEF ErrorTypeFor
    <3> QED BY <2>1, <3>1 DEF GoodAnswer, DoError
  <2>4. ApiError(resp.code) => resp.code # 204
    BY DEF ApiError
  <2>5. reader = "done" /\ (Endpoint(ask.endpoint).decodes => resp.body.data)
    BY <2>1 DEF GoodAnswer, Decoded
  <2> QED BY <2>2, <2>3, <2>4, <2>5
<1>3. Len(requests) <= 2 /\ (Len(requests) = 2 => Asked(2))
  <2>1. Asked(0) \/ Asked(1) \/ Asked(2)
    BY DEF ApiInv, CallPlace
  <2>2. \A n : Asked(n) => Len(requests) = n
    BY DEF Asked
  <2> QED BY <2>1, <2>2
<1>4. Asked(2) => /\ requests[1].method = "POST" /\ requests[2].method = "GET"
                  /\ requests[1].params = requests[2].params
  BY <1>1 DEF Asked
<1>5. ret # "none" /\ Refused => Len(requests) = 2
  BY DEF ApiInv, CallPlace, Asked
<1>6. ret = "client_error" /\ Endpoint(ask.endpoint).fallback => resp.code \notin {403, 405} \/ Len(requests) = 2
  BY <1>5 DEF Refused, FallsBack
<1>7. Len(requests) = 2 => /\ requests[1].method = "POST" /\ requests[2].method = "GET"
                           /\ requests[1].params = requests[2].params
  BY <1>3, <1>4
<1>8. ret # "none" /\ Endpoint(ask.endpoint).fallback /\ FallsBack(resp.code) => Len(requests) = 2
  BY <1>5 DEF Refused
<1>9. ret = "nil" =>
        /\ reader = "done"
        /\ resp.code \div 100 = 2 \/
                  (ApiError(resp.code) /\ resp.body.status = "none"
                   /\ (Endpoint(ask.endpoint).decodes => resp.body.data))
        /\ resp.code # 204 => resp.body.status \in {"success", "none"}
        /\ Endpoint(ask.endpoint).decodes => resp.body.data
  BY <1>2
<1>10. Len(requests) <= 2
  BY <1>3
<1> QED BY <1>6, <1>7, <1>8, <1>9, <1>10 DEF ApiHonest

\* A request more.
LEMMA OneRequestMore ==
    ASSUME ApiInv, NEW n \in {0, 1}, Asked(n), NEW m \in {"GET", "POST"},
           n = 0 => m = Endpoint(ask.endpoint).method,
           n = 1 => m = "GET" /\ Endpoint(ask.endpoint).fallback,
           ask' = ask, requests' = Sent(m)
    PROVE  requests' \in RequestsSent' /\ Asked(n + 1)'
<1> DEFINE q == [method |-> m, params |-> ask.params \cap Endpoint(ask.endpoint).params]
<1>1. requests \in Seq([method : {"GET", "POST"}, params : SUBSET ask.params])
  BY DEF ApiInv, RequestsSent
<1>2. q \in [method : {"GET", "POST"}, params : SUBSET ask.params]
  OBVIOUS
<1>3. requests' = Append(requests, q)
  BY DEF Sent
<1>4. Len(requests) = n
  BY DEF Asked
<1> HIDE DEF q
<1>5. /\ requests' \in Seq([method : {"GET", "POST"}, params : SUBSET ask.params])
      /\ Len(requests') = n + 1 /\ requests'[n + 1] = q
      /\ n = 1 => requests'[1] = requests[1]
  BY <1>1, <1>2, <1>3, <1>4
<1>6. CASE n = 0
  BY <1>5, <1>6 DEF Asked, RequestsSent, q
<1>7. CASE n = 1
  <2>1. requests'[1] = [method |-> Endpoint(ask.endpoint).method,
                        params |-> ask.params \cap Endpoint(ask.endpoint).params]
    <3>1. Asked(1)
      BY <1>7
    <3>2. requests[1] = [method |-> Endpoint(ask.endpoint).method,
                        params |-> ask.params \cap Endpoint(ask.endpoint).params]
      BY <3>1 DEF Asked
    <3> QED BY <1>5, <1>7, <3>2
  <2>2. requests'[2] = [method |-> "GET", params |-> ask.params \cap Endpoint(ask.endpoint).params]
    BY <1>5, <1>7 DEF q
  <2>3. Len(requests') = 2 /\ Endpoint(ask.endpoint).fallback
    BY <1>5, <1>7
  <2>4. Asked(2)'
    BY <2>1, <2>2, <2>3 DEF Asked
  <2> QED BY <1>5, <1>7, <2>4 DEF RequestsSent
<1> QED BY <1>6, <1>7

\* What was asked for stays.
LEMMA AskedStays ==
    ASSUME ask' = ask, requests' = requests
    PROVE  /\ \A n \in {0, 1, 2} : Asked(n)' <=> Asked(n)
           /\ RequestsSent' = RequestsSent
<1> QED BY DEF Asked, RequestsSent

\* The end of Do, which goes on with the fallback or returns.
LEMMA AfterDoReturns ==
    ASSUME ApiInv, apiPc = "select", NEW result, result # "none",
           result = "nil" => reader = "done" /\ DoError(resp) = "nil",
           AfterDo(result), UNCHANGED <<ask, cancelled, resp, reader>>
    PROVE  ApiInv'
<1>1. (Asked(1) \/ Asked(2)) /\ ret = "none"
  BY DEF ApiInv, CallPlace
<1>2. Refused' = Refused
  BY DEF Refused
<1>3. CASE Endpoint(ask.endpoint).fallback /\ Len(requests) = 1 /\ FallsBack(resp.code)
  <2>1. Asked(1) /\ apiPc' = "sent" /\ requests' = Sent("GET") /\ ret' = ret
    BY <1>1, <1>3 DEF AfterDo, Asked
  <2>2. requests' \in RequestsSent' /\ Asked(2)'
    BY <1>3, <2>1, OneRequestMore
  <2> QED BY <1>1, <2>1, <2>2 DEF ApiInv, CallPlace
<1>4. CASE ~(Endpoint(ask.endpoint).fallback /\ Len(requests) = 1 /\ FallsBack(resp.code))
  <2> DEFINE r == IF result = "nil" /\ Endpoint(ask.endpoint).decodes /\ ~Decoded(resp)
                  THEN "decode" ELSE result
  <2>1. requests' = requests /\ apiPc' = "end" /\ ret' = r
    BY <1>4 DEF AfterDo, ReturnApi
  <2>2. Refused => Asked(2)
    BY <1>1, <1>4 DEF Refused, Asked
  <2>3. (Asked(1) \/ Asked(2))' /\ (Refused => Asked(2))' /\ requests' \in RequestsSent'
    BY <1>1, <1>2, <2>1, <2>2, AskedStays DEF ApiInv
  <2>4. r = "nil" => GoodAnswer
    BY DEF GoodAnswer
  <2>5. GoodAnswer' = GoodAnswer
    BY DEF GoodAnswer
  <2> QED BY <2>1, <2>3, <2>4, <2>5 DEF ApiInv, CallPlace
<1> QED BY <1>3, <1>4

LEMMA ApiStep == ASSUME ApiInv, [ApiNext]_aVars PROVE ApiInv'
<1>1. CASE CallApi
  <2>1. Asked(0) /\ ret = "none" /\ resp = NoResp
    BY <1>1 DEF ApiInv, CallPlace, CallApi
  <2>2. requests' \in RequestsSent' /\ Asked(0 + 1)'
    <3>1. Endpoint(ask.endpoint).method \in {"GET", "POST"}
      BY EndpointMethods DEF ApiInv
    <3>2. ask' = ask /\ requests' = Sent(Endpoint(ask.endpoint).method)
      BY <1>1 DEF CallApi
    <3> HIDE DEF ApiInv
    <3> QED BY <2>1, <3>1, <3>2, OneRequestMore
  <2> QED BY <1>1, <2>1, <2>2 DEF ApiInv, CallPlace, CallApi
<1>2. CASE CancelApi
  <2>1. UNCHANGED <<ask, apiPc, resp, reader, requests, ret>>
    BY <1>2 DEF CancelApi
  <2> QED BY <2>1 DEF ApiInv, CallPlace, Asked, Refused, GoodAnswer, RequestsSent
<1>3. CASE SendError
  <2>1. /\ apiPc = "sent" /\ apiPc' = "end" /\ ret' = "transport"
        /\ UNCHANGED <<ask, resp, reader, requests>>
    BY <1>3 DEF SendError, ReturnApi
  <2>2. Asked(1) \/ Asked(2)
    BY <2>1 DEF ApiInv, CallPlace
  <2>3. Refused => Asked(2)
    BY <2>1 DEF ApiInv, CallPlace, Refused, NoResp, FallsBack
  <2>4. Refused' = Refused
    BY <2>1 DEF Refused
  <2> QED BY <2>1, <2>2, <2>3, <2>4, AskedStays DEF ApiInv, CallPlace
<1>4. CASE HeaderArrives
  <2>1. /\ apiPc = "sent" /\ apiPc' = "select" /\ UNCHANGED <<ask, requests, ret>>
        /\ \E c \in ResponseCodes, b \in Bodies : resp' = [code |-> c, body |-> b]
    BY <1>4 DEF HeaderArrives
  <2>2. resp' \in Responses
    BY <2>1, ApiAssumption DEF Responses
  <2>3. (Asked(1) \/ Asked(2)) /\ ret = "none"
    BY <2>1 DEF ApiInv, CallPlace
  <2> QED BY <2>1, <2>2, <2>3, AskedStays DEF ApiInv, CallPlace
<1>5. CASE BodyRead
  <2>1. reader = "reading" /\ UNCHANGED <<ask, apiPc, resp, requests, ret>>
    BY <1>5 DEF BodyRead
  <2>2. ret # "nil"
    BY <2>1 DEF ApiInv, GoodAnswer
  <2>3. CallPlace' = CallPlace
    BY <2>1 DEF CallPlace, Asked, Refused
  <2> QED BY <2>1, <2>2, <2>3, AskedStays DEF ApiInv
<1>6. CASE SelectApi
  <2>1. apiPc = "select" /\ UNCHANGED <<ask, cancelled, resp, reader>>
    BY <1>6 DEF SelectApi
  <2>2. DoError(resp) # "none"
    BY DEF DoError, ErrorTypeFor
  <2>3. CASE reader = "done" /\ AfterDo(DoError(resp))
    BY <2>1, <2>2, <2>3, AfterDoReturns
  <2>4. CASE AfterDo("transport")
    BY <2>1, <2>4, AfterDoReturns
  <2> QED BY <1>6, <2>3, <2>4 DEF SelectApi, SelectDone
<1>7. CASE UNCHANGED aVars
  BY <1>7 DEF aVars, ApiInv, CallPlace, Asked, Refused, GoodAnswer, RequestsSent
<1> QED BY <1>1, <1>2, <1>3, <1>4, <1>5, <1>6, <1>7 DEF ApiNext

LEMMA ApiInitial == ApiInit => ApiInv
<1> SUFFICES ASSUME ApiInit PROVE ApiInv
  OBVIOUS
<1>1. ask.endpoint \in Endpoints
  BY DEF ApiInit
<1>2. requests = <<>> /\ resp = NoResp /\ ret = "none" /\ apiPc = "idle"
  BY DEF ApiInit
<1>3. requests \in RequestsSent /\ Asked(0)
  BY <1>2 DEF RequestsSent, Asked
<1>4. resp \in Responses
  BY <1>2 DEF Responses, Bodies, NoResp
<1> QED BY <1>1, <1>2, <1>3, <1>4 DEF ApiInv, CallPlace

\* A call of the HTTP API that returns without error had a whole answer that says no error;
\* the second request is the GET that DoGetFallback makes, with the parameters of the first,
\* and no call ends without it where the first answer asks for it: for any endpoint, any
\* parameters and any status codes.
THEOREM ApiCallsHonest == ApiInit /\ [][ApiNext]_aVars => []ApiHonest
<1>1. ApiInv /\ [ApiNext]_aVars => ApiInv'
  BY ApiStep
<1>2. ApiInv => ApiHonest
  BY ApiCallsAreHonest
<1> QED BY ApiInitial, <1>1, <1>2, PTL
-----------------------------------------------------------------------------
(* The Graphite bridge. *)

SampleSet == [name : Text, labels : Seq([name : Text, value : Text])]

\* The first n samples of the batch have their lines.
LinesOf(n) == [i \in 1..n |-> Line(batch[i])]
LinesInv == batch \in Seq(SampleSet) /\ \E n \in 0..Len(batch) : lines = LinesOf(n)

\* Where Run is, with its connection and what it knows of the last Push.
RunInv ==
    \/ bridgePc = "new" /\ conn = "none" /\ outcome = "none"
    \/ bridgePc \in {"select", "gather", "end"} /\ conn = "none" /\ (outcome = "nil" => lines = LinesOf(Len(batch)))
    \/ bridgePc = "dial" /\ conn = "none" /\ lines = LinesOf(0)
    \/ bridgePc = "write" /\ conn = "open"

BridgeInv == LinesInv /\ RunInv

LEMMA LinesHaveLength ==
    ASSUME NEW n \in Nat
    PROVE  Len(LinesOf(n)) = n /\ DOMAIN LinesOf(n) = 1..n /\ \A i \in 1..n : LinesOf(n)[i] = Line(batch[i])
<1> QED BY DEF LinesOf

LEMMA OneLineMore ==
    ASSUME NEW n \in Nat
    PROVE  Append(LinesOf(n), Line(batch[n + 1])) = LinesOf(n + 1)
<1> QED BY DEF LinesOf

LEMMA NoLines == LinesOf(0) = <<>>
<1> QED BY DEF LinesOf

\* The lines are of a batch and a configuration that stay.
LEMMA LinesStay ==
    ASSUME UNCHANGED <<bridge, batch>>, NEW n
    PROVE  LinesOf(n)' = LinesOf(n)
<1> QED BY DEF LinesOf, Line, WriteMetric

LEMMA BatchWritten == ASSUME BridgeInv PROVE BatchIsWritten
<1>1. PICK n \in 0..Len(batch) : lines = LinesOf(n)
  BY DEF BridgeInv, LinesInv
<1>2. n \in Nat /\ Len(batch) \in Nat
  BY DEF BridgeInv, LinesInv
<1>3. \A i \in DOMAIN lines : lines[i] = Line(batch[i])
  BY <1>1, <1>2, LinesHaveLength
<1>4. lines = LinesOf(Len(batch)) => Len(lines) = Len(batch)
  BY <1>2, LinesHaveLength
<1> QED BY <1>3, <1>4 DEF BatchIsWritten, BridgeInv, RunInv

LEMMA BridgeBegins == BridgeInit => BridgeInv
<1> SUFFICES ASSUME BridgeInit PROVE BridgeInv
  OBVIOUS
<1>1. batch \in Seq(SampleSet) /\ Len(batch) = 0 /\ lines = LinesOf(0)
  BY NoLines DEF BridgeInit
<1> QED BY <1>1 DEF BridgeInit, BridgeInv, LinesInv, RunInv

LEMMA BridgeStays == ASSUME BridgeInv, [BridgeNext]_bVars PROVE BridgeInv'
<1>1. ASSUME UNCHANGED <<bridge, batch, lines>>
      PROVE  LinesInv' /\ \A n : (lines = LinesOf(n))' <=> (lines = LinesOf(n))
  BY <1>1, LinesStay DEF BridgeInv, LinesInv
<1>2. CASE UNCHANGED <<bridge, bridgePc, conn, batch, lines, outcome>>
  <2>1. LinesInv' /\ \A n : (lines = LinesOf(n))' <=> (lines = LinesOf(n))
    BY <1>1, <1>2
  <2>2. RunInv'
    BY <1>2, <2>1 DEF BridgeInv, RunInv
  <2> QED BY <2>1, <2>2 DEF BridgeInv
<1>3. CASE NewBridge \/ Selected
  <2>1. /\ UNCHANGED <<bridge, conn, batch, lines, outcome>>
        /\ bridgePc \in {"new", "select"} /\ bridgePc' \in {"select", "gather", "end"}
    BY <1>3 DEF NewBridge, Selected
  <2>2. LinesInv' /\ \A n : (lines = LinesOf(n))' <=> (lines = LinesOf(n))
    BY <1>1, <2>1
  <2>3. conn = "none" /\ (outcome = "nil" => lines = LinesOf(Len(batch)))
    BY <2>1 DEF BridgeInv, RunInv
  <2>4. (outcome = "nil" => lines = LinesOf(Len(batch)))'
    BY <2>1, <2>2, <2>3
  <2> QED BY <2>1, <2>2, <2>3, <2>4 DEF BridgeInv, RunInv
<1>4. CASE BridgeGather
  <2>1. PICK g \in BridgeGathers :
          /\ batch' = g.mfs
          /\ \/ /\ (g.err \/ g.mfs = <<>>) /\ bridge.errorHandling = "abort"
                /\ PushReturns(IF g.err THEN "error" ELSE "nil")
             \/ /\ (g.err \/ g.mfs = <<>>) /\ bridge.errorHandling \notin {"abort", "continue"}
                /\ PushPanics
             \/ /\ ~(g.err \/ g.mfs = <<>>) \/ bridge.errorHandling = "continue"
                /\ bridgePc' = "dial" /\ UNCHANGED <<outcome, conn>>
    BY <1>4 DEF BridgeGather
  <2>2. lines' = <<>> /\ bridgePc = "gather" /\ bridge' = bridge
    BY <1>4 DEF BridgeGather
  <2>3. batch' \in Seq(SampleSet)
    <3>1. g.mfs \in {Samples, <<>>, SubSeq(Samples, 1, 1)}
      BY DEF BridgeGathers
    <3>2. Samples \in Seq(SampleSet) /\ Samples # <<>>
      BY BridgeAssumption DEF SampleSet
    <3>3. SubSeq(Samples, 1, 1) \in Seq(SampleSet)
      BY <3>2
    <3>4. batch' = g.mfs
      BY <2>1
    <3>5. <<>> \in Seq(SampleSet)
      OBVIOUS
    <3> QED BY <3>1, <3>2, <3>3, <3>4, <3>5, Zenon
  <2>4. lines' = LinesOf(0)'
    BY <2>2 DEF LinesOf
  <2>5. LinesInv'
    <3>1. Len(batch') \in Nat
      BY <2>3
    <3>2. 0 \in 0..Len(batch')
      BY <3>1
    <3> QED BY <2>3, <2>4, <3>2 DEF LinesInv
  <2>6. conn = "none"
    BY <2>2 DEF BridgeInv, RunInv
  <2>7. CASE /\ (g.err \/ g.mfs = <<>>) /\ bridge.errorHandling = "abort"
             /\ PushReturns(IF g.err THEN "error" ELSE "nil")
    <3>1. bridgePc' = "select" /\ conn' = "none" /\ (outcome' = "nil" => batch' = <<>>)
      BY <2>1, <2>7 DEF PushReturns
    <3>2. (outcome = "nil" => lines = LinesOf(Len(batch)))'
      BY <2>4, <3>1
    <3> QED BY <2>5, <3>1, <3>2 DEF BridgeInv, RunInv
  <2>8. CASE bridgePc' = "dial" /\ UNCHANGED <<outcome, conn>>
    BY <2>4, <2>5, <2>6, <2>8 DEF BridgeInv, RunInv
  <2>9. CASE PushPanics
    <3>1. bridgePc' = "end" /\ conn' = "none" /\ outcome' = "panic"
      BY <2>9 DEF PushPanics
    <3> QED BY <2>5, <3>1 DEF BridgeInv, RunInv
  <2> QED BY <2>1, <2>7, <2>8, <2>9
<1>5. CASE BridgeDial
  <2>1. /\ UNCHANGED <<bridge, batch, lines>> /\ bridgePc = "dial"
        /\ \/ conn' = "open" /\ bridgePc' = "write"
           \/ bridgePc' = "select" /\ outcome' = "error" /\ conn' = "none"
    BY <1>5 DEF BridgeDial, PushReturns
  <2> QED BY <1>1, <2>1 DEF BridgeInv, RunInv
<1>6. CASE BridgeWrite
  <2>1. PICK n \in 0..Len(batch) : lines = LinesOf(n)
    BY DEF BridgeInv, LinesInv
  <2>2. n \in Nat /\ Len(batch) \in Nat /\ Len(lines) = n
    BY <2>1, LinesHaveLength DEF BridgeInv, LinesInv
  <2>3. bridgePc = "write" /\ n < Len(batch) /\ UNCHANGED <<bridge, batch>>
    BY <1>6, <2>2 DEF BridgeWrite
  <2>4. CASE lines' = Append(lines, Line(batch[Len(lines) + 1])) /\ UNCHANGED <<bridgePc, outcome, conn>>
    <3>1. lines' = LinesOf(n + 1)
      BY <2>1, <2>2, <2>4, OneLineMore
    <3>2. lines' = LinesOf(n + 1)'
      BY <2>3, <3>1, LinesStay
    <3>3. n + 1 \in 0..Len(batch')
      BY <2>2, <2>3
    <3>4. LinesInv'
      BY <2>3, <3>2, <3>3 DEF LinesInv, BridgeInv
    <3>5. conn = "open"
      BY <2>3 DEF BridgeInv, RunInv
    <3> QED BY <2>3, <2>4, <3>4, <3>5 DEF BridgeInv, RunInv
  <2>5. CASE PushReturns("error") /\ UNCHANGED lines
    <3>1. bridgePc' = "select" /\ outcome' = "error" /\ conn' = "none"
      BY <2>5 DEF PushReturns
    <3> QED BY <1>1, <2>3, <2>5, <3>1 DEF BridgeInv, RunInv
  <2> QED BY <1>6, <2>4, <2>5 DEF BridgeWrite
<1>7. CASE BridgeWritten
  <2>1. PICK n \in 0..Len(batch) : lines = LinesOf(n)
    BY DEF BridgeInv, LinesInv
  <2>2. n \in Nat /\ Len(batch) \in Nat /\ Len(lines) = n
    BY <2>1, LinesHaveLength DEF BridgeInv, LinesInv
  <2>3. /\ UNCHANGED <<bridge, batch, lines>> /\ n = Len(batch)
        /\ bridgePc' = "select" /\ conn' = "none"
    BY <1>7, <2>2 DEF BridgeWritten, PushReturns
  <2>4. lines = LinesOf(Len(batch))
    BY <2>1, <2>3
  <2>5. LinesInv' /\ (lines = LinesOf(Len(batch)))'
    BY <1>1, <2>3, <2>4
  <2> QED BY <2>3, <2>5 DEF BridgeInv, RunInv
<1>8. CASE BridgeTick \/ BridgeStop \/ UNCHANGED bVars
  BY <1>2, <1>8 DEF BridgeTick, BridgeStop, bVars
<1> QED BY <1>3, <1>4, <1>5, <1>6, <1>7, <1>8 DEF BridgeNext

\* The bridge's server has got the beginning of what was gathered, in order and a line for a
\* sample, all of it if Push returned nil, and no connection outlives the Push that made it;
\* for any gather, configuration and failures.
THEOREM BatchesAreWritten == BridgeInit /\ [][BridgeNext]_bVars => []BatchIsWritten
<1>1. BridgeInv /\ [BridgeNext]_bVars => BridgeInv'
  BY BridgeStays
<1>2. BridgeInv => BatchIsWritten
  BY BatchWritten
<1> QED BY BridgeBegins, <1>1, <1>2, PTL
=============================================================================
