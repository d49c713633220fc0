---------------------------- MODULE RemoteWrite ----------------------------
(***************************************************************************)
(* The remote write protocol of exp/api/remote: concurrent calls of         *)
(* API.Write, which share a pool of buffers, the network, and a receiver    *)
(* built with NewWriteHandler and the default middleware.                   *)
(*                                                                          *)
(* A request may be lost, or answered after its sender gave up on it; an    *)
(* answer may be lost; the caller's context may be cancelled at any time.   *)
(* A message is the call that writes it. A buffer holds the messages that   *)
(* its length covers, so that what one call leaves behind in a pooled       *)
(* buffer is still there for the next.                                      *)
(***************************************************************************)
EXTENDS Integers, Sequences, FiniteSets

CONSTANTS
    Calls,         \* calls of API.Write
    Buffers,       \* more than are ever in use
    RemoteSetups   \* the options of the sender, and what the receiver's store does

ASSUME RemoteAssumption ==
    /\ Buffers \subseteq Nat \ {0}
    /\ \A s \in RemoteSetups : s.maxRetries \in Int /\ s.backoffMin \in Nat /\ s.backoffMax \in Nat

VARIABLES
    rw,        \* the options
    content,   \* the buffers
    pool,      \* bufPool
    call,      \* the calls
    net,       \* requests on their way
    replies,   \* answers on their way
    stored     \* how often a message was stored

rVars == <<rw, content, pool, call, net, replies, stored>>

NoStats == [samples |-> 0, confirmed |-> FALSE]
NoBuffer == 0
NoResult == [result |-> "none", stats |-> NoStats]

\* backoff.New: the first delay lies between the minimum and its double.
DoubleDuration(v) == IF 2 * v <= rw.backoffMax THEN 2 * v ELSE rw.backoffMax

RemoteInit ==
    /\ rw \in RemoteSetups
    /\ content = [b \in Buffers |-> <<>>]
    /\ pool = {}
    /\ call = [c \in Calls |-> [pc |-> "idle", buf |-> NoBuffer, cbuf |-> NoBuffer, retries |-> 0, sent |-> 0,
                                min |-> rw.backoffMin, max |-> DoubleDuration(rw.backoffMin),
                                acc |-> NoStats, got |-> NoResult, ctx |-> FALSE]]
    /\ net = {}
    /\ replies = {}
    /\ stored = [c \in Calls |-> 0]

-----------------------------------------------------------------------------
(* API.Write: the payload. *)

InUse == {call[c].buf : c \in Calls} \cup {call[c].cbuf : c \in Calls}

\* bufPool.Get: a pooled buffer, or a new one.
Get == pool \cup {b \in Buffers : /\ b \notin InUse /\ b \notin pool
                                  /\ \A a \in 1 .. b - 1 : a \in InUse \cup pool}

\* Mutation of Marshalled: every marshaller appends.
Marshalled_Append(c, old) == Append(old, c)
\* A buffer for a message that knows its size is cut to that size and overwritten. The
\* generic marshaller appends to what the buffer holds.
Marshalled(c, old) == IF rw.generic THEN Append(old, c) ELSE <<c>>

\* A message type that is not known is refused before anything is encoded, and the
\* buffer is not put back (an unused buffer that is not in the pool stands for a new one).
Marshal(c) ==
    /\ call[c].pc = "idle" /\ c \in rw.calls
    /\ \E b \in Get :
         /\ pool' = pool \ {b}
         /\ \/ /\ rw.version = "unknown"
               /\ content' = [content EXCEPT ![b] = <<>>]
               /\ call' = [call EXCEPT ![c].pc = "end", ![c].got.result = "error"]
            \/ /\ rw.version # "unknown"
               /\ content' = [content EXCEPT ![b] = Marshalled(c, @)]
               /\ call' = [call EXCEPT ![c].pc = "compress", ![c].buf = b]
    /\ UNCHANGED <<rw, net, replies, stored>>

\* Mutation of PutOnCompress: the compressed buffer goes back while it is still sent.
PutOnCompress_Both(c, z) == {call[c].buf, z}
\* The buffer that held the message goes back at once, the compressed one on return.
PutOnCompress(c, z) == {call[c].buf}

Compress(c) ==
    /\ call[c].pc = "compress"
    /\ \E z \in Get :
         /\ content' = [content EXCEPT ![z] = content[call[c].buf]]
         /\ pool' = (pool \ {z}) \cup PutOnCompress(c, z)
         /\ call' = [call EXCEPT ![c].pc = "attempt", ![c].cbuf = z, ![c].buf = NoBuffer]
    /\ UNCHANGED <<rw, net, replies, stored>>

-----------------------------------------------------------------------------
(* API.Write: the attempts. *)

\* attemptWrite, up to client.Do. The content type tells the version.
Attempt(c) ==
    /\ call[c].pc = "attempt"
    /\ net' = net \cup {[from |-> c, n |-> call[c].retries, version |-> rw.version,
                         payload |-> content[call[c].cbuf]]}
    /\ call' = [call EXCEPT ![c].pc = "await", ![c].sent = @ + 1]
    /\ UNCHANGED <<rw, content, pool, replies, stored>>

\* The call returns: the compressed buffer goes back to the pool.
Finish(c, result, stats) ==
    /\ call' = [call EXCEPT ![c].pc = "end", ![c].cbuf = NoBuffer,
                            ![c].got = [result |-> result, stats |-> stats]]
    /\ pool' = pool \cup {call[c].cbuf}

\* Mutation of Ongoing: one retry too many.
Ongoing_OneMore(c) == ~call[c].ctx /\ (rw.maxRetries = 0 \/ call[c].retries <= rw.maxRetries)
Ongoing(c) == ~call[c].ctx /\ (rw.maxRetries = 0 \/ call[c].retries < rw.maxRetries)

\* WriteResponseStats.Add: whether the numbers are confirmed is said by the last answer.
Accumulated(c, rs) == [samples |-> call[c].acc.samples + rs.samples, confirmed |-> rs.confirmed]

\* NextDelay counts the retry and widens the range the delay is drawn from, up to the
\* maximum; a minimum that is not below it stays the delay.
Retry(c, rs) ==
    LET k == call[c] IN
    /\ call' = [call EXCEPT ![c].pc = "backoff", ![c].acc = Accumulated(c, rs), ![c].retries = @ + 1,
                            ![c].min = IF k.min < k.max /\ k.max < rw.backoffMax THEN DoubleDuration(@) ELSE @,
                            ![c].max = IF k.min < k.max /\ k.max < rw.backoffMax THEN DoubleDuration(@) ELSE @]
    /\ UNCHANGED pool

RetryOrGiveUp(c, rs) ==
    IF Ongoing(c) THEN Retry(c, rs) ELSE Finish(c, "error", Accumulated(c, rs))

\* client.Do fails: the request or the answer was lost, or the context was cancelled.
NetworkError(c) ==
    /\ call[c].pc = "await"
    /\ rw.unreliable \/ call[c].ctx
    /\ RetryOrGiveUp(c, NoStats)
    /\ replies' = {a \in replies : a.to # c}
    /\ UNCHANGED <<rw, content, net, stored>>

Retryable(status) == status \in {500, 503} \/ (rw.retryOnRateLimit /\ status = 429)

\* The answer to the attempt that is waited for. Statistics are in the answers to
\* version 2 only. A body that cannot be read ends the call.
Receive(c) ==
    \E a \in replies :
        LET rs == IF rw.version = "v2" THEN a.stats ELSE NoStats
            acc == Accumulated(c, rs) IN
        /\ call[c].pc = "await" /\ a.to = c
        /\ replies' = replies \ {a}
        /\ \/ /\ a.status = 204
              /\ IF rw.version = "v2" /\ ~acc.confirmed /\ acc.samples = 0
                 THEN Finish(c, "error", acc) ELSE Finish(c, "nil", acc)
           \/ a.status # 204 /\ Retryable(a.status) /\ RetryOrGiveUp(c, rs)
           \/ a.status # 204 /\ ~Retryable(a.status) /\ Finish(c, "error", acc)
           \/ rw.unreliable /\ Finish(c, "error", Accumulated(c, NoStats))
        /\ UNCHANGED <<rw, content, net, stored>>

\* The delay is over; or the context is cancelled, and the statistics are dropped.
BackedOff(c) ==
    /\ call[c].pc = "backoff"
    /\ \/ call' = [call EXCEPT ![c].pc = "attempt"] /\ UNCHANGED pool
       \/ call[c].ctx /\ Finish(c, "error", NoStats)
    /\ UNCHANGED <<rw, content, net, replies, stored>>

Cancel(c) ==
    /\ rw.cancels /\ ~call[c].ctx /\ call[c].pc \notin {"idle", "end"}
    /\ call' = [call EXCEPT ![c].ctx = TRUE]
    /\ UNCHANGED <<rw, content, pool, net, replies, stored>>

-----------------------------------------------------------------------------
(* The receiver: SnappyDecodeMiddleware, then writeHandler.ServeHTTP. *)

\* 0 when the request gets to the store: the encoding, size and form of the body, then
\* its message type, must be acceptable.
Rejection(m) ==
    CASE rw.body = "encoding" -> 415 [] rw.body = "size" -> 413 [] rw.body = "corrupt" -> 400
      [] m.version \notin rw.accepts -> 415
      [] OTHER -> 0

\* What the store does: writes the message and answers 204; writes it or not, and sets
\* a status for its error; or returns an error and leaves the status as it is.
StoreOutcomes == [wrote : {TRUE}, err : {FALSE}, code : {204}]
                 \cup [wrote : BOOLEAN, err : {TRUE}, code : {503}]
                 \cup [wrote : {FALSE}, err : {TRUE}, code : {400, 429}]
                 \cup IF rw.forgets THEN [wrote : {FALSE}, err : {TRUE}, code : {0}] ELSE {}

\* A response starts as 204, also when the store returned none. An error changes that
\* only where the status is still 0.
NewWriteResponse == 204
StoreStatus(o) == LET code == IF o.code = 0 THEN NewWriteResponse ELSE o.code IN
                  IF o.err /\ code = 0 THEN 500 ELSE code

\* writeHeaders: the statistics are in the answers to version 2.
StatsFor(m, n) == IF m.version = "v1" THEN NoStats ELSE [samples |-> n, confirmed |-> TRUE]

\* Nobody reads the answer to an attempt that was given up on.
Waiting(m) == call[m.from].pc = "await" /\ call[m.from].retries = m.n

Reply(m, status, stats) ==
    \/ Waiting(m) /\ replies' = replies \cup {[to |-> m.from, n |-> m.n, status |-> status, stats |-> stats]}
    \/ (rw.unreliable \/ ~Waiting(m)) /\ UNCHANGED replies

\* How often a message is in a payload.
Times(c, payload) == Cardinality({i \in DOMAIN payload : payload[i] = c})

ServeHTTP(m) ==
    /\ net' = net \ {m}
    /\ \/ /\ Rejection(m) # 0
          /\ Reply(m, Rejection(m), NoStats)
          /\ UNCHANGED stored
       \/ /\ Rejection(m) = 0
          /\ \E o \in StoreOutcomes :
               /\ stored' = [c \in Calls |-> stored[c] + IF o.wrote THEN Times(c, m.payload) ELSE 0]
               /\ Reply(m, StoreStatus(o), StatsFor(m, IF o.wrote THEN Len(m.payload) ELSE 0))
    /\ UNCHANGED <<rw, content, pool, call>>

-----------------------------------------------------------------------------
WriteCall(c) == Marshal(c) \/ Compress(c) \/ Attempt(c) \/ NetworkError(c) \/ Receive(c) \/ BackedOff(c)

RemoteNext == \/ \E c \in Calls : WriteCall(c) \/ Cancel(c)
              \/ \E m \in net : ServeHTTP(m)

\* A call that can go on does so. A request arrives, unless the network loses it, and
\* then the sender's connection fails.
CallGoesOn(c) == call[c].pc # "idle" /\ WriteCall(c)
NetworkGoesOn == \E m \in net : ServeHTTP(m)
RemoteSpec == /\ RemoteInit /\ [][RemoteNext]_rVars
              /\ \A c \in Calls : WF_rVars(CallGoesOn(c))
              /\ WF_rVars(NetworkGoesOn)

-----------------------------------------------------------------------------
\* The bytes a call sends are its own message, however often it retries and whoever
\* uses the pool meanwhile (API.Write, compressPayload).
OwnPayload ==
    /\ \A c \in Calls : call[c].pc \in {"attempt", "await", "backoff"} => content[call[c].cbuf] = <<c>>
    /\ \A m \in net : m.payload = <<m.from>>

\* A write that succeeds was stored, and a failed one may have been.
SuccessIsStored == \A c \in Calls : call[c].got.result = "nil" => stored[c] > 0

\* A message is stored at most once for each attempt, of which there are at most one
\* more than the retries asked for, unless that is 0, which is no limit; the numbers
\* returned never exceed what was stored; a version 2 write whose receiver confirmed nothing is an
\* error; success means stored; and each attempt sends its own payload.
WritesAccounted ==
    /\ OwnPayload
    /\ SuccessIsStored
    /\ \A c \in Calls :
        /\ stored[c] <= call[c].sent
        /\ rw.maxRetries > 0 => call[c].sent <= rw.maxRetries + 1
        /\ call[c].got.stats.samples <= stored[c]
        /\ call[c].got.result = "nil" /\ rw.version = "v2" =>
             call[c].got.stats.confirmed \/ call[c].got.stats.samples > 0
        /\ call[c].min <= call[c].max \/ rw.backoffMax < rw.backoffMin

\* Every write returns, whatever is lost.
Underway(c) == call[c].pc \notin {"idle", "end"}
RemoteReturns == \A c \in Calls : Underway(c) ~> ~Underway(c)
=============================================================================
