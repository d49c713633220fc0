-------------------------- MODULE Instrumentation --------------------------
(***************************************************************************)
(* The middlewares of promhttp: InstrumentHandlerCounter, ...Duration,      *)
(* ...TimeToWriteHeader, ...RequestSize, ...ResponseSize and ...InFlight    *)
(* around a handler, with the delegators through which they learn what the  *)
(* handler did, and InstrumentRoundTripper... around a client's transport.  *)
(*                                                                          *)
(* A chain with one middleware of each kind is built for a vector of        *)
(* metrics, serves one request, and records what it saw. A call on the      *)
(* innermost delegator goes through all of them to net/http's writer, so    *)
(* one step changes them all.                                               *)
(***************************************************************************)
EXTENDS Naturals, Sequences, FiniteSets, Functions

CONSTANTS
    Vectors,        \* label names of a vector: [variable, curried, dynamic]
    Methods,        \* methods of requests
    ExtraMethods,   \* what WithExtraMethods adds
    Lower,          \* strings.ToLower on all of these
    StatusCodes,    \* what a handler may pass to WriteHeader
    WriterOffers,   \* the interfaces of net/http's writers, HTTP/1 and HTTP/2, and others
    MaxBytes,       \* bound on the bytes of a response
    Hooks           \* the functions that are set in the InstrumentTrace

Server == {"counter", "duration", "header", "request", "response"}
Client == {"counter", "duration"}
Interfaces == {"closeNotifier", "flusher", "hijacker", "readerFrom", "pusher"}

ASSUME InstrumentAssumption ==
    StatusCodes \subseteq Nat /\ WriterOffers \subseteq SUBSET Interfaces

VARIABLES
    iPhase,   \* "build", then "serve" or "send", then how it ended
    vec,      \* the labels of the metrics
    method,   \* the request's method
    writer,   \* net/http: interfaces, status and bytes sent, extra headers, hijacked
    del,      \* the delegator of each middleware that has one
    offers,   \* the interfaces of the innermost delegator
    inFlight, \* the gauge
    records,  \* what the middlewares reported, by kind: a sequence of labels
    traced    \* the hooks that were called, and whether for an event that failed

iVars == <<iPhase, vec, method, writer, del, offers, inFlight, records, traced>>

-----------------------------------------------------------------------------
(* Labels. *)

Free(v) == v.variable \ (v.curried \cup v.dynamic)

\* Mutation of CheckLabels: what else is left is not looked at.
CheckLabels_Any(v) == v.dynamic \subseteq v.variable \ v.curried
\* Currying with the dynamic labels, then only code and method may be left.
CheckLabels(v) == /\ v.dynamic \subseteq v.variable \ v.curried
                  /\ Free(v) \subseteq {"code", "method"}

\* 200 when the handler has set no status, "unknown", here 0, for one that is none of HTTP's.
UnknownCode == 0
SanitizeCode(s) == IF s = 0 THEN 200 ELSE IF s \in 100..599 THEN s ELSE UnknownCode

StandardMethods == {"GET", "get", "PUT", "put", "HEAD", "head", "POST", "post", "DELETE", "delete",
                    "CONNECT", "connect", "OPTIONS", "options", "NOTIFY", "notify",
                    "TRACE", "trace", "PATCH", "patch"}

SanitizeMethod(m) ==
    IF m \in StandardMethods \/ \E e \in ExtraMethods : Lower[e] = Lower[m] THEN Lower[m] ELSE "unknown"

\* labels, with those that are resolved from the request.
LabelsOf(v, m, status) ==
    [n \in Free(v) \cup v.dynamic |->
        IF n \in v.dynamic THEN "resolved"
        ELSE IF n = "code" THEN SanitizeCode(status) ELSE SanitizeMethod(m)]

-----------------------------------------------------------------------------
(* Delegators. *)

NewDel == [status |-> 0, written |-> 0, wroteHeader |-> FALSE, seen |-> <<>>]

\* The middlewares without a code label pass the writer on as it is.
Delegating(v) == {"header", "response"} \cup
                 IF "code" \in Free(v) THEN {"counter", "duration", "request"} ELSE {}

Bit == [i \in Interfaces |->
           CASE i = "closeNotifier" -> 1 [] i = "flusher" -> 2 [] i = "hijacker" -> 4
             [] i = "readerFrom" -> 8 [] i = "pusher" -> 16]

\* Mutation of PickDelegator: one interface is left out.
PickDelegator_NoReadFrom(id) == {i \in Interfaces \ {"readerFrom"} : (id \div Bit[i]) % 2 = 1}
\* pickDelegator[id]: the interfaces that the delegator with this index has.
PickDelegator(id) == {i \in Interfaces : (id \div Bit[i]) % 2 = 1}

\* newDelegator: what the wrapped writer has decides what the delegator has.
NewDelegator(offered) == PickDelegator(SumFunctionOnSet(Bit, offered))

\* Mutation of HeaderSeen: every header is observed.
HeaderSeen_Always(d, k, code) ==
    [d EXCEPT !.seen = IF k = "header" THEN Append(@, code) ELSE @,
              !.status = code, !.wroteHeader = TRUE]
\* responseWriterDelegator.WriteHeader, in each delegator.
HeaderSeen(d, k, code) ==
    [d EXCEPT !.seen = IF k = "header" /\ ~d.wroteHeader THEN Append(@, code) ELSE @,
              !.status = code, !.wroteHeader = TRUE]

\* Mutation of ImpliedHeader: a write without a header goes unnoticed.
ImpliedHeader_None(d, k) == d
\* Write, ReadFrom and FlushHeader write the header if nobody did.
ImpliedHeader(d, k) == IF d.wroteHeader THEN d ELSE HeaderSeen(d, k, 200)

\* net/http's writer (external): informational headers go out at once, the first other
\* one decides the status, later ones are ignored, and a write without one means 200.
WriterHeader(w, code) ==
    IF w.hijacked \/ w.status # 0 \/ code < 200 THEN [w EXCEPT !.extra = TRUE]
    ELSE [w EXCEPT !.status = code]
WriterBytes(w, n) ==
    IF w.hijacked THEN w ELSE [w EXCEPT !.status = IF @ = 0 THEN 200 ELSE @, !.bytes = @ + n]

-----------------------------------------------------------------------------
NoRecords == [k \in Server |-> <<>>]

InstrumentInit ==
    /\ iPhase = "build"
    /\ vec \in Vectors
    /\ method \in Methods
    /\ \E o \in WriterOffers :
         writer = [offers |-> o, status |-> 0, extra |-> FALSE, bytes |-> 0, hijacked |-> FALSE]
    /\ del = << >>
    /\ offers = {}
    /\ inFlight = 0
    /\ records = NoRecords
    /\ traced = {}

\* The constructors panic on labels they cannot fill.
Reject ==
    /\ iPhase = "build" /\ ~CheckLabels(vec)
    /\ iPhase' = "rejected"
    /\ UNCHANGED <<vec, method, writer, del, offers, inFlight, records, traced>>

Serve ==
    /\ iPhase = "build" /\ CheckLabels(vec)
    /\ iPhase' = "serve"
    /\ inFlight' = inFlight + 1
    /\ del' = [k \in Delegating(vec) |-> NewDel]
    /\ offers' = NewDelegator(writer.offers)
    /\ UNCHANGED <<vec, method, writer, records, traced>>

WriteHeader(code) ==
    /\ iPhase = "serve"
    /\ del' = [k \in DOMAIN del |-> HeaderSeen(del[k], k, code)]
    /\ writer' = WriterHeader(writer, code)
    /\ UNCHANGED <<iPhase, vec, method, offers, inFlight, records, traced>>

\* Write, and ReadFrom where the writer has it. After a hijack nothing is written.
WriteBody ==
    /\ iPhase = "serve" /\ writer.bytes < MaxBytes
    /\ writer' = WriterBytes(writer, 1)
    /\ del' = [k \in DOMAIN del |-> [ImpliedHeader(del[k], k) EXCEPT !.written = @ + (writer'.bytes - writer.bytes)]]
    /\ UNCHANGED <<iPhase, vec, method, offers, inFlight, records, traced>>

FlushHeader ==
    /\ iPhase = "serve" /\ "flusher" \in offers
    /\ del' = [k \in DOMAIN del |-> ImpliedHeader(del[k], k)]
    /\ writer' = WriterBytes(writer, 0)
    /\ UNCHANGED <<iPhase, vec, method, offers, inFlight, records, traced>>

Hijack ==
    /\ iPhase = "serve" /\ "hijacker" \in offers
    /\ writer' = [writer EXCEPT !.hijacked = TRUE]
    /\ UNCHANGED <<iPhase, vec, method, del, offers, inFlight, records, traced>>

\* What a middleware reports once the handler has returned: one observation, with the
\* status its delegator saw. The time to the header was reported when it was written.
StatusSeen(k) == IF k \in DOMAIN del THEN del[k].status ELSE 0
Reported(k) == IF k = "header" THEN [i \in DOMAIN del[k].seen |-> LabelsOf(vec, method, del[k].seen[i])]
               ELSE <<LabelsOf(vec, method, StatusSeen(k))>>

Return ==
    /\ iPhase = "serve"
    /\ iPhase' = "returned"
    /\ inFlight' = inFlight - 1
    /\ records' = [k \in Server |-> Reported(k)]
    /\ UNCHANGED <<vec, method, writer, del, offers, traced>>

\* The in-flight gauge is deferred, the others are not.
Panic ==
    /\ iPhase = "serve"
    /\ iPhase' = "panicked"
    /\ inFlight' = inFlight - 1
    /\ records' = [NoRecords EXCEPT !["header"] = Reported("header")]
    /\ UNCHANGED <<vec, method, writer, del, offers, traced>>

\* InstrumentRoundTripper...: the transport answers, or fails and nothing is reported.
Send ==
    /\ iPhase = "build" /\ CheckLabels(vec)
    /\ iPhase' = "send"
    /\ inFlight' = inFlight + 1
    /\ UNCHANGED <<vec, method, writer, del, offers, records, traced>>

\* InstrumentRoundTripperTrace: the hooks that are told of an error report success only.
TraceEvents == {"GotConn", "PutIdleConn", "DNSStart", "DNSDone", "ConnectStart", "ConnectDone",
                "GotFirstResponseByte", "Got100Continue", "TLSHandshakeStart", "TLSHandshakeDone",
                "WroteHeaders", "Wait100Continue", "WroteRequest"}
ToldOfErrors == {"PutIdleConn", "ConnectDone", "TLSHandshakeDone"}

Trace(e, fails) ==
    /\ iPhase = "send" /\ traced = {}
    /\ e \in Hooks /\ ~(fails /\ e \in ToldOfErrors)
    /\ traced' = traced \cup {<<e, fails>>}
    /\ UNCHANGED <<iPhase, vec, method, writer, del, offers, inFlight, records>>

Respond(code) ==
    /\ iPhase = "send"
    /\ iPhase' = "answered"
    /\ writer' = [writer EXCEPT !.status = code]
    /\ inFlight' = inFlight - 1
    /\ records' = [k \in Server |-> IF k \in Client THEN <<LabelsOf(vec, method, code)>> ELSE <<>>]
    /\ UNCHANGED <<vec, method, del, offers, traced>>

SendFails ==
    /\ iPhase = "send"
    /\ iPhase' = "failed"
    /\ inFlight' = inFlight - 1
    /\ UNCHANGED <<vec, method, writer, del, offers, records, traced>>

InstrumentNext ==
    \/ Reject \/ Serve \/ WriteBody \/ FlushHeader \/ Hijack \/ Return \/ Panic \/ Send \/ SendFails
    \/ \E c \in StatusCodes : WriteHeader(c) \/ Respond(c)
    \/ \E e \in TraceEvents, f \in BOOLEAN : Trace(e, f)

-----------------------------------------------------------------------------
\* Whatever a handler calls and however it ends: the delegator has the interfaces of
\* the writer and no other; the gauge is back at zero; every vector accepts the labels
\* it is given; a request is reported once by each middleware, none after a panic
\* except a header that was written; and by the status that went out to the client,
\* with the bytes that did, unless the handler wrote several headers (informational
\* ones, or one too many) or took the connection over.
ReportedAsSent ==
    /\ iPhase = "serve" => offers = writer.offers
    /\ iPhase \notin {"serve", "send"} => inFlight = 0
    /\ \A k \in Server : \A i \in DOMAIN records[k] :
         DOMAIN records[k][i] = vec.variable \ vec.curried
    /\ iPhase = "returned" => \A k \in Server \ {"header"} : Len(records[k]) = 1
    /\ Len(records["header"]) <= 1
    /\ ~writer.extra /\ ~writer.hijacked =>
         /\ \A k \in Server : \A i \in DOMAIN records[k] :
              "code" \in Free(vec) => records[k][i]["code"] = SanitizeCode(writer.status)
         /\ iPhase = "returned" => del["response"].written = writer.bytes
         /\ iPhase = "returned" => (writer.status # 0 <=> Len(records["header"]) = 1)
=============================================================================
