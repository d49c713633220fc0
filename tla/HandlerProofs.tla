---------------------------- MODULE HandlerProofs ----------------------------
(***************************************************************************)
(* Proofs about MetricHandler, for any number of requests, any families and *)
(* any options: HandlerInv is inductive, and with it hold NothingLeft - no   *)
(* slot, cycle or gather is left behind by panics, timeouts and refusals -   *)
(* and OneGather - who is told 200 got the result of one gather that may be  *)
(* shown. Then about Instrumentation, for any vectors, methods, writers and *)
(* number of bytes: ReportedAsSent, that a request is reported as it was     *)
(* sent.                                                                     *)
(***************************************************************************)
EXTENDS MetricHandler, Instrumentation, SumTheorems, FiniteSetTheorems, TLAPS

USE DEF StatCounts

-----------------------------------------------------------------------------
(* Types *)

\* A step of one request leaves the others alone.
OthersKept(r) == \A s \in Requests \ {r} : req'[s] = req[s]

\* A step of one request changes the record of that request only.
LEMMA ReqType ==
    ASSUME HandlerTypes, NEW r \in Requests, NEW q, IsRequest(q), req' = [req EXCEPT ![r] = q]
    PROVE  /\ req' = [s \in Requests |-> req'[s]] /\ \A s \in Requests : IsRequest(req'[s])
           /\ req'[r] = q /\ OthersKept(r)
<1>1. req = [s \in Requests |-> req[s]] /\ \A s \in Requests : IsRequest(req[s])
  BY DEF HandlerTypes
<1>2. req'[r] = q /\ (\A s \in Requests \ {r} : req'[s] = req[s]) /\ req' = [s \in Requests |-> req'[s]]
  BY <1>1
<1> QED  BY <1>1, <1>2 DEF OthersKept

\* Two fields at once.
LEMMA RespondForm ==
    ASSUME req = [s \in Requests |-> req[s]], NEW r \in Requests, IsRequest(req[r]), NEW x, NEW l,
           req' = [req EXCEPT ![r].rsp = x, ![r].pc = l]
    PROVE  req' = [req EXCEPT ![r] = [req[r] EXCEPT !.rsp = x, !.pc = l]]
  BY DEF IsRequest

\* What a request is, and what HandlerTypes says of the rest.
LEMMA Fields ==
    ASSUME HandlerTypes, NEW r \in Requests
    PROVE  /\ IsRequest(req[r]) /\ req = [s \in Requests |-> req[s]]
           /\ slots \in Nat /\ cycles \in Seq(Cycle) /\ current \in 0 .. Len(cycles)
           /\ stats \in StatCounts
  BY DEF HandlerTypes

-----------------------------------------------------------------------------
(* Steps that leave the gathers alone *)

\* The counts do not change where the request does not change in what they count.
LEMMA SameCounts ==
    ASSUME HandlerTypes, CountsKept, NEW r \in Requests, OthersKept(r),
           req'[r].holds = req[r].holds, req'[r].outer = "serving" <=> req[r].outer = "serving",
           req'[r].sent.status = req[r].sent.status,
           slots' = slots, stats'.inFlight = stats.inFlight, stats'.requests = stats.requests
    PROVE  CountsKept'
<1>1. Holders' = Holders  BY DEF Holders, OthersKept
<1>2. Serving' = Serving  BY DEF Serving, OthersKept
<1>3. ASSUME NEW k \in Codes PROVE ToldStatus(k)' = ToldStatus(k)  BY DEF ToldStatus, OthersKept
<1> QED  BY <1>1, <1>2, <1>3 DEF CountsKept

\* The other requests keep what they have as long as results stay what they are, and
\* only the leader of a gather ends it.
GathersEndOnce(r) ==
    /\ cycles' \in Seq(Cycle) /\ Len(cycles') >= Len(cycles)
    /\ \A c \in DOMAIN cycles :
         /\ cycles[c].ready => cycles'[c].err = cycles[c].err /\ cycles'[c].mfs = cycles[c].mfs
         /\ \/ cycles'[c].ready = cycles[c].ready /\ cycles'[c].running = cycles[c].running
            \/ LeadingOne(r) /\ req[r].cyc = c

LEMMA OthersFine ==
    ASSUME HandlerInv, NEW r \in Requests, OthersKept(r), opts' = opts, GathersEndOnce(r),
           NEW s \in Requests \ {r}
    PROVE  PlaceKept(s)' /\ AnswerKept(s)'
<1>0. /\ IsRequest(req[s]) /\ IsRequest(req[r]) /\ cycles \in Seq(Cycle) /\ cycles' \in Seq(Cycle)
      /\ PlaceKept(s) /\ PlaceKept(r) /\ AnswerKept(s)
      /\ LeadingOne(r) /\ LeadingOne(s) => req[r].cyc # req[s].cyc
  BY DEF HandlerInv, HandlerTypes, PlacesKept, OneLeader, AnswersKept, GathersEndOnce
<1>1. req'[s] = req[s]  BY DEF OthersKept
<1>2. Len(cycles) \in Nat /\ Len(cycles') \in Nat /\ DOMAIN cycles = 1 .. Len(cycles)
      /\ DOMAIN cycles' = 1 .. Len(cycles') /\ req[s].cyc \in Nat
  BY <1>0 DEF IsRequest
<1>3. DOMAIN cycles \subseteq DOMAIN cycles'  BY <1>2 DEF GathersEndOnce
<1>4. PlaceKept(s)'
  <2>1. req[s].cyc \in 0 .. Len(cycles')  BY <1>0, <1>2 DEF PlaceKept, GathersEndOnce
  <2>2. LeadingOne(s) => req[s].cyc \in DOMAIN cycles /\ ~cycles'[req[s].cyc].ready
    BY <1>0 DEF PlaceKept, GathersEndOnce, LeadingOne, InCycle
  <2>3. ASSUME req[s].pc \in {"gathered", "encode", "release", "done"}
        PROVE  cycles'[req[s].cyc].ready
    BY <1>0, <2>3 DEF PlaceKept, GathersEndOnce, InCycle
  <2>4. ASSUME req[s].pc = "collect" PROVE cycles'[req[s].cyc].running
    BY <1>0, <2>4 DEF PlaceKept, GathersEndOnce, LeadingOne, InCycle
  <2> QED  BY <1>0, <1>1, <1>3, <2>1, <2>2, <2>3, <2>4 DEF PlaceKept, LeadingOne
<1>5. ASSUME NEW c, GoodCycle(c) PROVE GoodCycle(c)'
  <2>1. c \in DOMAIN cycles /\ cycles[c].ready  BY <1>5 DEF GoodCycle
  <2>2. cycles'[c].ready  BY <2>1, <1>0 DEF GathersEndOnce, PlaceKept
  <2> QED  BY <1>3, <1>5, <2>1, <2>2 DEF GoodCycle, GathersEndOnce
<1>6. AnswerKept(s)'  BY <1>0, <1>1, <1>5 DEF AnswerKept, Answering, ToldMetrics
<1> QED  BY <1>4, <1>6

\* Steps of a request between which its part in a gather does not change.
SamePart(r) ==
    /\ req'[r].cyc = req[r].cyc
    /\ \/ req'[r].pc = req[r].pc
       \/ /\ {req[r].pc, req'[r].pc} \cap {"collect", "fail", "done"} = {}
          /\ req[r].pc \in InCycle <=> req'[r].pc \in InCycle

LEMMA QuietCycles ==
    ASSUME HandlerInv, NEW r \in Requests, OthersKept(r), SamePart(r),
           opts' = opts, cycles' = cycles, current' = current
    PROVE  CyclesKept' /\ OneLeader'
<1>1. ASSUME NEW q \in Requests
      PROVE  /\ req'[q].cyc = req[q].cyc
             /\ req'[q].pc \in InCycle <=> req[q].pc \in InCycle
             /\ req'[q].pc = "done" <=> req[q].pc = "done"
             /\ req'[q].pc = "collect" <=> req[q].pc = "collect"
             /\ req'[q].pc = "fail" <=> req[q].pc = "fail"
  BY DEF SamePart, OthersKept
<1>2. OneLeader'  BY <1>1 DEF OneLeader, LeadingOne, HandlerInv, PlacesKept
<1>3. ASSUME NEW c \in DOMAIN cycles PROVE RefsKept(c)' /\ CycleKept(c)'
  <2>1. UsersOf(c)' = UsersOf(c)  BY <1>1 DEF UsersOf
  <2>2. RefsKept(c) /\ CycleKept(c)  BY DEF HandlerInv, CyclesKept
  <2>3. RefsKept(c)'  BY <2>1, <2>2, <1>1 DEF RefsKept, Finishing
  <2>4. CycleKept(c)'  BY <2>2, <1>1 DEF CycleKept, LeadingOne
  <2> QED  BY <2>3, <2>4
<1> QED  BY <1>2, <1>3 DEF CyclesKept

\* What is left to show of such a step is about the request itself and the counts.
LEMMA QuietStep ==
    ASSUME HandlerInv, NEW r \in Requests, OthersKept(r), SamePart(r),
           req' = [s \in Requests |-> req'[s]], IsRequest(req'[r]),
           opts' = opts, cycles' = cycles, current' = current,
           endpoint' \in BOOLEAN, switches' \in Nat, slots' \in Nat,
           stats' \in StatCounts,
           PlaceKept(r)', AnswerKept(r)', CountsKept'
    PROVE  HandlerInv'
<1>1. GathersEndOnce(r)  BY DEF GathersEndOnce, HandlerInv, HandlerTypes
<1>2. ASSUME NEW s \in Requests PROVE PlaceKept(s)' /\ AnswerKept(s)'  BY <1>1, OthersFine
<1>3. HandlerTypes'  BY DEF HandlerInv, HandlerTypes, OthersKept
<1>4. CyclesKept' /\ OneLeader'  BY QuietCycles
<1> QED  BY <1>2, <1>3, <1>4 DEF HandlerInv, PlacesKept, AnswersKept

-----------------------------------------------------------------------------
(* The quiet steps, one by one *)

\* The endpoint is switched: nothing of the requests changes.
LEMMA SwitchStep ==
    ASSUME HandlerInv, endpoint' \in BOOLEAN, switches' \in Nat,
           UNCHANGED <<opts, req, slots, current, cycles, stats>>
    PROVE  HandlerInv'
<1>1. HandlerTypes'  BY DEF HandlerInv, HandlerTypes
<1>2. CountsKept'  BY DEF HandlerInv, CountsKept, Holders, Serving, ToldStatus
<1>3. PlacesKept'  BY DEF HandlerInv, PlacesKept, PlaceKept, OneLeader, LeadingOne
<1>4. CyclesKept'
  BY DEF HandlerInv, CyclesKept, RefsKept, CycleKept, UsersOf, Finishing, LeadingOne
<1>5. AnswersKept'
  BY DEF HandlerInv, AnswersKept, AnswerKept, Answering, ToldMetrics, GoodCycle
<1> QED  BY <1>1, <1>2, <1>3, <1>4, <1>5 DEF HandlerInv

\* One more request in flight.
LEMMA ArriveStep ==
    ASSUME HandlerInv, NEW r \in Requests, Arrive(r)
    PROVE  HandlerInv'
<1> DEFINE q == [req[r] EXCEPT !.outer = "serving", !.pc = "begin"]
<1>0. HandlerTypes /\ PlaceKept(r) /\ AnswerKept(r) /\ CountsKept
  BY DEF HandlerInv, PlacesKept, AnswersKept
<1>1. IsRequest(req[r]) /\ req = [s \in Requests |-> req[s]]
      /\ stats \in StatCounts
  BY <1>0, Fields
<1>2. req' = [req EXCEPT ![r] = q] /\ IsRequest(q)  BY <1>1 DEF Arrive, IsRequest, PcLabels
<1>3. IsRequest(req'[r]) /\ req'[r] = q /\ OthersKept(r) /\ req' = [s \in Requests |-> req'[s]]
  BY <1>0, <1>2, ReqType
<1>4. req[r].pc = "idle" /\ req[r].outer = "idle" /\ req[r].sent.status = 0
  BY <1>0 DEF Arrive, PlaceKept
<1>5. SamePart(r)  BY <1>1, <1>3, <1>4 DEF SamePart, InCycle, IsRequest
<1>6. PlaceKept(r)' /\ AnswerKept(r)'
  BY <1>0, <1>1, <1>3, <1>4
  DEF PlaceKept, AnswerKept, Answering, ToldMetrics, Arrive, LeadingOne, InCycle, IsRequest
<1>7. CountsKept'
  <2>1. /\ Holders' = Holders /\ \A k \in Codes : ToldStatus(k)' = ToldStatus(k)
    <3>1. Holders' = Holders  BY <1>1, <1>3 DEF Holders, OthersKept, IsRequest
    <3>2. ASSUME NEW k \in Codes PROVE ToldStatus(k)' = ToldStatus(k)
      BY <1>1, <1>3 DEF ToldStatus, OthersKept, IsRequest
    <3> QED  BY <3>1, <3>2
  <2>2. Serving' = Serving \cup {r} /\ r \notin Serving
    <3>1. req'[r].outer = "serving"  BY <1>1, <1>3 DEF IsRequest
    <3> HIDE DEF q
    <3> QED  BY <3>1, <1>3, <1>4 DEF Serving, OthersKept
  <2>3. Cardinality(Serving') = Cardinality(Serving) + 1
    BY <2>2, RequestsAssumption, FS_AddElement, FS_Subset DEF Serving
  <2> QED  BY <1>0, <1>1, <2>1, <2>3 DEF CountsKept, Arrive
<1>8. /\ stats' \in StatCounts
      /\ slots' \in Nat /\ endpoint' \in BOOLEAN /\ switches' \in Nat
      /\ opts' = opts /\ cycles' = cycles /\ current' = current
  BY <1>0, <1>1 DEF Arrive, HandlerTypes
<1> QED  BY <1>3, <1>5, <1>6, <1>7, <1>8, QuietStep

\* A step of the handler that is about the response only: neither the semaphore nor
\* what the client has been told changes.
LEMMA ResponseStep ==
    ASSUME HandlerInv, NEW r \in Requests, NEW q, IsRequest(q), req' = [req EXCEPT ![r] = q],
           q.holds = req[r].holds, q.outer = req[r].outer, q.sent = req[r].sent, q.cyc = req[r].cyc,
           \/ req[r].pc = "begin" /\ q.pc \in {"gather", "end"} /\ ~req[r].holds
           \/ req[r].pc \in {"wait", "gathered", "encode"} /\ q.pc \in {"gathered", "encode", "release"},
           q.pc \in {"gathered", "encode", "release"} => cycles[req[r].cyc].ready,
           q.pc = "encode" => GoodCycle(req[r].cyc),
           (q.pc \in {"release", "end"} /\ ~q.panics /\ q.rsp.status \in {0, 200}
              /\ q.rsp.body # <<"delta">>) => GoodCycle(req[r].cyc),
           opts' = opts, cycles' = cycles, current' = current, endpoint' = endpoint,
           switches' = switches, slots' = slots,
           stats' \in StatCounts,
           stats'.inFlight = stats.inFlight, stats'.requests = stats.requests
    PROVE  HandlerInv'
<1>0. HandlerTypes /\ PlaceKept(r) /\ AnswerKept(r) /\ CountsKept
  BY DEF HandlerInv, PlacesKept, AnswersKept
<1>1. IsRequest(req[r])  BY <1>0, Fields
<1>2. IsRequest(req'[r]) /\ req'[r] = q /\ OthersKept(r) /\ req' = [s \in Requests |-> req'[s]]
  BY <1>0, ReqType
<1>3. SamePart(r)  BY <1>2 DEF SamePart, InCycle
<1>4. PlaceKept(r)'  BY <1>0, <1>1, <1>2 DEF PlaceKept, LeadingOne, InCycle
<1>5. AnswerKept(r)'  BY <1>0, <1>1, <1>2 DEF AnswerKept, Answering, ToldMetrics, GoodCycle
<1>6. CountsKept'  BY <1>0, <1>2, SameCounts
<1>7. slots' \in Nat /\ endpoint' \in BOOLEAN /\ switches' \in Nat  BY <1>0 DEF HandlerTypes
<1> QED  BY <1>2, <1>3, <1>4, <1>5, <1>6, <1>7, QuietStep

\* The delta endpoint answers, or cuts the connection.
LEMMA ServeStep ==
    ASSUME HandlerInv, NEW r \in Requests, ServeIfRequested(r)
    PROVE  HandlerInv'
<1>0. HandlerTypes /\ PlaceKept(r) /\ AnswerKept(r)
  BY DEF HandlerInv, PlacesKept, AnswersKept
<1>1. IsRequest(req[r]) /\ req = [s \in Requests |-> req[s]]
      /\ stats \in StatCounts
  BY <1>0, Fields
<1>2. /\ opts' = opts /\ cycles' = cycles /\ current' = current /\ endpoint' = endpoint
      /\ switches' = switches /\ slots' = slots
      /\ stats' \in StatCounts
      /\ stats'.inFlight = stats.inFlight /\ stats'.requests = stats.requests
  BY <1>1 DEF ServeIfRequested
<1>3. req[r].pc = "begin" /\ ~req[r].holds  BY <1>0, <1>1 DEF ServeIfRequested, At, PlaceKept, IsRequest
<1>4. ASSUME req' = [req EXCEPT ![r].rsp = [status |-> 200, body |-> <<"delta">>], ![r].pc = "end"]
      PROVE  HandlerInv'
  <2> DEFINE q == [req[r] EXCEPT !.rsp = [status |-> 200, body |-> <<"delta">>], !.pc = "end"]
  <2>1. IsRequest(q)  BY <1>1 DEF IsRequest, PcLabels, Statuses, Codes, Failure
  <2>2. req' = [req EXCEPT ![r] = q]  BY <1>1, <1>4
  <2>3. /\ q.holds = req[r].holds /\ q.outer = req[r].outer /\ q.sent = req[r].sent
        /\ q.cyc = req[r].cyc /\ q.pc = "end" /\ q.rsp.body = <<"delta">>
    BY <1>1 DEF IsRequest, Failure
  <2> HIDE DEF q
  <2> QED  BY <1>2, <1>3, <2>1, <2>2, <2>3, ResponseStep
<1>5. ASSUME req' = [req EXCEPT ![r].panics = TRUE, ![r].pc = "end"]
      PROVE  HandlerInv'
  <2> DEFINE q == [req[r] EXCEPT !.panics = TRUE, !.pc = "end"]
  <2>1. IsRequest(q)  BY <1>1 DEF IsRequest, PcLabels, Statuses, Codes, Failure
  <2>2. req' = [req EXCEPT ![r] = q]  BY <1>1, <1>5
  <2>3. /\ q.holds = req[r].holds /\ q.outer = req[r].outer /\ q.sent = req[r].sent
        /\ q.cyc = req[r].cyc /\ q.pc = "end" /\ q.panics
    BY <1>1 DEF IsRequest, Failure
  <2> HIDE DEF q
  <2> QED  BY <1>2, <1>3, <2>1, <2>2, <2>3, ResponseStep
<1> QED  BY <1>4, <1>5 DEF ServeIfRequested

\* The result is there.
LEMMA JoinedStep ==
    ASSUME HandlerInv, NEW r \in Requests, Joined(r)
    PROVE  HandlerInv'
<1>0. HandlerTypes /\ PlaceKept(r) /\ AnswerKept(r)
  BY DEF HandlerInv, PlacesKept, AnswersKept
<1>1. IsRequest(req[r]) /\ req = [s \in Requests |-> req[s]]
      /\ stats \in StatCounts
  BY <1>0, Fields
<1>2. /\ opts' = opts /\ cycles' = cycles /\ current' = current /\ endpoint' = endpoint
      /\ switches' = switches /\ slots' = slots
      /\ stats' \in StatCounts
      /\ stats'.inFlight = stats.inFlight /\ stats'.requests = stats.requests
  BY <1>1 DEF Joined
<1>3. req[r].pc = "wait" /\ cycles[req[r].cyc].ready  BY DEF Joined, At
<1>4. ASSUME req' = [req EXCEPT ![r].pc = "gathered"]
      PROVE  HandlerInv'
  <2> DEFINE q == [req[r] EXCEPT !.pc = "gathered"]
  <2>1. IsRequest(q)  BY <1>1 DEF IsRequest, PcLabels, Statuses, Codes, Failure
  <2>2. req' = [req EXCEPT ![r] = q]  BY <1>1, <1>4
  <2>3. /\ q.holds = req[r].holds /\ q.outer = req[r].outer /\ q.sent = req[r].sent
        /\ q.cyc = req[r].cyc /\ q.pc = "gathered"
    BY <1>1 DEF IsRequest, Failure
  <2> HIDE DEF q
  <2> QED  BY <1>2, <1>3, <2>1, <2>2, <2>3, ResponseStep
<1> QED  BY <1>4 DEF Joined, Proceed

\* One family is written.
LEMMA EncodeStep ==
    ASSUME HandlerInv, NEW r \in Requests, Encode(r)
    PROVE  HandlerInv'
<1>0. HandlerTypes /\ PlaceKept(r) /\ AnswerKept(r)
  BY DEF HandlerInv, PlacesKept, AnswersKept
<1>1. IsRequest(req[r]) /\ req = [s \in Requests |-> req[s]]
      /\ stats \in StatCounts
  BY <1>0, Fields
<1>2. /\ opts' = opts /\ cycles' = cycles /\ current' = current /\ endpoint' = endpoint
      /\ switches' = switches /\ slots' = slots
      /\ stats' \in StatCounts
      /\ stats'.inFlight = stats.inFlight /\ stats'.requests = stats.requests
  BY <1>1 DEF Encode
<1>3. req[r].pc = "encode" /\ cycles[req[r].cyc].ready /\ GoodCycle(req[r].cyc)
  BY <1>0 DEF Encode, At, AnswerKept, PlaceKept
<1>4. PICK b, t : req' = [req EXCEPT ![r].rsp = [status |-> 200, body |-> b], ![r].todo = t]
  BY DEF Encode, Write
<1> DEFINE q == [req[r] EXCEPT !.rsp = [status |-> 200, body |-> b], !.todo = t]
<1>5. IsRequest(q)  BY <1>1 DEF IsRequest, Statuses, Codes
<1>6. req' = [req EXCEPT ![r] = q]  BY <1>1, <1>4
<1>7. /\ q.holds = req[r].holds /\ q.outer = req[r].outer /\ q.sent = req[r].sent
      /\ q.cyc = req[r].cyc /\ q.pc = "encode"
  BY <1>1, <1>3 DEF IsRequest
<1> HIDE DEF q
<1> QED  BY <1>2, <1>3, <1>5, <1>6, <1>7, ResponseStep

\* All families are written.
LEMMA EncodedStep ==
    ASSUME HandlerInv, NEW r \in Requests, Encoded(r)
    PROVE  HandlerInv'
<1>0. HandlerTypes /\ PlaceKept(r) /\ AnswerKept(r)
  BY DEF HandlerInv, PlacesKept, AnswersKept
<1>1. IsRequest(req[r]) /\ req = [s \in Requests |-> req[s]]
      /\ stats \in StatCounts
  BY <1>0, Fields
<1>2. /\ opts' = opts /\ cycles' = cycles /\ current' = current /\ endpoint' = endpoint
      /\ switches' = switches /\ slots' = slots
      /\ stats' \in StatCounts
      /\ stats'.inFlight = stats.inFlight /\ stats'.requests = stats.requests
  BY <1>1 DEF Encoded
<1>3. req[r].pc = "encode" /\ cycles[req[r].cyc].ready /\ GoodCycle(req[r].cyc)
  BY <1>0 DEF Encoded, At, AnswerKept, PlaceKept
<1>4. ASSUME req' = [req EXCEPT ![r].pc = "release"]
      PROVE  HandlerInv'
  <2> DEFINE q == [req[r] EXCEPT !.pc = "release"]
  <2>1. IsRequest(q)  BY <1>1 DEF IsRequest, PcLabels, Statuses, Codes, Failure
  <2>2. req' = [req EXCEPT ![r] = q]  BY <1>1, <1>4
  <2>3. /\ q.holds = req[r].holds /\ q.outer = req[r].outer /\ q.sent = req[r].sent
        /\ q.cyc = req[r].cyc /\ q.pc = "release"
    BY <1>1 DEF IsRequest, Failure
  <2> HIDE DEF q
  <2> QED  BY <1>2, <1>3, <2>1, <2>2, <2>3, ResponseStep
<1> QED  BY <1>4 DEF Encoded, Proceed

\* A family cannot be written: stop, go on or panic.
LEMMA EncodeFailsStep ==
    ASSUME HandlerInv, NEW r \in Requests, EncodeFails(r)
    PROVE  HandlerInv'
<1>0. HandlerTypes /\ PlaceKept(r) /\ AnswerKept(r)
  BY DEF HandlerInv, PlacesKept, AnswersKept
<1>1. IsRequest(req[r]) /\ req = [s \in Requests |-> req[s]]
      /\ stats \in StatCounts
  BY <1>0, Fields
<1>2. /\ opts' = opts /\ cycles' = cycles /\ current' = current /\ endpoint' = endpoint
      /\ switches' = switches /\ slots' = slots
      /\ stats' \in StatCounts
      /\ stats'.inFlight = stats.inFlight /\ stats'.requests = stats.requests
  BY <1>1 DEF EncodeFails
<1>3. req[r].pc = "encode" /\ cycles[req[r].cyc].ready /\ GoodCycle(req[r].cyc)
  BY <1>0 DEF EncodeFails, At, AnswerKept, PlaceKept
<1>4. ASSUME req' = [req EXCEPT ![r].panics = TRUE, ![r].pc = "release"]
      PROVE  HandlerInv'
  <2> DEFINE q == [req[r] EXCEPT !.panics = TRUE, !.pc = "release"]
  <2>1. IsRequest(q)  BY <1>1 DEF IsRequest, PcLabels, Statuses, Codes, Failure
  <2>2. req' = [req EXCEPT ![r] = q]  BY <1>1, <1>4
  <2>3. /\ q.holds = req[r].holds /\ q.outer = req[r].outer /\ q.sent = req[r].sent
        /\ q.cyc = req[r].cyc /\ q.pc = "release" /\ q.panics
    BY <1>1 DEF IsRequest, Failure
  <2> HIDE DEF q
  <2> QED  BY <1>2, <1>3, <2>1, <2>2, <2>3, ResponseStep
<1>5. ASSUME req' = [req EXCEPT ![r].pc = "release"]
      PROVE  HandlerInv'
  <2> DEFINE q == [req[r] EXCEPT !.pc = "release"]
  <2>1. IsRequest(q)  BY <1>1 DEF IsRequest, PcLabels, Statuses, Codes, Failure
  <2>2. req' = [req EXCEPT ![r] = q]  BY <1>1, <1>5
  <2>3. /\ q.holds = req[r].holds /\ q.outer = req[r].outer /\ q.sent = req[r].sent
        /\ q.cyc = req[r].cyc /\ q.pc = "release"
    BY <1>1 DEF IsRequest, Failure
  <2> HIDE DEF q
  <2> QED  BY <1>2, <1>3, <2>1, <2>2, <2>3, ResponseStep
<1>6. ASSUME req' = [req EXCEPT ![r].todo = Tail(@)]
      PROVE  HandlerInv'
  <2> DEFINE q == [req[r] EXCEPT !.todo = Tail(@)]
  <2>1. IsRequest(q)  BY <1>1 DEF IsRequest
  <2>2. req' = [req EXCEPT ![r] = q]  BY <1>1, <1>6
  <2>3. /\ q.holds = req[r].holds /\ q.outer = req[r].outer /\ q.sent = req[r].sent
        /\ q.cyc = req[r].cyc /\ q.pc = "encode"
    BY <1>1, <1>3 DEF IsRequest
  <2> HIDE DEF q
  <2> QED  BY <1>2, <1>3, <2>1, <2>2, <2>3, ResponseStep
<1> QED  BY <1>4, <1>5, <1>6 DEF EncodeFails, Proceed

\* The result of the gather, or the error that the options do not ignore.
LEMMA GatheredStep ==
    ASSUME HandlerInv, NEW r \in Requests, Gathered(r)
    PROVE  HandlerInv'
<1>0. HandlerTypes /\ PlaceKept(r) /\ AnswerKept(r)
  BY DEF HandlerInv, PlacesKept, AnswersKept
<1>1. IsRequest(req[r]) /\ req = [s \in Requests |-> req[s]]
      /\ stats \in StatCounts
  BY <1>0, Fields
<1>2. /\ opts' = opts /\ cycles' = cycles /\ current' = current /\ endpoint' = endpoint
      /\ switches' = switches /\ slots' = slots
      /\ stats' \in StatCounts
      /\ stats'.inFlight = stats.inFlight /\ stats'.requests = stats.requests
  BY <1>1 DEF Gathered
<1> DEFINE c == cycles[req[r].cyc]
<1>3. req[r].pc = "gathered" /\ c.ready /\ req[r].cyc \in DOMAIN cycles
  BY <1>0 DEF Gathered, At, PlaceKept, InCycle
<1>4. ~c.err => c.mfs = Families  BY <1>3 DEF HandlerInv, CyclesKept, CycleKept
<1>5. ASSUME ~c.err \/ (opts.mode = "continue" /\ c.mfs # <<>>), Encoding(r, c.mfs)
      PROVE  HandlerInv'
  <2>0. GoodCycle(req[r].cyc)  BY <1>3, <1>4, <1>5 DEF GoodCycle
  <2>1. PICK t : req' = [req EXCEPT ![r].todo = t, ![r].pc = "encode"]  BY <1>5 DEF Encoding
  <2> DEFINE q == [req[r] EXCEPT !.todo = t, !.pc = "encode"]
  <2>2. IsRequest(q)  BY <1>1 DEF IsRequest, PcLabels
  <2>3. req' = [req EXCEPT ![r] = q]  BY <1>1, <2>1
  <2>4. /\ q.holds = req[r].holds /\ q.outer = req[r].outer /\ q.sent = req[r].sent
        /\ q.cyc = req[r].cyc /\ q.pc = "encode"
    BY <1>1 DEF IsRequest
  <2> HIDE DEF q
  <2> QED  BY <1>2, <1>3, <2>0, <2>2, <2>3, <2>4, ResponseStep
<1>6. ASSUME req' = [req EXCEPT ![r].panics = TRUE, ![r].pc = "release"]
      PROVE  HandlerInv'
  <2> DEFINE q == [req[r] EXCEPT !.panics = TRUE, !.pc = "release"]
  <2>1. IsRequest(q)  BY <1>1 DEF IsRequest, PcLabels, Statuses, Codes, Failure
  <2>2. req' = [req EXCEPT ![r] = q]  BY <1>1, <1>6
  <2>3. /\ q.holds = req[r].holds /\ q.outer = req[r].outer /\ q.sent = req[r].sent
        /\ q.cyc = req[r].cyc /\ q.pc = "release" /\ q.panics
    BY <1>1 DEF IsRequest, Failure
  <2> HIDE DEF q
  <2> QED  BY <1>2, <1>3, <2>1, <2>2, <2>3, ResponseStep
<1>7. ASSUME Refused(r) PROVE HandlerInv'
  <2> DEFINE rs == Failure(500)
             q == [req[r] EXCEPT !.rsp = rs, !.pc = "release"]
  <2>0. DOMAIN rs = {"status", "body"} /\ rs.status = 500  BY DEF Failure
  <2>1. req' = [req EXCEPT ![r] = q]
    <3> HIDE DEF rs
    <3>1. req' = [req EXCEPT ![r].rsp = rs, ![r].pc = "release"]  BY <1>7 DEF Refused, rs
    <3> QED  BY <1>1, <3>1, RespondForm
  <2> HIDE DEF rs
  <2>2. IsRequest(q)  BY <1>1, <2>0 DEF IsRequest, PcLabels, Statuses, Codes
  <2>3. /\ q.holds = req[r].holds /\ q.outer = req[r].outer /\ q.sent = req[r].sent
        /\ q.cyc = req[r].cyc /\ q.pc = "release" /\ q.rsp.status \notin {0, 200}
    BY <1>1, <2>0 DEF IsRequest
  <2> HIDE DEF q
  <2> QED  BY <1>2, <1>3, <2>2, <2>1, <2>3, ResponseStep
<1> QED  BY <1>5, <1>6, <1>7 DEF Gathered

\* A slot is taken.
LEMMA HoldStep ==
    ASSUME HandlerInv, NEW r \in Requests, req[r].pc = "begin", slots' = slots + 1,
           req' = [req EXCEPT ![r].holds = TRUE, ![r].pc = "gather"],
           UNCHANGED <<opts, endpoint, switches, current, cycles, stats>>
    PROVE  HandlerInv'
<1> DEFINE q == [req[r] EXCEPT !.holds = TRUE, !.pc = "gather"]
<1>0. HandlerTypes /\ PlaceKept(r) /\ AnswerKept(r) /\ CountsKept
  BY DEF HandlerInv, PlacesKept, AnswersKept
<1>1. IsRequest(req[r]) /\ req = [s \in Requests |-> req[s]] /\ slots \in Nat  BY <1>0, Fields
<1>2. req' = [req EXCEPT ![r] = q] /\ IsRequest(q)  BY <1>1 DEF IsRequest, PcLabels
<1>3. IsRequest(req'[r]) /\ req'[r] = q /\ OthersKept(r) /\ req' = [s \in Requests |-> req'[s]]
  BY <1>0, <1>2, ReqType
<1>4. /\ req'[r].pc = "gather" /\ req'[r].holds /\ req'[r].outer = req[r].outer
      /\ req'[r].sent = req[r].sent /\ req'[r].cyc = req[r].cyc
  BY <1>1, <1>3 DEF IsRequest
<1> HIDE DEF q
<1>5. SamePart(r)  BY <1>4 DEF SamePart, InCycle
<1>6. PlaceKept(r)' /\ AnswerKept(r)'
  BY <1>0, <1>4 DEF PlaceKept, AnswerKept, Answering, ToldMetrics, LeadingOne, InCycle
<1>7. CountsKept'
  <2>0. ASSUME NEW s \in Requests
        PROVE  req'[s].outer = req[s].outer /\ req'[s].sent = req[s].sent
    BY <1>3, <1>4 DEF OthersKept
  <2>1. Serving' = Serving  BY <2>0 DEF Serving
  <2>2. ASSUME NEW k \in Codes PROVE ToldStatus(k)' = ToldStatus(k)  BY <2>0 DEF ToldStatus
  <2>3. Holders' = Holders \cup {r} /\ r \notin Holders
    BY <1>0, <1>3, <1>4 DEF Holders, OthersKept, PlaceKept
  <2>4. Cardinality(Holders') = Cardinality(Holders) + 1
    BY <2>3, RequestsAssumption, FS_AddElement, FS_Subset DEF Holders
  <2> QED  BY <1>0, <2>1, <2>2, <2>4 DEF CountsKept
<1>8. slots' \in Nat /\ endpoint' \in BOOLEAN /\ switches' \in Nat /\ opts' = opts
      /\ cycles' = cycles /\ current' = current
      /\ stats' \in StatCounts
  BY <1>0, <1>1 DEF HandlerTypes
<1> QED  BY <1>3, <1>5, <1>6, <1>7, <1>8, QuietStep

\* A slot is there, is not needed, or there is none.
LEMMA AcquireStep ==
    ASSUME HandlerInv, NEW r \in Requests, Acquire(r)
    PROVE  HandlerInv'
<1>0. HandlerTypes /\ PlaceKept(r)  BY DEF HandlerInv, PlacesKept
<1>1. IsRequest(req[r]) /\ req = [s \in Requests |-> req[s]]
      /\ stats \in StatCounts
  BY <1>0, Fields
<1>2. /\ opts' = opts /\ cycles' = cycles /\ current' = current /\ endpoint' = endpoint
      /\ switches' = switches /\ stats' = stats
  BY DEF Acquire
<1>3. req[r].pc = "begin" /\ ~req[r].holds  BY <1>0, <1>1 DEF Acquire, At, PlaceKept, IsRequest
<1>4. ASSUME Proceed(r, "gather"), slots' = slots PROVE HandlerInv'
  <2> DEFINE q == [req[r] EXCEPT !.pc = "gather"]
  <2>1. IsRequest(q)  BY <1>1 DEF IsRequest, PcLabels
  <2>2. req' = [req EXCEPT ![r] = q]  BY <1>1, <1>4 DEF Proceed
  <2>3. /\ q.holds = req[r].holds /\ q.outer = req[r].outer /\ q.sent = req[r].sent
        /\ q.cyc = req[r].cyc /\ q.pc = "gather"
    BY <1>1 DEF IsRequest
  <2> HIDE DEF q
  <2> QED  BY <1>1, <1>2, <1>3, <1>4, <2>1, <2>2, <2>3, ResponseStep
<1>5. ASSUME slots' = slots + 1, req' = [req EXCEPT ![r].holds = TRUE, ![r].pc = "gather"]
      PROVE  HandlerInv'
  BY <1>2, <1>3, <1>5, HoldStep
<1>6. ASSUME req' = [req EXCEPT ![r].rsp = Failure(503), ![r].pc = "end"], slots' = slots
      PROVE  HandlerInv'
  <2> DEFINE rs == Failure(503)
             q == [req[r] EXCEPT !.rsp = rs, !.pc = "end"]
  <2>0. DOMAIN rs = {"status", "body"} /\ rs.status = 503  BY DEF Failure
  <2>1. req' = [req EXCEPT ![r] = q]
    <3> HIDE DEF rs
    <3>1. req' = [req EXCEPT ![r].rsp = rs, ![r].pc = "end"]  BY <1>6 DEF rs
    <3> QED  BY <1>1, <3>1, RespondForm
  <2> HIDE DEF rs
  <2>2. IsRequest(q)  BY <1>1, <2>0 DEF IsRequest, PcLabels, Statuses, Codes
  <2>3. /\ q.holds = req[r].holds /\ q.outer = req[r].outer /\ q.sent = req[r].sent
        /\ q.cyc = req[r].cyc /\ q.pc = "end" /\ q.rsp.status \notin {0, 200}
    BY <1>1, <2>0 DEF IsRequest
  <2> HIDE DEF q
  <2>4. slots' = slots  BY <1>6
  <2> QED  BY <1>1, <1>2, <1>3, <2>2, <2>1, <2>3, <2>4, ResponseStep
<1> QED  BY <1>4, <1>5, <1>6 DEF Acquire

\* The slot goes back, if the request has one.
LEMMA FreeSlotStep ==
    ASSUME HandlerInv, NEW r \in Requests, FreeSlot(r)
    PROVE  HandlerInv'
<1> DEFINE q == [req[r] EXCEPT !.holds = FALSE, !.pc = "end"]
<1>0. HandlerTypes /\ PlaceKept(r) /\ AnswerKept(r) /\ CountsKept /\ req[r].pc = "free"
  BY DEF HandlerInv, PlacesKept, AnswersKept, FreeSlot, At
<1>1. IsRequest(req[r]) /\ req = [s \in Requests |-> req[s]] /\ slots \in Nat  BY <1>0, Fields
<1>2. req' = [req EXCEPT ![r] = q] /\ IsRequest(q)  BY <1>1 DEF FreeSlot, IsRequest, PcLabels
<1>3. IsRequest(req'[r]) /\ req'[r] = q /\ OthersKept(r) /\ req' = [s \in Requests |-> req'[s]]
  BY <1>0, <1>2, ReqType
<1>4. /\ req'[r].pc = "end" /\ ~req'[r].holds /\ req'[r].outer = req[r].outer
      /\ req'[r].sent = req[r].sent /\ req'[r].cyc = req[r].cyc /\ req'[r].rsp = req[r].rsp
      /\ req'[r].panics = req[r].panics
  BY <1>1, <1>3 DEF IsRequest
<1> HIDE DEF q
<1>5. SamePart(r)  BY <1>0, <1>4 DEF SamePart, InCycle
<1>6. PlaceKept(r)'
  BY <1>0, <1>4 DEF PlaceKept, LeadingOne, InCycle, FreeSlot
<1>7. AnswerKept(r)'
  BY <1>0, <1>4 DEF AnswerKept, Answering, ToldMetrics, GoodCycle, FreeSlot
<1>8. CountsKept' /\ slots' \in Nat
  <2>1. Serving' = Serving  BY <1>3, <1>4 DEF Serving, OthersKept
  <2>2. ASSUME NEW k \in Codes PROVE ToldStatus(k)' = ToldStatus(k)
    BY <1>3, <1>4 DEF ToldStatus, OthersKept
  <2>3. CASE req[r].holds
    <3>1. Holders' = Holders \ {r} /\ r \in Holders
      BY <2>3, <1>3, <1>4 DEF Holders, OthersKept
    <3>2. Cardinality(Holders') = Cardinality(Holders) - 1 /\ Cardinality(Holders') \in Nat
      BY <3>1, RequestsAssumption, FS_RemoveElement, FS_Subset, FS_CardinalityType DEF Holders
    <3> QED  BY <1>0, <2>1, <2>2, <2>3, <3>2 DEF CountsKept, FreeSlot, Freed
  <2>4. CASE ~req[r].holds
    <3>1. Holders' = Holders  BY <2>4, <1>3, <1>4 DEF Holders, OthersKept
    <3> QED  BY <1>0, <1>1, <2>1, <2>2, <2>4, <3>1 DEF CountsKept, FreeSlot, Freed
  <2> QED  BY <2>3, <2>4
<1>9. endpoint' \in BOOLEAN /\ switches' \in Nat /\ opts' = opts
      /\ cycles' = cycles /\ current' = current
      /\ stats' \in StatCounts
  BY <1>0, <1>1 DEF HandlerTypes, FreeSlot
<1> QED  BY <1>3, <1>5, <1>6, <1>7, <1>8, <1>9, QuietStep

\* One request less in flight.
LEMMA ServedOne ==
    ASSUME HandlerTypes, CountsKept, NEW r \in Requests, OthersKept(r),
           req[r].outer = "serving", req'[r].outer # "serving"
    PROVE  Cardinality(Serving') = stats.inFlight - 1 /\ stats.inFlight - 1 \in Nat
<1>1. Serving' = Serving \ {r} /\ r \in Serving  BY DEF Serving, OthersKept
<1>2. Cardinality(Serving') = Cardinality(Serving) - 1 /\ Cardinality(Serving') \in Nat
  BY <1>1, RequestsAssumption, FS_RemoveElement, FS_Subset, FS_CardinalityType DEF Serving
<1> QED  BY <1>2 DEF CountsKept

\* The client is told a status, which is counted.
LEMMA AnswerStep ==
    ASSUME HandlerInv, NEW r \in Requests, NEW rs, Answer(r, rs), req[r].outer = "serving",
           DOMAIN rs = {"status", "body"}, rs.status \in Statuses,
           (StatusOf(rs) = 200 /\ rs.body # <<"delta">>) =>
               req[r].pc = "end" /\ GoodCycle(req[r].cyc),
           UNCHANGED <<opts, endpoint, switches, slots, current, cycles>>
    PROVE  HandlerInv'
<1> DEFINE k0 == StatusOf(rs)
           sn == [rs EXCEPT !.status = k0]
           q == [req[r] EXCEPT !.sent = sn, !.outer = "finished"]
<1>0. HandlerTypes /\ PlaceKept(r) /\ AnswerKept(r) /\ CountsKept
  BY DEF HandlerInv, PlacesKept, AnswersKept
<1>1. IsRequest(req[r]) /\ req = [s \in Requests |-> req[s]]
      /\ stats \in StatCounts
  BY <1>0, Fields
<1>2. k0 \in Codes /\ k0 # 0  BY DEF StatusOf, Statuses, Codes
<1>3. DOMAIN sn = {"status", "body"} /\ sn.status = k0 /\ sn.body = rs.body
  OBVIOUS
<1>4. req' = [req EXCEPT ![r].sent = sn, ![r].outer = "finished"]
      /\ stats' = [stats EXCEPT !.inFlight = @ - 1, !.requests[k0] = @ + 1]
  BY DEF Answer
<1> HIDE DEF k0, sn
<1>5. req' = [req EXCEPT ![r] = q]  BY <1>1, <1>4 DEF IsRequest
<1>6. IsRequest(q)  BY <1>1, <1>2, <1>3 DEF IsRequest, Statuses
<1>7. IsRequest(req'[r]) /\ req'[r] = q /\ OthersKept(r) /\ req' = [s \in Requests |-> req'[s]]
  BY <1>0, <1>5, <1>6, ReqType
<1>8. /\ req'[r].pc = req[r].pc /\ req'[r].holds = req[r].holds /\ req'[r].outer = "finished"
      /\ req'[r].sent = sn /\ req'[r].cyc = req[r].cyc /\ req'[r].rsp = req[r].rsp
      /\ req'[r].panics = req[r].panics
  BY <1>1, <1>7 DEF IsRequest
<1> HIDE DEF q
<1>9. SamePart(r)  BY <1>8 DEF SamePart
<1>10. PlaceKept(r)'  BY <1>0, <1>2, <1>3, <1>8 DEF PlaceKept, LeadingOne
<1>11. AnswerKept(r)'
  BY <1>0, <1>3, <1>8 DEF AnswerKept, Answering, ToldMetrics, GoodCycle, k0
<1>12. /\ stats'.inFlight = stats.inFlight - 1 /\ stats'.gathering = stats.gathering
       /\ stats'.encoding = stats.encoding
       /\ stats'.requests = [stats.requests EXCEPT ![k0] = @ + 1]
       /\ stats'.requests \in [Codes -> Nat] /\ stats'.requests[k0] = stats.requests[k0] + 1
       /\ \A k \in Codes \ {k0} : stats'.requests[k] = stats.requests[k]
  BY <1>1, <1>2, <1>4
<1>13. Cardinality(Serving') = stats.inFlight - 1 /\ stats.inFlight - 1 \in Nat
  BY <1>0, <1>7, <1>8, ServedOne
<1>14. stats' \in StatCounts
  BY <1>1, <1>4, <1>12, <1>13
<1>15. CountsKept'
  <2>1. Holders' = Holders  BY <1>7, <1>8 DEF Holders, OthersKept
  <2>2. ASSUME NEW k \in Codes \ {k0} PROVE ToldStatus(k)' = ToldStatus(k)
    <3>1. req[r].sent.status = 0 /\ 0 \notin Codes  BY <1>0 DEF PlaceKept, Codes
    <3> QED  BY <1>3, <1>7, <1>8, <3>1 DEF ToldStatus, OthersKept
  <2>3. ToldStatus(k0)' = ToldStatus(k0) \cup {r} /\ r \notin ToldStatus(k0)
    <3>1. req[r].sent.status = 0  BY <1>0 DEF PlaceKept
    <3> QED  BY <1>2, <1>3, <1>7, <1>8, <3>1 DEF ToldStatus, OthersKept
  <2>4. Cardinality(ToldStatus(k0)') = Cardinality(ToldStatus(k0)) + 1
    BY <2>3, RequestsAssumption, FS_AddElement, FS_Subset DEF ToldStatus
  <2>5. ASSUME NEW k \in Codes PROVE stats'.requests[k] = Cardinality(ToldStatus(k)')
    BY <1>0, <1>2, <1>12, <2>2, <2>3, <2>4 DEF CountsKept
  <2> QED  BY <1>0, <1>12, <1>13, <2>1, <2>5 DEF CountsKept
<1>16. slots' \in Nat /\ endpoint' \in BOOLEAN /\ switches' \in Nat /\ opts' = opts
       /\ cycles' = cycles /\ current' = current
  BY <1>0 DEF HandlerTypes
<1> QED  BY <1>7, <1>9, <1>10, <1>11, <1>14, <1>15, <1>16, QuietStep

LEMMA ReturnedStep ==
    ASSUME HandlerInv, NEW r \in Requests, Returned(r)
    PROVE  HandlerInv'
<1>1. IsRequest(req[r]) /\ AnswerKept(r) /\ req[r].pc = "end" /\ ~req[r].panics
  BY DEF HandlerInv, HandlerTypes, AnswersKept, Returned, At
<1>2. StatusOf(req[r].rsp) = 200 => req[r].rsp.status \in {0, 200}  BY DEF StatusOf
<1>3. (StatusOf(req[r].rsp) = 200 /\ req[r].rsp.body # <<"delta">>) => GoodCycle(req[r].cyc)
  BY <1>1, <1>2 DEF AnswerKept, Answering
<1> QED  BY <1>1, <1>3, AnswerStep DEF Returned, IsRequest

LEMMA TimedOutStep ==
    ASSUME HandlerInv, NEW r \in Requests, TimedOut(r)
    PROVE  HandlerInv'
<1>1. DOMAIN Failure(503) = {"status", "body"} /\ Failure(503).status \in Statuses
      /\ StatusOf(Failure(503)) # 200
  BY DEF Failure, Statuses, Codes, StatusOf
<1> QED  BY <1>1, AnswerStep DEF TimedOut

\* The connection is cut.
LEMMA PanickedStep ==
    ASSUME HandlerInv, NEW r \in Requests, Panicked(r)
    PROVE  HandlerInv'
<1> DEFINE q == [req[r] EXCEPT !.outer = "aborted"]
<1>0. HandlerTypes /\ PlaceKept(r) /\ AnswerKept(r) /\ CountsKept /\ req[r].pc = "end"
      /\ req[r].outer = "serving"
  BY DEF HandlerInv, PlacesKept, AnswersKept, Panicked, At
<1>1. IsRequest(req[r]) /\ req = [s \in Requests |-> req[s]]
      /\ stats \in StatCounts
  BY <1>0, Fields
<1>2. req' = [req EXCEPT ![r] = q] /\ IsRequest(q)  BY <1>1 DEF Panicked, IsRequest
<1>3. IsRequest(req'[r]) /\ req'[r] = q /\ OthersKept(r) /\ req' = [s \in Requests |-> req'[s]]
  BY <1>0, <1>2, ReqType
<1>4. /\ req'[r].pc = "end" /\ req'[r].holds = req[r].holds /\ req'[r].outer = "aborted"
      /\ req'[r].sent = req[r].sent /\ req'[r].cyc = req[r].cyc /\ req'[r].rsp = req[r].rsp
      /\ req'[r].panics = req[r].panics
  BY <1>0, <1>1, <1>3 DEF IsRequest
<1> HIDE DEF q
<1>5. SamePart(r)  BY <1>0, <1>4 DEF SamePart
<1>6. PlaceKept(r)' /\ AnswerKept(r)'
  BY <1>0, <1>4
  DEF PlaceKept, AnswerKept, Answering, ToldMetrics, GoodCycle, LeadingOne, Panicked, InCycle
<1>7. Cardinality(Serving') = stats.inFlight - 1 /\ stats.inFlight - 1 \in Nat
  BY <1>0, <1>3, <1>4, ServedOne
<1>8. stats' \in StatCounts
      /\ stats'.inFlight = stats.inFlight - 1 /\ stats'.requests = stats.requests
  BY <1>1, <1>7 DEF Panicked
<1>9. CountsKept'
  <2>1. Holders' = Holders  BY <1>3, <1>4 DEF Holders, OthersKept
  <2>2. ASSUME NEW k \in Codes PROVE ToldStatus(k)' = ToldStatus(k)
    BY <1>3, <1>4 DEF ToldStatus, OthersKept
  <2> QED  BY <1>0, <1>7, <1>8, <2>1, <2>2 DEF CountsKept, Panicked
<1>10. slots' \in Nat /\ endpoint' \in BOOLEAN /\ switches' \in Nat /\ opts' = opts
       /\ cycles' = cycles /\ current' = current
  BY <1>0 DEF HandlerTypes, Panicked
<1> QED  BY <1>3, <1>5, <1>6, <1>8, <1>9, <1>10, QuietStep

-----------------------------------------------------------------------------
(* The steps of the gathers *)

\* One cycle changes.
LEMMA CycleChanged ==
    ASSUME NEW cs \in Seq(Cycle), NEW c0 \in DOMAIN cs, NEW x \in Cycle,
           NEW ds, ds = [cs EXCEPT ![c0] = x]
    PROVE  /\ ds \in Seq(Cycle) /\ Len(ds) = Len(cs) /\ DOMAIN ds = DOMAIN cs
           /\ ds[c0] = x /\ \A c \in DOMAIN cs \ {c0} : ds[c] = cs[c]
  OBVIOUS

\* A step of a request in a gather: what is left to show is about the request itself
\* and about the cycles.
LEMMA GatherStep ==
    ASSUME HandlerInv, NEW r \in Requests, OthersKept(r),
           req' = [s \in Requests |-> req'[s]], IsRequest(req'[r]),
           req'[r].holds = req[r].holds, req'[r].outer = req[r].outer, req'[r].sent = req[r].sent,
           UNCHANGED <<opts, endpoint, switches, slots, stats>>,
           current' \in 0 .. Len(cycles'), GathersEndOnce(r), PlaceKept(r)', AnswerKept(r)',
           OneLeader', CyclesKept'
    PROVE  HandlerInv'
<1>1. ASSUME NEW s \in Requests PROVE PlaceKept(s)' /\ AnswerKept(s)'  BY OthersFine
<1>2. HandlerTypes'  BY DEF HandlerInv, HandlerTypes, OthersKept, GathersEndOnce
<1>3. CountsKept'  BY SameCounts DEF HandlerInv
<1> QED  BY <1>1, <1>2, <1>3 DEF HandlerInv, PlacesKept, AnswersKept

\* A cycle the request has no part in, before and after the step.
Apart(r, c) ==
    /\ req[r].cyc # c \/ req[r].pc \notin InCycle \cup {"fail", "done"}
    /\ req'[r].cyc # c \/ req'[r].pc \notin InCycle \cup {"fail", "done"}

LEMMA OtherCycle ==
    ASSUME HandlerInv, NEW r \in Requests, OthersKept(r), opts' = opts,
           NEW c \in DOMAIN cycles, cycles'[c] = cycles[c], Apart(r, c),
           current' = c => current = c, opts.coalesce /\ cycles[c].running => current' = c
    PROVE  RefsKept(c)' /\ CycleKept(c)'
<1>1. ASSUME NEW q \in Requests
      PROVE  /\ (req'[q].cyc = c /\ req'[q].pc \in InCycle) <=> (req[q].cyc = c /\ req[q].pc \in InCycle)
             /\ (req'[q].cyc = c /\ req'[q].pc = "done") <=> (req[q].cyc = c /\ req[q].pc = "done")
             /\ (req'[q].cyc = c /\ req'[q].pc = "fail") <=> (req[q].cyc = c /\ req[q].pc = "fail")
             /\ (req'[q].cyc = c /\ req'[q].pc = "collect") <=> (req[q].cyc = c /\ req[q].pc = "collect")
  BY DEF Apart, OthersKept, InCycle
<1>2. UsersOf(c)' = UsersOf(c)  BY <1>1 DEF UsersOf
<1>3. RefsKept(c) /\ CycleKept(c)  BY DEF HandlerInv, CyclesKept
<1>4. RefsKept(c)'  BY <1>1, <1>2, <1>3 DEF RefsKept, Finishing
<1>5. CycleKept(c)'  BY <1>1, <1>3 DEF CycleKept, LeadingOne
<1> QED  BY <1>4, <1>5

\* The number of a cycle's users.
LEMMA UsersFinite ==
    ASSUME NEW c
    PROVE  IsFiniteSet(UsersOf(c)) /\ Cardinality(UsersOf(c)) \in Nat
  BY RequestsAssumption, FS_Subset, FS_CardinalityType DEF UsersOf

LEMMA UserComes ==
    ASSUME NEW r \in Requests, OthersKept(r), NEW c, r \notin UsersOf(c),
           req'[r].cyc = c, req'[r].pc \in InCycle
    PROVE  Cardinality(UsersOf(c)') = Cardinality(UsersOf(c)) + 1
<1>1. UsersOf(c)' = UsersOf(c) \cup {r}  BY DEF UsersOf, OthersKept
<1> QED  BY <1>1, UsersFinite, FS_AddElement

LEMMA UserGoes ==
    ASSUME NEW r \in Requests, OthersKept(r), NEW c, req[r].cyc = c, req[r].pc \in InCycle,
           req'[r].pc \notin InCycle
    PROVE  Cardinality(UsersOf(c)') = Cardinality(UsersOf(c)) - 1 /\ Cardinality(UsersOf(c)') \in Nat
<1>1. UsersOf(c)' = UsersOf(c) \ {r} /\ r \in UsersOf(c)  BY DEF UsersOf, OthersKept
<1>2. IsFiniteSet(UsersOf(c)) /\ IsFiniteSet(UsersOf(c) \ {r})
  BY UsersFinite, FS_Subset
<1> QED  BY <1>1, <1>2, FS_RemoveElement, FS_CardinalityType

LEMMA UsersStay ==
    ASSUME NEW r \in Requests, OthersKept(r), NEW c, req'[r].cyc = req[r].cyc,
           req[r].pc \in InCycle <=> req'[r].pc \in InCycle
    PROVE  UsersOf(c)' = UsersOf(c)
  BY DEF UsersOf, OthersKept

\* A request shares the gather there is.
LEMMA JoinStep ==
    ASSUME HandlerInv, NEW r \in Requests, Join(r)
    PROVE  HandlerInv'
<1>0. HandlerTypes /\ PlaceKept(r) /\ AnswerKept(r) /\ req[r].pc = "gather"
      /\ UNCHANGED <<opts, endpoint, switches, slots, stats>>
  BY DEF HandlerInv, PlacesKept, AnswersKept, Join, At
<1>1. /\ IsRequest(req[r]) /\ req = [s \in Requests |-> req[s]] /\ cycles \in Seq(Cycle)
      /\ DOMAIN cycles = 1 .. Len(cycles) /\ Len(cycles) \in Nat /\ current \in 0 .. Len(cycles)
  BY <1>0, Fields
<1> DEFINE q == [req[r] EXCEPT !.cyc = current, !.pc = "wait"]
<1>2. req' = [req EXCEPT ![r] = q] /\ IsRequest(q)
  <2>1. req' = [req EXCEPT ![r] = q]  BY <1>1 DEF Join, IsRequest
  <2> QED  BY <1>1, <2>1 DEF IsRequest, PcLabels
<1>3. IsRequest(req'[r]) /\ req'[r] = q /\ OthersKept(r) /\ req' = [s \in Requests |-> req'[s]]
  BY <1>0, <1>2, ReqType
<1>4. /\ req'[r].pc = "wait" /\ req'[r].holds = req[r].holds /\ req'[r].outer = req[r].outer
      /\ req'[r].sent = req[r].sent /\ req'[r].cyc = current /\ req'[r].rsp = req[r].rsp
  BY <1>1, <1>3 DEF IsRequest
<1> HIDE DEF q
<1>5. opts.coalesce /\ current # 0 /\ current' = current /\ current \in DOMAIN cycles
      /\ cycles' = [cycles EXCEPT ![current].refs = @ + 1]
  BY <1>1 DEF Join
<1>6. PICK c0 \in DOMAIN cycles : c0 = current  BY <1>5
<1> DEFINE x == [cycles[c0] EXCEPT !.refs = @ + 1]
<1>7. cycles[c0] \in Cycle  BY <1>1, <1>5
<1>8. x \in Cycle /\ cycles' = [cycles EXCEPT ![c0] = x]  BY <1>5, <1>6, <1>7 DEF Cycle
<1>9. /\ cycles' \in Seq(Cycle) /\ Len(cycles') = Len(cycles) /\ DOMAIN cycles' = DOMAIN cycles
      /\ cycles'[c0] = x /\ \A c \in DOMAIN cycles \ {c0} : cycles'[c] = cycles[c]
  BY <1>1, <1>5, <1>6, <1>8, CycleChanged
<1>10. /\ x.ready = cycles[c0].ready /\ x.running = cycles[c0].running
      /\ x.err = cycles[c0].err /\ x.mfs = cycles[c0].mfs
      /\ x.refs = cycles[c0].refs + 1 /\ x.closed = cycles[c0].closed
  BY <1>7 DEF Cycle
<1> HIDE DEF x
<1>11. GathersEndOnce(r)  BY <1>1, <1>9, <1>10 DEF GathersEndOnce
<1>12. PlaceKept(r)' /\ AnswerKept(r)'
  BY <1>0, <1>1, <1>4, <1>5, <1>6, <1>9
  DEF PlaceKept, AnswerKept, Answering, ToldMetrics, LeadingOne, InCycle
<1>13. OneLeader'
  BY <1>3, <1>4 DEF OneLeader, LeadingOne, OthersKept, HandlerInv, PlacesKept
<1>14. CyclesKept'
  <2>1. ASSUME NEW c \in DOMAIN cycles, c # c0 PROVE RefsKept(c)' /\ CycleKept(c)'
    <3>1. CycleKept(c)  BY DEF HandlerInv, CyclesKept
    <3> QED  BY <1>0, <1>3, <1>4, <1>5, <1>6, <1>9, <2>1, <3>1, OtherCycle
             DEF Apart, InCycle, CycleKept
  <2>2. RefsKept(c0) /\ CycleKept(c0)  BY DEF HandlerInv, CyclesKept
  <2>3. Cardinality(UsersOf(c0)') = Cardinality(UsersOf(c0)) + 1
    BY <1>0, <1>3, <1>4, <1>6, UserComes DEF UsersOf, InCycle
  <2>4. Cardinality(UsersOf(c0)) \in Nat  BY UsersFinite
  <2>5. ASSUME NEW s \in Requests, Finishing(s, c0)' PROVE FALSE
    <3>1. s # r  BY <1>4, <2>5 DEF Finishing
    <3> QED  BY <1>3, <1>5, <1>6, <2>2, <2>5, <3>1 DEF Finishing, RefsKept, CycleKept, OthersKept
  <2>6. RefsKept(c0)'
    BY <1>5, <1>6, <1>7, <1>9, <1>10, <2>2, <2>3, <2>4, <2>5 DEF RefsKept, CycleKept, Cycle
  <2>7. CycleKept(c0)'
    <3>1. ASSUME NEW s \in Requests, req[s].cyc = c0, LeadingOne(s)
          PROVE  req'[s] = req[s]
      BY <1>0, <1>3, <3>1 DEF LeadingOne, OthersKept
    <3>2. x.running => \E s \in Requests : req'[s].cyc = c0 /\ req'[s].pc = "collect"
      BY <1>10, <2>2, <3>1 DEF CycleKept, LeadingOne
    <3>3. x.ready \/ \E s \in Requests : req'[s].cyc = c0 /\ req'[s].pc \in {"collect", "fail"}
      BY <1>10, <2>2, <3>1 DEF CycleKept, LeadingOne
    <3>4. x.refs > 0  BY <1>7, <1>10 DEF Cycle
    <3> QED  BY <1>0, <1>5, <1>6, <1>9, <1>10, <2>2, <3>2, <3>3, <3>4 DEF CycleKept, LeadingOne
  <2> QED  BY <1>5, <1>6, <1>9, <2>1, <2>6, <2>7 DEF CyclesKept
<1>15. current' \in 0 .. Len(cycles')  BY <1>1, <1>5, <1>6, <1>9
<1> QED  BY <1>0, <1>3, <1>4, <1>11, <1>12, <1>13, <1>14, <1>15, GatherStep

\* A request changes the cycle it is in.
LEMMA OwnCycleStep ==
    ASSUME HandlerInv, NEW r \in Requests, OthersKept(r),
           req' = [s \in Requests |-> req'[s]], IsRequest(req'[r]),
           req'[r].holds = req[r].holds, req'[r].outer = req[r].outer, req'[r].sent = req[r].sent,
           UNCHANGED <<opts, endpoint, switches, slots, stats>>,
           NEW c0 \in DOMAIN cycles, NEW x \in Cycle, cycles' = [cycles EXCEPT ![c0] = x],
           req[r].cyc = c0, req'[r].cyc = c0,
           cycles[c0].ready => x.err = cycles[c0].err /\ x.mfs = cycles[c0].mfs,
           (x.ready = cycles[c0].ready /\ x.running = cycles[c0].running) \/ LeadingOne(r),
           current' = current \/ (current = c0 /\ current' = 0), LeadingOne(r)' => LeadingOne(r),
           PlaceKept(r)', AnswerKept(r)', RefsKept(c0)', CycleKept(c0)'
    PROVE  HandlerInv'
<1>1. /\ cycles \in Seq(Cycle) /\ DOMAIN cycles = 1 .. Len(cycles) /\ Len(cycles) \in Nat
      /\ current \in 0 .. Len(cycles)
  BY DEF HandlerInv, HandlerTypes
<1>2. /\ cycles' \in Seq(Cycle) /\ Len(cycles') = Len(cycles) /\ DOMAIN cycles' = DOMAIN cycles
      /\ cycles'[c0] = x /\ \A c \in DOMAIN cycles \ {c0} : cycles'[c] = cycles[c]
  BY <1>1, CycleChanged
<1>3. GathersEndOnce(r)  BY <1>1, <1>2 DEF GathersEndOnce
<1>4. OneLeader'  BY DEF OneLeader, LeadingOne, OthersKept, HandlerInv, PlacesKept
<1>5. ASSUME NEW c \in DOMAIN cycles, c # c0 PROVE RefsKept(c)' /\ CycleKept(c)'
  <2>1. CycleKept(c)  BY DEF HandlerInv, CyclesKept
  <2>2. current' = c => current = c  BY <1>1, <1>5
  <2>3. opts.coalesce /\ cycles[c].running => current' = c  BY <2>1, <1>5 DEF CycleKept
  <2> QED  BY <1>2, <1>5, <2>2, <2>3, OtherCycle DEF Apart
<1>6. CyclesKept'  BY <1>2, <1>5 DEF CyclesKept
<1>7. current' \in 0 .. Len(cycles')  BY <1>1, <1>2
<1> QED  BY <1>3, <1>4, <1>6, <1>7, GatherStep


\* The gather is over: its result is there for all.
LEMMA CollectedStep ==
    ASSUME HandlerInv, NEW r \in Requests, Collected(r)
    PROVE  HandlerInv'
<1>0. HandlerTypes /\ PlaceKept(r) /\ AnswerKept(r) /\ req[r].pc = "collect"
      /\ UNCHANGED <<opts, endpoint, switches, slots, stats>>
  BY DEF HandlerInv, PlacesKept, AnswersKept, Collected, At
<1>1. /\ IsRequest(req[r]) /\ req = [s \in Requests |-> req[s]] /\ cycles \in Seq(Cycle)
      /\ DOMAIN cycles = 1 .. Len(cycles) /\ Len(cycles) \in Nat /\ current \in 0 .. Len(cycles)
  BY <1>0, Fields
<1> DEFINE q == [req[r] EXCEPT !.pc = "gathered"]
<1>2. req' = [req EXCEPT ![r] = q] /\ IsRequest(q)
  <2>1. req' = [req EXCEPT ![r] = q]  BY <1>1 DEF Collected, IsRequest, Proceed
  <2> QED  BY <1>1, <2>1 DEF IsRequest, PcLabels
<1>3. IsRequest(req'[r]) /\ req'[r] = q /\ OthersKept(r) /\ req' = [s \in Requests |-> req'[s]]
  BY <1>0, <1>2, ReqType
<1>4. /\ req'[r].pc = "gathered" /\ req'[r].holds = req[r].holds /\ req'[r].outer = req[r].outer
      /\ req'[r].sent = req[r].sent /\ req'[r].cyc = req[r].cyc /\ req'[r].rsp = req[r].rsp
      /\ req'[r].panics = req[r].panics
  BY <1>1, <1>3 DEF IsRequest
<1> HIDE DEF q
<1>5. PICK c0 \in DOMAIN cycles : c0 = req[r].cyc  BY <1>0 DEF PlaceKept, InCycle
<1>6. cycles[c0] \in Cycle /\ RefsKept(c0) /\ CycleKept(c0)
  BY <1>1 DEF HandlerInv, CyclesKept
<1> PICK o \in Outcomes : cycles' = [cycles EXCEPT ![req[r].cyc] =
             [@ EXCEPT !.ready = TRUE, !.running = FALSE, !.err = o.err, !.mfs = o.mfs]]
  BY DEF Collected
<1>7. o.err \in BOOLEAN /\ o.mfs \in FamilySeqs /\ (~o.err => o.mfs = Families) /\ current' = current
  <2>1. CASE o = [err |-> FALSE, mfs |-> Families]  BY <2>1 DEF FamilySeqs, Collected
  <2>2. CASE o \in [err : {TRUE}, mfs : {<<>>, SubSeq(Families, 1, 1)}]
    <3>1. o.err = TRUE /\ o.mfs \in {<<>>, SubSeq(Families, 1, 1)}  BY <2>2
    <3> QED  BY <3>1 DEF FamilySeqs, Collected
  <2> QED  BY <2>1, <2>2 DEF Outcomes
<1> DEFINE x == [cycles[c0] EXCEPT !.ready = TRUE, !.running = FALSE, !.err = o.err, !.mfs = o.mfs]
<1>8. x \in Cycle /\ cycles' = [cycles EXCEPT ![c0] = x]  BY <1>5, <1>6, <1>7 DEF Cycle
<1> HIDE DEF x
<1>9. /\ cycles' \in Seq(Cycle) /\ Len(cycles') = Len(cycles) /\ DOMAIN cycles' = DOMAIN cycles
      /\ cycles'[c0] = x /\ \A c \in DOMAIN cycles \ {c0} : cycles'[c] = cycles[c]
  BY <1>1, <1>8, CycleChanged
<1> USE DEF x
<1>10. /\ x.ready /\ ~x.running /\ x.err = o.err /\ x.mfs = o.mfs /\ x.refs = cycles[c0].refs
      /\ x.closed = cycles[c0].closed
  BY <1>6 DEF Cycle
<1> HIDE DEF x
<1>11. PlaceKept(r)' /\ AnswerKept(r)'
  BY <1>0, <1>4, <1>5, <1>9, <1>10
  DEF PlaceKept, AnswerKept, Answering, ToldMetrics, LeadingOne, InCycle
<1>12. RefsKept(c0)'
  <2>1. UsersOf(c0)' = UsersOf(c0)  BY <1>0, <1>3, <1>4, UsersStay DEF InCycle
  <2>2. ASSUME NEW s \in Requests PROVE Finishing(s, c0)' <=> Finishing(s, c0)
    BY <1>0, <1>3, <1>4 DEF Finishing, OthersKept
  <2> QED  BY <1>6, <1>9, <1>10, <1>7, <2>1, <2>2 DEF RefsKept
<1>13. CycleKept(c0)'  BY <1>6, <1>9, <1>10, <1>7 DEF CycleKept
<1>14. LeadingOne(r) /\ ~LeadingOne(r)' /\ ~cycles[c0].ready
  BY <1>0, <1>4, <1>5 DEF LeadingOne, PlaceKept
<1> QED  BY <1>0, <1>3, <1>4, <1>5, <1>8, <1>10, <1>11, <1>12, <1>13, <1>14, <1>7, OwnCycleStep

\* The gatherer panicked: nobody joins the cycle any more, and its leader keeps its
\* reference for ever.
LEMMA CollectPanicsStep ==
    ASSUME HandlerInv, NEW r \in Requests, CollectPanics(r)
    PROVE  HandlerInv'
<1>0. HandlerTypes /\ PlaceKept(r) /\ AnswerKept(r) /\ req[r].pc = "collect"
      /\ UNCHANGED <<opts, endpoint, switches, slots, stats>>
  BY DEF HandlerInv, PlacesKept, AnswersKept, CollectPanics, At
<1>1. /\ IsRequest(req[r]) /\ req = [s \in Requests |-> req[s]] /\ cycles \in Seq(Cycle)
      /\ DOMAIN cycles = 1 .. Len(cycles) /\ Len(cycles) \in Nat /\ current \in 0 .. Len(cycles)
  BY <1>0, Fields
<1> DEFINE q == [req[r] EXCEPT !.panics = TRUE, !.pc = "fail"]
<1>2. req' = [req EXCEPT ![r] = q] /\ IsRequest(q)
  <2>1. req' = [req EXCEPT ![r] = q]  BY <1>1 DEF CollectPanics, IsRequest, Proceed
  <2> QED  BY <1>1, <2>1 DEF IsRequest, PcLabels
<1>3. IsRequest(req'[r]) /\ req'[r] = q /\ OthersKept(r) /\ req' = [s \in Requests |-> req'[s]]
  BY <1>0, <1>2, ReqType
<1>4. /\ req'[r].pc = "fail" /\ req'[r].holds = req[r].holds /\ req'[r].outer = req[r].outer
      /\ req'[r].sent = req[r].sent /\ req'[r].cyc = req[r].cyc /\ req'[r].rsp = req[r].rsp
      /\ req'[r].panics
  BY <1>1, <1>3 DEF IsRequest
<1> HIDE DEF q
<1>5. PICK c0 \in DOMAIN cycles : c0 = req[r].cyc  BY <1>0 DEF PlaceKept, InCycle
<1>6. cycles[c0] \in Cycle /\ RefsKept(c0) /\ CycleKept(c0)
  BY <1>1 DEF HandlerInv, CyclesKept
<1> DEFINE x == [cycles[c0] EXCEPT !.running = FALSE]
<1>7. x \in Cycle /\ cycles' = [cycles EXCEPT ![c0] = x]  BY <1>5, <1>6 DEF Cycle, CollectPanics
<1> HIDE DEF x
<1>8. /\ cycles' \in Seq(Cycle) /\ Len(cycles') = Len(cycles) /\ DOMAIN cycles' = DOMAIN cycles
      /\ cycles'[c0] = x /\ \A c \in DOMAIN cycles \ {c0} : cycles'[c] = cycles[c]
  BY <1>1, <1>7, CycleChanged
<1> USE DEF x
<1>9. /\ x.ready = cycles[c0].ready /\ ~x.running /\ x.err = cycles[c0].err /\ x.mfs = cycles[c0].mfs
      /\ x.refs = cycles[c0].refs /\ x.closed = cycles[c0].closed
  BY <1>6 DEF Cycle
<1> HIDE DEF x
<1>10. cycles[c0].running /\ current' = (IF current = c0 THEN 0 ELSE current) /\ c0 # 0
  BY <1>0, <1>1, <1>5 DEF CollectPanics, Detached, PlaceKept
<1>11. LeadingOne(r) /\ ~cycles[c0].ready  BY <1>0, <1>5 DEF LeadingOne, PlaceKept
<1>12. PlaceKept(r)' /\ AnswerKept(r)'
  BY <1>0, <1>4, <1>5, <1>8, <1>9, <1>11
  DEF PlaceKept, AnswerKept, Answering, ToldMetrics, LeadingOne, InCycle
<1>13. RefsKept(c0)'
  <2>1. Cardinality(UsersOf(c0)') = Cardinality(UsersOf(c0)) - 1 /\ Cardinality(UsersOf(c0)') \in Nat
        /\ Cardinality(UsersOf(c0)) \in Nat
    BY <1>0, <1>3, <1>4, <1>5, UserGoes, UsersFinite DEF InCycle
  <2>2. ASSUME NEW s \in Requests PROVE Finishing(s, c0)' <=> Finishing(s, c0)
    BY <1>0, <1>3, <1>4 DEF Finishing, OthersKept
  <2>3. x.refs = Cardinality(UsersOf(c0)') + 1 /\ x.refs > 0
    BY <1>6, <1>9, <1>10, <2>1 DEF RefsKept
  <2> QED  BY <1>6, <1>8, <1>9, <1>10, <2>1, <2>2, <2>3 DEF RefsKept
<1>14. CycleKept(c0)'
  <2>1. req'[r].cyc = c0 /\ LeadingOne(r)'  BY <1>4, <1>5 DEF LeadingOne
  <2> QED  BY <1>6, <1>8, <1>9, <1>11, <1>10, <2>1 DEF CycleKept
<1> QED  BY <1>0, <1>3, <1>4, <1>5, <1>7, <1>9, <1>12, <1>13, <1>14, <1>11, <1>10, OwnCycleStep

\* Those who joined a gather that panicked get an error.
LEMMA FailJoinedStep ==
    ASSUME HandlerInv, NEW r \in Requests, FailJoined(r)
    PROVE  HandlerInv'
<1>0. HandlerTypes /\ PlaceKept(r) /\ AnswerKept(r) /\ req[r].pc = "fail"
      /\ UNCHANGED <<opts, endpoint, switches, slots, stats>>
  BY DEF HandlerInv, PlacesKept, AnswersKept, FailJoined, At
<1>1. /\ IsRequest(req[r]) /\ req = [s \in Requests |-> req[s]] /\ cycles \in Seq(Cycle)
      /\ DOMAIN cycles = 1 .. Len(cycles) /\ Len(cycles) \in Nat /\ current \in 0 .. Len(cycles)
  BY <1>0, Fields
<1> DEFINE q == [req[r] EXCEPT !.pc = "free"]
<1>2. req' = [req EXCEPT ![r] = q] /\ IsRequest(q)
  <2>1. req' = [req EXCEPT ![r] = q]  BY <1>1 DEF FailJoined, IsRequest, Proceed
  <2> QED  BY <1>1, <2>1 DEF IsRequest, PcLabels
<1>3. IsRequest(req'[r]) /\ req'[r] = q /\ OthersKept(r) /\ req' = [s \in Requests |-> req'[s]]
  BY <1>0, <1>2, ReqType
<1>4. /\ req'[r].pc = "free" /\ req'[r].holds = req[r].holds /\ req'[r].outer = req[r].outer
      /\ req'[r].sent = req[r].sent /\ req'[r].cyc = req[r].cyc /\ req'[r].rsp = req[r].rsp
      /\ req'[r].panics = req[r].panics
  BY <1>1, <1>3 DEF IsRequest
<1> HIDE DEF q
<1>5. PICK c0 \in DOMAIN cycles : c0 = req[r].cyc  BY <1>0 DEF PlaceKept, InCycle
<1>6. cycles[c0] \in Cycle /\ RefsKept(c0) /\ CycleKept(c0)
  BY <1>1 DEF HandlerInv, CyclesKept
<1> DEFINE x == Failed(cycles[c0])
<1>7. x \in Cycle /\ cycles' = [cycles EXCEPT ![c0] = x]  BY <1>5, <1>6 DEF Cycle, FailJoined, Failed
<1> HIDE DEF x
<1>8. /\ cycles' \in Seq(Cycle) /\ Len(cycles') = Len(cycles) /\ DOMAIN cycles' = DOMAIN cycles
      /\ cycles'[c0] = x /\ \A c \in DOMAIN cycles \ {c0} : cycles'[c] = cycles[c]
  BY <1>1, <1>7, CycleChanged
<1> USE DEF x
<1>9. /\ x.ready /\ x.err /\ x.running = cycles[c0].running
      /\ x.refs = cycles[c0].refs /\ x.closed = cycles[c0].closed
  BY <1>6 DEF Cycle, Failed
<1> HIDE DEF x
<1>10. current' = current  BY DEF FailJoined
<1>11. LeadingOne(r) /\ ~LeadingOne(r)' /\ ~cycles[c0].ready
  BY <1>0, <1>4, <1>5 DEF LeadingOne, PlaceKept
<1>12. PlaceKept(r)' /\ AnswerKept(r)'
  BY <1>0, <1>4, <1>5, <1>8, <1>9, <1>11
  DEF PlaceKept, AnswerKept, Answering, ToldMetrics, LeadingOne, InCycle
<1>13. RefsKept(c0)'
  <2>1. UsersOf(c0)' = UsersOf(c0)  BY <1>0, <1>3, <1>4, UsersStay DEF InCycle
  <2>2. ASSUME NEW s \in Requests PROVE Finishing(s, c0)' <=> Finishing(s, c0)
    BY <1>0, <1>3, <1>4 DEF Finishing, OthersKept
  <2> QED  BY <1>6, <1>8, <1>9, <1>10, <2>1, <2>2 DEF RefsKept
<1>14. CycleKept(c0)'
  <2>1. x.running => \E s \in Requests : req'[s].cyc = c0 /\ req'[s].pc = "collect"
    BY <1>0, <1>3, <1>6, <1>9 DEF CycleKept, OthersKept
  <2> QED  BY <1>0, <1>6, <1>8, <1>9, <1>10, <2>1 DEF CycleKept
<1> QED  BY <1>0, <1>3, <1>4, <1>5, <1>7, <1>9, <1>12, <1>13, <1>14, <1>11, <1>10, OwnCycleStep

\* The last to release is done with the families.
LEMMA DoneStep ==
    ASSUME HandlerInv, NEW r \in Requests, Done(r)
    PROVE  HandlerInv'
<1>0. HandlerTypes /\ PlaceKept(r) /\ AnswerKept(r) /\ req[r].pc = "done"
      /\ UNCHANGED <<opts, endpoint, switches, slots, stats>>
  BY DEF HandlerInv, PlacesKept, AnswersKept, Done, At
<1>1. /\ IsRequest(req[r]) /\ req = [s \in Requests |-> req[s]] /\ cycles \in Seq(Cycle)
      /\ DOMAIN cycles = 1 .. Len(cycles) /\ Len(cycles) \in Nat /\ current \in 0 .. Len(cycles)
  BY <1>0, Fields
<1> DEFINE q == [req[r] EXCEPT !.pc = "free"]
<1>2. req' = [req EXCEPT ![r] = q] /\ IsRequest(q)
  <2>1. req' = [req EXCEPT ![r] = q]  BY <1>1 DEF Done, IsRequest, Proceed
  <2> QED  BY <1>1, <2>1 DEF IsRequest, PcLabels
<1>3. IsRequest(req'[r]) /\ req'[r] = q /\ OthersKept(r) /\ req' = [s \in Requests |-> req'[s]]
  BY <1>0, <1>2, ReqType
<1>4. /\ req'[r].pc = "free" /\ req'[r].holds = req[r].holds /\ req'[r].outer = req[r].outer
      /\ req'[r].sent = req[r].sent /\ req'[r].cyc = req[r].cyc /\ req'[r].rsp = req[r].rsp
      /\ req'[r].panics = req[r].panics
  BY <1>1, <1>3 DEF IsRequest
<1> HIDE DEF q
<1>5. PICK c0 \in DOMAIN cycles : c0 = req[r].cyc  BY <1>0 DEF PlaceKept, InCycle
<1>6. cycles[c0] \in Cycle /\ RefsKept(c0) /\ CycleKept(c0)
  BY <1>1 DEF HandlerInv, CyclesKept
<1> DEFINE x == [cycles[c0] EXCEPT !.closed = @ + 1]
<1>7. x \in Cycle /\ cycles' = [cycles EXCEPT ![c0] = x]  BY <1>5, <1>6 DEF Cycle, Done
<1> HIDE DEF x
<1>8. /\ cycles' \in Seq(Cycle) /\ Len(cycles') = Len(cycles) /\ DOMAIN cycles' = DOMAIN cycles
      /\ cycles'[c0] = x /\ \A c \in DOMAIN cycles \ {c0} : cycles'[c] = cycles[c]
  BY <1>1, <1>7, CycleChanged
<1> USE DEF x
<1>9. /\ x.ready = cycles[c0].ready /\ x.err = cycles[c0].err /\ x.running = cycles[c0].running
      /\ x.mfs = cycles[c0].mfs /\ x.refs = cycles[c0].refs /\ x.closed = cycles[c0].closed + 1
      /\ x.refs \in Nat
  BY <1>6 DEF Cycle
<1> HIDE DEF x
<1>10. current' = current  BY DEF Done
<1>11. ~LeadingOne(r) /\ ~LeadingOne(r)' /\ cycles[c0].ready
  BY <1>0, <1>4, <1>5 DEF LeadingOne, PlaceKept
<1>12. PlaceKept(r)' /\ AnswerKept(r)'
  <2>1. Answering(r)' => Answering(r)  BY <1>0, <1>4 DEF Answering
  <2>2. GoodCycle(c0) => GoodCycle(c0)'  BY <1>0, <1>8, <1>9 DEF GoodCycle
  <2>3. AnswerKept(r)'  BY <1>0, <1>4, <1>5, <2>1, <2>2 DEF AnswerKept, ToldMetrics
  <2> QED  BY <1>0, <1>4, <1>5, <1>8, <1>9, <1>11, <2>3 DEF PlaceKept, LeadingOne, InCycle
<1>13. RefsKept(c0)'
  <2>1. UsersOf(c0)' = UsersOf(c0)  BY <1>0, <1>3, <1>4, UsersStay DEF InCycle
  <2>2. Finishing(r, c0)  BY <1>0, <1>5 DEF Finishing
  <2>3. cycles[c0].refs = 0 /\ cycles[c0].closed = 0  BY <1>6, <1>9, <2>2 DEF RefsKept
  <2>4. ASSUME NEW s \in Requests, Finishing(s, c0)' PROVE FALSE
    <3>1. s # r  BY <1>4, <2>4 DEF Finishing
    <3>2. Finishing(s, c0)  BY <1>3, <2>4, <3>1 DEF Finishing, OthersKept
    <3> QED  BY <1>6, <2>2, <2>3, <3>1, <3>2 DEF RefsKept
  <2> QED  BY <1>6, <1>8, <1>9, <1>10, <2>1, <2>3, <2>4 DEF RefsKept
<1>14. CycleKept(c0)'
  <2>1. x.running => \E s \in Requests : req'[s].cyc = c0 /\ req'[s].pc = "collect"
    BY <1>0, <1>3, <1>6, <1>9 DEF CycleKept, OthersKept
  <2> QED  BY <1>0, <1>6, <1>8, <1>9, <1>11, <1>10, <2>1 DEF CycleKept
<1> QED  BY <1>0, <1>3, <1>4, <1>5, <1>7, <1>9, <1>12, <1>13, <1>14, <1>11, <1>10, OwnCycleStep



\* A reference is released; with the last one the cycle is detached.
LEMMA ReleaseStep ==
    ASSUME HandlerInv, NEW r \in Requests, Release(r)
    PROVE  HandlerInv'
<1>0. HandlerTypes /\ PlaceKept(r) /\ AnswerKept(r) /\ req[r].pc = "release"
      /\ UNCHANGED <<opts, endpoint, switches, slots, stats>>
  BY DEF HandlerInv, PlacesKept, AnswersKept, Release, At
<1>1. /\ IsRequest(req[r]) /\ req = [s \in Requests |-> req[s]] /\ cycles \in Seq(Cycle)
      /\ DOMAIN cycles = 1 .. Len(cycles) /\ Len(cycles) \in Nat /\ current \in 0 .. Len(cycles)
  BY <1>0, Fields
<1>2. PICK c0 \in DOMAIN cycles : c0 = req[r].cyc  BY <1>0 DEF PlaceKept, InCycle
<1>3. cycles[c0] \in Cycle /\ RefsKept(c0) /\ CycleKept(c0) /\ cycles[c0].ready /\ c0 # 0
  BY <1>0, <1>1, <1>2 DEF HandlerInv, CyclesKept, PlaceKept
<1>4. PICK l \in {"free", "done"} :
        /\ req' = [req EXCEPT ![r].pc = l]
        /\ \/ l = "free" /\ cycles[c0].refs > 1 /\ current' = current
           \/ l = "done" /\ ~(cycles[c0].refs > 1) /\ current' = IF current = c0 THEN 0 ELSE current
  BY <1>2 DEF Release, Proceed, Detached
<1> DEFINE q == [req[r] EXCEPT !.pc = l]
<1>5. req' = [req EXCEPT ![r] = q] /\ IsRequest(q)
  <2>1. req' = [req EXCEPT ![r] = q]  BY <1>1, <1>4 DEF IsRequest
  <2> QED  BY <1>1, <2>1 DEF IsRequest, PcLabels
<1>6. IsRequest(req'[r]) /\ req'[r] = q /\ OthersKept(r) /\ req' = [s \in Requests |-> req'[s]]
  BY <1>0, <1>5, ReqType
<1>7. /\ req'[r].pc = l /\ req'[r].holds = req[r].holds /\ req'[r].outer = req[r].outer
      /\ req'[r].sent = req[r].sent /\ req'[r].cyc = req[r].cyc /\ req'[r].rsp = req[r].rsp
      /\ req'[r].panics = req[r].panics
  BY <1>1, <1>6 DEF IsRequest
<1> HIDE DEF q
<1>8. /\ Cardinality(UsersOf(c0)') = Cardinality(UsersOf(c0)) - 1
       /\ Cardinality(UsersOf(c0)') \in Nat /\ Cardinality(UsersOf(c0)) \in Nat
  BY <1>0, <1>6, <1>7, <1>2, UserGoes, UsersFinite DEF InCycle
<1>9. cycles[c0].refs \in Nat /\ cycles[c0].refs >= 1
  BY <1>3, <1>8 DEF RefsKept, Cycle
<1> DEFINE x == [cycles[c0] EXCEPT !.refs = @ - 1]
<1>10. x \in Cycle /\ cycles' = [cycles EXCEPT ![c0] = x]  BY <1>2, <1>3, <1>9 DEF Cycle, Release
<1>11. /\ x.ready = cycles[c0].ready /\ x.err = cycles[c0].err /\ x.running = cycles[c0].running
      /\ x.mfs = cycles[c0].mfs /\ x.refs = cycles[c0].refs - 1 /\ x.closed = cycles[c0].closed
  BY <1>3 DEF Cycle
<1> HIDE DEF x
<1>12. /\ cycles' \in Seq(Cycle) /\ Len(cycles') = Len(cycles) /\ DOMAIN cycles' = DOMAIN cycles
      /\ cycles'[c0] = x /\ \A c \in DOMAIN cycles \ {c0} : cycles'[c] = cycles[c]
  BY <1>1, <1>10, CycleChanged
<1>13. ~LeadingOne(r) /\ ~LeadingOne(r)'  BY <1>0, <1>7 DEF LeadingOne
<1>14. PlaceKept(r)' /\ AnswerKept(r)'
  <2>1. Answering(r)' => Answering(r)  BY <1>0, <1>7 DEF Answering
  <2>2. GoodCycle(c0) => GoodCycle(c0)'  BY <1>0, <1>12, <1>11 DEF GoodCycle
  <2>3. AnswerKept(r)'  BY <1>0, <1>7, <1>2, <2>1, <2>2 DEF AnswerKept, ToldMetrics
  <2> QED  BY <1>0, <1>7, <1>2, <1>3, <1>12, <1>11, <1>13, <2>3 DEF PlaceKept, LeadingOne, InCycle
\* Nobody leads a gather whose result is there.
<1>15. ~cycles[c0].running
  <2>1. ASSUME NEW s \in Requests, req[s].cyc = c0, req[s].pc = "collect" PROVE FALSE
    <3>1. PlaceKept(s)  BY DEF HandlerInv, PlacesKept
    <3> QED  BY <1>3, <2>1, <3>1 DEF PlaceKept, LeadingOne
  <2> QED  BY <1>3, <2>1 DEF CycleKept
<1>16. ASSUME NEW s \in Requests PROVE ~Finishing(s, c0) /\ cycles[c0].closed = 0
  BY <1>3, <1>9 DEF RefsKept
<1>17. RefsKept(c0)'
  <2>1. CASE l = "free"
    <3>1. ASSUME NEW s \in Requests PROVE ~Finishing(s, c0)'
      BY <1>6, <1>7, <1>16, <2>1 DEF Finishing, OthersKept
    <3>2. x.refs > 0 /\ current' = current  BY <1>4, <1>11, <1>9, <2>1
    <3> QED  BY <1>3, <1>12, <1>11, <1>16, <1>8, <1>9, <3>1, <3>2 DEF RefsKept
  <2>2. CASE l = "done"
    <3>1. Finishing(r, c0)'  BY <1>7, <1>2, <2>2 DEF Finishing
    <3>2. ASSUME NEW s \in Requests, Finishing(s, c0)' PROVE s = r
      BY <1>6, <1>16, <3>2 DEF Finishing, OthersKept
    <3>3. cycles[c0].refs = 1 /\ x.refs = 0 /\ x.closed = 0  BY <1>4, <1>11, <1>16, <1>9, <2>2
    <3>4. Cardinality(UsersOf(c0)') = 0  BY <1>3, <1>8, <3>3 DEF RefsKept
    <3>5. x.refs = Cardinality(UsersOf(c0)')  BY <3>3, <3>4
    <3> QED  BY <1>12, <3>1, <3>2, <3>3, <3>5 DEF RefsKept
  <2> QED  BY <2>1, <2>2
<1>18. CycleKept(c0)'
  <2>1. current' = c0 => x.refs > 0  BY <1>4, <1>3, <1>11, <1>9
  <2> QED  BY <1>0, <1>3, <1>12, <1>11, <1>15, <2>1 DEF CycleKept
<1>19. current' = current \/ (current = c0 /\ current' = 0)  BY <1>4
<1> QED  BY <1>0, <1>6, <1>7, <1>2, <1>10, <1>11, <1>14, <1>17, <1>18, <1>13, <1>19, OwnCycleStep

\* A new gather.
LEMMA LeadStep ==
    ASSUME HandlerInv, NEW r \in Requests, Lead(r)
    PROVE  HandlerInv'
<1>0. HandlerTypes /\ PlaceKept(r) /\ AnswerKept(r) /\ req[r].pc = "gather"
      /\ UNCHANGED <<opts, endpoint, switches, slots, stats>>
  BY DEF HandlerInv, PlacesKept, AnswersKept, Lead, At
<1>1. /\ IsRequest(req[r]) /\ req = [s \in Requests |-> req[s]] /\ cycles \in Seq(Cycle)
      /\ DOMAIN cycles = 1 .. Len(cycles) /\ Len(cycles) \in Nat /\ current \in 0 .. Len(cycles)
  BY <1>0, Fields
<1>2. PICK c0 \in Nat : c0 = Len(cycles) + 1  BY <1>1
<1>3. NewCycle \in Cycle /\ NewCycle.ready = FALSE /\ NewCycle.running = TRUE /\ NewCycle.refs = 1
      /\ NewCycle.closed = 0
  BY DEF NewCycle, Cycle, FamilySeqs
<1>4. /\ cycles' = Append(cycles, NewCycle) /\ current' = (IF opts.coalesce THEN Len(cycles') ELSE 0)
      /\ req' = [req EXCEPT ![r].cyc = Len(cycles'), ![r].pc = "collect"]
      /\ opts.coalesce => current = 0
  BY DEF Lead
<1>5. /\ cycles' \in Seq(Cycle) /\ Len(cycles') = c0 /\ DOMAIN cycles' = 1 .. c0
      /\ cycles'[c0] = NewCycle /\ \A c \in DOMAIN cycles : cycles'[c] = cycles[c]
  BY <1>1, <1>2, <1>3, <1>4
<1> DEFINE q == [req[r] EXCEPT !.cyc = c0, !.pc = "collect"]
<1>6. req' = [req EXCEPT ![r] = q] /\ IsRequest(q)
  <2>1. req' = [req EXCEPT ![r] = q]  BY <1>1, <1>4, <1>5 DEF IsRequest
  <2> QED  BY <1>1, <1>2, <2>1 DEF IsRequest, PcLabels
<1>7. IsRequest(req'[r]) /\ req'[r] = q /\ OthersKept(r) /\ req' = [s \in Requests |-> req'[s]]
  BY <1>0, <1>6, ReqType
<1>8. /\ req'[r].pc = "collect" /\ req'[r].holds = req[r].holds /\ req'[r].outer = req[r].outer
      /\ req'[r].sent = req[r].sent /\ req'[r].cyc = c0 /\ req'[r].rsp = req[r].rsp
  BY <1>1, <1>7 DEF IsRequest
<1> HIDE DEF q
<1>9. GathersEndOnce(r)  BY <1>1, <1>2, <1>5 DEF GathersEndOnce
<1>10. PlaceKept(r)' /\ AnswerKept(r)'
  BY <1>0, <1>2, <1>3, <1>5, <1>8
  DEF PlaceKept, AnswerKept, Answering, ToldMetrics, LeadingOne, InCycle
\* Nobody else is in the new cycle.
<1>11. ASSUME NEW s \in Requests \ {r} PROVE req'[s] = req[s] /\ req[s].cyc # c0
  <2>1. PlaceKept(s) /\ req'[s] = req[s]  BY <1>7 DEF HandlerInv, PlacesKept, OthersKept
  <2> QED  BY <1>1, <1>2, <2>1 DEF PlaceKept
<1>12. OneLeader'
  BY <1>8, <1>11 DEF OneLeader, LeadingOne, HandlerInv, PlacesKept
<1>13. ASSUME NEW c \in DOMAIN cycles PROVE RefsKept(c)' /\ CycleKept(c)'
  <2>1. CycleKept(c) /\ c # 0 /\ c # c0  BY <1>1, <1>2 DEF HandlerInv, CyclesKept
  <2>2. current' = c => current = c  BY <1>4, <1>5, <2>1
  <2>3. opts.coalesce /\ cycles[c].running => current' = c  BY <1>4, <2>1 DEF CycleKept
  <2>4. Apart(r, c)  BY <1>0, <1>8, <2>1 DEF Apart, InCycle
  <2> QED  BY <1>0, <1>5, <1>7, <2>2, <2>3, <2>4, OtherCycle
<1>14. RefsKept(c0)'
  <2>1. UsersOf(c0)' = {r}  BY <1>8, <1>11 DEF UsersOf, InCycle
  <2>2. Cardinality(UsersOf(c0)') = 1  BY <2>1, FS_Singleton
  <2>3. ASSUME NEW s \in Requests PROVE ~Finishing(s, c0)'  BY <1>8, <1>11 DEF Finishing
  <2> QED  BY <1>3, <1>5, <2>2, <2>3 DEF RefsKept
<1>15. CycleKept(c0)'
  <2>1. \E s \in Requests : req'[s].cyc = c0 /\ req'[s].pc = "collect"  BY <1>8
  <2>2. opts.coalesce => current' = c0  BY <1>4, <1>5
  <2> QED  BY <1>0, <1>3, <1>5, <2>1, <2>2 DEF CycleKept, LeadingOne
<1>16. CyclesKept'
  <2>1. ASSUME NEW c \in 1 .. c0 PROVE c = c0 \/ c \in DOMAIN cycles  BY <1>1, <1>2
  <2> QED  BY <1>5, <1>13, <1>14, <1>15, <2>1 DEF CyclesKept
<1>17. current' \in 0 .. Len(cycles')  BY <1>2, <1>4, <1>5
<1> QED  BY <1>0, <1>7, <1>8, <1>9, <1>10, <1>12, <1>16, <1>17, GatherStep

-----------------------------------------------------------------------------
(* The theorems *)

LEMMA HandlerInitInv == HandlerInit => HandlerInv
<1> SUFFICES ASSUME HandlerInit PROVE HandlerInv  OBVIOUS
<1>0. \A r \in Requests : req[r] = NewRequest  BY DEF HandlerInit
<1>1. /\ NewRequest.pc = "idle" /\ NewRequest.outer = "idle" /\ NewRequest.sent.status = 0
      /\ NewRequest.cyc = 0 /\ NewRequest.holds = FALSE /\ IsRequest(NewRequest)
  BY DEF NewRequest, NoResponse, IsRequest, PcLabels, Statuses
<1>2. cycles = <<>> /\ Len(cycles) = 0 /\ DOMAIN cycles = {} /\ cycles \in Seq(Cycle)
  BY DEF HandlerInit
<1>3. HandlerTypes
  <2>1. stats \in StatCounts  BY DEF HandlerInit
  <2>2. req = [r \in Requests |-> req[r]]  BY DEF HandlerInit
  <2>3. \A r \in Requests : IsRequest(req[r])  BY <1>0, <1>1
  <2>4. opts \in HandlerSetups /\ endpoint \in BOOLEAN  BY Zenon DEF HandlerInit
  <2>5. switches \in Nat /\ slots \in Nat /\ current \in 0 .. Len(cycles)
    BY <1>2 DEF HandlerInit
  <2> QED  BY <1>2, <2>1, <2>2, <2>3, <2>4, <2>5 DEF HandlerTypes
<1>4. CountsKept
  <2>1. Holders = {} /\ Serving = {}  BY <1>0, <1>1 DEF Holders, Serving
  <2>2. ASSUME NEW k \in Codes PROVE ToldStatus(k) = {} /\ stats.requests[k] = 0
    BY <1>0, <1>1 DEF ToldStatus, Codes, HandlerInit
  <2> QED  BY <2>1, <2>2, FS_EmptySet DEF CountsKept, HandlerInit
<1>5. PlacesKept
  BY <1>0, <1>1, <1>2 DEF PlacesKept, PlaceKept, OneLeader, LeadingOne, InCycle
<1>6. CyclesKept  BY <1>2 DEF CyclesKept
<1>7. AnswersKept
  BY <1>0, <1>1 DEF AnswersKept, AnswerKept, Answering, ToldMetrics
<1> QED  BY <1>3, <1>4, <1>5, <1>6, <1>7 DEF HandlerInv

\* Every step of a request keeps the invariant.
LEMMA HandlerStep == HandlerInv /\ [HandlerNext]_hVars => HandlerInv'
<1> SUFFICES ASSUME HandlerInv, [HandlerNext]_hVars PROVE HandlerInv'  OBVIOUS
<1>1. CASE UNCHANGED hVars
  <2>1. endpoint' \in BOOLEAN /\ switches' \in Nat
    BY <1>1 DEF hVars, HandlerInv, HandlerTypes
  <2> QED  BY <1>1, <2>1, SwitchStep DEF hVars
<1>2. CASE EnableDelta \/ DisableDelta
  <2>1. switches \in Nat  BY DEF HandlerInv, HandlerTypes
  <2>2. endpoint' \in BOOLEAN  BY <1>2, Zenon DEF EnableDelta, DisableDelta
  <2>3. switches' \in Nat  BY <1>2, <2>1 DEF EnableDelta, DisableDelta
  <2>4. UNCHANGED <<opts, req, slots, current, cycles, stats>>
    BY <1>2 DEF EnableDelta, DisableDelta
  <2> QED  BY <2>2, <2>3, <2>4, SwitchStep
<1>3. ASSUME NEW r \in Requests, Arrive(r) \/ Collect(r) \/ Handle(r) \/ TimedOut(r)
      PROVE  HandlerInv'
  BY <1>3, ArriveStep, CollectedStep, CollectPanicsStep, TimedOutStep, ServeStep, AcquireStep,
     JoinStep, LeadStep, FailJoinedStep, JoinedStep, GatheredStep, EncodeStep, EncodeFailsStep,
     EncodedStep, ReleaseStep, DoneStep, FreeSlotStep, ReturnedStep, PanickedStep
  DEF Collect, Handle
<1> QED  BY <1>1, <1>2, <1>3 DEF HandlerNext

\* The references, slots, results and counts of the handler always agree (HandlerInv).
THEOREM HandlerInvariance == HandlerSpec => []HandlerInv
  BY HandlerInitInv, HandlerStep, PTL DEF HandlerSpec

\* Families are held for those who write them, and once all goroutines have ended no
\* slot, cycle or gather is left and the metrics say what the clients were told.
THEOREM HandlerLeavesNothing == HandlerSpec => []NothingLeft
<1>1. HandlerInv => NothingLeft
  <2> SUFFICES ASSUME HandlerInv PROVE NothingLeft  OBVIOUS
  <2>0. /\ \A r \in Requests : IsRequest(req[r]) /\ PlaceKept(r)
        /\ \A c \in DOMAIN cycles : RefsKept(c) /\ CycleKept(c) /\ cycles[c] \in Cycle
        /\ current \in 0 .. Len(cycles) /\ DOMAIN cycles = 1 .. Len(cycles) /\ Len(cycles) \in Nat
    BY DEF HandlerInv, HandlerTypes, PlacesKept, CyclesKept
  <2>1. ASSUME NEW r \in Requests, At(r, "encode") PROVE cycles[req[r].cyc].closed = 0
    <3>1. req[r].cyc \in DOMAIN cycles /\ r \in UsersOf(req[r].cyc)
      BY <2>0, <2>1 DEF At, PlaceKept, UsersOf, InCycle
    <3>2. PICK c \in DOMAIN cycles : c = req[r].cyc  BY <3>1
    <3>3. Cardinality(UsersOf(c)) \in Nat /\ Cardinality(UsersOf(c)) # 0
      BY <3>1, <3>2, UsersFinite, FS_EmptySet
    <3> QED  BY <2>0, <3>2, <3>3 DEF RefsKept, Cycle
  <2>2. ASSUME NEW c \in DOMAIN cycles PROVE cycles[c].closed <= 1
    BY <2>0 DEF RefsKept, Cycle
  <2>3. ASSUME opts.coalesce PROVE Cardinality({c \in DOMAIN cycles : cycles[c].running}) <= 1
    <3>1. {c \in DOMAIN cycles : cycles[c].running} \subseteq {current}
      BY <2>0, <2>3 DEF CycleKept
    <3>2. IsFiniteSet({current}) /\ Cardinality({current}) = 1  BY FS_Singleton
    <3>3. Cardinality({c \in DOMAIN cycles : cycles[c].running}) <= Cardinality({current})
      BY <3>1, <3>2, FS_Subset
    <3> QED  BY <3>2, <3>3
  <2>4. ASSUME Running = {}, \A r \in Requests : req[r].outer # "serving"
        PROVE  /\ slots = 0 /\ current = 0 /\ stats.inFlight = 0
               /\ \A c \in DOMAIN cycles :
                    cycles[c].ready /\ (cycles[c].refs = 0 <=> cycles[c].closed = 1)
               /\ \A k \in Codes :
                    stats.requests[k] = Cardinality({r \in Served : req[r].sent.status = k})
    <3>1. \A r \in Requests : req[r].pc \in {"idle", "end"}  BY <2>4 DEF Running
    <3>2. Holders = {} /\ Serving = {}  BY <2>0, <2>4, <3>1 DEF Holders, Serving, PlaceKept
    <3>3. slots = 0 /\ stats.inFlight = 0
      BY <3>2, FS_EmptySet DEF HandlerInv, CountsKept
    <3>4. ASSUME NEW c \in DOMAIN cycles
          PROVE  /\ cycles[c].ready /\ (cycles[c].refs = 0 <=> cycles[c].closed = 1)
                 /\ current # c
      <4>1. UsersOf(c) = {} /\ \A r \in Requests : ~Finishing(r, c)
        BY <3>1 DEF UsersOf, InCycle, Finishing
      <4>2. Cardinality(UsersOf(c)) = 0  BY <4>1, FS_EmptySet
      <4>3. cycles[c].ready  BY <2>0, <3>1 DEF CycleKept, LeadingOne
      <4>4. RefsKept(c) /\ cycles[c].refs \in Nat /\ (current = c => cycles[c].refs > 0)
        BY <2>0 DEF CycleKept, Cycle
      <4>5. CASE cycles[c].refs = 0  BY <4>1, <4>3, <4>4, <4>5 DEF RefsKept
      <4>6. CASE cycles[c].refs > 0  BY <4>2, <4>3, <4>4, <4>6 DEF RefsKept
      <4> QED  BY <4>4, <4>5, <4>6
    <3>5. current = 0  BY <2>0, <3>4
    <3>6. ASSUME NEW k \in Codes
          PROVE  stats.requests[k] = Cardinality({r \in Served : req[r].sent.status = k})
      <4>1. {r \in Served : req[r].sent.status = k} = ToldStatus(k)
        BY <2>0 DEF Served, ToldStatus, PlaceKept, Codes
      <4> QED  BY <4>1 DEF HandlerInv, CountsKept
    <3> QED  BY <3>3, <3>4, <3>5, <3>6
  <2>5. FamiliesHeld  BY <2>1, <2>2, <2>3 DEF FamiliesHeld
  <2> QED  BY <2>4, <2>5 DEF NothingLeft
<1> QED  BY <1>1, HandlerInvariance, PTL

\* Who is told 200 got the result of one gather, and of one that may be shown: it did not
\* fail, or errors are to be ignored and there was something to show.
THEOREM HandlerOneGather == HandlerSpec => []OneGather
<1>1. HandlerInv => OneGather  BY DEF HandlerInv, AnswersKept, AnswerKept, OneGather
<1> QED  BY <1>1, HandlerInvariance, PTL

-----------------------------------------------------------------------------
(* The middlewares of Instrumentation. *)

\* The delegators of newDelegator: the index is the sum of the bits of the interfaces, and
\* has each of them, and no other.
LEMMA DelegatorOffers ==
    ASSUME NEW offered \in SUBSET Interfaces
    PROVE  NewDelegator(offered) = offered
<1>1. Bit \in [Interfaces -> Nat] /\ IsFiniteSet(Interfaces)
  <2>1. Bit \in [Interfaces -> Nat]
    <3>1. \A i \in Interfaces : Bit[i] \in Nat
      BY DEF Bit, Interfaces
    <3> QED BY <3>1 DEF Bit
  <2>2. IsFiniteSet({"closeNotifier", "flusher", "hijacker", "readerFrom", "pusher"})
    <3>1. IsFiniteSet({"closeNotifier"})
      BY FS_Singleton
    <3>2. IsFiniteSet({"closeNotifier"} \cup {"flusher"})
      BY <3>1, FS_AddElement
    <3>3. IsFiniteSet({"closeNotifier", "flusher"} \cup {"hijacker"})
      BY <3>2, FS_AddElement
    <3>4. IsFiniteSet({"closeNotifier", "flusher", "hijacker"} \cup {"readerFrom"})
      BY <3>3, FS_AddElement
    <3>5. IsFiniteSet({"closeNotifier", "flusher", "hijacker", "readerFrom"} \cup {"pusher"})
      BY <3>4, FS_AddElement
    <3> QED BY <3>5
  <2> QED BY <2>1, <2>2 DEF Interfaces
<1>2. ASSUME NEW T \in SUBSET Interfaces, NEW i \in Interfaces
      PROVE  /\ T \ {i} \in SUBSET Interfaces /\ SumFunctionOnSet(Bit, T) \in Nat
             /\ SumFunctionOnSet(Bit, T) = (IF i \in T THEN Bit[i] ELSE 0) + SumFunctionOnSet(Bit, T \ {i})
  <2>1. T \ {i} \in SUBSET Interfaces
    OBVIOUS
  <2>2. SumFunctionOnSet(Bit, T) \in Nat /\ SumFunctionOnSet(Bit, T \ {i}) \in Nat
    BY <1>1, <2>1, SumType
  <2>3. CASE i \in T
    BY <1>1, <2>1, <2>2, <2>3, SumRemove
  <2>4. CASE i \notin T
    <3>1. T \ {i} = T
      BY <2>4
    <3> QED BY <2>1, <2>2, <2>4, <3>1
  <2> QED BY <2>3, <2>4
<1> DEFINE Has(i, b) == IF i \in offered THEN b ELSE 0
           t1 == offered \ {"closeNotifier"}
           t2 == t1 \ {"flusher"}
           t3 == t2 \ {"hijacker"}
           t4 == t3 \ {"readerFrom"}
           t5 == t4 \ {"pusher"}
           id == SumFunctionOnSet(Bit, offered)
<1>3. /\ id = Has("closeNotifier", 1) + SumFunctionOnSet(Bit, t1)
      /\ SumFunctionOnSet(Bit, t1) = Has("flusher", 2) + SumFunctionOnSet(Bit, t2)
      /\ SumFunctionOnSet(Bit, t2) = Has("hijacker", 4) + SumFunctionOnSet(Bit, t3)
      /\ SumFunctionOnSet(Bit, t3) = Has("readerFrom", 8) + SumFunctionOnSet(Bit, t4)
      /\ SumFunctionOnSet(Bit, t4) = Has("pusher", 16) + SumFunctionOnSet(Bit, t5)
  <2>1. /\ Bit["closeNotifier"] = 1 /\ Bit["flusher"] = 2 /\ Bit["hijacker"] = 4
        /\ Bit["readerFrom"] = 8 /\ Bit["pusher"] = 16
    BY DEF Bit, Interfaces
  <2>2. /\ "closeNotifier" \in Interfaces /\ "flusher" \in Interfaces /\ "hijacker" \in Interfaces
        /\ "readerFrom" \in Interfaces /\ "pusher" \in Interfaces
    BY DEF Interfaces
  <2>3. /\ t1 \in SUBSET Interfaces /\ t2 \in SUBSET Interfaces /\ t3 \in SUBSET Interfaces
        /\ t4 \in SUBSET Interfaces
    OBVIOUS
  <2>4. id = Has("closeNotifier", 1) + SumFunctionOnSet(Bit, t1)
    BY <1>2, <2>1, <2>2
  <2>5. SumFunctionOnSet(Bit, t1) = Has("flusher", 2) + SumFunctionOnSet(Bit, t2)
    <3>1. "flusher" \in t1 <=> "flusher" \in offered
      OBVIOUS
    <3> QED BY <1>2, <2>1, <2>2, <2>3, <3>1
  <2>6. SumFunctionOnSet(Bit, t2) = Has("hijacker", 4) + SumFunctionOnSet(Bit, t3)
    <3>1. "hijacker" \in t2 <=> "hijacker" \in offered
      OBVIOUS
    <3> QED BY <1>2, <2>1, <2>2, <2>3, <3>1
  <2>7. SumFunctionOnSet(Bit, t3) = Has("readerFrom", 8) + SumFunctionOnSet(Bit, t4)
    <3>1. "readerFrom" \in t3 <=> "readerFrom" \in offered
      OBVIOUS
    <3> QED BY <1>2, <2>1, <2>2, <2>3, <3>1
  <2>8. SumFunctionOnSet(Bit, t4) = Has("pusher", 16) + SumFunctionOnSet(Bit, t5)
    <3>1. "pusher" \in t4 <=> "pusher" \in offered
      OBVIOUS
    <3> QED BY <1>2, <2>1, <2>2, <2>3, <3>1
  <2> QED BY <2>4, <2>5, <2>6, <2>7, <2>8
<1>4. SumFunctionOnSet(Bit, t5) = 0
  <2>1. t5 = {}
    BY DEF Interfaces
  <2> QED BY <1>1, <2>1, SumEmpty
<1>5. id = Has("closeNotifier", 1) + (Has("flusher", 2) + (Has("hijacker", 4) +
             (Has("readerFrom", 8) + Has("pusher", 16))))
  BY <1>3, <1>4
<1> HIDE DEF id
<1>6. \A i \in Interfaces : (id \div Bit[i]) % 2 = 1 <=> i \in offered
  <2>1. (id \div Bit["closeNotifier"]) % 2 = 1 <=> "closeNotifier" \in offered
    BY <1>5 DEF Bit, Interfaces
  <2>2. (id \div Bit["flusher"]) % 2 = 1 <=> "flusher" \in offered
    BY <1>5 DEF Bit, Interfaces
  <2>3. (id \div Bit["hijacker"]) % 2 = 1 <=> "hijacker" \in offered
    BY <1>5 DEF Bit, Interfaces
  <2>4. (id \div Bit["readerFrom"]) % 2 = 1 <=> "readerFrom" \in offered
    BY <1>5 DEF Bit, Interfaces
  <2>5. (id \div Bit["pusher"]) % 2 = 1 <=> "pusher" \in offered
    BY <1>5 DEF Bit, Interfaces
  <2> QED BY <2>1, <2>2, <2>3, <2>4, <2>5 DEF Interfaces
<1>7. NewDelegator(offered) = {i \in Interfaces : (id \div Bit[i]) % 2 = 1}
  BY DEF NewDelegator, PickDelegator, id
<1> QED BY <1>6, <1>7

DelegatorStates == [status : Nat, written : Nat, wroteHeader : BOOLEAN, seen : Seq(Nat)]
WriterStates == [offers : SUBSET Interfaces, status : Nat, extra : BOOLEAN, bytes : Nat, hijacked : BOOLEAN]

\* What a delegator has seen is what the writer sent, as long as that is one status and the
\* connection has not been taken over.
Follows(d, k) ==
    /\ Len(d.seen) = IF k = "header" /\ d.wroteHeader THEN 1 ELSE 0
    /\ ~writer.extra /\ ~writer.hijacked =>
         /\ d.status = writer.status /\ d.written = writer.bytes
         /\ d.wroteHeader <=> writer.status # 0
         /\ k = "header" /\ d.wroteHeader => d.seen[1] = writer.status

Unreported == {"build", "serve", "send", "rejected", "failed"}

InstrumentInv ==
    /\ writer \in WriterStates
    /\ iPhase = "build" => writer.status = 0 /\ writer.bytes = 0
    /\ iPhase \in {"serve", "send"} => CheckLabels(vec)
    /\ iPhase = "serve" =>
         /\ del \in [Delegating(vec) -> DelegatorStates]
         /\ \A k \in Delegating(vec) : Follows(del[k], k)
    /\ inFlight = IF iPhase \in {"serve", "send"} THEN 1 ELSE 0
    /\ iPhase \in Unreported => records = NoRecords
    /\ ReportedAsSent

\* The labels of a metric are those of its vector.
LEMMA LabelsFit ==
    ASSUME CheckLabels(vec), NEW m, NEW s
    PROVE  /\ DOMAIN LabelsOf(vec, m, s) = vec.variable \ vec.curried
           /\ "code" \in Free(vec) => LabelsOf(vec, m, s)["code"] = SanitizeCode(s)
  BY DEF CheckLabels, LabelsOf, Free

LEMMA NoRecordsYet ==
    \A k \in Server : DOMAIN NoRecords[k] = {} /\ Len(NoRecords[k]) = 0
  BY DEF NoRecords

\* A step of the handler: what each delegator sees of it.
LEMMA HeaderStep ==
    ASSUME writer \in WriterStates, NEW d \in DelegatorStates, NEW k, Follows(d, k), NEW code \in Nat,
           NEW w, w = WriterHeader(writer, code), NEW e, e = HeaderSeen(d, k, code)
    PROVE  /\ w \in WriterStates /\ e \in DelegatorStates /\ w.offers = writer.offers
           /\ Len(e.seen) = IF k = "header" /\ e.wroteHeader THEN 1 ELSE 0
           /\ ~w.extra /\ ~w.hijacked =>
                /\ e.status = w.status /\ e.written = w.bytes
                /\ e.wroteHeader <=> w.status # 0
                /\ k = "header" /\ e.wroteHeader => e.seen[1] = w.status
<1>1. d.seen \in Seq(Nat) /\ Append(d.seen, code) \in Seq(Nat)
  BY DEF DelegatorStates
<1>2. /\ Len(Append(d.seen, code)) = Len(d.seen) + 1
      /\ Len(d.seen) = 0 => Append(d.seen, code)[1] = code
  BY <1>1
<1>3. e \in DelegatorStates /\ e.status = code /\ e.wroteHeader = TRUE /\ e.written = d.written
  BY <1>1 DEF HeaderSeen, DelegatorStates
<1>4. e.seen = IF k = "header" /\ ~d.wroteHeader THEN Append(d.seen, code) ELSE d.seen
  BY DEF HeaderSeen, DelegatorStates
<1>5. /\ w \in WriterStates /\ w.offers = writer.offers /\ w.bytes = writer.bytes
      /\ w.hijacked = writer.hijacked
      /\ ~w.extra /\ ~w.hijacked =>
           ~writer.extra /\ writer.status = 0 /\ code >= 200 /\ w.status = code
  <2>1. CASE writer.hijacked \/ writer.status # 0 \/ code < 200
    <3>1. w = [writer EXCEPT !.extra = TRUE]
      BY <2>1 DEF WriterHeader
    <3> QED BY <3>1 DEF WriterStates
  <2>2. CASE ~writer.hijacked /\ writer.status = 0 /\ code >= 200
    <3>1. w = [writer EXCEPT !.status = code]
      BY <2>2 DEF WriterHeader
    <3>2. w \in WriterStates
      BY <3>1 DEF WriterStates
    <3>3. /\ w.offers = writer.offers /\ w.bytes = writer.bytes /\ w.hijacked = writer.hijacked
          /\ w.extra = writer.extra /\ w.status = code
      BY <3>1 DEF WriterStates
    <3> QED BY <2>2, <3>2, <3>3
  <2> QED BY <2>1, <2>2 DEF WriterStates
<1>6. Len(e.seen) = IF k = "header" THEN 1 ELSE 0
  BY <1>1, <1>2, <1>4 DEF Follows, DelegatorStates
<1>7. ASSUME ~w.extra, ~w.hijacked
      PROVE  e.status = w.status /\ e.written = w.bytes /\ w.status # 0
             /\ (k = "header" => e.seen[1] = w.status)
  <2>1. ~d.wroteHeader /\ d.written = writer.bytes
    BY <1>5, <1>7 DEF Follows, DelegatorStates
  <2>2. k = "header" => Len(d.seen) = 0
    BY <2>1 DEF Follows
  <2> QED BY <1>2, <1>3, <1>4, <1>5, <1>7, <2>1, <2>2
<1> QED BY <1>3, <1>5, <1>6, <1>7

LEMMA ImpliedState ==
    ASSUME NEW d \in DelegatorStates, NEW x \in Seq(Nat)
    PROVE  [d EXCEPT !.seen = x, !.status = 200, !.wroteHeader = TRUE] \in DelegatorStates
  BY DEF DelegatorStates

\* A delegator that counts the bytes w has sent more than the writer.
Counted(i, w) == [i EXCEPT !.written = @ + (w.bytes - writer.bytes)]

LEMMA BytesStep ==
    ASSUME writer \in WriterStates, NEW d \in DelegatorStates, NEW k, Follows(d, k), NEW n \in Nat,
           NEW w, w = WriterBytes(writer, n),
           NEW e, e = Counted(ImpliedHeader(d, k), w)
    PROVE  /\ w \in WriterStates /\ e \in DelegatorStates /\ w.offers = writer.offers
           /\ Len(e.seen) = IF k = "header" /\ e.wroteHeader THEN 1 ELSE 0
           /\ ~w.extra /\ ~w.hijacked =>
                /\ e.status = w.status /\ e.written = w.bytes
                /\ e.wroteHeader <=> w.status # 0
                /\ k = "header" /\ e.wroteHeader => e.seen[1] = w.status
<1> DEFINE i == ImpliedHeader(d, k)
<1>1. d.seen \in Seq(Nat) /\ Append(d.seen, 200) \in Seq(Nat)
  BY DEF DelegatorStates
<1>2. /\ Len(Append(d.seen, 200)) = Len(d.seen) + 1
      /\ Len(d.seen) = 0 => Append(d.seen, 200)[1] = 200 /\ Len(Append(d.seen, 200)) = 1
  BY <1>1
<1>3. /\ i \in DelegatorStates /\ i.wroteHeader = TRUE /\ i.written = d.written
      /\ i.status = (IF d.wroteHeader THEN d.status ELSE 200)
      /\ i.seen = IF k = "header" /\ ~d.wroteHeader THEN Append(d.seen, 200) ELSE d.seen
  <2>1. CASE d.wroteHeader
    BY <2>1 DEF ImpliedHeader, DelegatorStates
  <2>2. CASE ~d.wroteHeader
    <3>1. PICK x \in Seq(Nat) : x = IF k = "header" THEN Append(d.seen, 200) ELSE d.seen
      BY <1>1
    <3>2. i = [d EXCEPT !.seen = x, !.status = 200, !.wroteHeader = TRUE]
      BY <2>2, <3>1 DEF ImpliedHeader, HeaderSeen
    <3> HIDE DEF i
    <3>3. i \in DelegatorStates
      BY <3>2 DEF DelegatorStates
    <3>4. i.seen = x /\ i.status = 200 /\ i.wroteHeader = TRUE /\ i.written = d.written
      BY <3>2 DEF DelegatorStates
    <3> QED BY <2>2, <3>1, <3>3, <3>4
  <2> QED BY <2>1, <2>2 DEF DelegatorStates
<1>4. /\ w \in WriterStates /\ w.offers = writer.offers
      /\ w.extra = writer.extra /\ w.hijacked = writer.hijacked
      /\ ~w.hijacked => /\ w.status = (IF writer.status = 0 THEN 200 ELSE writer.status)
                        /\ w.bytes = writer.bytes + n
      /\ w.bytes - writer.bytes \in Nat
  <2>1. CASE writer.hijacked
    <3>1. w = writer /\ writer.bytes \in Nat
      BY <2>1 DEF WriterBytes, WriterStates
    <3>2. writer.bytes - writer.bytes \in Nat
      BY <3>1
    <3> QED BY <2>1, <3>1, <3>2, Zenon
  <2>2. CASE ~writer.hijacked
    <3>1. PICK st \in Nat : st = IF writer.status = 0 THEN 200 ELSE writer.status
      BY DEF WriterStates
    <3>2. PICK by \in Nat : by = writer.bytes + n
      BY DEF WriterStates
    <3>3. w = [writer EXCEPT !.status = st, !.bytes = by]
      BY <2>2, <3>1, <3>2 DEF WriterBytes
    <3>4. w \in WriterStates
      BY <3>3 DEF WriterStates
    <3>5. /\ w.offers = writer.offers /\ w.extra = writer.extra /\ w.hijacked = writer.hijacked
          /\ w.status = st /\ w.bytes = by
      BY <3>3 DEF WriterStates
    <3>6. writer.bytes \in Nat
      BY DEF WriterStates
    <3> QED BY <3>1, <3>2, <3>4, <3>5, <3>6
  <2> QED BY <2>1, <2>2
<1>9. e = [i EXCEPT !.written = @ + (w.bytes - writer.bytes)]
  BY DEF Counted, i
<1> HIDE DEF i
<1>5. /\ e \in DelegatorStates /\ e.status = i.status /\ e.wroteHeader = i.wroteHeader /\ e.seen = i.seen
      /\ e.written = i.written + (w.bytes - writer.bytes)
  <2>1. PICK m \in Nat : m = i.written + (w.bytes - writer.bytes)
    BY <1>3, <1>4 DEF DelegatorStates
  <2>2. e = [i EXCEPT !.written = m]
    BY <1>9, <2>1
  <2>3. e \in DelegatorStates
    BY <1>3, <2>2 DEF DelegatorStates
  <2>4. e.status = i.status /\ e.wroteHeader = i.wroteHeader /\ e.seen = i.seen /\ e.written = m
    BY <1>3, <2>2 DEF DelegatorStates
  <2> QED BY <2>1, <2>3, <2>4
<1>6. Len(e.seen) = IF k = "header" THEN 1 ELSE 0
  <2>1. Len(d.seen) = IF k = "header" /\ d.wroteHeader THEN 1 ELSE 0
    BY DEF Follows
  <2>2. e.seen = IF k = "header" /\ ~d.wroteHeader THEN Append(d.seen, 200) ELSE d.seen
    BY <1>3, <1>5
  <2>3. CASE k = "header" /\ ~d.wroteHeader
    <3>1. Len(d.seen) = 0 /\ e.seen = Append(d.seen, 200)
      BY <2>1, <2>2, <2>3
    <3>2. Len(e.seen) = 1
      BY <1>2, <3>1, Zenon
    <3> QED BY <2>3, <3>2
  <2>4. CASE ~(k = "header" /\ ~d.wroteHeader)
    <3>1. e.seen = d.seen
      BY <2>2, <2>4
    <3> QED BY <2>1, <2>4, <3>1
  <2> QED BY <2>3, <2>4
<1>7. ASSUME ~w.extra, ~w.hijacked
      PROVE  e.status = w.status /\ e.written = w.bytes /\ w.status # 0
             /\ (k = "header" => e.seen[1] = w.status)
  <2>1. ~writer.extra /\ ~writer.hijacked
    BY <1>4, <1>7
  <2>2. /\ d.status = writer.status /\ d.written = writer.bytes
        /\ d.wroteHeader <=> writer.status # 0
        /\ k = "header" /\ d.wroteHeader => d.seen[1] = writer.status
    BY <2>1 DEF Follows
  <2>3. k = "header" /\ ~d.wroteHeader => Len(d.seen) = 0
    BY DEF Follows
  <2>4. e.written = w.bytes
    <3>1. writer.bytes \in Nat /\ w.bytes = writer.bytes + n
      BY <1>4, <1>7 DEF WriterStates
    <3> QED BY <1>3, <1>5, <2>2, <3>1
  <2>5. e.status = w.status /\ w.status # 0
    BY <1>3, <1>4, <1>5, <1>7, <2>2
  <2>6. k = "header" => e.seen[1] = w.status
    <3>1. e.seen = IF k = "header" /\ ~d.wroteHeader THEN Append(d.seen, 200) ELSE d.seen
      BY <1>3, <1>5
    <3>2. w.status = IF d.wroteHeader THEN writer.status ELSE 200
      BY <1>4, <1>7, <2>2
    <3>3. CASE k = "header" /\ ~d.wroteHeader
      <4>1. Len(d.seen) = 0 /\ e.seen = Append(d.seen, 200) /\ w.status = 200
        BY <2>3, <3>1, <3>2, <3>3
      <4> QED BY <1>2, <4>1
    <3>4. CASE k = "header" /\ d.wroteHeader
      <4>1. e.seen = d.seen /\ w.status = writer.status
        BY <3>1, <3>2, <3>4
      <4> QED BY <2>2, <3>4, <4>1
    <3> QED BY <3>3, <3>4
  <2> QED BY <2>4, <2>5, <2>6
<1> QED BY <1>3, <1>4, <1>5, <1>6, <1>7

\* The same, of all delegators.
LEMMA AllFollow ==
    ASSUME NEW w, NEW k, NEW e, writer' = w, del'[k] = e,
           Len(e.seen) = IF k = "header" /\ e.wroteHeader THEN 1 ELSE 0,
           ~w.extra /\ ~w.hijacked =>
                /\ e.status = w.status /\ e.written = w.bytes
                /\ e.wroteHeader <=> w.status # 0
                /\ k = "header" /\ e.wroteHeader => e.seen[1] = w.status
    PROVE  Follows(del[k], k)'
  BY DEF Follows

LEMMA StillServing ==
    ASSUME InstrumentInv, iPhase = "serve", iPhase' = "serve", vec' = vec, offers' = offers,
           inFlight' = inFlight, records' = records, writer' \in WriterStates,
           writer'.offers = writer.offers, del' \in [Delegating(vec) -> DelegatorStates],
           \A k \in Delegating(vec) : Follows(del[k], k)'
    PROVE  InstrumentInv'
<1>1. records' = NoRecords /\ CheckLabels(vec) /\ inFlight = 1 /\ offers = writer.offers
  BY DEF InstrumentInv, Unreported, ReportedAsSent
<1>2. \A k \in Server : DOMAIN records'[k] = {} /\ Len(records'[k]) = 0
  BY <1>1, NoRecordsYet
<1>3. "header" \in Server
  BY DEF Server
<1>4. ReportedAsSent'
  BY <1>1, <1>2, <1>3 DEF ReportedAsSent
<1> QED BY <1>1, <1>4 DEF InstrumentInv

\* What is reported when the handler has returned, or panicked.
LEMMA Reports ==
    ASSUME InstrumentInv, iPhase = "serve", NEW k \in Server
    PROVE  /\ \A i \in DOMAIN Reported(k) :
                /\ DOMAIN Reported(k)[i] = vec.variable \ vec.curried
                /\ ~writer.extra /\ ~writer.hijacked /\ "code" \in Free(vec) =>
                     Reported(k)[i]["code"] = SanitizeCode(writer.status)
           /\ k # "header" => Len(Reported(k)) = 1
           /\ k = "header" => /\ Len(Reported(k)) <= 1
                              /\ ~writer.extra /\ ~writer.hijacked =>
                                   (writer.status # 0 <=> Len(Reported(k)) = 1)
<1>1. CheckLabels(vec) /\ del \in [Delegating(vec) -> DelegatorStates]
      /\ \A j \in Delegating(vec) : Follows(del[j], j)
  BY DEF InstrumentInv
<1>2. CASE k = "header"
  <2>1. k \in Delegating(vec) /\ Follows(del[k], k) /\ del[k].seen \in Seq(Nat)
    BY <1>1, <1>2 DEF Delegating, DelegatorStates
  <2>2. Reported(k) = [i \in DOMAIN del[k].seen |-> LabelsOf(vec, method, del[k].seen[i])]
    BY <1>2 DEF Reported
  <2>3. DOMAIN del[k].seen = 1..Len(del[k].seen) /\ Len(del[k].seen) \in Nat
    BY <2>1
  <2>4. Len(Reported(k)) = Len(del[k].seen) /\ DOMAIN Reported(k) = 1..Len(del[k].seen)
    BY <2>2, <2>3
  <2>5. Len(del[k].seen) = IF del[k].wroteHeader THEN 1 ELSE 0
    BY <1>2, <2>1 DEF Follows
  <2>6. ASSUME NEW i \in DOMAIN Reported(k)
        PROVE  /\ DOMAIN Reported(k)[i] = vec.variable \ vec.curried
               /\ ~writer.extra /\ ~writer.hijacked /\ "code" \in Free(vec) =>
                     Reported(k)[i]["code"] = SanitizeCode(writer.status)
    <3>1. i = 1 /\ del[k].wroteHeader
      BY <2>4, <2>5, <2>6
    <3>2. Reported(k)[i] = LabelsOf(vec, method, del[k].seen[1])
      BY <2>2, <2>3, <2>4, <3>1
    <3>3. ~writer.extra /\ ~writer.hijacked => del[k].seen[1] = writer.status
      BY <1>2, <2>1, <3>1 DEF Follows
    <3> QED BY <1>1, <3>2, <3>3, LabelsFit
  <2>7. ~writer.extra /\ ~writer.hijacked => (writer.status # 0 <=> del[k].wroteHeader)
    BY <2>1 DEF Follows
  <2>8. /\ Len(Reported(k)) <= 1
        /\ ~writer.extra /\ ~writer.hijacked => (writer.status # 0 <=> Len(Reported(k)) = 1)
    <3>1. Len(Reported(k)) = IF del[k].wroteHeader THEN 1 ELSE 0
      BY <2>4, <2>5
    <3>2. CASE del[k].wroteHeader
      BY <2>7, <3>1, <3>2
    <3>3. CASE ~del[k].wroteHeader
      BY <2>7, <3>1, <3>3
    <3> QED BY <3>2, <3>3
  <2> QED BY <1>2, <2>6, <2>8, Zenon
<1>3. CASE k # "header"
  <2>1. Reported(k) = <<LabelsOf(vec, method, StatusSeen(k))>>
    BY <1>3 DEF Reported
  <2>2. DOMAIN Reported(k) = {1} /\ Reported(k)[1] = LabelsOf(vec, method, StatusSeen(k)) /\ Len(Reported(k)) = 1
    BY <2>1
  <2>3. "code" \in Free(vec) => k \in Delegating(vec)
    BY <1>3 DEF Delegating, Server
  <2>4. ~writer.extra /\ ~writer.hijacked /\ "code" \in Free(vec) => StatusSeen(k) = writer.status
    BY <1>1, <2>3 DEF Follows, StatusSeen
  <2> QED BY <1>1, <1>3, <2>2, <2>4, LabelsFit
<1> QED BY <1>2, <1>3

LEMMA InstrumentStep ==
    ASSUME InstrumentInv, [InstrumentNext]_iVars
    PROVE  InstrumentInv'
<1>0. \A k \in Server : DOMAIN NoRecords[k] = {} /\ Len(NoRecords[k]) = 0
  BY NoRecordsYet
<1>h. "header" \in Server
  BY DEF Server
<1>1. CASE Reject
  <2>1. ReportedAsSent'
    BY <1>0, <1>1, <1>h DEF Reject, InstrumentInv, Unreported, ReportedAsSent
  <2> QED BY <1>1, <2>1 DEF Reject, InstrumentInv, Unreported
<1>2. CASE Serve
  <2>1. offers' = writer.offers
    <3>1. writer.offers \in SUBSET Interfaces
      BY DEF InstrumentInv, WriterStates
    <3> QED BY <1>2, <3>1, DelegatorOffers DEF Serve
  <2>2. records' = NoRecords /\ inFlight' = 1 /\ writer' = writer /\ vec' = vec
    BY <1>2 DEF Serve, InstrumentInv, Unreported
  <2>3. ReportedAsSent'
    BY <1>0, <1>2, <1>h, <2>1, <2>2 DEF Serve, ReportedAsSent
  <2>4. NewDel \in DelegatorStates /\ Len(NewDel.seen) = 0
    BY DEF NewDel, DelegatorStates
  <2>5. del' \in [Delegating(vec) -> DelegatorStates] /\ \A k \in Delegating(vec) : del'[k] = NewDel
    BY <1>2, <2>4 DEF Serve
  <2>6. writer.status = 0 /\ writer.bytes = 0 /\ writer \in WriterStates
    BY <1>2 DEF Serve, InstrumentInv
  <2>7. ASSUME NEW k \in Delegating(vec) PROVE Follows(del[k], k)'
    <3>1. del'[k] = NewDel /\ ~NewDel.wroteHeader /\ NewDel.status = 0 /\ NewDel.written = 0
      BY <2>5 DEF NewDel
    <3> QED BY <2>2, <2>4, <2>6, <3>1 DEF Follows
  <2> QED BY <1>2, <2>2, <2>3, <2>5, <2>6, <2>7 DEF Serve, InstrumentInv
<1>3. ASSUME NEW code \in StatusCodes, WriteHeader(code) PROVE InstrumentInv'
  <2>1. /\ iPhase = "serve" /\ writer \in WriterStates /\ del \in [Delegating(vec) -> DelegatorStates]
        /\ \A k \in Delegating(vec) : Follows(del[k], k)
    BY <1>3 DEF WriteHeader, InstrumentInv
  <2>2. code \in Nat
    BY InstrumentAssumption
  <2>3. /\ writer' = WriterHeader(writer, code)
        /\ del' = [k \in Delegating(vec) |-> HeaderSeen(del[k], k, code)]
    BY <1>3, <2>1 DEF WriteHeader
  <2>4. writer' \in WriterStates /\ writer'.offers = writer.offers
    <3>1. NewDel \in DelegatorStates
      BY DEF NewDel, DelegatorStates
    <3>2. "response" \in Delegating(vec)
      BY DEF Delegating
    <3> QED BY <2>1, <2>2, <2>3, <3>2, HeaderStep
  <2>5. ASSUME NEW k \in Delegating(vec) PROVE del'[k] \in DelegatorStates /\ Follows(del[k], k)'
    <3>1. del'[k] = HeaderSeen(del[k], k, code) /\ del[k] \in DelegatorStates /\ Follows(del[k], k)
      BY <2>1, <2>3
    <3>2. PICK w, e : w = WriterHeader(writer, code) /\ e = HeaderSeen(del[k], k, code)
      OBVIOUS
    <3>3. /\ e \in DelegatorStates
          /\ Len(e.seen) = IF k = "header" /\ e.wroteHeader THEN 1 ELSE 0
          /\ ~w.extra /\ ~w.hijacked =>
                /\ e.status = w.status /\ e.written = w.bytes
                /\ e.wroteHeader <=> w.status # 0
                /\ k = "header" /\ e.wroteHeader => e.seen[1] = w.status
      BY <2>1, <2>2, <3>1, <3>2, HeaderStep
    <3> QED BY <2>3, <3>1, <3>2, <3>3, AllFollow
  <2>6. del' \in [Delegating(vec) -> DelegatorStates]
    BY <2>3, <2>5
  <2> QED BY <1>3, <2>4, <2>5, <2>6, StillServing DEF WriteHeader
<1>4. ASSUME NEW n \in Nat, iPhase = "serve", writer' = WriterBytes(writer, n),
             del' = [k \in DOMAIN del |->
                       [ImpliedHeader(del[k], k) EXCEPT !.written = @ + (writer'.bytes - writer.bytes)]],
             UNCHANGED <<iPhase, vec, method, offers, inFlight, records, traced>>
      PROVE  InstrumentInv'
  <2>1. /\ writer \in WriterStates /\ del \in [Delegating(vec) -> DelegatorStates]
        /\ \A k \in Delegating(vec) : Follows(del[k], k)
    BY <1>4 DEF InstrumentInv
  <2>2. PICK w : w = WriterBytes(writer, n)
    OBVIOUS
  <2>3. del' = [k \in Delegating(vec) |-> Counted(ImpliedHeader(del[k], k), w)]
    BY <1>4, <2>1, <2>2 DEF Counted
  <2>4. ASSUME NEW k \in Delegating(vec)
        PROVE  w \in WriterStates /\ w.offers = writer.offers /\ del'[k] \in DelegatorStates /\ Follows(del[k], k)'
    <3>1. PICK e : e = Counted(ImpliedHeader(del[k], k), w)
      OBVIOUS
    <3>2. del'[k] = e /\ del[k] \in DelegatorStates /\ Follows(del[k], k)
      BY <2>1, <2>3, <3>1
    <3>3. /\ w \in WriterStates /\ e \in DelegatorStates /\ w.offers = writer.offers
          /\ Len(e.seen) = IF k = "header" /\ e.wroteHeader THEN 1 ELSE 0
          /\ ~w.extra /\ ~w.hijacked =>
                /\ e.status = w.status /\ e.written = w.bytes
                /\ e.wroteHeader <=> w.status # 0
                /\ k = "header" /\ e.wroteHeader => e.seen[1] = w.status
      BY <2>1, <2>2, <3>1, <3>2, BytesStep
    <3>4. writer' = w
      BY <1>4, <2>2
    <3>5. Follows(del[k], k)'
      BY <3>2, <3>3, <3>4, AllFollow
    <3> QED BY <3>2, <3>3, <3>5
  <2>5. "response" \in Delegating(vec)
    BY DEF Delegating
  <2>6. del' \in [Delegating(vec) -> DelegatorStates] /\ writer' \in WriterStates /\ writer'.offers = writer.offers
    BY <1>4, <2>2, <2>3, <2>4, <2>5
  <2> QED BY <1>4, <2>4, <2>6, StillServing
<1>5. CASE WriteBody
  BY <1>4, <1>5 DEF WriteBody
<1>6. CASE FlushHeader
  <2>1. /\ writer \in WriterStates /\ del \in [Delegating(vec) -> DelegatorStates]
    BY <1>6 DEF FlushHeader, InstrumentInv
  <2>2. writer' = WriterBytes(writer, 0)
    BY <1>6 DEF FlushHeader
  <2>3. writer'.bytes - writer.bytes = 0
    <3>1. writer.bytes \in Nat
      BY <2>1 DEF WriterStates
    <3>2. writer'.bytes = writer.bytes
      <4>1. CASE writer.hijacked
        BY <2>2, <4>1 DEF WriterBytes
      <4>2. CASE ~writer.hijacked
        BY <2>1, <2>2, <3>1, <4>2 DEF WriterBytes, WriterStates
      <4> QED BY <4>1, <4>2
    <3> QED BY <3>1, <3>2
  <2>4. ASSUME NEW k \in DOMAIN del
        PROVE  ImpliedHeader(del[k], k) =
                 [ImpliedHeader(del[k], k) EXCEPT !.written = @ + (writer'.bytes - writer.bytes)]
    <3>1. del[k] \in DelegatorStates
      BY <2>1
    <3>2. PICK i : i = ImpliedHeader(del[k], k)
      OBVIOUS
    <3>3. i \in DelegatorStates
      <4>1. PICK x \in Seq(Nat) :
              x = IF k = "header" /\ ~del[k].wroteHeader THEN Append(del[k].seen, 200) ELSE del[k].seen
        <5>1. del[k].seen \in Seq(Nat)
          BY <3>1 DEF DelegatorStates
        <5>2. Append(del[k].seen, 200) \in Seq(Nat)
          BY <5>1
        <5> QED BY <5>1, <5>2
      <4>2. i = IF del[k].wroteHeader THEN del[k]
                ELSE [del[k] EXCEPT !.seen = x, !.status = 200, !.wroteHeader = TRUE]
        BY <3>2, <4>1 DEF ImpliedHeader, HeaderSeen
      <4>3. CASE del[k].wroteHeader
        BY <3>1, <4>2, <4>3
      <4>4. CASE ~del[k].wroteHeader
        <5>1. i = [del[k] EXCEPT !.seen = x, !.status = 200, !.wroteHeader = TRUE]
          BY <4>2, <4>4
        <5> QED BY <3>1, <5>1, ImpliedState
      <4> QED BY <4>3, <4>4
    <3>4. i.written \in Nat /\ i.written + (writer'.bytes - writer.bytes) = i.written
      BY <2>3, <3>3 DEF DelegatorStates
    <3>5. i = [i EXCEPT !.written = i.written]
      BY <3>3 DEF DelegatorStates
    <3> QED BY <3>2, <3>4, <3>5
  <2>5. del' = [k \in DOMAIN del |->
                  [ImpliedHeader(del[k], k) EXCEPT !.written = @ + (writer'.bytes - writer.bytes)]]
    BY <1>6, <2>4 DEF FlushHeader
  <2> QED BY <1>4, <1>6, <2>2, <2>5 DEF FlushHeader
<1>7. CASE Hijack
  <2>1. /\ iPhase = "serve" /\ writer \in WriterStates /\ del \in [Delegating(vec) -> DelegatorStates]
        /\ \A k \in Delegating(vec) : Follows(del[k], k)
    BY <1>7 DEF Hijack, InstrumentInv
  <2>2. writer' = [writer EXCEPT !.hijacked = TRUE]
    BY <1>7 DEF Hijack
  <2>3. writer' \in WriterStates /\ writer'.offers = writer.offers /\ writer'.hijacked
    BY <2>1, <2>2 DEF WriterStates
  <2>4. \A k \in Delegating(vec) : Follows(del[k], k)'
    BY <1>7, <2>1, <2>3 DEF Follows, Hijack
  <2> QED BY <1>7, <2>1, <2>3, <2>4, StillServing DEF Hijack
<1>8. CASE Return
  <2>1. /\ iPhase = "serve" /\ iPhase' = "returned" /\ inFlight' = 0 /\ writer' = writer /\ vec' = vec
        /\ del' = del /\ records' = [k \in Server |-> Reported(k)]
    BY <1>8 DEF Return, InstrumentInv
  <2>2. \A k \in Server : records'[k] = Reported(k)
    BY <2>1
  <2>3. "response" \in Delegating(vec) /\ Follows(del["response"], "response")
    BY <2>1 DEF Delegating, InstrumentInv
  <2>4. ~writer.extra /\ ~writer.hijacked => del["response"].written = writer.bytes
    BY <2>3 DEF Follows
  <2>5. ReportedAsSent'
    BY <1>h, <2>1, <2>2, <2>4, Reports DEF ReportedAsSent
  <2> QED BY <2>1, <2>5 DEF InstrumentInv, Unreported
<1>9. CASE Panic
  <2>1. /\ iPhase = "serve" /\ iPhase' = "panicked" /\ inFlight' = 0 /\ writer' = writer /\ vec' = vec
        /\ records' = [NoRecords EXCEPT !["header"] = Reported("header")]
    BY <1>9 DEF Panic, InstrumentInv
  <2>2. \A k \in Server : records'[k] = IF k = "header" THEN Reported("header") ELSE NoRecords[k]
    BY <2>1 DEF NoRecords
  <2>3. ReportedAsSent'
    BY <1>0, <1>h, <2>1, <2>2, Reports DEF ReportedAsSent
  <2> QED BY <2>1, <2>3 DEF InstrumentInv, Unreported
<1>10. CASE Send \/ SendFails \/ \E e \in TraceEvents, f \in BOOLEAN : Trace(e, f)
  <2>1. /\ vec' = vec /\ writer' = writer /\ records' = records /\ records = NoRecords
        /\ iPhase' \in {"send", "failed"}
        /\ inFlight' = IF iPhase' = "send" THEN 1 ELSE 0
        /\ iPhase' = "send" => CheckLabels(vec)
    BY <1>10 DEF Send, SendFails, Trace, InstrumentInv, Unreported
  <2>2. ReportedAsSent'
    BY <1>0, <1>h, <2>1 DEF ReportedAsSent
  <2> QED BY <2>1, <2>2 DEF InstrumentInv, Unreported
<1>11. ASSUME NEW code \in StatusCodes, Respond(code) PROVE InstrumentInv'
  <2>1. /\ iPhase = "send" /\ iPhase' = "answered" /\ vec' = vec /\ inFlight' = 0 /\ CheckLabels(vec)
        /\ writer' = [writer EXCEPT !.status = code] /\ writer \in WriterStates
        /\ records' = [k \in Server |-> IF k \in Client THEN <<LabelsOf(vec, method, code)>> ELSE <<>>]
    BY <1>11 DEF Respond, InstrumentInv
  <2>2. writer' \in WriterStates /\ writer'.status = code
    BY <2>1, InstrumentAssumption DEF WriterStates
  <2>3. ASSUME NEW k \in Server, NEW i \in DOMAIN records'[k]
        PROVE  records'[k][i] = LabelsOf(vec, method, code)
    BY <2>1, <2>3
  <2>4. Len(records'["header"]) = 0
    BY <1>h, <2>1 DEF Client
  <2>5. ReportedAsSent'
    BY <2>1, <2>2, <2>3, <2>4, LabelsFit DEF ReportedAsSent
  <2> QED BY <2>1, <2>2, <2>5 DEF InstrumentInv, Unreported
<1>12. CASE UNCHANGED iVars
  <2>1. ReportedAsSent'
    BY <1>12 DEF iVars, InstrumentInv, ReportedAsSent
  <2>2. \A k \in Delegating(vec) : Follows(del[k], k) => Follows(del[k], k)'
    BY <1>12 DEF iVars, Follows
  <2> QED BY <1>12, <2>1, <2>2 DEF iVars, InstrumentInv
<1> QED BY <1>1, <1>2, <1>3, <1>5, <1>6, <1>7, <1>8, <1>9, <1>10, <1>11, <1>12 DEF InstrumentNext

\* Every middleware reports a request once, by the status and with the bytes that went out,
\* whatever the handler calls, however it ends and whichever interfaces the writer has.
THEOREM MiddlewaresReport == InstrumentInit /\ [][InstrumentNext]_iVars => []ReportedAsSent
<1>1. InstrumentInit => InstrumentInv
  <2> SUFFICES ASSUME InstrumentInit PROVE InstrumentInv
    OBVIOUS
  <2>1. writer \in WriterStates /\ writer.status = 0 /\ writer.bytes = 0
    BY InstrumentAssumption DEF InstrumentInit, WriterStates
  <2>2. "header" \in Server
    BY DEF Server
  <2>3. ReportedAsSent
    BY <2>2, NoRecordsYet DEF InstrumentInit, ReportedAsSent
  <2> QED BY <2>1, <2>3 DEF InstrumentInit, InstrumentInv
<1>2. InstrumentInv => ReportedAsSent
  BY DEF InstrumentInv
<1> QED BY <1>1, <1>2, InstrumentStep, PTL
=============================================================================
