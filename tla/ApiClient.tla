----------------------------- MODULE ApiClient -----------------------------
(***************************************************************************)
(* The client of the Prometheus HTTP API: api.httpClient.Do, which reads    *)
(* the body in a goroutine of its own while it watches the context;         *)
(* apiClientImpl.Do and DoGetFallback of v1, which make an error of a       *)
(* status or of what the body says; and the endpoints of httpAPI, which     *)
(* decode the data. The server is modelled from what these expect of it.    *)
(***************************************************************************)
EXTENDS Naturals, Sequences

CONSTANTS
    Endpoints,      \* the endpoints that are called
    ParamSets,      \* the parameters that a caller gives: subsets of their names
    ResponseCodes   \* what the server, or a proxy before it, may answer with

VARIABLES
    ask,       \* the call: endpoint and parameters
    apiPc,     \* where the call is
    cancelled, \* ctx is cancelled
    resp,      \* the response that was received last
    reader,    \* the goroutine that reads its body
    requests,  \* the requests that were sent
    ret        \* what the call returned

aVars == <<ask, apiPc, cancelled, resp, reader, requests, ret>>

-----------------------------------------------------------------------------
(* The endpoints: whether they go through DoGetFallback, the method if not,  *)
(* whether they decode the data, and the parameters they take.               *)

StartEnd == {"start", "end"}

\* addOptionalURLParams: an option that was not given, or given as zero, is left out.
OptionalURLParams == {"timeout", "lookback_delta", "stats", "limit"}

Plain(m, decodes, params) == [fallback |-> FALSE, method |-> m, decodes |-> decodes, params |-> params]
Fallback(decodes, params) == [fallback |-> TRUE, method |-> "POST", decodes |-> decodes, params |-> params]

Status(e) ==
    CASE e \in {"Alerts", "AlertManagers", "Config", "Flags", "Buildinfo", "Runtimeinfo"} -> Plain("GET", TRUE, {})
      [] e = "CleanTombstones" -> Plain("POST", FALSE, {})
      [] e = "DeleteSeries" -> Plain("POST", FALSE, StartEnd \cup {"match[]"})

LabelEndpoint(e) ==
    CASE e = "LabelNames" -> Fallback(TRUE, OptionalURLParams \cup StartEnd \cup {"match[]"})
      [] e = "LabelValues" -> Plain("GET", TRUE, OptionalURLParams \cup StartEnd \cup {"match[]"})

QueryEndpoint(e) ==
    CASE e = "Query" -> Fallback(TRUE, OptionalURLParams \cup {"query", "time"})
      [] e = "QueryRange" -> Fallback(TRUE, OptionalURLParams \cup StartEnd \cup {"query", "step"})
      [] e = "Series" -> Fallback(TRUE, OptionalURLParams \cup StartEnd \cup {"match[]"})
      [] e = "Snapshot" -> Plain("POST", TRUE, {"skip_head"})
      [] e = "Rules" -> Plain("GET", TRUE, {"match[]"})

MetadataEndpoint(e) ==
    CASE e \in {"Targets", "TSDBBlocks", "WalReplay"} -> Plain("GET", TRUE, {})
      [] e = "TargetsMetadata" -> Plain("GET", TRUE, {"match_target", "metric", "limit"})
      [] e = "Metadata" -> Plain("GET", TRUE, {"metric", "limit"})
      [] e = "TSDB" -> Plain("GET", TRUE, OptionalURLParams)
      [] e = "QueryExemplars" -> Fallback(TRUE, StartEnd \cup {"query"})
      [] e = "FormatQuery" -> Fallback(FALSE, {"query"})

LabelEndpoints == {"LabelNames", "LabelValues"}
QueryEndpoints == {"Query", "QueryRange", "Series", "Snapshot", "Rules"}
StatusEndpoints == {"Alerts", "AlertManagers", "Config", "Flags", "Buildinfo", "Runtimeinfo",
                    "CleanTombstones", "DeleteSeries"}
MetadataEndpoints == {"Targets", "TSDBBlocks", "WalReplay", "TargetsMetadata", "Metadata", "TSDB",
                      "QueryExemplars", "FormatQuery"}

Endpoint(e) ==
    IF e \in LabelEndpoints THEN LabelEndpoint(e)
    ELSE IF e \in QueryEndpoints THEN QueryEndpoint(e)
    ELSE IF e \in StatusEndpoints THEN Status(e)
    ELSE MetadataEndpoint(e)

ASSUME ApiAssumption ==
    /\ Endpoints \subseteq LabelEndpoints \cup QueryEndpoints \cup StatusEndpoints \cup MetadataEndpoints
    /\ ResponseCodes \subseteq Nat

-----------------------------------------------------------------------------
(* Responses. *)

\* A body: what its status field says, and whether the data is what the endpoint expects.
Bodies == [status : {"success", "error", "none"}, data : BOOLEAN] \cup {[status |-> "no json", data |-> FALSE]}

NoResp == [code |-> 0, body |-> [status |-> "none", data |-> FALSE]]

ApiError(code) == code \in {422, 400}

ErrorTypeFor(code) == CASE code \div 100 = 4 -> "client_error"
                        [] code \div 100 = 5 -> "server_error"
                        [] OTHER -> "bad_response"

\* apiClientImpl.Do, after the body was read: "nil" or the type of the error. A body
\* that says neither success nor error is no error, whatever the code.
DoError(r) ==
    IF r.code \div 100 # 2 /\ ~ApiError(r.code) THEN ErrorTypeFor(r.code)
    ELSE IF r.code = 204 THEN "nil"
    ELSE IF r.body.status = "no json" \/ (ApiError(r.code) /\ r.body.status = "success") THEN "bad_response"
    ELSE IF r.body.status = "error" THEN "error" ELSE "nil"

\* Mutation of FallsBack: only where the method is not allowed.
FallsBack_MethodOnly(code) == code = 405
\* The answers upon which the request is made again with GET.
FallsBack(code) == code \in {403, 405, 501}

\* Without data there is nothing to decode, which is an error too.
Decoded(r) == r.code # 204 /\ r.body.data

-----------------------------------------------------------------------------
ApiInit ==
    /\ ask \in [endpoint : Endpoints, params : ParamSets]
    /\ apiPc = "idle"
    /\ cancelled = FALSE
    /\ resp = NoResp
    /\ reader = "none"
    /\ requests = <<>>
    /\ ret = "none"

Sent(m) == Append(requests, [method |-> m, params |-> ask.params \cap Endpoint(ask.endpoint).params])

CallApi ==
    /\ apiPc = "idle"
    /\ apiPc' = "sent"
    /\ requests' = Sent(Endpoint(ask.endpoint).method)
    /\ UNCHANGED <<ask, cancelled, resp, reader, ret>>

CancelApi ==
    /\ apiPc \notin {"idle", "end"} /\ ~cancelled
    /\ cancelled' = TRUE
    /\ UNCHANGED <<ask, apiPc, resp, reader, requests, ret>>

ReturnApi(result) == apiPc' = "end" /\ ret' = result

\* client.Do fails, of itself or as the context is cancelled.
SendError ==
    /\ apiPc = "sent"
    /\ ReturnApi("transport")
    /\ UNCHANGED <<ask, cancelled, resp, reader, requests>>

\* The header of the response is there, and a goroutine reads the body. One of the first
\* request that still does was left behind by a cancelled context: nothing more arrives.
HeaderArrives ==
    /\ apiPc = "sent" /\ reader \in {"none", "done", "failed"}
    /\ \E c \in ResponseCodes, b \in Bodies : resp' = [code |-> c, body |-> b]
    /\ apiPc' = "select"
    /\ reader' = "reading"
    /\ UNCHANGED <<ask, cancelled, requests, ret>>

\* The body is read to its end or up to an error. Do closes the body when it returns, so
\* that a reader that is left behind ends, too.
BodyRead ==
    /\ reader = "reading"
    /\ reader' \in {"done", "failed"}
    /\ UNCHANGED <<ask, apiPc, cancelled, resp, requests, ret>>

\* DoGetFallback asks again, with the parameters in the URL, whether or not the body of
\* the first answer could be read.
AfterDo(result) ==
    IF Endpoint(ask.endpoint).fallback /\ Len(requests) = 1 /\ FallsBack(resp.code)
    THEN apiPc' = "sent" /\ requests' = Sent("GET") /\ UNCHANGED ret
    ELSE /\ UNCHANGED requests
         /\ ReturnApi(IF result = "nil" /\ Endpoint(ask.endpoint).decodes /\ ~Decoded(resp)
                      THEN "decode" ELSE result)

\* Mutation of SelectDone: the end of the body is not waited for.
SelectDone_Early == reader \in {"reading", "done"} /\ AfterDo(DoError(resp))
SelectDone == \/ reader = "done" /\ AfterDo(DoError(resp))
              \/ reader = "failed" /\ AfterDo("transport")

\* The select of httpClient.Do: with both channels ready, either.
SelectApi ==
    /\ apiPc = "select"
    /\ SelectDone \/ (cancelled /\ AfterDo("transport"))
    /\ UNCHANGED <<ask, cancelled, resp, reader>>

ApiNext == CallApi \/ CancelApi \/ SendError \/ HeaderArrives \/ BodyRead \/ SelectApi

\* The transport and the goroutines make progress.
CallerGoesOn == SendError \/ HeaderArrives \/ SelectApi
ApiSpec == ApiInit /\ [][ApiNext]_aVars /\ WF_aVars(CallerGoesOn) /\ WF_aVars(BodyRead)

-----------------------------------------------------------------------------
\* A call without error had a whole body of a 2xx answer that does not say "error" - or
\* one of 400 or 422 that says nothing, where no data is decoded; the answers to the
\* first request and to the fallback are not mixed up. GET is tried second, only where
\* the first answer was 403, 405 or 501, and with the same parameters; and a call whose
\* server answers GET does not fail because POST was refused.
ApiHonest ==
    /\ ret = "nil" =>
         /\ reader = "done"
         /\ resp.code \div 100 = 2 \/
              (ApiError(resp.code) /\ resp.body.status = "none"
               /\ (Endpoint(ask.endpoint).decodes => resp.body.data))
         /\ resp.code # 204 => resp.body.status \in {"success", "none"}
         /\ Endpoint(ask.endpoint).decodes => resp.body.data
    /\ Len(requests) <= 2
    /\ Len(requests) = 2 => /\ requests[1].method = "POST" /\ requests[2].method = "GET"
                            /\ requests[1].params = requests[2].params
    /\ ret # "none" /\ Endpoint(ask.endpoint).fallback /\ FallsBack(resp.code) => Len(requests) = 2
    /\ ret = "client_error" /\ Endpoint(ask.endpoint).fallback => resp.code \notin {403, 405} \/ Len(requests) = 2

\* A call returns, and the goroutine that reads the body ends.
Asking == apiPc \notin {"idle", "end"}
Reading == reader = "reading"
ApiReturns == (Asking ~> ~Asking) /\ (Reading ~> ~Reading)
=============================================================================
