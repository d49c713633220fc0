------------------------------- MODULE Pusher -------------------------------
(***************************************************************************)
(* push.Pusher: a job collects its metrics, adds a grouping key, and pushes *)
(* to a Pushgateway, which keeps what was pushed under each key. Requests   *)
(* and answers may be lost, and the gateway may refuse. The gateway is      *)
(* modelled from what Push, Add and Delete say of it.                       *)
(***************************************************************************)
EXTENDS Naturals, FiniteSets

CONSTANTS
    PushCollectors,  \* collectors: [name, label]; the label, if any, is one of their metrics'
    PushGatherers,   \* gatherers, described in the same way
    GroupLabels,     \* label names used for grouping, valid or not
    ValidLabels,     \* those that are valid
    GroupValues,     \* their values
    WithSlash,       \* the values that contain a slash
    MaxPushCalls     \* bound on the calls of methods of the Pusher

\* The text that stands for an empty value has no slash.
ASSUME PusherAssumption == "=" \notin WithSlash

VARIABLES
    pusher,    \* error, grouping, collectors and gatherers of the Pusher
    gateway,   \* what the gateway keeps: by key, the version of each metric
    version,   \* grows whenever the job's metrics change
    pushing,   \* the request under way
    pushed,    \* what the last call returned, and what it was about
    pushCalls  \* calls so far

pVars == <<pusher, gateway, version, pushing, pushed, pushCalls>>

NoLabel == "none"
NoPush == [method |-> "none"]

\* New: an empty job name is an error.
PusherInit ==
    /\ \E emptyJob \in BOOLEAN :
         pusher = [error |-> emptyJob, grouping |-> << >>, collectors |-> {}, gatherers |-> {}]
    /\ gateway = << >>
    /\ version = 0
    /\ pushing = NoPush
    /\ pushed = [method |-> "none", ok |-> FALSE, mfs |-> << >>, before |-> << >>]
    /\ pushCalls = 0

Calling == pushing = NoPush /\ pushCalls < MaxPushCalls /\ pushCalls' = pushCalls + 1

\* The metrics of the job change between two calls.
Work ==
    /\ version < 1
    /\ version' = version + 1
    /\ UNCHANGED <<pusher, gateway, pushing, pushed, pushCalls>>

-----------------------------------------------------------------------------
(* Configuration. The first error stays, and nothing is added after it. *)

\* Registering a collector a second time is an error.
Collector(c) ==
    /\ Calling
    /\ pusher' = IF pusher.error THEN pusher
                 ELSE IF \E d \in pusher.collectors : d.name = c.name THEN [pusher EXCEPT !.error = TRUE]
                 ELSE [pusher EXCEPT !.collectors = @ \cup {c}]
    /\ UNCHANGED <<gateway, version, pushing, pushed>>

Gatherer(g) ==
    /\ Calling
    /\ pusher' = [pusher EXCEPT !.gatherers = @ \cup {g}]
    /\ UNCHANGED <<gateway, version, pushing, pushed>>

With(f, k, v) == [x \in DOMAIN f \cup {k} |-> IF x = k THEN v ELSE f[x]]

Grouping(l, v) ==
    /\ Calling
    /\ pusher' = IF pusher.error THEN pusher
                 ELSE IF l \notin ValidLabels THEN [pusher EXCEPT !.error = TRUE]
                 ELSE [pusher EXCEPT !.grouping = With(@, l, v)]
    /\ UNCHANGED <<gateway, version, pushing, pushed>>

-----------------------------------------------------------------------------
(* The key in the path of the URL. *)

\* An empty value and one with a slash are encoded, and the label name says so.
EncodeComponent(v) == [base64 |-> v = "" \/ v \in WithSlash, text |-> IF v = "" THEN "=" ELSE v]

\* Mutation of FullURL: one label of the grouping key.
FullURL_FirstOnly(g) == IF g = << >> THEN << >>
                        ELSE LET l == CHOOSE l \in DOMAIN g : TRUE IN [x \in {l} |-> EncodeComponent(g[l])]
FullURL(g) == [l \in DOMAIN g |-> EncodeComponent(g[l])]

\* What the gateway makes of the path.
KeyOf(url) == [l \in DOMAIN url |-> IF url[l].base64 /\ url[l].text = "=" THEN "" ELSE url[l].text]

-----------------------------------------------------------------------------
(* Push, Add and Delete. *)

Sources == pusher.collectors \cup pusher.gatherers

Mfs == [n \in {c.name : c \in Sources} |-> version]

\* A metric must not have the job label or one of the grouping labels already.
Conflict == \E c \in Sources : c.label \in {"job"} \cup DOMAIN pusher.grouping

Before == IF pusher.grouping \in DOMAIN gateway THEN gateway[pusher.grouping] ELSE << >>

Returns(m, ok, mfs) == pushed' = [method |-> m, ok |-> ok, mfs |-> mfs, before |-> Before]

\* push: an earlier error, a failing gather and a conflict end it before anything is sent.
StartPush(m) ==
    /\ Calling
    /\ \/ /\ ~pusher.error /\ ~Conflict
          /\ pushing' = [method |-> m, url |-> FullURL(pusher.grouping), mfs |-> Mfs]
          /\ UNCHANGED pushed
       \/ /\ Returns(m, FALSE, Mfs)
          /\ UNCHANGED pushing
    /\ UNCHANGED <<pusher, gateway, version>>

\* Delete ignores the collectors.
StartDelete ==
    /\ Calling
    /\ \/ /\ ~pusher.error
          /\ pushing' = [method |-> "DELETE", url |-> FullURL(pusher.grouping), mfs |-> << >>]
          /\ UNCHANGED pushed
       \/ /\ pusher.error
          /\ Returns("DELETE", FALSE, << >>)
          /\ UNCHANGED pushing
    /\ UNCHANGED <<pusher, gateway, version>>

\* The gateway (external): PUT replaces the group, POST the metrics of the same name.
Merged(old, new) == [n \in DOMAIN old \cup DOMAIN new |-> IF n \in DOMAIN new THEN new[n] ELSE old[n]]
GatewayAfter(p) ==
    LET k == KeyOf(p.url) IN
    CASE p.method = "PUT" -> With(gateway, k, p.mfs)
      [] p.method = "POST" -> With(gateway, k, Merged(IF k \in DOMAIN gateway THEN gateway[k] ELSE << >>, p.mfs))
      [] p.method = "DELETE" -> [x \in DOMAIN gateway \ {k} |-> gateway[x]]

\* Push and Add take 200 and 202 for success, Delete only 202.
Accepted(m, status) == status = 202 \/ (status = 200 /\ m # "DELETE")

\* The gateway acts on the request or refuses it. The answer may be lost.
Exchange ==
    /\ pushing # NoPush
    /\ \E status \in {200, 202, 400}, arrives, answered \in BOOLEAN :
         /\ gateway' = IF arrives /\ status # 400 THEN GatewayAfter(pushing) ELSE gateway
         /\ Returns(pushing.method, arrives /\ answered /\ Accepted(pushing.method, status), pushing.mfs)
    /\ pushing' = NoPush
    /\ UNCHANGED <<pusher, version, pushCalls>>

PusherNext ==
    \/ Work \/ StartDelete \/ Exchange
    \/ \E c \in PushCollectors : Collector(c)
    \/ \E g \in PushGatherers : Gatherer(g)
    \/ \E l \in GroupLabels, v \in GroupValues : Grouping(l, v)
    \/ \E m \in {"PUT", "POST"} : StartPush(m)

-----------------------------------------------------------------------------
\* What a call reports is what the gateway has under the grouping key set so far: all
\* and only what was gathered after Push, that and what else was there after Add,
\* nothing after Delete. Once a method failed to configure the Pusher nothing is sent.
PushIsKept ==
    [][/\ pushed'.ok /\ pushing # NoPush /\ pushing' = NoPush =>
            LET k == pusher.grouping
                now == IF k \in DOMAIN gateway' THEN gateway'[k] ELSE << >> IN
            CASE pushed'.method = "PUT" -> now = pushed'.mfs
              [] pushed'.method = "POST" -> now = Merged(pushed'.before, pushed'.mfs)
              [] pushed'.method = "DELETE" -> k \notin DOMAIN gateway'
              [] OTHER -> FALSE
       /\ pusher.error => pushing' = NoPush /\ pusher'.error /\ UNCHANGED gateway]_pVars
=============================================================================
