-------------------------- MODULE MCGatherExposer --------------------------
(* Small instances of GatherExposer. *)
EXTENDS GatherExposer

Base == [increments |-> TRUE, disableHeartbeat |-> TRUE, heartbeatScrapes |-> 1,
         idle |-> 1, deletes |-> "vecs", genLabel |-> FALSE, gap |-> 0,
         only |-> "everything", errorOnError |-> FALSE]
Cumulative == [Base EXCEPT !.increments = FALSE, !.genLabel = TRUE, !.gap = 1]

Setup(o, k, a, f, w) == [opts |-> o, kind |-> k, acks |-> a, fails |-> f, writes |-> w]

MCSetups ==
    { Setup(Base, "counter", TRUE, FALSE, 3),
      Setup([Base EXCEPT !.deletes = "callback"], "counter", FALSE, TRUE, 3),
      Setup([Base EXCEPT !.disableHeartbeat = FALSE, !.errorOnError = TRUE], "histogram", FALSE, TRUE, 3),
      Setup(Cumulative, "counter", FALSE, FALSE, 2),
      Setup([Cumulative EXCEPT !.disableHeartbeat = FALSE, !.deletes = "none"], "histogram", FALSE, FALSE, 2),
      Setup([Base EXCEPT !.only = "current"], "gauge", FALSE, FALSE, 1),
      Setup([Base EXCEPT !.only = "accumulating"], "gauge", FALSE, FALSE, 1),
      Setup(Base, "summary", FALSE, TRUE, 2) }
=============================================================================
