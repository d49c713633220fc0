-------------------------- MODULE MCTrackedExposer --------------------------
(* Instances of TrackedExposer for TLC. *)
EXTENDS TrackedExposer, TLC

\* Goroutines are interchangeable, and so are the instances of a label set.
Symmetry == Permutations(Writers) \cup Permutations(Instances)

\* Rounds held until they are acknowledged, with every kind of request and the cleanup
\* of idle instances by the exposer itself.
Acknowledged ==
    [type |-> "counter", idleScrapes |-> 1, disableHeartbeat |-> TRUE, heartbeatScrapes |-> 1,
     shardBucket |-> 0, familyBucket |-> 0, delete |-> FALSE,
     kinds |-> {"ack", "final", "peek", "plain"},
     writes |-> 2, lookups |-> 2, deletes |-> 0, rounds |-> 4]

\* Deletions by users and by Options.Delete, with heartbeats.
Deleting(t, kinds) ==
    [type |-> t, idleScrapes |-> 1, disableHeartbeat |-> FALSE, heartbeatScrapes |-> 2,
     shardBucket |-> 1, familyBucket |-> 1, delete |-> TRUE, kinds |-> kinds,
     writes |-> 2, lookups |-> 2, deletes |-> 1, rounds |-> 3]

AllSetups == {Acknowledged, Deleting("counter", {"plain"}), Deleting("histogram", {"ack"})}

\* A request that only peeks, between rounds that are acknowledged, with a deletion.
PeekSetups == {[Acknowledged EXCEPT !.idleScrapes = 0, !.kinds = {"ack", "peek"},
                                    !.deletes = 1, !.rounds = 3]}

\* The shard's heartbeat turn and the family's fall on different scrapes.
TurnSetups == {[Acknowledged EXCEPT !.idleScrapes = 0, !.disableHeartbeat = FALSE,
                                    !.heartbeatScrapes = 2, !.familyBucket = 1, !.kinds = {"ack"}]}

=============================================================================
