-------------------------- MODULE MCResultPublisher --------------------------
(***************************************************************************)
(* Instances of ResultPublisher for TLC.                                   *)
(***************************************************************************)
EXTENDS ResultPublisher

CONSTANTS j1, t1

OneTrip == [j \in Jobs |-> t1]
ProcessJobs == [j \in Jobs |-> "process"]
Timeouts == [k \in Kinds |-> 1]
PubOutcomes ==
    {[status |-> "COMPLETED", code |-> "RESULT", fits |-> TRUE],
     [status |-> "FAILED", code |-> "ERROR", fits |-> TRUE]}
=============================================================================
