---------------------------- MODULE MCKafkaIntake ----------------------------
(***************************************************************************)
(* Instances of KafkaIntake for TLC.  The log holds two requests of one    *)
(* trip, the second one sent twice by its producer, a request with an      *)
(* invalid body, and two messages that no check accepts; the second of     *)
(* them is too large for the DLT.                                          *)
(***************************************************************************)
EXTENDS KafkaIntake

CONSTANTS j1, j2, j3, j4, t1, t2

TripsOfJobs == [j \in Jobs |-> IF j \in {j3, j4} THEN t2 ELSE t1]
ProcessJobs == [j \in Jobs |-> "process"]
Timeouts == [k \in Kinds |-> 1]
Log == <<j1, NoJob, j2, j3, j2, NoJob, j4>>
=============================================================================
