--------------------------- MODULE MCProcessHost ---------------------------
(***************************************************************************)
(* Instances for TLC of what surrounds a process job: the photo batches    *)
(* ahead of it in Redis (PhotoBatches: two executions of one trip), or the *)
(* runners of one host with their index file and their standby children    *)
(* (StandbyChildren: two runners of different versions).  The two share no *)
(* state, so a behaviour is one of either part.                            *)
(***************************************************************************)
EXTENDS PhotoBatches, StandbyChildren, TLC

CONSTANTS j1, j2, t1, r1, r2, h1, h2, bad

VARIABLE part

OneTrip == [j \in Jobs |-> t1]
ProcessJobs == [j \in Jobs |-> "process"]
Timeouts == [k \in Kinds |-> 1]
TwoVersions == (r1 :> h1) @@ (r2 :> h2)
PhotoSymmetry == Permutations(Jobs) \cup Permutations(Workers)

MCInit ==
    /\ part \in {"photos", "host"}
    /\ PhotoInit
    /\ HostInit
    /\ part = "photos" => file = NoFile /\ stamp = NoStamp

MCNext ==
    \/ part = "photos" /\ PhotoNext /\ UNCHANGED <<part, hostVars>>
    \/ part = "host" /\ HostNext /\ UNCHANGED <<part, batchVars>>

MCSpec == MCInit /\ [][MCNext]_<<part, batchVars, hostVars>>
=============================================================================
