----------------------------- MODULE MCJobStore -----------------------------
(***************************************************************************)
(* Instances of JobStore for TLC.                                          *)
(***************************************************************************)
EXTENDS JobStoreRefinement, TLC

CONSTANTS j1, j2, j3, t1

\* Two process requests of one trip: they contend for the trip and for the
\* one slot, and every outcome and error code occurs.
PairJobs == {j1, j2}
PairTrips == {t1}
PairTripOf == [j \in PairJobs |-> t1]
PairKindOf == [j \in PairJobs |-> "process"]

\* Three story requests of three trips: they contend for the slots.
StoryJobs == {j1, j2, j3}
StoryTripOf == [j \in StoryJobs |-> j]
StoryKindOf == [j \in StoryJobs |-> "story"]

StorySymmetry == Permutations(StoryJobs)

Timeouts == [k \in Kinds |-> 3]
ShortTimeouts == [k \in Kinds |-> 2]

AnyOutcome ==
    {[status |-> "COMPLETED", code |-> "RESULT", fits |-> TRUE],
     [status |-> "COMPLETED", code |-> "RESULT", fits |-> FALSE],
     [status |-> "FAILED", code |-> "ERROR", fits |-> TRUE],
     [status |-> "CANCELED", code |-> "CANCELED", fits |-> TRUE]}

Success == {[status |-> "COMPLETED", code |-> "RESULT", fits |-> TRUE]}
=============================================================================
