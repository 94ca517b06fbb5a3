---------------------------- MODULE MCJobRunners ----------------------------
(***************************************************************************)
(* Instances of JobRunners for TLC: story runners, which can be drained,   *)
(* canceled and killed.                                                    *)
(***************************************************************************)
EXTENDS JobRunners

CONSTANTS j1, r1, r2

OneJob == {j1}
OwnTrip == [j \in Jobs |-> j]
StoryJobs == [j \in Jobs |-> "story"]
TwoRunners == {r1, r2}
StoryRunners == [r \in Runners |-> "story"]
Timeouts == [k \in Kinds |-> 2]
StoryOutcomes == Handed
=============================================================================
