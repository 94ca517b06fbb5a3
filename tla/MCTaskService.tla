---------------------------- MODULE MCTaskService ----------------------------
(***************************************************************************)
(* Instances of TaskService for TLC.                                       *)
(***************************************************************************)
EXTENDS TaskService

CONSTANTS p1, p2, p3, t1, t2

\* The first two posts are for one trip, the third for another.
SharedTrip == [p \in Posts |-> IF p = p3 THEN t2 ELSE t1]

Load(posts, deletes, faults) == [sent |-> posts, deletes |-> deletes, faults |-> faults]

\* Two posts of one trip or of two trips, with a DELETE or a fault.
FewPosts == {Load({p1, p2}, 1, 0), Load({p1, p3}, 1, 0), Load({p1, p3}, 0, 1), Load({p1}, 1, 1)}
TwoOfOneTrip == {Load({p1, p2}, 1, 0)}
=============================================================================
