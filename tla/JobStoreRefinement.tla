------------------------- MODULE JobStoreRefinement -------------------------
(***************************************************************************)
(* The store implements the board.  A job on the board is what its record  *)
(* says; tokens, leases, slots, indexes, progress, the clock and the       *)
(* publishers are details of the store.                                    *)
(***************************************************************************)
EXTENDS JobStore

StateOf(j) ==
    CASE rec[j].status = "ABSENT"     -> IF j \in ignored THEN "refused" ELSE "new"
      [] rec[j].status = "QUEUED"     -> "waiting"
      [] rec[j].status = "PROCESSING" -> "running"
      [] IsTerminal(rec[j])           -> "ended"

boardState == [j \in Jobs |-> StateOf(j)]
canceledJobs == {j \in Jobs : rec[j].cancel}
outcomes == [j \in Jobs |-> rec[j].event.status]
publishedJobs == {j \in Jobs : rec[j].published}

Board == INSTANCE JobBoard WITH
            state <- boardState,
            accepted <- sequence,
            place <- order,
            canceled <- canceledJobs,
            result <- outcomes,
            delivered <- publishedJobs

\* RedisJobStore as a whole: every operation, in any order and from callers
\* that are late or dead, is a step of the board or changes nothing that the
\* backend sees.
ImplementsBoard == Board!BoardSpec
=============================================================================
