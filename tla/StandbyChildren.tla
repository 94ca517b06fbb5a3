-------------------------- MODULE StandbyChildren --------------------------
(***************************************************************************)
(* The standby children of process runners (StandbyChildren, runner_loop   *)
(* and run_photo_batch of app/jobs/runner.py, standby of                   *)
(* app/jobs/execution.py) and their end with the runner                    *)
(* (app/jobs/process_guard.py).                                            *)
(*                                                                         *)
(* A task is a claimed job or a photo batch.  What a child does with it is *)
(* in JobRunners and PhotoBatches.  A standby child is "waiting", or it    *)
(* has died: "broken" as long as the runner's event loop has not noticed,  *)
(* "dead" from then on.                                                    *)
(***************************************************************************)
EXTENDS PlaceIndexFile, Sequences, SequencesExt

CONSTANTS Size     \* JOBS_PROCESS_STANDBY

ASSUME StandbyAssumption == Size \in Nat \ {0}

VARIABLES
    hostLoop,      \* where runner_loop is
    pool,          \* children: the standby children, the oldest first
    hostChild,     \* the child that was started for the task
    given          \* history: children that have got the task

standbyVars == <<hostLoop, pool, hostChild, given>>
hostVars == <<indexVars, standbyVars>>

In(r, pc) == hostLoop[r] = pc
Enters(r, pc) == hostLoop' = [hostLoop EXCEPT ![r] = pc]
IsAlive(c) == c # "dead"

\* SelectSeq(children, IsAlive), as a recursive function that can be reasoned
\* about.
Alive(children) ==
    LET kept[n \in 0 .. Len(children)] ==
            IF n = 0 THEN <<>>
            ELSE IF IsAlive(children[n]) THEN Append(kept[n - 1], children[n])
            ELSE kept[n - 1]
    IN  kept[Len(children)]

Oldest(r) == SelectInSeq(pool[r], IsAlive)
Behind(r) == SubSeq(pool[r], Oldest(r) + 1, Len(pool[r]))

\* prepare_place_index is done before the first child is started.
StartLoop(r) ==
    /\ In(r, "off") /\ At(r, "ready")
    /\ Enters(r, "fill")
    /\ UNCHANGED <<indexVars, pool, hostChild, given>>

Filling(r) == hostLoop[r] \in {"fill", "refill"}
Filled(r) == Enters(r, IF In(r, "fill") THEN "poll" ELSE "supervise")

FillOne(r) ==
    /\ Filling(r) /\ Len(pool[r]) < Size
    /\ pool' = [pool EXCEPT ![r] = Append(@, "waiting")]
    /\ UNCHANGED <<indexVars, hostLoop, hostChild, given>>

\* The pool is full, or no process can be started now.
FillEnds(r) ==
    /\ Filling(r)
    /\ Filled(r)
    /\ UNCHANGED <<indexVars, pool, hostChild, given>>

ClaimTask(r) ==
    /\ In(r, "poll")
    /\ Enters(r, "start")
    /\ given' = [given EXCEPT ![r] = 0]
    /\ UNCHANGED <<indexVars, pool, hostChild>>

Started(r, children) ==
    /\ hostChild' = [hostChild EXCEPT ![r] = "alive"]
    /\ given' = [given EXCEPT ![r] = @ + 1]
    /\ pool' = [pool EXCEPT ![r] = Alive(children)]
    /\ Enters(r, "refill")

\* take skips children that are known to be dead; writing to a broken one
\* fails, and a new process is started instead.
Handoff(r) ==
    /\ In(r, "start") /\ Oldest(r) # 0
    /\ IF pool[r][Oldest(r)] = "waiting" THEN Started(r, Behind(r))
       ELSE /\ pool' = [pool EXCEPT ![r] = Behind(r)]
            /\ Enters(r, "spawn")
            /\ UNCHANGED <<hostChild, given>>
    /\ UNCHANGED indexVars

NoneTaken(r) == In(r, "spawn") \/ (In(r, "start") /\ Oldest(r) = 0)
Left(r) == IF In(r, "spawn") THEN pool[r] ELSE <<>>

SpawnFresh(r) ==
    /\ NoneTaken(r)
    /\ Started(r, Left(r))
    /\ UNCHANGED indexVars

\* The job waits for its lease to end, a batch is given up.
SpawnFails(r) ==
    /\ NoneTaken(r)
    /\ pool' = [pool EXCEPT ![r] = Left(r)]
    /\ Enters(r, "poll")
    /\ UNCHANGED <<indexVars, hostChild, given>>

\* The child has exited, or supervise or the time limit of a batch stops it.
TaskEnds(r) ==
    /\ In(r, "supervise")
    /\ hostChild' = [hostChild EXCEPT ![r] = "none"]
    /\ Enters(r, "poll")
    /\ UNCHANGED <<indexVars, pool, given>>

CancelLoop_OnlySupervised(r) ==
    /\ hostLoop[r] \notin {"off", "close"}
    /\ hostChild' = [hostChild EXCEPT ![r] = IF In(r, "supervise") THEN "none" ELSE @]
    /\ Enters(r, "close")
    /\ UNCHANGED <<indexVars, pool, given>>

\* SIGTERM cancels the loop: start stops the child during the refill, and
\* supervise or run_photo_batch during its work.  Then the failure is stored.
CancelLoop(r) ==
    /\ hostLoop[r] \notin {"off", "close"}
    /\ hostChild' = [hostChild EXCEPT ![r] = "none"]
    /\ Enters(r, "close")
    /\ UNCHANGED <<indexVars, pool, given>>

CloseOne(r) ==
    /\ In(r, "close") /\ pool[r] # <<>>
    /\ pool' = [pool EXCEPT ![r] = Front(@)]
    /\ UNCHANGED <<indexVars, hostLoop, hostChild, given>>

\* The runner has closed its pool, or is killed: the kernel kills its
\* children with it.  Its container is started again.
RunnerEnds(r) ==
    /\ In(r, "close") /\ pool[r] = <<>>
    /\ Leaves(r) /\ Enters(r, "off")
    /\ UNCHANGED <<pool, hostChild, given>>

RunnerKilled(r) ==
    /\ Leaves(r) /\ Enters(r, "off")
    /\ pool' = [pool EXCEPT ![r] = <<>>]
    /\ hostChild' = [hostChild EXCEPT ![r] = "none"]
    /\ UNCHANGED given

StandbyDies(r) ==
    /\ \E i \in DOMAIN pool[r] :
          pool' = [pool EXCEPT ![r][i] = IF @ = "waiting" THEN "broken" ELSE "dead"]
    /\ UNCHANGED <<indexVars, hostLoop, hostChild, given>>

-----------------------------------------------------------------------------
HostInit ==
    /\ IndexInit
    /\ hostLoop = [r \in HostRunners |-> "off"]
    /\ pool = [r \in HostRunners |-> <<>>]
    /\ hostChild = [r \in HostRunners |-> "none"]
    /\ given = [r \in HostRunners |-> 0]

HostNext ==
    \E r \in HostRunners :
        \/ Prepare(r) /\ UNCHANGED standbyVars
        \/ StartLoop(r) \/ FillOne(r) \/ FillEnds(r)
        \/ ClaimTask(r) \/ Handoff(r) \/ SpawnFresh(r) \/ SpawnFails(r) \/ TaskEnds(r)
        \/ CancelLoop(r) \/ CloseOne(r) \/ RunnerEnds(r) \/ RunnerKilled(r)
        \/ StandbyDies(r)

HostSpec == HostInit /\ [][HostNext]_hostVars

-----------------------------------------------------------------------------
(* Property                                                                *)

\* StandbyChildren.start: a task is given to one child only, although a
\* standby child may be dead and refilling the pool may fail or be canceled;
\* a child works only as long as its runner waits for it, so none goes on
\* with a job that was given up; and there are never more children than the
\* pool and one.
OneChildPerTask ==
    \A r \in HostRunners :
        /\ given[r] <= 1
        /\ hostChild[r] # "none" => hostLoop[r] \in {"refill", "supervise"}
        /\ Len(pool[r]) <= Size
        /\ In(r, "off") => pool[r] = <<>>
=============================================================================
