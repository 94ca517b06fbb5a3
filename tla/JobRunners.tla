----------------------------- MODULE JobRunners -----------------------------
(***************************************************************************)
(* The processes that execute jobs, on top of JobStore.                    *)
(*                                                                         *)
(* A runner (app/jobs/runner.py, runner_loop) claims a job, starts a child *)
(* process for it and supervises the child; the child                      *)
(* (app/jobs/execution.py, run_job and execute) runs the pipeline or story *)
(* handler and stores the result.  Runners are drained, canceled and       *)
(* killed, children die, calls to Redis fail, and time may run out at any  *)
(* point: nothing bounds how long a process waits between two steps.       *)
(*                                                                         *)
(* Every await that the code makes on Redis or on a process is a step      *)
(* boundary here.  The parent's death kills its child (process_guard).     *)
(***************************************************************************)
EXTENDS JobStore

CONSTANTS
    Runners,       \* runner_loop tasks
    RunnerKind,    \* [Runners -> Kinds]
    MaxStops       \* bound: stops, kills and lost replies altogether

\* What a child hands in to finish: the result of the handler, its error or
\* the cancellation.
Handed ==
    {[status |-> "COMPLETED", code |-> "RESULT", fits |-> TRUE],
     [status |-> "FAILED", code |-> "ERROR", fits |-> TRUE],
     [status |-> "CANCELED", code |-> "CANCELED", fits |-> TRUE]}

ASSUME RunnersAssumption ==
    /\ RunnerKind \in [Runners -> Kinds]
    /\ MaxStops \in 0 .. MaxReturns
    /\ Handed \subseteq Outcomes

VARIABLES
    run,       \* the program counter and claimed record of every runner
    child,     \* the child process of every runner
    stop,      \* runners whose stop event is set
    stops,     \* stops, kills and lost replies so far
    starts     \* history: how often the handler was started for a job

procVars == <<run, child, stop, stops, starts>>
runnerVars == <<vars, procVars>>

\* The store operations of other callers.  Recover is also called by every
\* runner before a claim and after a refused heartbeat; as the recovery loops
\* of the replicas call it at any time, those calls add nothing.  Slots become
\* stale only by the previous image (JobStore), which is not deployed here.
OtherCallers ==
    \/ \E j \in Jobs : RegisterBusy(j)
    \/ \E j \in Jobs : RegisterAccepted(j, TRUE)
    \/ \E j \in Jobs : Cancel(j)
    \/ \E j \in Jobs : Recover(j)
    \/ Tick

RunnerPCs == {"idle", "claiming", "starting", "supervising", "canceling",
              "drained", "gone"}

ChildPCs == {"none", "boot", "check", "handler", "saving", "wrapup", "exited"}

NoRun == [pc |-> "idle", job |-> NoJob, token |-> NoOwner]
NoChild == [pc |-> "none", out |-> "NONE"]

ChildAlive(r) == child[r].pc \notin {"none", "exited"}

\* What the runner's record and token say of its job now.
Holds(r) == run[r].job # NoJob /\ Owns(rec[run[r].job], run[r].token)

\* A call of finish by the owner: it stores the outcome, or does nothing
\* when the job is no longer owned.
FinishCall(r, status, code) ==
    IF Holds(r)
    THEN Finish(run[r].job, run[r].token,
                [status |-> status, code |-> code, fits |-> TRUE])
    ELSE UNCHANGED vars

-----------------------------------------------------------------------------
(* The runner: runner_loop and supervise.                                  *)

\* claim has committed, its reply is on the way.
RunnerClaims(r, j) ==
    /\ run[r].pc = "idle"
    /\ r \notin stop
    /\ Claim(RunnerKind[r], j)
    /\ run' = [run EXCEPT ![r] = [pc |-> "claiming", job |-> j,
                                  token |-> claims[j] + 1]]
    /\ UNCHANGED <<child, stop, stops, starts>>

ClaimReturns(r) ==
    /\ run[r].pc = "claiming"
    /\ r \notin stop
    /\ run' = [run EXCEPT ![r].pc = "starting"]
    /\ UNCHANGED <<vars, child, stop, stops, starts>>

GiveBack_AlsoStarted(r) ==
    /\ run[r].pc \in {"claiming", "supervising"}
    /\ r \in stop
    /\ IF Holds(r) THEN ReturnUnstarted(run[r].job, run[r].token)
                   ELSE UNCHANGED vars
    /\ run' = [run EXCEPT ![r].pc = "drained"]
    /\ child' = [child EXCEPT ![r] = NoChild]
    /\ UNCHANGED <<stop, stops, starts>>

\* The stop event was set meanwhile: the job goes back to its place.
GiveBack(r) ==
    /\ run[r].pc = "claiming"
    /\ r \in stop
    /\ IF Holds(r) THEN ReturnUnstarted(run[r].job, run[r].token)
                   ELSE UNCHANGED vars
    /\ run' = [run EXCEPT ![r].pc = "drained"]
    /\ UNCHANGED <<child, stop, stops, starts>>

\* A connection error hides that the claim was made: the runner polls on,
\* and the job waits for its lease to run out.
ClaimReplyLost(r) ==
    /\ run[r].pc = "claiming"
    /\ stops < MaxStops
    /\ stops' = stops + 1
    /\ run' = [run EXCEPT ![r] = NoRun]
    /\ UNCHANGED <<vars, child, stop, starts>>

Spawn(r) ==
    /\ run[r].pc = "starting"
    /\ run' = [run EXCEPT ![r].pc = "supervising"]
    /\ child' = [child EXCEPT ![r] = [pc |-> "boot", out |-> "NONE"]]
    /\ UNCHANGED <<vars, stop, stops, starts>>

Beat(r) ==
    /\ run[r].pc = "supervising"
    /\ ChildAlive(r)
    /\ Holds(r)
    /\ Heartbeat(run[r].job, run[r].token)
    /\ UNCHANGED procVars

BeatRefused_OnlyLost(r) ==
    /\ run[r].pc = "supervising"
    /\ ChildAlive(r)
    /\ ~Holds(r)
    /\ ~IsTerminal(rec[run[r].job])
    /\ run' = [run EXCEPT ![r] = NoRun]
    /\ child' = [child EXCEPT ![r] = NoChild]
    /\ UNCHANGED <<vars, stop, stops, starts>>

\* heartbeat has returned False: the child is stopped (after 5 more seconds
\* when the job has ended), recover runs, and the runner goes on.
BeatRefused(r) ==
    /\ run[r].pc = "supervising"
    /\ ChildAlive(r)
    /\ ~Holds(r)
    /\ run' = [run EXCEPT ![r] = NoRun]
    /\ child' = [child EXCEPT ![r] = NoChild]
    /\ UNCHANGED <<vars, stop, stops, starts>>

\* Spawning fails, or a call to Redis fails while supervising: the child is
\* stopped, and the job waits for its lease to run out.
RunnerRetries(r) ==
    /\ run[r].pc \in {"starting", "supervising"}
    /\ stops < MaxStops
    /\ stops' = stops + 1
    /\ run' = [run EXCEPT ![r] = NoRun]
    /\ child' = [child EXCEPT ![r] = NoChild]
    /\ UNCHANGED <<vars, stop, starts>>

\* The child has exited; a job without a result is WORKER_DEAD.
ChildReaped(r) ==
    /\ run[r].pc = "supervising"
    /\ child[r].pc = "exited"
    /\ FinishCall(r, "FAILED", "ERROR")
    /\ run' = [run EXCEPT ![r] = NoRun]
    /\ child' = [child EXCEPT ![r] = NoChild]
    /\ UNCHANGED <<stop, stops, starts>>

\* drain_story_runners sets the stop event.
StopRequested(r) ==
    /\ RunnerKind[r] = "story"
    /\ r \notin stop
    /\ run[r].pc \notin {"drained", "gone"}
    /\ stops < MaxStops
    /\ stops' = stops + 1
    /\ stop' = stop \cup {r}
    /\ UNCHANGED <<vars, run, child, starts>>

StoppedIdle(r) ==
    /\ run[r].pc = "idle"
    /\ r \in stop
    /\ run' = [run EXCEPT ![r] = [NoRun EXCEPT !.pc = "drained"]]
    /\ UNCHANGED <<vars, child, stop, stops, starts>>

\* The task is canceled (SIGTERM, or the drain has timed out).  Inside claim
\* no record is known yet, and nothing is stored.
RunnerCanceled(r) ==
    /\ run[r].pc \in {"idle", "claiming", "starting", "supervising"}
    /\ stops < MaxStops
    /\ stops' = stops + 1
    /\ run' = [run EXCEPT ![r].pc =
                 IF @ \in {"idle", "claiming"} THEN "gone" ELSE "canceling"]
    /\ child' = [child EXCEPT ![r] = NoChild]
    /\ UNCHANGED <<vars, stop, starts>>

CancelStored_Skipped(r) ==
    /\ run[r].pc = "canceling"
    /\ run' = [run EXCEPT ![r].pc = "drained"]
    /\ UNCHANGED <<vars, child, stop, stops, starts>>

\* The child is gone, the CancelledError handler stores the failure.
CancelStored(r) ==
    /\ run[r].pc = "canceling"
    /\ FinishCall(r, "FAILED", "ERROR")
    /\ run' = [run EXCEPT ![r].pc = "drained"]
    /\ UNCHANGED <<child, stop, stops, starts>>

\* SIGKILL or power loss.
Killed(r) ==
    /\ run[r].pc \notin {"drained", "gone"}
    /\ stops < MaxStops
    /\ stops' = stops + 1
    /\ run' = [run EXCEPT ![r] = [NoRun EXCEPT !.pc = "gone"]]
    /\ child' = [child EXCEPT ![r] = NoChild]
    /\ UNCHANGED <<vars, stop, starts>>

\* The container is started again.
Restarted(r) ==
    /\ run[r].pc \in {"drained", "gone"}
    /\ run' = [run EXCEPT ![r] = NoRun]
    /\ stop' = stop \ {r}
    /\ UNCHANGED <<vars, child, stops, starts>>

-----------------------------------------------------------------------------
(* The child: run_job and execute.                                         *)

\* execute returns at once when the claim is no longer its own.
ChildBoots(r) ==
    /\ child[r].pc = "boot"
    /\ child' = [child EXCEPT ![r].pc = IF Holds(r) THEN "check" ELSE "exited"]
    /\ UNCHANGED <<vars, run, stop, stops, starts>>

\* check_cancel reads the record again before the handler starts.
ChildChecks(r) ==
    /\ child[r].pc = "check"
    /\ IF Holds(r) /\ ~rec[run[r].job].cancel
       THEN /\ child' = [child EXCEPT ![r].pc = "handler"]
            /\ starts' = [starts EXCEPT ![run[r].job] = @ + 1]
       ELSE /\ child' = [child EXCEPT ![r] = [pc |-> "saving", out |-> "CANCELED"]]
            /\ UNCHANGED starts
    /\ UNCHANGED <<vars, run, stop, stops>>

\* report stores the progress, or raises PipelineCancelled when the job was
\* canceled or lost.
ChildReports(r) ==
    /\ child[r].pc = "handler"
    /\ IF Holds(r) /\ ~rec[run[r].job].cancel
       THEN /\ \E d \in 0 .. TotalSteps + 1 : Report(run[r].job, run[r].token, d)
            /\ UNCHANGED child
       ELSE /\ child' = [child EXCEPT ![r] = [pc |-> "saving", out |-> "CANCELED"]]
            /\ UNCHANGED vars
    /\ UNCHANGED <<run, stop, stops, starts>>

\* The handler returns a result or raises.
HandlerEnds(r, out) ==
    /\ child[r].pc = "handler"
    /\ out \in {"COMPLETED", "FAILED"}
    /\ child' = [child EXCEPT ![r] = [pc |-> "saving", out |-> out]]
    /\ UNCHANGED <<vars, run, stop, stops, starts>>

ChildSaves(r) ==
    /\ child[r].pc = "saving"
    /\ FinishCall(r, child[r].out, CASE child[r].out = "COMPLETED" -> "RESULT"
                                     [] child[r].out = "FAILED" -> "ERROR"
                                     [] OTHER -> "CANCELED")
    /\ child' = [child EXCEPT ![r].pc = "wrapup"]
    /\ UNCHANGED <<run, stop, stops, starts>>

\* Metrics are written, the process ends.
ChildExits(r) ==
    /\ child[r].pc = "wrapup"
    /\ child' = [child EXCEPT ![r].pc = "exited"]
    /\ UNCHANGED <<vars, run, stop, stops, starts>>

\* guard: the record has not ended and is no longer owned.
GuardAborts(r) ==
    /\ child[r].pc \in {"boot", "check", "handler", "saving"}
    /\ ~IsTerminal(rec[run[r].job])
    /\ ~Holds(r)
    /\ child' = [child EXCEPT ![r].pc = "exited"]
    /\ UNCHANGED <<vars, run, stop, stops, starts>>

\* Out of memory, or an exception from a call to Redis.
ChildDies(r) ==
    /\ ChildAlive(r)
    /\ stops < MaxStops
    /\ stops' = stops + 1
    /\ child' = [child EXCEPT ![r].pc = "exited"]
    /\ UNCHANGED <<vars, run, stop, starts>>

-----------------------------------------------------------------------------
RunInit ==
    /\ Init
    /\ run = [r \in Runners |-> NoRun]
    /\ child = [r \in Runners |-> NoChild]
    /\ stop = {}
    /\ stops = 0
    /\ starts = [j \in Jobs |-> 0]

RunnerStep(r) ==
    \/ \E j \in Jobs : RunnerClaims(r, j)
    \/ ClaimReturns(r)
    \/ GiveBack(r)
    \/ ClaimReplyLost(r)
    \/ Spawn(r)
    \/ Beat(r)
    \/ BeatRefused(r)
    \/ RunnerRetries(r)
    \/ ChildReaped(r)
    \/ StopRequested(r)
    \/ StoppedIdle(r)
    \/ RunnerCanceled(r)
    \/ CancelStored(r)
    \/ Killed(r)
    \/ Restarted(r)

ChildStep(r) ==
    \/ ChildBoots(r)
    \/ ChildChecks(r)
    \/ ChildReports(r)
    \/ \E out \in {"COMPLETED", "FAILED"} : HandlerEnds(r, out)
    \/ ChildSaves(r)
    \/ ChildExits(r)
    \/ GuardAborts(r)
    \/ ChildDies(r)

RunNext ==
    \/ OtherCallers /\ UNCHANGED procVars
    \/ \E r \in Runners : RunnerStep(r)
    \/ \E r \in Runners : ChildStep(r)

RunSpec == RunInit /\ [][RunNext]_runnerVars

(***************************************************************************)
(* Runners take their steps, containers are restarted, the recovery loop   *)
(* and time go on, and a child notices at its next guard that it has lost  *)
(* the job.  The handler may hang and heartbeats may fail to come.         *)
(***************************************************************************)
RunFairness ==
    /\ WF_runnerVars(Tick /\ UNCHANGED procVars)
    /\ \A j \in Jobs : WF_runnerVars(Recover(j) /\ UNCHANGED procVars)
    /\ \A r \in Runners :
         /\ WF_runnerVars(\E j \in Jobs : RunnerClaims(r, j))
         /\ WF_runnerVars(ClaimReturns(r) \/ GiveBack(r) \/ Spawn(r))
         /\ WF_runnerVars(BeatRefused(r) \/ ChildReaped(r))
         /\ WF_runnerVars(StoppedIdle(r) \/ CancelStored(r))
         /\ WF_runnerVars(Restarted(r))
         /\ WF_runnerVars(GuardAborts(r))

FairRunSpec == RunSpec /\ RunFairness

-----------------------------------------------------------------------------
(* Properties.                                                             *)

\* The types of the process state.
RunTypeOK ==
    /\ TypeOK
    /\ run \in [Runners -> [pc : RunnerPCs, job : Jobs \cup {NoJob}, token : Nat]]
    /\ child \in [Runners -> [pc : ChildPCs,
                              out : {"NONE", "COMPLETED", "FAILED", "CANCELED"}]]
    /\ stop \in SUBSET Runners
    /\ stops \in 0 .. MaxStops
    /\ starts \in [Jobs -> Nat]

\* The handler of a job is started at most once, though jobs are claimed,
\* handed back and claimed again, and runners and children die.
HandlerStartsOnce == \A j \in Jobs : starts[j] <= 1

\* A runner that has drained or stored its cancellation owns no job: what it
\* claimed is back in the queue, has ended, or its lease is over.
DrainLeavesNothing == \A r \in Runners : run[r].pc = "drained" => ~Holds(r)

\* A child that has lost its job, while the record has not yet ended or
\* after that, does not stay for ever.
LostChildLeaves ==
    \A r \in Runners : (ChildAlive(r) /\ ~Holds(r)) ~> ~ChildAlive(r)

\* Every accepted job ends, whatever its runner and its child do.
EveryRunEnds ==
    \A j \in Jobs : (rec[j].status \in ACTIVE_STATUSES) ~> IsTerminal(rec[j])
=============================================================================
