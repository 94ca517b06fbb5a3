----------------------------- MODULE PipelineRun -----------------------------
(***************************************************************************)
(* One execution of the photo pipeline in the child process of a job:      *)
(* run in app/pipeline/run.py in its thread, ProgressReporter with its     *)
(* heartbeat thread (progress.py), run_sync on the event loop              *)
(* (app/jobs/sync_bridge.py), the context and the error codes of           *)
(* app/jobs/process_handler.py, and the agent's waiter (agent/graph.py),   *)
(* whose conversations are those of AgentSession.                          *)
(*                                                                         *)
(* The thread works off a program: the calls that run makes for these      *)
(* inputs, in order.  What can fail in a call fails; an exception drops    *)
(* the rest of the program.                                                *)
(***************************************************************************)
EXTENDS AgentSession, SequencesExt

CONSTANTS
    N,               \* photos of the request
    Batch,           \* 16
    Inputs           \* what Qdrant and Redis hold when the job starts, what the
                     \* model may say, and a bound on what goes wrong around it

ASSUME PipelineAssumption ==
    /\ None \notin Talks /\ IsFiniteSet(Talks)
    /\ N \in Nat \ {0}
    /\ Batch \in Nat \ {0}
    /\ Inputs \subseteq [stored : SUBSET (1 .. N), measured : SUBSET (1 .. N),
                         reuse : BOOLEAN, agent : BOOLEAN,
                         replies : SUBSET Replies, faults : Nat]

VARIABLES
    input,
    pipe,      \* the pipeline thread
    beat,      \* the heartbeat thread
    report,    \* the lock, _current, _error and _stop of ProgressReporter
    job,       \* the job in the store as far as this child changes or reads it
    lead,      \* the coroutine of the handler, and its result
    faults

pipeVars == <<input, pipe, beat, report, job, lead, faults>>
vars == <<pipeVars, sessionVars>>

Photos == 1 .. N
NoProgress == <<0, 0>>

-----------------------------------------------------------------------------
(* The program.  Steps are numbered: 1 DOWNLOADING, 2 EMBEDDING, 3 CLOCK,  *)
(* 4 LOCATING, 5 CLUSTERING, 6 FILTERING, 7 FINALIZING.                    *)

Instr(do, of, photos, step, done) ==
    [do |-> do, of |-> of, photos |-> photos, step |-> step, done |-> done]

Check         == Instr("check", "", {}, 0, 0)
Report(s, n)  == Instr("report", "", {}, s, n)
Work(what, P) == Instr("work", what, P, 0, 0)
Raise(error)  == Instr("raise", error, {}, 0, 0)
Await(what)   == Instr("await", what, {}, 0, 0)

\* The chunks of 16 photos, in the order of the request.
Chunk(P, k) ==
    {p \in P : LET i == Cardinality({q \in P : q <= p})
               IN  (k - 1) * Batch < i /\ i <= k * Batch}

Chunks(P) == (Cardinality(P) + Batch - 1) \div Batch

Downloads_MissingBoth(i) ==
    IF i.reuse THEN {p \in Photos : p \notin i.stored /\ p \notin i.measured} ELSE Photos

\* Photos without a stored vector or without stored metrics.
Downloads(i) ==
    IF i.reuse THEN {p \in Photos : p \notin i.stored \/ p \notin i.measured} ELSE Photos

Pending(i) == IF i.reuse THEN Photos \ i.stored ELSE Photos

ReportedSoFar(P, k) == N - Cardinality(P) + Min({k * Batch, Cardinality(P)})

Optional(condition, seq) == IF condition THEN seq ELSE <<>>

DownloadPart(i) ==
    LET D == Downloads(i)
    IN  <<Report(1, 0)>>
        \o Optional(i.reuse, <<Work("fetch", {}), Check>>)
        \o Optional(D # Photos, <<Report(1, N - Cardinality(D))>>)
        \o FlattenSeq([k \in 1 .. Chunks(D) |->
             <<Check, Work("load", Chunk(D, k)), Check, Report(1, ReportedSoFar(D, k))>>])
        \o <<Work("decoded", D)>>

EmbedPart(i) ==
    LET P == Pending(i)
    IN  <<Check, Report(2, 0)>>
        \o Optional(P # Photos, <<Report(2, N - Cardinality(P))>>)
        \o FlattenSeq([k \in 1 .. Chunks(P) |->
             <<Check, Work("encode", Chunk(P, k)), Check, Work("upsert", Chunk(P, k)),
               Check, Report(2, ReportedSoFar(P, k))>>])

\* The local function stage of run.
Stage(step, operation) ==
    <<Check, Report(step, 0), Check>> \o operation \o <<Check, Report(step, N)>>

\* run_agent: the district of the trip, then one round of estimates.
WaiterCheck == <<Work("budget", {}), Check>>

AgentPart == WaiterCheck \o <<Await("regions")>> \o WaiterCheck \o <<Await("estimates")>>

\* _run and open_context, then run.
Program(i) ==
    <<Check, Work("engine", {}), Check, Work("qdrant", {}), Check, Check, Work("enter", {})>>
    \o DownloadPart(i)
    \o EmbedPart(i)
    \o Stage(3, <<Work("vectors", {})>>)
    \o Stage(4, <<Work("vectors", {})>>)
    \o Stage(5, <<Work("vectors", {})>> \o Optional(i.agent, AgentPart))
    \o Stage(6, <<Work("metrics", {})>>)
    \o Stage(7, <<>>)
    \o <<Check, Work("exit", {})>>

-----------------------------------------------------------------------------
(* Leaving the program.                                                    *)

CancelTalks_NotAsked == UNCHANGED sessionVars

\* future.cancel for what the waiter has submitted: the event loop is asked to
\* cancel these tasks, and the thread goes on without waiting for it.
CancelTalks ==
    /\ talk' = [c \in Talks |-> IF talk[c].at \in Over \cup {"off"} THEN talk[c]
                                ELSE [talk[c] EXCEPT !.canceled = TRUE]]
    /\ tripRegion' = IF tripRegion \in {"submitted", "asked"} THEN "canceled" ELSE tripRegion
    /\ UNCHANGED <<kakao, regionOf>>

\* An exception in the thread: __exit__ if the reporter was entered.
Raised(error) ==
    [pipe EXCEPT !.pc = "run", !.error = error, !.pending = {},
                 !.rest = IF beat.pc = "off" THEN <<Work("leave", {})>>
                          ELSE <<Work("exit", {})>>]

Fails(error) == pipe' = Raised(error) /\ CancelTalks

\* The next instruction; a waiter with tasks left goes on waiting.
Continue ==
    /\ pipe' = [pipe EXCEPT !.rest = Tail(@),
                            !.pc = IF pipe.pending # {} /\ pipe.rest[2].do = "await"
                                   THEN "await" ELSE "run"]
    /\ UNCHANGED sessionVars

Now == Head(pipe.rest)

Does(what) == pipe.pc = "run" /\ Now.do = "work" /\ Now.of = what

-----------------------------------------------------------------------------
(* Calls of the store through run_sync.                                    *)

\* check_cancel and progress refuse a job that is canceled or lost.
Refused == job.cancelRequested \/ ~job.owned

\* is_cancelled does not ask the store once run_sync is canceled.
StartCheck ==
    /\ pipe.pc = "run" /\ Now.do = "check"
    /\ IF lead.stopped
       THEN Fails("canceled")
       ELSE pipe' = [pipe EXCEPT !.pc = "call"] /\ UNCHANGED sessionVars
    /\ UNCHANGED <<input, beat, report, job, lead, faults>>

CheckAnswered ==
    /\ pipe.pc = "call" /\ Now.do = "check"
    /\ IF Refused THEN Fails("canceled") ELSE Continue
    /\ UNCHANGED <<input, beat, report, job, lead, faults>>

\* report waits for the lock that the heartbeat may hold.
StartReport ==
    /\ pipe.pc = "run" /\ Now.do = "report"
    /\ report.lock = "free"
    /\ IF report.error # "none"
       THEN Fails(report.error) /\ UNCHANGED report
       ELSE IF lead.stopped
       THEN Fails("canceled") /\ report' = [report EXCEPT !.current = <<Now.step, Now.done>>]
       ELSE /\ pipe' = [pipe EXCEPT !.pc = "call"]
            /\ report' = [report EXCEPT !.lock = "pipe", !.current = <<Now.step, Now.done>>]
            /\ UNCHANGED sessionVars
    /\ UNCHANGED <<input, beat, job, lead, faults>>

ReportAnswered ==
    /\ pipe.pc = "call" /\ Now.do = "report"
    /\ report' = [report EXCEPT !.lock = "free"]
    /\ IF Refused
       THEN Fails("canceled") /\ UNCHANGED job
       ELSE IF Now.done \notin 0 .. N
       THEN Fails("bug") /\ UNCHANGED job
       ELSE Continue /\ job' = [job EXCEPT !.shown = <<Now.step, Now.done>>]
    /\ UNCHANGED <<input, beat, lead, faults>>

\* A failed call may have reached the store.
Fault == faults < input.faults /\ faults' = faults + 1

Written(step, done) ==
    job' \in {job, IF Refused THEN job ELSE [job EXCEPT !.shown = <<step, done>>]}

CallFails ==
    /\ pipe.pc = "call"
    /\ Fault
    /\ \E error \in {"timeout", "store"} : Fails(error)
    /\ IF Now.do = "report"
       THEN /\ report' = [report EXCEPT !.lock = "free"]
            /\ Written(Now.step, Now.done)
       ELSE UNCHANGED <<report, job>>
    /\ UNCHANGED <<input, beat, lead>>

-----------------------------------------------------------------------------
(* The work between the calls.                                             *)

\* What a step outside of this program can fail with.
Errors(what) ==
    CASE what \in {"engine", "encode"}          -> {"embedding", "timeout"}
      [] what \in {"qdrant", "fetch", "upsert"} -> {"qdrant", "timeout"}
      [] what = "load"                          -> {"download"}
      [] what = "budget"                        -> {"agent_timeout"}
      [] OTHER                                  -> {}

WorkFails ==
    /\ pipe.pc = "run" /\ Now.do = "work"
    /\ \E error \in Errors(Now.of) : Fails(error)
    /\ UNCHANGED <<input, beat, report, job, lead, faults>>

\* wait_for_qdrant, and the budget of the agent that is not used up.
WorkDone ==
    /\ Does("engine") \/ Does("qdrant") \/ Does("budget")
    /\ Continue
    /\ UNCHANGED <<input, beat, report, job, lead, faults>>

EnterReporter ==
    /\ Does("enter")
    /\ beat' = [beat EXCEPT !.pc = "wait"]
    /\ Continue
    /\ UNCHANGED <<input, report, job, lead, faults>>

Fetch ==
    /\ Does("fetch")
    /\ pipe' = [pipe EXCEPT !.rest = Tail(@), !.vectors = input.stored]
    /\ UNCHANGED <<sessionVars, input, beat, report, job, lead, faults>>

\* load_images: a photo that cannot be decoded costs its whole chunk, and the
\* error is raised after the last chunk.
Load ==
    /\ Does("load")
    /\ \/ pipe' = [pipe EXCEPT !.rest = Tail(@), !.raw = @ \cup Now.photos]
       \/ pipe' = [pipe EXCEPT !.rest = Tail(@), !.undecoded = TRUE]
    /\ UNCHANGED <<sessionVars, input, beat, report, job, lead, faults>>

Needs(what) ==
    CASE what = "decoded" -> ~pipe.undecoded
      [] what = "encode"  -> Now.photos \subseteq pipe.raw
      [] what = "vectors" -> pipe.vectors = Photos
      [] what = "metrics" -> Photos \subseteq
                               pipe.raw \cup IF input.reuse THEN input.measured ELSE {}

\* The computations on what was loaded.
Compute ==
    /\ pipe.pc = "run" /\ Now.do = "work"
    /\ Now.of \in {"decoded", "encode", "vectors", "metrics"}
    /\ IF Needs(Now.of) THEN Continue
       ELSE Fails(IF Now.of = "decoded" THEN "decode" ELSE "bug")
    /\ UNCHANGED <<input, beat, report, job, lead, faults>>

Upsert ==
    /\ Does("upsert")
    /\ pipe' = [pipe EXCEPT !.rest = Tail(@), !.vectors = @ \cup Now.photos]
    /\ UNCHANGED <<sessionVars, input, beat, report, job, lead, faults>>

-----------------------------------------------------------------------------
(* The agent's waiter.  None stands for the task load_regions.             *)

IsOver(x)   == IF x = None THEN tripRegion \in {"known", "none"} ELSE talk[x].at \in Over
HasFailed(x) == x # None /\ talk[x].at = "failed"

Submitted(what) == IF what = "regions" THEN {None} ELSE Talks

\* many: the coroutines go to the event loop.
Submit ==
    /\ pipe.pc = "run" /\ Now.do = "await"
    /\ pipe' = [pipe EXCEPT !.pc = "await", !.pending = Submitted(Now.of)]
    /\ IF Now.of = "regions"
       THEN tripRegion' = "submitted" /\ UNCHANGED talk
       ELSE /\ talk' = [c \in Talks |-> [talk[c] EXCEPT !.at = "queue"]]
            /\ UNCHANGED tripRegion
    /\ UNCHANGED <<kakao, regionOf, input, beat, report, job, lead, faults>>

Tick(k) == Report(5, Min({pipe.ticks + k, N - 1}))

\* A conversation fails by the generation server, or by Qdrant in find_similar.
TalkErrors == {"agent", "agent_timeout", "qdrant", "timeout"}

\* Those that are done report one by one, up to the first that has failed.
TalksDone ==
    /\ pipe.pc = "await"
    /\ LET done   == {x \in pipe.pending : IsOver(x)}
           failed == {x \in done : HasFailed(x)}
           left   == pipe.pending \ done
       IN  /\ done # {}
           /\ \E n \in 0 .. Cardinality(done \ failed) :
                /\ failed = {} => n = Cardinality(done)
                /\ \E error \in TalkErrors :
                     pipe' = [pipe EXCEPT
                       !.pc = "run", !.ticks = @ + n, !.pending = left,
                       !.rest = [k \in 1 .. n |-> Tick(k)] \o
                                IF failed # {} THEN <<Raise(error)>>
                                ELSE WaiterCheck \o IF left = {} THEN Tail(@) ELSE @]
    /\ UNCHANGED <<sessionVars, input, beat, report, job, lead, faults>>

\* None is done: after CANCEL_CHECK_SEC the waiter looks whether the job is
\* canceled, and it gives up when the budget of the agent is used up.
Poll ==
    /\ pipe.pc = "await"
    /\ ~\E x \in pipe.pending : IsOver(x)
    /\ \/ Fails("agent_timeout")
       \/ lead.stopped /\ Fails("canceled")
       \/ /\ ~lead.stopped
          /\ pipe' = [pipe EXCEPT !.pc = "call", !.rest = <<Check>> \o @]
          /\ UNCHANGED sessionVars
    /\ UNCHANGED <<input, beat, report, job, lead, faults>>

RaiseError ==
    /\ pipe.pc = "run" /\ Now.do = "raise"
    /\ Fails(Now.of)
    /\ UNCHANGED <<input, beat, report, job, lead, faults>>

-----------------------------------------------------------------------------
(* ProgressReporter: __exit__ and the heartbeat.                           *)

ExitReporter_NoStop ==
    /\ Does("exit")
    /\ pipe' = [pipe EXCEPT !.pc = "join"]
    /\ UNCHANGED <<sessionVars, input, beat, report, job, lead, faults>>

ExitReporter ==
    /\ Does("exit")
    /\ pipe' = [pipe EXCEPT !.pc = "join"]
    /\ report' = [report EXCEPT !.stop = TRUE]
    /\ UNCHANGED <<sessionVars, input, beat, job, lead, faults>>

JoinHeartbeat_DropsError ==
    /\ pipe.pc = "join"
    /\ beat.pc = "ended"
    /\ pipe' = [pipe EXCEPT !.pc = "closed", !.rest = <<>>]
    /\ UNCHANGED <<sessionVars, input, beat, report, job, lead, faults>>

\* The error of the heartbeat counts if the thread has none of its own.  Then
\* the context is left: Qdrant, the images and the engine are closed.
JoinHeartbeat ==
    /\ pipe.pc = "join"
    /\ beat.pc = "ended"
    /\ pipe' = [pipe EXCEPT !.pc = "closed", !.rest = <<>>,
                            !.error = IF @ = "none" THEN report.error ELSE @]
    /\ UNCHANGED <<sessionVars, input, beat, report, job, lead, faults>>

\* The reporter was never entered.
LeaveEarly ==
    /\ Does("leave")
    /\ pipe' = [pipe EXCEPT !.pc = "closed", !.rest = <<>>]
    /\ UNCHANGED <<sessionVars, input, beat, report, job, lead, faults>>

BeatEnds(error) ==
    /\ beat' = [pc |-> "ended", sends |-> NoProgress]
    /\ report' = [report EXCEPT !.lock = "free", !.stop = TRUE, !.error = error]

HeartbeatWakes_NoLock ==
    /\ beat.pc = "wait"
    /\ ~report.stop
    /\ report.current # NoProgress
    /\ IF lead.stopped
       THEN BeatEnds("canceled")
       ELSE /\ beat' = [pc |-> "call", sends |-> report.current]
            /\ UNCHANGED report
    /\ UNCHANGED <<sessionVars, input, pipe, job, lead, faults>>

HeartbeatWakes ==
    /\ beat.pc = "wait"
    /\ ~report.stop
    /\ report.lock = "free"
    /\ report.current # NoProgress
    /\ IF lead.stopped
       THEN BeatEnds("canceled")
       ELSE /\ beat' = [pc |-> "call", sends |-> report.current]
            /\ report' = [report EXCEPT !.lock = "beat"]
    /\ UNCHANGED <<sessionVars, input, pipe, job, lead, faults>>

HeartbeatAnswered ==
    /\ beat.pc = "call"
    /\ IF Refused
       THEN BeatEnds("canceled") /\ UNCHANGED job
       ELSE /\ beat' = [pc |-> "wait", sends |-> NoProgress]
            /\ report' = [report EXCEPT !.lock = "free"]
            /\ job' = [job EXCEPT !.shown = beat.sends]
    /\ UNCHANGED <<sessionVars, input, pipe, lead, faults>>

HeartbeatFails ==
    /\ beat.pc = "call"
    /\ Fault
    /\ \E error \in {"timeout", "store"} : BeatEnds(error)
    /\ Written(beat.sends[1], beat.sends[2])
    /\ UNCHANGED <<sessionVars, input, pipe, lead>>

HeartbeatStops ==
    /\ beat.pc = "wait"
    /\ report.stop
    /\ beat' = [beat EXCEPT !.pc = "ended"]
    /\ UNCHANGED <<sessionVars, input, pipe, report, job, lead, faults>>

-----------------------------------------------------------------------------
(* run_sync, the error codes of _run and execute, and the surroundings.    *)

ResultOf(error) ==
    CASE error = "none"                                 -> "COMPLETED"
      [] error = "canceled"                             -> "CANCELED"
      [] error = "decode"                               -> "DECODE_FAILED"
      [] error = "download"                             -> "DOWNLOAD_FAILED"
      [] error \in {"timeout", "agent_timeout"}         -> "TIMEOUT"
      [] error \in {"embedding", "agent"}               -> "MODEL_NOT_READY"
      [] OTHER                                          -> "INTERNAL_ERROR"

EndedWith(result) == [lead EXCEPT !.pc = "ended", !.result = result]

\* The request or the settings are not those of this handler.
RequestInvalid ==
    /\ lead.pc = "check"
    /\ lead' \in {EndedWith("INVALID_REQUEST"), EndedWith("MODEL_NOT_READY")}
    /\ UNCHANGED <<sessionVars, input, pipe, beat, report, job, faults>>

HandlerChecks ==
    /\ lead.pc = "check"
    /\ lead' = IF Refused THEN EndedWith("CANCELED") ELSE [lead EXCEPT !.pc = "open"]
    /\ UNCHANGED <<sessionVars, input, pipe, beat, report, job, faults>>

HandlerCheckFails ==
    /\ lead.pc = "check"
    /\ Fault
    /\ lead' = EndedWith("INTERNAL_ERROR")
    /\ UNCHANGED <<sessionVars, input, pipe, beat, report, job>>

\* An agent that is switched on and not completely configured fails the job;
\* the rules alone are no substitute.
AgentUnconfigured ==
    /\ lead.pc = "open"
    /\ input.agent
    /\ lead' = EndedWith("MODEL_NOT_READY")
    /\ UNCHANGED <<sessionVars, input, pipe, beat, report, job, faults>>

StartThread ==
    /\ lead.pc = "open"
    /\ lead' = [lead EXCEPT !.pc = "await"]
    /\ pipe' = [pipe EXCEPT !.pc = "run"]
    /\ UNCHANGED <<sessionVars, input, beat, report, job, faults>>

\* guard of run_job finds the job lost and cancels the handler.
GuardCancels ==
    /\ lead.pc \in {"check", "open", "await"}
    /\ ~job.owned
    /\ lead' = IF lead.pc = "await" THEN [lead EXCEPT !.pc = "drain", !.stopped = TRUE]
               ELSE EndedWith("ABORTED")
    /\ UNCHANGED <<sessionVars, input, pipe, beat, report, job, faults>>

\* A canceled run_sync waits for the thread as well, but not for conversations.
\* Then the agent's resources are closed: Kakao, the generation client and the
\* index of public places.
LeadEnds ==
    /\ lead.pc \in {"await", "drain"}
    /\ pipe.pc = "closed"
    /\ lead' = EndedWith(IF lead.pc = "drain" THEN "ABORTED" ELSE ResultOf(pipe.error))
    /\ UNCHANGED <<sessionVars, input, pipe, beat, report, job, faults>>

IsQuiet(c) == talk[c].at \in Over \cup {"off"} /\ ~talk[c].thread

AgentIsQuiet ==
    /\ \A c \in Talks : IsQuiet(c)
    /\ tripRegion \notin {"submitted", "asked", "canceled"}

\* asyncio.run leaves when the tasks of the loop and the threads of its
\* executor have ended.
ChildExits ==
    /\ lead.pc = "ended"
    /\ pipe.pc \in {"off", "closed"}
    /\ AgentIsQuiet
    /\ lead' = [lead EXCEPT !.pc = "gone"]
    /\ UNCHANGED <<sessionVars, input, pipe, beat, report, job, faults>>

\* The store: a cancel request, and a lease that is lost.
JobDisturbed ==
    /\ lead.pc \notin {"ended", "gone"}
    /\ Fault
    /\ \/ job' = [job EXCEPT !.cancelRequested = TRUE]
       \/ job' = [job EXCEPT !.owned = FALSE]
    /\ UNCHANGED <<sessionVars, input, pipe, beat, report, lead>>

Ended == lead.pc = "gone" /\ UNCHANGED vars

-----------------------------------------------------------------------------
Init ==
    /\ SessionInit
    /\ input \in Inputs
    /\ pipe = [pc |-> "off", rest |-> Program(input), error |-> "none", raw |-> {},
               vectors |-> {}, undecoded |-> FALSE, pending |-> {}, ticks |-> 0]
    /\ beat = [pc |-> "off", sends |-> NoProgress]
    /\ report = [lock |-> "free", current |-> NoProgress, error |-> "none", stop |-> FALSE]
    /\ job = [shown |-> NoProgress, cancelRequested |-> FALSE, owned |-> TRUE]
    /\ lead = [pc |-> "check", stopped |-> FALSE, result |-> "NONE"]
    /\ faults = 0

PipeStep ==
    \/ StartCheck
    \/ CheckAnswered
    \/ StartReport
    \/ ReportAnswered
    \/ CallFails
    \/ WorkFails
    \/ WorkDone
    \/ EnterReporter
    \/ Fetch
    \/ Load
    \/ Compute
    \/ Upsert
    \/ Submit
    \/ TalksDone
    \/ Poll
    \/ RaiseError
    \/ ExitReporter
    \/ JoinHeartbeat
    \/ LeaveEarly

BeatStep ==
    \/ HeartbeatWakes
    \/ HeartbeatAnswered
    \/ HeartbeatFails
    \/ HeartbeatStops

LeadStep ==
    \/ RequestInvalid
    \/ HandlerChecks
    \/ HandlerCheckFails
    \/ AgentUnconfigured
    \/ StartThread
    \/ LeadEnds
    \/ ChildExits

Next ==
    \/ PipeStep
    \/ BeatStep
    \/ \E c \in Talks : TalkStep(c, input.replies) /\ UNCHANGED pipeVars
    \/ RegionsStep /\ UNCHANGED pipeVars
    \/ LeadStep
    \/ GuardCancels
    \/ JobDisturbed
    \/ Ended

Spec == Init /\ [][Next]_vars

(***************************************************************************)
(* Threads run, calls of the store and of other servers are answered or    *)
(* time out, and the event loop runs what is ready.  The pipeline thread   *)
(* gets the lock at some time although the heartbeat takes it again and    *)
(* again.                                                                  *)
(***************************************************************************)
Fairness ==
    /\ SF_vars(PipeStep)
    /\ WF_vars(BeatStep)
    /\ \A c \in Talks : WF_vars(TalkStep(c, input.replies) /\ UNCHANGED pipeVars)
    /\ WF_vars(RegionsStep /\ UNCHANGED pipeVars)
    /\ WF_vars(LeadStep)

FairSpec == Spec /\ Fairness

-----------------------------------------------------------------------------
(* Properties.                                                             *)

\* The progress that the backend sees never goes back, although two threads
\* report it and calls fail after they have been carried out.
Forward ==
    LET a == job.shown
        b == job'.shown
    IN  a[1] < b[1] \/ (a[1] = b[1] /\ a[2] <= b[2])

ProgressNeverBack == [][Forward]_vars

\* The clients are closed without waiting for the agent: Qdrant by the
\* pipeline thread when it ends, the others by the handler, which outlives the
\* thread and its heartbeat.  What can still use them has failed or has been
\* asked to stop, and a completed job has nothing that could.
OnlyStoppingOutlives ==
    /\ lead.pc \in {"ended", "gone"} => pipe.pc \in {"off", "closed"}
                                        /\ beat.pc \in {"off", "ended"}
    /\ pipe.pc = "closed" =>
        /\ \A c \in Talks : IsQuiet(c) \/ talk[c].canceled \/ talk[c].at = "failed"
        /\ tripRegion \notin {"submitted", "asked"}
    /\ lead.result = "COMPLETED" => AgentIsQuiet

\* Whatever vectors and metrics earlier batches have left behind, the
\* pipeline never asks for data that it has not loaded and never reports
\* progress that the store refuses.
OnlyOutsideFailures == pipe.error # "bug"

\* A job that is reported as completed has the vectors of all its photos, has
\* shown its last progress, and none of its progress calls was refused.
CompletedIsComplete ==
    lead.result = "COMPLETED" =>
        /\ pipe.vectors = Photos
        /\ job.shown = <<7, N>>
        /\ report.error = "none"

\* The handler ends and its child exits, whether the job is canceled, loses its
\* lease, or a call fails, in whatever step it is and whatever it leaves behind.
EveryPipelineEnds == <>(lead.pc = "gone")
=============================================================================
