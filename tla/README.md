# Verification of the 여담 AI server

TLA+ models of the AI server (`app/`): its job system, its photo pipeline and
agent, its stories and its search, the TLC configurations that check them, and
TLAPS proofs about all of these: what runs concurrently, v1 included, how photos
are sorted, stories, and queries. Paths are relative to the repository; line numbers refer to the commit beside which this directory lies.
`PROJECT.json` maps every definition to the lines it models.

## 1. The system

The server sorts the photos of a trip (`process`) and writes stories about it
(`story`). The backend sends requests through Kafka and gets results through
Kafka (v2), or posts them over HTTP and waits (v1).

### 1.1 Components

| Component | Source | State | Operations | Interacts with |
| --- | --- | --- | --- | --- |
| Redis job store | `jobs/redis_store.py`, `jobs/models.py` | `job:{identity}`, `latest:{kind}:{trip}`, `ignored:*`, `enqueue_sequence`, sorted sets `queue:{kind}`, `running`, `pending`, slot keys, `metrics:operations` | register, claim, return_unstarted, heartbeat, progress, finish, cancel, recover, claim_result, acknowledge_result | every process of v2, each in WATCH/MULTI/EXEC transactions |
| Photo batches | `redis_store.stage_photos` ff., `runner.run_photo_batch`, `execution.run_batch` | `photo_batches:{identity}` (expires), `queue:photo_batch`, `photo:{id}` | stage_photos, the clearing by register, claim_batch, photo_batch, save_photo_metrics | Kafka intake, process runner |
| Kafka intake | `jobs/kafka.py` (RequestReceiver, consume_requests) | consumer position, committed offset, `invalid:{hash}`, DLT | accept, reject, quarantine, commit | job store, broker |
| Kafka publication | `jobs/kafka.py` (publish_results) | publisher id, lease in the record | claim, send, acknowledge | job store, broker |
| Recovery loop | `jobs/kafka.py` (recover_jobs) | none | recover | job store |
| Runners and children | `jobs/runner.py`, `jobs/execution.py`, `jobs/process_guard.py` | claimed record, child process, stop event, pool of standby children | claim, spawn, hand off, refill, supervise, drain; execute, report, check_cancel, guard | job store, operating system |
| Process handler | `jobs/process_handler.py`, `jobs/sync_bridge.py` | the pipeline's thread and its context | run, run_sync, call, cancelled | pipeline, job store |
| v1 task service | `jobs/task_service.py`, `task_store.py`, `watchdog.py`, `worker_client.py` | tasks, waiter events, dispatch lock | submit, wait_done, progress, complete, fail, cancel, tick, _dispatch_next | HTTP handlers, v1 worker |
| v1 worker | `worker/runner.py`, `worker/callback.py` | `_current`, cancel flags, one thread | submit, cancel, _execute, callbacks | v1 API |
| GPU request gate | `jobs/gpu_requests.py` | sorted set of call tokens with leases | claim, run, release | agent, story and search, all replicas |
| Photo pipeline | `pipeline/run.py`, `progress.py`, `batch.py`, `steps/` | photo states, reused vectors and metrics, progress | download, embed, clock, locate, cluster, assign, filter, finalize; report, heartbeat | engines, Qdrant, Redis, agent |
| Pipeline agent | `pipeline/agent/` | rounds, proposals, merges, new places; conversations, budgets, caches | select, estimate, aggregate, merge; read, search, decide | generation server, place index, Kakao |
| Story | `story/` | candidates, selection, draft of one job | validate, filter, select, write, verify | Qdrant, generation server |
| Search | `search/`, `api/services/query_service.py` | one query and its time limits | parse, encode, retrieve, cut off, answer | Qdrant, generation server |
| Clients | `infra/`, `embedding/` | place index file and its stamp, connection pools | HTTP calls with retries | external servers |
| RunPod status | `api/services/runpod_status.py` | a cached answer | refresh | RunPod API |
| Lifecycle, routes | `main.py`, `v2_main.py`, `worker_main.py`, `api/` | application state | start, stop, routes | all |
| Observability | `observability/`, `core/` | log context, metrics | counters, traces | all |

### 1.2 What makes each of them correct, and what is hard

*Job store.* One unfinished job of each kind for a trip; at most the configured
number of jobs in execution over all replicas and images; first come, first
served; an ended job never changes; every accepted job ends and its result waits
until it is published. Hard: any number of processes call it at once, a caller may
have lost its lease long ago, and an older image that knows fewer keys runs
beside the new one during a deployment.

*Intake and publication.* At-least-once delivery in, at-least-once delivery out,
without running a request twice. Hard: Redis and Kafka have no common
transaction, so a crash or a lost reply can fall between any two steps;
partitions are reassigned in the middle of a message; a send that timed out may
still be stored.

*Runners and children.* The handler of a job starts at most once, a stopped
runner leaves no claim behind, a child that has lost its job goes away, and a
task is given to one child. Hard: the stop signal falls between the commit of a
claim and its reply, kills, children that die before they get their task, refused
heartbeats, cancellation during the refill of the pool.

*Process handler and pipeline.* The run ends, complete or for a reason outside,
progress only grows, and whatever still runs when the clients are closed has failed
or is asked to stop. Hard: a pipeline thread, a heartbeat thread, an event loop, the
agent's conversations and their search threads, which no cancellation reaches, with
vectors that earlier batches left for some photos and metrics for others.

*Rules and agent.* Every input gives a valid result, whatever the model answers.
Hard: each step changes what later ones rely on, folders are merged and
dissolved, and coordinates were inferred from them.

*GPU gate.* At most the configured number of calls. Hard: the limit rests on the
order of three timeouts, and a claim or a release can be lost or late.

*Photo batches.* A batch is embedded ahead of the request or not at all. Hard:
Kafka orders photos_ready and process of one trip, but redelivery, the runner and
expiry do not follow that order.

*Story.* A completed story has every place and every selected photo once. Hard:
the shares of a budget with remainders and duplicates, and what the model writes.

*Search.* A query is answered, with the best evidence. Hard: time limits inside
time limits, and dates at the ends of months, seasons and years.

*v1.* Every POST returns; a task ends with its own outcome. Hard: the code keeps
references to a task across awaits, and callbacks name only the trip.

`PROJECT.json` lists each hazard at the line where it bites with the properties
that cover it.

## 2. The modules

```
JobBoard             what the store promises to the backend
 ^ JobStoreRefinement  JobStore implements it
JobStore             redis_store.py, the core              JobStoreProofs (all three)
 |-- JobRunners       runner.py, execution.py, process_guard.py
 | |-- ResultPublisher  kafka.py publish_results
 |-- KafkaIntake      kafka.py consume_requests, RequestReceiver
 | |-- PhotoBatches     redis_store.py stage_photos ff., run_photo_batch, run_batch
 |
PlaceIndexFile       infra/place_index.py, the file on the host of the runners
 |-- StandbyChildren  runner.py: StandbyChildren, runner_loop around it
 |                                                         JobProcessesProofs (all six)
RequestGate          gpu_requests.py, retries of agent/model.py and vllm_client.py
 |                                                         RequestGateProofs
AgentSession         agent/model.py, kakao_local.py: conversations and budgets
 |-- PipelineRun      run.py, progress.py, sync_bridge.py, process_handler.py
 |                                                         PipelineRunProofs
PhotoRules           pipeline/steps: clock, locating, clustering, assigning, filtering
 |-- TripAgent        agent/graph.py, agent/trip.py
      |-- PhotoSorting  the order of the steps, steps/finalizing.py
                                                           PhotoSortingProofs (all three)
Sorting              sorted with a key
 |-- PhotoRules       (above)
 |-- StoryJob         story/
 |
 |  QueryDates        search/dates.py
 |-- QueryService     search/pipeline.py, times.py, api/services/query_service.py
 |                                                         StoryAndQueryProofs (both)
TaskService          task_service.py, worker/runner.py, callback.py (v1)
                                                           TaskServiceProofs
Lemmas               recursion and induction, sums, folds and sorting
MC...                instances for TLC
```

An arrow down is EXTENDS: the lower module adds its state to that of the upper one
and its next-state relation contains the upper one's actions. On the right are the
modules of theorems. JobProcessesProofs extends JobStoreProofs, as its modules extend
JobStore; `Lemmas` has what several of them need about sets, functions and sequences.

### 2.1 JobStore

Every operation of `RedisJobStore` is one transaction under WATCH that is tried
again until it commits, so every operation is one action, and its guard is what
the operation reads. `change` (`redis_store.py:372-429`) is the operator
`Change`, which all operations share that update a record; `QueueAfter`,
`SlotAfter`, `RunningAfter`, `PendingAfter` and `CountedAfter` are its effects on
the five indexes. An owner token (`worker:uuid`) is the number of the claim that
issued it; the actions accept any token ever issued, so late, dead and repeated
callers are all in the model. An operation whose check fails changes nothing and
is no step. The branch of `claim` that drops a head which is not QUEUED is left
out because `QueueMatchesStatus` shows that there is none.

*Time.* A timestamp is kept as the time left until it, and `Tick` moves all of
them closer. That keeps the state finite and compares exactly as the code does:
`now < t` is "left > 0". The code reads the clock shortly before EXEC, but any
change of the record in between makes EXEC fail and the operation start over, so
the reading and the commit are one moment for the record. Timestamps of ended
records are never read again and are set to 0.

*Old image.* `LegacyRecover` is `recover` as the previous image runs it during a
rolling deployment (comment at `redis_store.py:316`): it frees only the first
slot key. `ClearStaleSlots` is the answer of the new `claim`.

*Abstracted:* request bodies, results and error messages (an outcome has a
status, a code and whether it fits into `RESULT_MAX_BYTES`), `current_step`, the
stage histograms and the duration part of the metrics.

### 2.2 JobBoard and JobStoreRefinement

The board is the store as the backend sees it: a request is refused or accepted
when its line (trip and kind) has no unfinished job, accepted jobs of a kind start
in the order of acceptance and not more than the limit at once, a job may be given
back, a cancel is remembered, a job ends once, never COMPLETED after a cancel, and
its result is delivered after that. It has no keys, tokens, leases or clock.
`JobStoreRefinement` gives the mapping: `StateOf` reads the record (a job without a
record is new, or refused if its `ignored` mark exists), `accepted` is
`enqueue_sequence`, `place` the position of acceptance, `canceled` the jobs with
`cancel_requested`, `result` the status of the stored event and `delivered` the
published records. Heartbeats, progress, slots, leases, publication claims and time
are stutters.

### 2.3 JobRunners

Adds the program counter of every `runner_loop`, its child, the stop event and
the history of how often a handler was started. A claim takes two steps, the
commit and the reply, since the stop event, a lost reply or a kill may fall
between them. A child boots (`execute`), checks
for cancellation, runs its handler with progress reports, saves, writes its
metrics and exits; the guard may abort it between. The parent's death kills the
child (`process_guard.py`). A child started from the pool of standby children and
a fresh one do the same and are one action; StandbyChildren has the pool.
`RunNext` contains the other callers of the store; slots cannot become stale here since the old image is absent.

### 2.4 ResultPublisher

One `publish_results` loop per replica: claim the result, send it with a timeout
of half the lease, acknowledge it. `inflight` holds messages that the broker may
still store after their sender has given up, `delivered` what it has stored. The
timer of a send is prompt (`PubTick` waits for it), the pause before the
acknowledgement is not bounded.

### 2.5 KafkaIntake

One `consume_requests` loop per replica on one partition. `Partition` is the log:
a job (the same job twice is a resent request) or `NoJob` for a message that has
no valid identity or route. `position`, `assigned`, `paused` and `committed` are
the state of the consumer group; `Rebalance` and `Reassign` are the broker's.
A replica that loses the partition goes on with its message and notices at the
commit.

### 2.6 PhotoBatches

`bufferLeft` is the time until Redis expires `photo_batches:{identity}`,
`queueLeft` the age limit of a member of `queue:photo_batch` (its score is the
staging time). `RegisterProcess` is the action of JobStore together with the
clearing of the buffer, as in the one transaction of `register`. A runner pops,
checks the buffer, and the child reads it again, each in a step of its own. A
photos_ready message that contradicts the buffer or exceeds its limits raises and
changes nothing.

### 2.7 PlaceIndexFile and StandbyChildren

Every process runner installs the index of places when it starts
(`ensure_local_index`): it takes the lock file, trusts a stamp that names the
wanted hash and the time of the file, or downloads, compares the hash, removes the
stamp, swaps the file in and writes a new stamp. Each of these is a step at which a
runner may die, so the lock is freed with the file in any state. Runners want
different versions while a new one is deployed, and a download may bring anything.
Files of different versions may have one size and time.

`StandbyChildren` adds `runner_loop` as far as it starts children: the pool is
filled before the first task, the oldest living child is taken, the task is
written to it, and if the child is found dead a new process is started instead;
then the pool is refilled, and only then the task is supervised. A standby child
that died is "broken" until the event loop has noticed its exit and "dead" after
that: `alive` sees only the second. `CancelLoop` is the SIGTERM of the runner at
any of these points, `RunnerKilled` its death, with which the kernel kills its
children.

### 2.8 RequestGate

The gate (`gpu_requests.py`) is a sorted set of call tokens scored by the ends of
their leases. A claim is a step for WATCH, TIME and ZCOUNT, one for EXEC and one
for its reply: an EXEC may be on its way (`flight`) while the caller has given up.
Around it are the two timeouts of `run`, the release in its `finally`, the retries
of `Session.chat` with its semaphore, cancellation, killed processes and failing
Redis. One unit of time is 5 s: the wait, the call's timeout and the margins of
grace (`CALL_TIMEOUT_GRACE_SEC`) and lease keep their order.

### 2.9 PhotoRules, TripAgent, PhotoSorting

`PhotoRules` translates the steps that follow rules into state functions from
photos to photos: the offsets of clocks by devices, the trip's period, inherited
and inferred coordinates, clusters, the two assignment rules and the filters. Time
is an integer with `Day` units a day, places lie on a line, and similarities enter
as levels that the thresholds tell apart. DBSCAN, which a library computes, is
given by its definition on the line.

`TripAgent` has the nodes of the graph of `run_agent` (select, estimate,
aggregate, merge) over the state of `TripView` with its canonical folders; what
the model decides is free, within what `decide` accepts. The release of new places
that cannot be shown, which the pipeline runs after filtering, is there as well.
`PhotoSorting` runs the steps in the order of `run.py` and assembles the result
(`finalize_photos`), with the checks that make it raise.

### 2.10 AgentSession and PipelineRun

`AgentSession` models the conversations about single photos: turns, tool calls in
one reply, the numbers of images, reads and turns, the public index before Kakao,
the cache of words, the budget of Kakao calls, which is stored before a call is
sent, the districts of places, and the semaphore of the session. All talks are
tasks of one event loop, so what lies between two awaits is one action. Searches for
similar photos (Qdrant) and for public places run in threads (`asyncio.to_thread`,
`StartSearch`) that the talk awaits: its field `thread` says that one works for it.

A talk is canceled in two steps. `future.cancel` sets its field `canceled`
(`CancelTalks`), and the talk goes on, may fail and may even answer. Then the event
loop throws the CancelledError into it (`CancelArrives`): a talk inside a chat call
first has its GPU slot released (`releasing`, up to 5 s, in which it still counts for
the semaphore; `SlotReleased`), and a thread goes on without it until it ends
(`ThreadEnds`).

`PipelineRun` runs one job in its child: the pipeline's thread with a program of
checks, reports, chunks of downloads and embeddings, rule steps and the agent;
the heartbeat thread of `ProgressReporter` with its lock, which repeats the last
report; calls from both threads into the event loop (`run_sync`); the waiter that
polls the agent's futures and checks for cancellation between; the cancellation of
the handler by the guard, and the error codes of `process_handler.py`. An error in
the thread asks the conversations to stop and waits for none; `LeadEnds` waits for the
thread alone, and `ChildExits` is the end of `asyncio.run`, which waits for the tasks
and threads that are left. Every call
that leaves the process may fail, before or after it took effect, as long as the
input's `faults` last. The `bug` error stands for a failure that nothing outside
causes: a photo that was not downloaded and is needed, or progress that the store
refuses.

### 2.11 StoryJob

Validation, filtering of candidates chunk by chunk, the vectors, the selection
with its allocation of the budget to places, signed URLs, the draft and its
verification. Each check for cancellation and the call after it are one step. The
draft is anything of the form that the response format of the request asks for.
The threshold of duplicates is translated with its mean and median over integer
similarities, without square roots: both sides of the comparison are squared.

`Sorting` has Python's `sorted` for the sets that stories and searches sort: the
k-th of the sequence has k - 1 before it. The orders compare times or scores first
and ids last, so they are total, which the proofs have to show.

### 2.12 QueryDates and QueryService

`QueryDates` has Python's calendar as ordinals and `resolve_relative_date` and
`_date_range` over it, and beside them what each expression means day by day, in
terms of single days only. `QueryService` is one query: the parse with its
fallback, candidates by time of day, the retrieval with its cutoff and order, the
images, the answer, and the limits of stages and of the request; a call that is due
may win or lose against its timeout, and giving back a slot of the gate takes up to
`ReleaseLimit`. Names of regions are text and left out.

### 2.13 TaskService

The v1 API is one event loop; what lies between two awaits is one action. `post`
is a POST request with the task object it creates. The store maps a trip to its
current post, and coroutines keep the object they hold, as in the code. `callers`
are the coroutines inside `_dispatch_next`; the first one holds the lock, the
second and later ones wait for it. `sending` is the call of `worker.submit` that
it awaits. The worker listens only once its model is loaded, so it is either down
or able to answer. A restart of the API, which forgets all tasks, and the wait of
a DELETE (on the same event as the POST) are left out.

## 3. The runs

Each property is explained where it is defined. Every one of them has a mutant of
the code in `PROJECT.json` that breaks it in the same run.

| Run | Instance | Shows |
| --- | --- | --- |
| `job_store_pair` | 2 process jobs of one trip, 1 publisher, lease 2, timeout 3, 1 claim handed back | TypeOK, OneActivePerLine, ResultsArePending, TerminalIsFinal, EveryJobEnds; ImplementsBoard: the store refines the board |
| `job_store_story` | 3 story jobs, 3 slot keys, limit 2, old image | QueueMatchesStatus, ConcurrencyLimit, StartsInOrder |
| `runners` | 1 story job, 2 runners and their children, 3 stops, kills or lost replies, 3 claims handed back | HandlerStartsOnce, DrainLeavesNothing, EveryRunEnds, LostChildLeaves |
| `publisher` | 1 job whose result may be too large for the broker, 2 publishers, publish lease 4, 3 faults | PublishedIsDelivered, NoDoubleSend, EveryResultPublished |
| `intake` | 7 messages (repeated, invalid, unidentifiable, too large), 2 replicas, 4 faults | CommittedIsHandled, HandledInOrder, EveryMessageHandled |
| `process_host` | in Redis: 2 executions of a trip, 2 batches of which 1 fits, each staged up to twice, 2 runners; on the host: 2 runners of two versions, one more content that a download may bring, 2 times, 2 standby children | NoBatchAfterProcess; IndexIsVerified, OneChildPerTask |
| `gate` | 3 chats of two processes, one of them tried twice, one slot | OverLimitOnlyAfterSlowClaim, IdleHoldsNoSlot, EveryChatEnds |
| `sorting` | 4 photos, 2 days, 3 candidates of the agent of which 2 are in the region, 2 rounds | FailsOnlyForBlurredFolder, InferredFromFolder, RulesSettled |
| `pipeline_run` | 3 photos in chunks of 2, all combinations of stored vectors and metrics, 2 talks with searches in threads, 3 Kakao calls, up to 2 faults | OnlyStoppingOutlives, OnlyOutsideFailures, CompletedIsComplete, ProgressNeverBack, EveryPipelineEnds |
| `story_and_query` | stories of 6 photos in 2 or 3 places with 3 budgets; searches of 3 candidates with limits 1 to 3; dates on 6 days | SelectionIsFair, StoryIsWhole; OnlyRetrievalFails, BestEvidence, DatesAreRight |
| `v1` | 2 POSTs of one trip and a DELETE; 2 POSTs of two trips with a DELETE or a fault; 1 POST with both | OutcomeIsFinal, EveryTaskEnds |
| `v1_cancel_race` | 2 POSTs of one trip, 1 DELETE | CanceledIsFinal is violated, see 3.1 |

Two runs put components side by side that share no state (`process_host`,
`story_and_query`): a behaviour belongs to one of them, chosen by the initial
state. Some properties were checked on their own before they became part of a
stronger one: ImplementsBoard implies that a canceled job never completes and that
a refused one never runs, and the proofs (section 4) state both, together with the
agreement of `running`, the slots and the counts with the records.
`RunTypeOK`, `PubTypeOK`, `IntakeTypeOK` and `PhotoTypeOK` document the types of
their modules; they hold on the same instances and are not listed in a run.

*Bounds.* Two jobs are enough where the property relates a job to one other job
(the previous execution of its trip); three are needed where two occupy the slots
and a third one must wait. `runners` and `publisher` ask how several runners or
publishers treat the same job, so one job and more faults say more than two jobs;
contention between jobs is the subject of the runs of JobStore. A lease of 2 and a timeout
of 3 make lease before timeout, timeout before lease and both at once happen.
In `gate` one slot and three chats make waiting, a lease that outlives its holder
and an EXEC behind a timeout meet. Four photos suffice for a chain of assignments
(one photo places the next), for two folders that merge and for a device without a
reference. In `pipeline_run` three photos make a full chunk and a partial one; the
faults are spread over four groups of inputs (`MCInputs`), so that every call
fails somewhere. Six photos allow places with three, two and one candidates, whose
shares of a budget have remainders. The days of the queries are those around leap
days, December and the turn of the year, and the offsets leave the calendar.
`MaxReturns`, `MaxStops`, `MaxFaults`, `MaxSendFaults`, `MaxStagings`, `faults` and `Loads` bound how
often something goes wrong, `MaxGroups` the merges of one answer; nothing else is cut
off. `CHECK_DEADLOCK FALSE` appears with KafkaIntake, whose log is finite, and with
stories and queries, which end. Symmetry is used only in runs without liveness.

*Fairness.* Time passes. `recover_jobs` and `runner_loop` are endless loops in
every replica, hence weak fairness of recover and claim. Publishers poll, Kafka
consumers poll, containers are restarted. Nothing is assumed of an execution: it
may hang, beat its heart for ever or never report; its lease and timeout end it.
For EveryResultPublished a send that is tried again and again must succeed at some
time, and an acknowledgement must at some time not be overtaken (strong
fairness): with a broker that never answers nothing can be published. A chat of
the gate ends because of its timeouts and the passing of time alone; the generation
server need not answer. In PipelineRun the threads run, the event loop serves its
tasks, and a call that left the process is answered or fails (every client has a
timeout), so that search threads and the release of a slot end as well; the pipeline thread has strong fairness because it competes with the
heartbeat for the reporter's lock, and the heartbeat sleeps between two
acquisitions. In v1 the event loop and the watchdog run, calls are answered, and a
pipeline run comes to an end: a run that hangs for ever keeps the only worker busy
and later tasks stay QUEUED, as `tick` looks at PROCESSING tasks only.

### 3.1 Where the code and what it says differ

One statement has a run that ends in its violation. `v1_cancel_race`:
`_dispatch_next` sets PROCESSING after its await without looking again
(`task_service.py:315`); a task canceled meanwhile leaves CANCELED, which the table
of transitions in the module's comment (`:8-15`) does not have.

The models contain the following behaviour as well, so that the properties hold in
spite of it or are stated around it:

* `task_service.py:96`: two POSTs of one trip pass the duplicate check while both
  wait for the worker's readiness; the second replaces the first one's event, and
  the first POST, which waits on it, is never answered.
* `task_service.py:145`: callbacks name only the trip, so the late result of an
  execution that timed out completes the next task of the trip.
* `task_service.py:142`: the worker starts before its 202 is read; a result that
  comes first is dropped as that of an ended task, and the task later becomes
  WORKER_DEAD.
* `agent/model.py:236-246`: two conversations that search for the same words at
  once both miss the cache and both ask Kakao, though the comment at `:43` says
  that a search is not sent again. It costs one call of the budget.
* `agent/graph.py:75-78`: `future.cancel` only asks the event loop to cancel a
  conversation. A canceled chat still releases its slot (`gpu_requests.py:74-80`, up to
  5 s), and threads of `asyncio.to_thread` (`agent/model.py:169`, `:217`) go on to
  their end. The pipeline thread does not wait for either, closes Qdrant and ends;
  `run_sync` waits for that thread only (`sync_bridge.py:39-47`), and
  `process_handler.py:137-168` closes the index of public places, the generation client
  and Kakao under the conversations that are left. `PlaceIndex.close` takes no lock
  that a search holds. So a job that fails or is canceled in its agent stage may have
  conversations or threads running while its result is stored. OnlyStoppingOutlives
  says which: ones that have failed or are asked to stop, whose results nobody reads,
  and none after COMPLETED. The end of `asyncio.run` waits for them
  (EveryPipelineEnds).
* `search/pipeline.py:133`: `SearchOptions` bounds each limit but not their sum. A
  slow retrieval, a late answer and a slow release of its slot
  (`gpu_requests.py:71-80`) together take the 30 s of a request
  (`query_service.py:48`), and the partial response, which has its photos by then,
  becomes a timeout. OnlyRetrievalFails allows exactly this case.
* `story/selection.py:127`: photos of a trip whose similarities are all equal lie
  on the threshold and count as duplicates of each other; the comment at `:118`
  names the case of a single pair.

The v2 store has none of the races of v1: it checks the record in the transaction
that changes it, and names executions by identity and owner token.

## 4. What is proved

TLAPS checks the theorems below for every instance: any sets of jobs, trips,
runners, publishers, replicas, chats, batches, photos, similarities, hits and scores,
and any limits, budgets, leases and timeouts that satisfy the assumptions of the
module. What the runs bound is arbitrary in the proofs: `MaxFaults`, `MaxSendFaults`, `MaxReturns`, `MaxStagings` and the `faults` of a pipeline's
input are any numbers (`MaxStops` one up to `MaxReturns`, since every stop may give a
claim back).

| Module | Theorem | Statement |
| --- | --- | --- |
| JobStoreProofs | TypeCorrect | `Spec => []TypeOK` |
| | StoreInvariant | `Spec => []StoreInv` |
| | IndexesAgree | `Spec => [](QueueMatchesStatus /\ RunningIsIndexed)` |
| | OneActive | `Spec => []OneActivePerLine` |
| | ResultsAreKept | `Spec => [](ResultsArePending /\ CountedOnce)` |
| | RefusalsHold | `Spec => [](CancelNeverCompletes /\ IgnoredStaysOut)` |
| | OutcomesAreFinal | `Spec => TerminalIsFinal` |
| | FirstComeFirstServed | `Spec => StartsInOrder` |
| | SlotsAreSafe | `Spec => [](SlotsMatchJobs /\ ConcurrencyLimit)` |
| | StoreImplementsBoard | `Spec => ImplementsBoard` |
| JobProcessesProofs | RunInvariant | `RunSpec => []RunInv` |
| | RunnersUseStore | `RunSpec => Spec` |
| | OneStart | `RunSpec => []HandlerStartsOnce` |
| | DrainedIsFree | `RunSpec => []DrainLeavesNothing` |
| | PubInvariant | `PubSpec => [](StoreInv /\ PubInv)` |
| | PublishersUseStore | `PubSpec => Spec` |
| | PublishedWasDelivered | `PubSpec => []PublishedIsDelivered` |
| | OneSender | `PubSpec => []NoDoubleSend` |
| | IntakeInvariant | `IntakeSpec => [](TypeOK /\ IntakeInv)` |
| | IntakeUsesStore | `IntakeSpec => Spec` |
| | CommittedWasHandled | `IntakeSpec => []CommittedIsHandled` |
| | HandledAsLogged | `IntakeSpec => []HandledInOrder` |
| | PhotosUseStore | `PhotoSpec => Spec` |
| | PhotoInvariant | `PhotoSpec => [](TypeOK /\ PhotoInv)` |
| | OnlyAheadOfProcess | `PhotoSpec => NoBatchAfterProcess` |
| | TrustedIndex | `HostSpec => []IndexIsVerified` |
| | TaskHasOneChild | `HostSpec => []OneChildPerTask` |
| RequestGateProofs | GateInvariant | `Spec => []GateInv` |
| | SlotsComeBack | `Spec => []IdleHoldsNoSlot` |
| | LimitIsKept | `Spec => []OverLimitOnlyAfterSlowClaim` |
| PipelineRunProofs | PipeInvariant | `Spec => []PipeInv` |
| | OnlyStoppingIsLeft | `Spec => []OnlyStoppingOutlives` |
| | ProgressGrows | `Spec => ProgressNeverBack` |
| | OnlyOutside | `Spec => []OnlyOutsideFailures` |
| | CompletedHasAll | `Spec => []CompletedIsComplete` |
| TaskServiceProofs | ServiceInvariant | `Spec => []ServiceInv` |
| | ServiceTypeCorrect | `Spec => []TypeOK` |
| | OutcomeStays | `Spec => OutcomeIsFinal` |
| PhotoSortingProofs | SortingInvariant | `Spec => []SortingInv` |
| | FailsOnlyIfBlurred | `Spec => []FailsOnlyForBlurredFolder` |
| | InferredInFolder | `Spec => []InferredFromFolder` |
| | RulesAreSettled | `Spec => []RulesSettled` |
| StoryAndQueryProofs | StoryInvariant | `StorySpec => []StoryInv` |
| | SelectsFairly | `StorySpec => []SelectionIsFair` |
| | StoriesAreWhole | `StorySpec => []StoryIsWhole` |
| | QueryInvariant | `QuerySpec => []QueryInv` |
| | OnlyOutsideFails | `QuerySpec => []OnlyRetrievalFails` |
| | BestIsReturned | `QuerySpec => []BestEvidence` |
| | DatesAreAsMeant | `QuerySpec => []DatesAreRight` |

JobRunners, ResultPublisher, KafkaIntake and PhotoBatches change the store only
through its own actions; the theorems `... => Spec` say so, and with them every
theorem of JobStoreProofs and the refinement of the board holds for the composed
systems as well.

*Assumptions.* Those the modules declare, which TLC evaluates on every run:
`JobsAssumption` (finitely many jobs, each with a trip and a kind),
`LimitAssumption` (1 <= JOBS_STORY_CONCURRENCY <= MAX_STORY_CONCURRENCY, which
`config.py` enforces), `TimeAssumption` (positive lease and timeouts, `gt=0` in
`config.py`), `OutcomesAssumption` (what `finish` may be given),
`RunnersAssumption` (the outcomes that children hand in are among these),
`IntakeAssumption` (the log is finite and its offsets are 1, 2, ...),
`PublisherAssumption`, `BatchAssumption` and `GateAssumption` (types of numbers and
sets, and every chat in one process), `IndexAssumption` (the versions and times of index files are
not the marks for "no file" and "no stamp"), `StandbyAssumption` (the pool has at
least one place) and `PipelineAssumption` (a request has photos, a chunk holds one
or more, the conversations are finitely many and `None`, which stands for the task
that asks for the regions, is none of them; what Qdrant and Redis hold is about
photos of the request), and `ServiceAssumption` (every POST has a trip, and the
limits of v1 are numbers in the ranges of its settings).

Of sorting: `RulesAssumption` (numbers in the ranges of their settings, a tolerance
of clocks below half a day, and a `None` that is no number), `AgentAssumption`
(candidates have coordinates) and `InputsAssumption`: GPS, time and device of a photo
may each be missing, and similarities are numbers. Nothing is assumed of how these
relate, not even that similarity is symmetric.

Of stories: `StoryAssumption` (types of numbers) and `StoriesAssumption`: every
request is an `IsStory`. That is, a request that passes `validate_request` has one
or more places, each with photos, and no photo in two of them (`pipeline.py:45-56`,
`min_length=1` in `models.py`), and similarities are symmetric, as `similarities`
makes them (`selection.py:102-115`). The vectors, hashes, times and the sharpness of
photos are arbitrary, and so is a request that does not pass. Of queries:
`QueryAssumption` (types, `QuestionK` and the ratio of the cutoff in the ranges of
`SearchOptions`), `InputAssumption` (what the schemas of requests and of the model's
output accept, with a reference date from 1900 to 9998: a winter that begins in 9999,
or a day meant in the year 0, would be refused by `date` although today lies in its
range), and `LimitsAssumption`: a parse with the release of its
slot is shorter than a request, and a retrieval, an answer and a release together
are not longer. `SearchOptions` does not enforce the latter (see 3.1), but
`QueryService` always uses its defaults, and these satisfy it; without it a slow
parse would lose its fallback to the limit of the request.

### 4.1 The argument

*JobStore.* None of the invariants is inductive by itself. `StoreInv` is their
conjunction with three facts that no run needs to state: an ended record carries
the event of its status and an active one none (`EventMatchesStatus`), only ended
records are published (`OnlyEndedArePublished`), and the place that a claim
remembers is the one at which the job was accepted (`ClaimKeepsPlace`), without
which a job handed back could come to stand elsewhere. All operations that go
through `change` are shown to be a `LegalUpdate` of one record (`StepCases`):
PROCESSING stays, is put back, or ends, and an ended record changes only its
publication. So the invariant is proved once for legal updates and once each for
claim, registration, acknowledgement and time. The action properties follow from
the same case distinction. The slots need a second invariant, `SlotInv`, which
counts the occupied slots: a claim adds one below the limit, an update frees the
slot of its job or, under the old image, leaves it to an ended job until
`ClearStaleSlots`. Jobs in execution inject into occupied slots, which gives the
concurrency limit.

*The board.* `BoardInv` adds to both that `latest` names a record of its own line
(`LatestInv`), without which a line that the board calls free could still be
refused. Each operation of the store is then one action of the board or a stutter
(`NextOnBoard`): register refuses or accepts, claim starts the first of the line
below the limit, and heartbeats, progress, publication claims and time are unseen.

*JobRunners.* HandlerStartsOnce is about a child that may have been started with a
claim that its runner has lost. `RunInv` says what a runner or a child can know:
a token that is held was issued (`RunsHaveClaims`), no two runners hold the same
(`TokensDiffer`), and once a handler was started its job is never queued again and
its owner, if it has one, is past the start (`StartIsOwned`). A runner gives a job
back only before the start, so a start is never repeated.
`StoreStepKeeps` states what a step of the store may do to an owner, and
`RunnerMoves` and `ChildMoves` reduce the steps of a process to four forms: a new
claim, letting go, going on, and the start of the handler.

*ResultPublisher.* `PubInv`: a publisher that sends is the owner that the record
names, and its send times out before its lease ends (`SendingIsLeased`); a reply
that was seen came from a broker that has the message (`AckedIsDelivered`).
NoDoubleSend follows, as a record names one owner.

*KafkaIntake.* `LoopIsInOrder` and `FetchIsInOrder`: what a loop works at comes
behind handled messages only, also in a replica that no longer owns the partition,
and the owner has fetched nothing that is neither handled nor in its hands. The
order of handling and of commits follows.

*PhotoBatches.* The buffer of a registered or refused job is empty
(`ClosedIsEmpty`), because register clears it in its own transaction, and a job
that is closed stays closed (`ClosedByRegister`).

*PlaceIndexFile.* The lock excludes (`OneInside`); a stamp that carries the time
of the file names its content (`StampIsTrue`), also in the window between swap
and stamp, where the holder knows what it has put there (`HolderKnows`); and what
is open has been verified (`OpenedIsVerified`).

*StandbyChildren.* `NotYetGiven`: a runner that is about to start a child has given
its task to none. The pool's `alive` is a recursive function over the list; its
effect (`AlivePool`) is proved with the least counterexample.

*RequestGate.* `AttemptsBounded`; `MembersAreHeld` (a member of the sorted set
belongs to the attempt that its chat makes, which releases it, or its release was
lost); `LimitKept` (the members whose lease lasts never exceed the limit, and an
EXEC that may still succeed leaves room for its token, as WATCH lets it see the set
that ZCOUNT counted); and `LeaseLasts` (how much of its lease an attempt has left at
least in each state, by the time the claim took). The last one says that the call
of a prompt claim is a live member, so calls above the limit include one of a slow
claim.

*PipelineRun.* The program that the thread runs is a sequence of instructions, which
`run` lays out from its input and from which the thread takes the first one at each
step, so the proof is about what is left of it. Its first half has no states at all.
`Fits(i, s, lo, hi)` says that every instruction of `s` may stand between two points
of the progress (a point is a step and a count) and that each `Leads` those behind it:
reports grow, images are loaded before they are decoded, vectors are fetched and
stored before they are used, and work comes in the part to which it belongs. The
pieces (chunks, stages, the agent's part) are shown to fit one by one, and what fits
up to a point and from there on fits together (`FitsConcat`, `FitsFlat` for the
concatenated chunks). `ProgramSound` is the result: for every input the program is in
order, ends in its exit, downloads all that it decodes, embeds every photo that has no
stored vector, and reports <<7, N>> last.

`PipeInv` carries that through the execution. `EndInv`: what is left fits to where the
thread is (`RestFits`: a running thread always has an end ahead, and after an error
only an end and reports); every conversation is settled, waited for, failed or asked to
stop, none is asked to stop before the thread has met an error, and only one that is
asked to stop releases its slot or ends without an answer (`TasksStop`, `TalkFits`);
the waiter comes back to the tasks it waits for, unless it fails (`TasksAreWaitedFor`);
threads and handler end in their order (`ThreadsEnd`). OnlyStoppingOutlives follows: a
thread that has closed waits for no task, so what runs has failed or is asked to stop,
and without an error nothing is. That nothing is left would be false (section 3.1). `OrderInv`: the rest is in order, and what the heartbeat
repeats is not ahead of anything left, as the lock holds the heartbeat off while a
report is sent (`ProgressFollows`). Without it a late heartbeat could put an old count
behind a new one, so ProgressNeverBack needs it. The agent's reports are not in the
program but counted out as its tasks end; `Ticked` bounds them by the count that the
next stage begins with. `DataInv`: as long as the thread has met no error, what is
downloaded or stored, with what the rest still downloads and embeds, is enough
(`ImagesSuffice`, `VectorsSuffice`), and the last report is shown or left
(`LastIsShown`). So no computation misses its data, and nothing is missing when
nothing is left. `ErrorsCount`: the handler reports COMPLETED only for a thread that
closed without an error of its own or of its heartbeat.

*TaskService.* Most writers of a status test it in the same step: a POST stores only
a task that does not exist yet (`NewIsAbsent`), a DELETE ends only a queued one,
watchdog and callbacks only one in PROCESSING. The exception is the dispatch, which
writes the task it holds after `worker.submit` has been awaited and does not look at
it again. `SendingIsOpen` says what can have happened to it meanwhile: nothing, or a
DELETE. Nobody else reaches it, since it is not PROCESSING yet and the dispatch lock
is held (`callers # <<>>`), so that no second dispatch picks it. So the dispatch may
revive a canceled task, which is the finding of `v1_cancel_race`, but never a
completed or failed one. That the dispatch picks a queued task at all needs that what
is stored is known and of its trip (`StoredIsKnown`), and that what is known was
created at some time, which orders the queue (`KnownIsCreated`, `OldestIsQueued`).

*PhotoSorting.* `SortingInv` says for each step what it finds (`StepFinds`), so that
what a later step takes for granted is what the earlier ones have left: times are
judged (`Timed`), only the photos of the request with GPS count as such (`Sourced`), a photo is in a
folder with coordinates or its location is unclear (`Sorted_`), and every folder has
a GPS photo with the coordinates that were inferred for its members (`GpsInFolders`).
One lemma for each step shows what it makes of the photos (`ClockSettles` to
`ReleaseSettles`). The passes of the two rules are folds; a photo that they put into
a folder finds a GPS photo there, so nothing is raised (`RoundKeeps`). RulesSettled
does not follow from the invariant but from the loop: a fold that gave the
photos back unchanged has changed nothing at any turn, since each turn can change its
own photo only, and from a folder nobody comes back (`RoundSettles`).

Under the agent a folder may be merged, and `canon` follows `merged` to its end. The
model follows it as often as `merged` has entries; that this is enough is not obvious.
The code merges one folder into the canonical one of another and never a folder that
is merged already, so `merged` stays a forest: `MergedWell` says that what `canon`
reaches is not itself merged, and `CanonOfExtended` what one more entry does to every
path. `FoldersAreReal` is `GpsInFolders` for that view: a folder has a GPS photo or is
a new place, and the coordinates inferred for a photo are those of the one or the
other; merging unites such folders (`MergesSettle`), and `Finish` renames them
(`FinishSettles`). So `Assign` always finds coordinates, whatever the model answers,
and after `Finish` every photo with a folder has some. A folder of a new place may
have no GPS photo. If filtering leaves it nothing to show, it has to be dissolved, and
`Release` dissolves exactly these (`GpsOrShown`). What is left to fail is a folder with
GPS photos where all are blurred: a duplicate stands beside the photo that it is like,
which is retained, since filtering goes by time and keeps the first one
(`FilteringSettles`, `FirstIsOne`).

*StoryJob.* Nearly all of the proof is about values, not about steps. Folds and
`SumFunction` are recursive, and a recursive function equals its equation only if
some function satisfies it (the same is true of the passes of PhotoSorting). So the recursion over the subsets of a finite
set is shown to have a solution (`FoldExists`, by a least counterexample on the
size), from which follow what a sum is (`SumIs`) and that a fold over a sequence goes
through its intermediate results step by step (`FoldLeftSteps`); what every step
keeps, the fold keeps. `SortedBy` is shown to list every
element once and in order whenever the order is total on the set. All but the sums is in
`Lemmas`. With it: `FilterRetains`, what filtering a chunk adds is sharp and
far from all that is retained; `AllocationIs`, the shares of places are at least one,
exceed the floor of their proportional part by one at most, and add up to the budget,
because the remainders that are left over are fewer than the places that have one;
`ChooseIs`, a place gets its number of scenes unless each of its other photos looks
like a chosen one; and `SelectedFairly`, which puts the places together. `StoryInv`
carries this through the job: the filter works at one place after the other and has
kept a legal part of each (`Filtering`); what is ready for selection has candidates
in each place (`Ready` in `SelectedFromKept`); the selection stays fair as nothing of
it changes any more; and the blocks of a verified draft are the selected photos in
order of time (`BlocksFromSelected`), whatever the draft was.

*QueryService.* `Evidence`: what is selected is the first part of the candidates by
time or of the cutoff of hits that were all candidates. `EvidenceIsBest` turns that
into the statement about each photo and hit, by the same facts about sorting.
`StagesInTime` bounds the time that each stage began and how long it has lasted; with
the limits it leaves the limit of the request for an answer that is late twice. A
response always passes its own check (`IsResult`), so no query ends with an internal
error for another reason than a stray hit.

*QueryDates.* `DatesAreRight` compares two descriptions of a relative expression: the
arithmetic of `_resolve`, and what the expression says of a single day. The proof
connects them by the calendar. Years and months come one after the other
(`YearsGrow`, `MonthsGrow`, from the lengths of both), every date has a year and a
month (`YearExists`, by a least counterexample), so `YearIs` and `MonthIs` say that
the year and month of a date are the ones that it lies in, and a date is not before
the first of a month if and only if its own month is not before that one
(`SinceMonth`). Then for each unit the days meant up to today are an interval, which is
the range of `_resolve`, or the range is missing and the interval lies at the
bounds of the calendar (`Resolved`); `ResolvedIsRight` turns that into what
`_date_range` returns after it has cut the range off today. The lemmas about the
calendar hold for all years, before the year 1 as well, because the model's
arithmetic goes on where Python's raises.

### 4.2 What is only model-checked

* Liveness, in all modules: fairness and ENABLED are beyond the prover.
* Of AgentSession only what PipelineRun needs of it is proved: which conversations
  are over, waited for or asked to stop. That the others do end is liveness.
* That the translated rules are the intended ones. The theorems about sorting are about what the
  steps leave for each other, not about the quality of a cluster or of a clock's offset.

Every safety property of a passing run is stated by one of the theorems.

`RunningIsIndexed`, `CountedOnce`, `CancelNeverCompletes`, `IgnoredStaysOut` and
`SlotsMatchJobs` are proved for every instance and are in no run of their own. The
inductive invariants were checked by TLC on the instances of the runs before they
were proved.

## 5. What is not modelled, and the plan

*Not modelled.* Prompts, texts and what models answer (free choices here), image
and vector arithmetic, matching of region names, HTTP plumbing, logs and metrics
other than the counted terminations, the fake engines, deployment scripts. The
RunPod status cache and the start and shutdown order of `v2_main.py` and
`worker_main.py` could be modelled; both are small, and a stale status or a slow
start affects no job. Redis is taken as durable; the repository's README names the
loss of its data as a known limit.

*Next:* proofs about the budgets of conversations (AgentSession).
