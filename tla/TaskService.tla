----------------------------- MODULE TaskService -----------------------------
(***************************************************************************)
(* The v1 server: TaskService in the memory of the API process             *)
(* (app/jobs/task_service.py, task_store.py, watchdog.py), the worker      *)
(* process with its single pipeline thread (app/worker/runner.py), and the *)
(* HTTP calls between the two (worker_client.py, callback.py).             *)
(*                                                                         *)
(* The API runs on one event loop: what lies between two awaits is one     *)
(* action.  A post is one POST request and the Task object it creates; a   *)
(* later post of the same trip replaces the Task in the store, but the     *)
(* coroutines that hold the old object go on with it.  The event that      *)
(* wakes a post is the one of the post that is in the store.               *)
(***************************************************************************)
EXTENDS Integers, Sequences, FiniteSets

CONSTANTS
    Posts,             \* POST requests, and the Tasks that they create
    Trips,
    TripOf,            \* [Posts -> Trips]
    None,
    MAX_CONCURRENT,
    MAX_QUEUE,
    WORKER_DEAD_SEC,
    TASK_TIMEOUT_SEC,
    Loads              \* bounds: the POSTs and the number of DELETEs that are sent in
                       \* a behaviour, and how many calls are lost or workers die

ASSUME ServiceAssumption ==
    /\ TripOf \in [Posts -> Trips]
    /\ Loads \subseteq [sent : SUBSET Posts, deletes : Nat, faults : Nat]
    /\ None \notin Posts
    /\ MAX_CONCURRENT \in Nat \ {0}
    /\ MAX_QUEUE \in Nat
    /\ WORKER_DEAD_SEC \in Nat \ {0}
    /\ TASK_TIMEOUT_SEC \in Nat \ {0}

VARIABLES
    post,      \* the handler of every POST and the event it waits for
    task,      \* the Task objects
    stored,    \* TaskStore: the current Task of every trip
    created,   \* posts in the order of created_at
    callers,   \* coroutines in _dispatch_next; the first one holds the lock
    sending,   \* the call of worker.submit that the lock holder awaits
    fired,     \* completion events that are set
    worker,    \* Runner: _current, its cancel flag, model_loaded
    thread,    \* the pipeline thread
    cancels,   \* trips whose cancel call is on the way to the worker
    budget     \* bound: DELETEs and faults that may still come

apiVars == <<post, task, stored, created, callers, sending, fired>>
vars == <<apiVars, worker, thread, cancels, budget>>

Terminal == {"COMPLETED", "FAILED", "CANCELED"}

NoTask == [status |-> "ABSENT", deadLeft |-> 0, timeLeft |-> 0, of |-> None]

\* A caller of _dispatch_next that is not a POST: a callback or the watchdog.
Other == None

Count(status) ==
    Cardinality({t \in Trips : stored[t] # None /\ task[stored[t]].status = status})

Queued == {p \in Posts : /\ \E t \in Trips : stored[t] = p
                         /\ task[p].status = "QUEUED"}

Before(p, q) ==
    \E i, k \in 1 .. Len(created) : i < k /\ created[i] = p /\ created[k] = q

Oldest == CHOOSE p \in Queued : \A q \in Queued \ {p} : Before(p, q)

\* _finish: the only place that writes a final status; it sets the event
\* that the waiters of the trip have now.
FinishedTask(p, status, of) ==
    [task EXCEPT ![p].status = status, ![p].of = of,
                 ![p].deadLeft = 0, ![p].timeLeft = 0]

Fired(p) == fired \cup {stored[TripOf[p]]}

\* A second waiting caller of this sort would do nothing that the first
\* one does not do.
CallDispatch(seq) ==
    IF \E i \in 2 .. Len(seq) : seq[i] = Other THEN seq ELSE Append(seq, Other)

Fault == budget.faults > 0 /\ budget' = [budget EXCEPT !.faults = @ - 1]
Delete == budget.deletes > 0 /\ budget' = [budget EXCEPT !.deletes = @ - 1]

-----------------------------------------------------------------------------
(* submit and wait_done.                                                   *)

Busy(t) == stored[t] # None /\ task[stored[t]].status \notin Terminal

SlotFree == Count("PROCESSING") < MAX_CONCURRENT

Put(p) ==
    /\ task' = [task EXCEPT ![p].status = "QUEUED"]
    /\ created' = Append(created, p)
    /\ stored' = [stored EXCEPT ![TripOf[p]] = p]
    /\ callers' = Append(callers, p)
    /\ post' = [post EXCEPT ![p].pc = "dispatch"]
    /\ UNCHANGED <<sending, fired>>

\* DUPLICATE_TASK or RATE_LIMITED.
SubmitRejected(p) ==
    /\ post[p].pc = "new"
    /\ \/ Busy(TripOf[p])
       \/ ~SlotFree /\ Count("QUEUED") >= MAX_QUEUE
    /\ post' = [post EXCEPT ![p].pc = "done"]
    /\ UNCHANGED <<task, stored, created, callers, sending, fired, worker, thread,
                   cancels, budget>>

\* All slots are taken: the task is queued at once.
SubmitQueued(p) ==
    /\ post[p].pc = "new"
    /\ ~Busy(TripOf[p])
    /\ ~SlotFree
    /\ Count("QUEUED") < MAX_QUEUE
    /\ Put(p)
    /\ UNCHANGED <<worker, thread, cancels, budget>>

\* A slot is free: the worker is asked whether its model is loaded.
SubmitAsks(p) ==
    /\ post[p].pc = "new"
    /\ ~Busy(TripOf[p])
    /\ SlotFree
    /\ post' = [post EXCEPT ![p].pc = "ready"]
    /\ UNCHANGED <<task, stored, created, callers, sending, fired, worker, thread,
                   cancels, budget>>

WorkerReady(p) ==
    /\ post[p].pc = "ready"
    /\ worker.loaded
    /\ Put(p)
    /\ UNCHANGED <<worker, thread, cancels, budget>>

\* MODEL_NOT_READY: the worker is down or still loading, or the call failed.
WorkerNotReady(p) ==
    /\ post[p].pc = "ready"
    /\ \/ ~worker.loaded /\ UNCHANGED budget
       \/ Fault
    /\ post' = [post EXCEPT ![p].pc = "done"]
    /\ UNCHANGED <<task, stored, created, callers, sending, fired, worker, thread,
                   cancels>>

\* wait_done returns.
PostReturns(p) ==
    /\ post[p].pc = "wait"
    /\ post[p].event \in fired
    /\ post' = [post EXCEPT ![p].pc = "done"]
    /\ UNCHANGED <<task, stored, created, callers, sending, fired, worker, thread,
                   cancels, budget>>

-----------------------------------------------------------------------------
(* _dispatch_next.                                                         *)

NotSending == [pc |-> "no", post |-> None, reply |-> "NONE"]

\* The lock is given up; a POST goes on to wait_done.
Release ==
    /\ callers' = Tail(callers)
    /\ post' = IF Head(callers) = Other THEN post
               ELSE [post EXCEPT ![Head(callers)] =
                       [pc |-> "wait", event |-> stored[TripOf[Head(callers)]]]]

DispatchPick ==
    /\ callers # <<>>
    /\ sending.pc = "no"
    /\ SlotFree
    /\ Queued # {}
    /\ sending' = [pc |-> "sent", post |-> Oldest, reply |-> "NONE"]
    /\ UNCHANGED <<post, task, stored, created, callers, fired, worker, thread,
                   cancels, budget>>

DispatchDone ==
    /\ callers # <<>>
    /\ sending.pc = "no"
    /\ ~SlotFree \/ Queued = {}
    /\ Release
    /\ UNCHANGED <<task, stored, created, sending, fired, worker, thread, cancels,
                   budget>>

\* Runner.submit behind POST /jobs: 409 or 202.  The server listens only after
\* its lifespan has loaded the model, so that 503 (NOT_READY) does not come.
WorkerAnswers ==
    /\ sending.pc = "sent"
    /\ worker.loaded
    /\ LET reply == IF worker.current # None THEN "BUSY" ELSE "ACCEPTED"
       IN  /\ sending' = [sending EXCEPT !.pc = "answered", !.reply = reply]
           /\ worker' = IF reply = "ACCEPTED"
                        THEN [worker EXCEPT !.current = sending.post, !.flag = FALSE]
                        ELSE worker
    /\ UNCHANGED <<post, task, stored, created, callers, fired, thread, cancels, budget>>

\* The code does not look at the task again after the await.
Accepted ==
    /\ sending.pc = "answered"
    /\ sending.reply = "ACCEPTED"
    /\ task' = [task EXCEPT ![sending.post].status = "PROCESSING",
                            ![sending.post].deadLeft = WORKER_DEAD_SEC,
                            ![sending.post].timeLeft = TASK_TIMEOUT_SEC]
    /\ sending' = NotSending
    /\ UNCHANGED <<post, stored, created, callers, fired, worker, thread, cancels, budget>>

\* BUSY: the task stays QUEUED until the next call.
Refused ==
    /\ sending.pc = "answered"
    /\ sending.reply # "ACCEPTED"
    /\ sending' = NotSending
    /\ Release
    /\ UNCHANGED <<task, stored, created, fired, worker, thread, cancels, budget>>

\* WorkerUnavailable: the worker is down, or the call fails before or after it
\* has taken the job.
SubmitFails ==
    /\ sending.pc \in {"sent", "answered"}
    /\ \/ ~worker.loaded /\ UNCHANGED budget
       \/ Fault
    /\ task' = FinishedTask(sending.post, "FAILED", None)
    /\ fired' = Fired(sending.post)
    /\ sending' = NotSending
    /\ UNCHANGED <<post, stored, created, callers, worker, thread, cancels>>

-----------------------------------------------------------------------------
(* cancel and tick.                                                        *)

CancelQueued(t) ==
    /\ Delete
    /\ stored[t] # None
    /\ task[stored[t]].status = "QUEUED"
    /\ task' = FinishedTask(stored[t], "CANCELED", None)
    /\ fired' = Fired(stored[t])
    /\ UNCHANGED <<post, stored, created, callers, sending, worker, thread, cancels>>

CancelProcessing(t) ==
    /\ Delete
    /\ stored[t] # None
    /\ task[stored[t]].status = "PROCESSING"
    /\ cancels' = cancels \cup {t}
    /\ UNCHANGED <<apiVars, worker, thread>>

Expired(p) == task[p].deadLeft = 0 \/ task[p].timeLeft = 0

Dead == {stored[t] : t \in {u \in Trips : /\ stored[u] # None
                                          /\ task[stored[u]].status = "PROCESSING"
                                          /\ Expired(stored[u])}}

WatchdogTick_NoTimeout ==
    /\ UNCHANGED <<task, fired>>
    /\ callers' = CallDispatch(callers)
    /\ UNCHANGED <<post, stored, created, sending, worker, thread, cancels, budget>>

\* tick: WORKER_DEAD or TIMEOUT, and a call of _dispatch_next.
WatchdogTick ==
    /\ task' = [p \in Posts |-> IF p \in Dead THEN FinishedTask(p, "FAILED", None)[p]
                                              ELSE task[p]]
    /\ fired' = fired \cup Dead
    /\ callers' = CallDispatch(callers)
    /\ UNCHANGED <<post, stored, created, sending, worker, thread, cancels, budget>>

Closer(left) == IF left > 0 THEN left - 1 ELSE left

Time ==
    /\ task' = [p \in Posts |-> [task[p] EXCEPT !.deadLeft = Closer(@),
                                                !.timeLeft = Closer(@)]]
    /\ UNCHANGED <<post, stored, created, callers, sending, fired, worker, thread,
                   cancels, budget>>

-----------------------------------------------------------------------------
(* The worker.                                                             *)

IdleThread == [pc |-> "idle", post |-> None, out |-> "NONE"]

\* The thread takes the job from the executor's queue.
ThreadStarts ==
    /\ thread.pc = "idle"
    /\ worker.current # None
    /\ thread' = [pc |-> "run", post |-> worker.current, out |-> "NONE"]
    /\ UNCHANGED <<apiVars, worker, cancels, budget>>

\* The callbacks name the trip only.
Addressee == stored[TripOf[thread.post]]

ThreadReports ==
    /\ thread.pc = "run"
    /\ task[Addressee].status = "PROCESSING"
    /\ task' = [task EXCEPT ![Addressee].deadLeft = WORKER_DEAD_SEC]
    /\ UNCHANGED <<post, stored, created, callers, sending, fired, worker, thread,
                   cancels, budget>>

\* The slot is given back before the callback is sent.
ThreadEnds(out) ==
    /\ thread.pc = "run"
    /\ out = "CANCELED" => worker.flag
    /\ worker' = [worker EXCEPT !.current = None, !.flag = FALSE]
    /\ thread' = [thread EXCEPT !.pc = "callback", !.out = out]
    /\ UNCHANGED <<apiVars, cancels, budget>>

Callback_Unchecked ==
    /\ task' = FinishedTask(Addressee, thread.out, thread.post)
    /\ fired' = Fired(thread.post)
    /\ callers' = CallDispatch(callers)
    /\ UNCHANGED <<post, stored, created, sending>>

\* complete and fail: ignored unless the trip's task is PROCESSING.
Callback ==
    /\ IF task[Addressee].status = "PROCESSING"
       THEN /\ task' = FinishedTask(Addressee, thread.out, thread.post)
            /\ fired' = Fired(thread.post)
            /\ callers' = CallDispatch(callers)
       ELSE UNCHANGED <<task, fired, callers>>
    /\ UNCHANGED <<post, stored, created, sending>>

CallbackArrives ==
    /\ thread.pc = "callback"
    /\ Callback
    /\ thread' = IdleThread
    /\ UNCHANGED <<worker, cancels, budget>>

\* The callback is applied, its reply is lost: it is sent again.
CallbackReplyLost ==
    /\ thread.pc = "callback"
    /\ Fault
    /\ Callback
    /\ UNCHANGED <<worker, thread, cancels>>

\* All attempts have failed.
CallbackGivesUp ==
    /\ thread.pc = "callback"
    /\ Fault
    /\ thread' = IdleThread
    /\ UNCHANGED <<apiVars, worker, cancels>>

\* Runner.cancel: the flag of the trip, whichever post it belongs to.
WorkerCancels(t) ==
    /\ t \in cancels
    /\ cancels' = cancels \ {t}
    /\ worker' = [worker EXCEPT !.flag =
                    @ \/ (worker.current # None /\ TripOf[worker.current] = t)]
    /\ UNCHANGED <<apiVars, thread, budget>>

CancelLost(t) ==
    /\ t \in cancels
    /\ Fault
    /\ cancels' = cancels \ {t}
    /\ UNCHANGED <<apiVars, worker, thread>>

WorkerDies ==
    /\ Fault
    /\ worker' = [current |-> None, flag |-> FALSE, loaded |-> FALSE]
    /\ thread' = IdleThread
    /\ UNCHANGED <<apiVars, cancels>>

WorkerLoads ==
    /\ ~worker.loaded
    /\ worker' = [worker EXCEPT !.loaded = TRUE]
    /\ UNCHANGED <<apiVars, thread, cancels, budget>>

-----------------------------------------------------------------------------
Init ==
    /\ \E load \in Loads :
         /\ post = [p \in Posts |-> [pc |-> IF p \in load.sent THEN "new" ELSE "done",
                                    event |-> None]]
         /\ budget = [faults |-> load.faults, deletes |-> load.deletes]
    /\ task = [p \in Posts |-> NoTask]
    /\ stored = [t \in Trips |-> None]
    /\ created = <<>>
    /\ callers = <<>>
    /\ sending = NotSending
    /\ fired = {}
    /\ worker = [current |-> None, flag |-> FALSE, loaded |-> FALSE]
    /\ thread = IdleThread
    /\ cancels = {}

Next ==
    \/ \E p \in Posts : SubmitRejected(p)
    \/ \E p \in Posts : SubmitQueued(p)
    \/ \E p \in Posts : SubmitAsks(p)
    \/ \E p \in Posts : WorkerReady(p)
    \/ \E p \in Posts : WorkerNotReady(p)
    \/ \E p \in Posts : PostReturns(p)
    \/ DispatchPick
    \/ DispatchDone
    \/ WorkerAnswers
    \/ Accepted
    \/ Refused
    \/ SubmitFails
    \/ \E t \in Trips : CancelQueued(t)
    \/ \E t \in Trips : CancelProcessing(t)
    \/ WatchdogTick
    \/ Time
    \/ ThreadStarts
    \/ ThreadReports
    \/ \E out \in Terminal : ThreadEnds(out)
    \/ CallbackArrives
    \/ CallbackReplyLost
    \/ CallbackGivesUp
    \/ \E t \in Trips : WorkerCancels(t)
    \/ \E t \in Trips : CancelLost(t)
    \/ WorkerDies
    \/ WorkerLoads

Spec == Init /\ [][Next]_vars

(***************************************************************************)
(* The event loop runs every ready coroutine, the watchdog is called for   *)
(* ever, calls are answered, and the pipeline comes to an end.             *)
(***************************************************************************)
Fairness ==
    /\ WF_vars(Time)
    /\ WF_vars(WatchdogTick)
    /\ \A p \in Posts : WF_vars(WorkerReady(p) \/ WorkerNotReady(p))
    /\ \A p \in Posts : WF_vars(PostReturns(p))
    /\ WF_vars(DispatchPick \/ DispatchDone)
    /\ WF_vars(WorkerAnswers)
    /\ WF_vars(Accepted \/ Refused)
    /\ WF_vars(ThreadStarts)
    /\ WF_vars(\E out \in Terminal : ThreadEnds(out))
    /\ WF_vars(CallbackArrives)
    /\ WF_vars(WorkerLoads)

FairSpec == Spec /\ Fairness

-----------------------------------------------------------------------------
(* Properties.                                                             *)

\* The types of the memory of both processes.
TypeOK ==
    /\ post \in [Posts -> [pc : {"new", "ready", "dispatch", "wait", "done"},
                           event : Posts \cup {None}]]
    /\ task \in [Posts -> [status : {"ABSENT", "QUEUED", "PROCESSING"} \cup Terminal,
                           deadLeft : 0 .. WORKER_DEAD_SEC,
                           timeLeft : 0 .. TASK_TIMEOUT_SEC,
                           of : Posts \cup {None}]]
    /\ stored \in [Trips -> Posts \cup {None}]
    /\ created \in Seq(Posts)
    /\ callers \in Seq(Posts \cup {Other})
    /\ sending \in [pc : {"no", "sent", "answered"}, post : Posts \cup {None},
                    reply : {"NONE", "ACCEPTED", "BUSY"}]
    /\ fired \in SUBSET Posts
    /\ worker \in [current : Posts \cup {None}, flag : BOOLEAN, loaded : BOOLEAN]
    /\ thread \in [pc : {"idle", "run", "callback"}, post : Posts \cup {None},
                   out : {"NONE"} \cup Terminal]
    /\ cancels \in SUBSET Trips
    /\ budget \in [faults : Nat, deletes : Nat]

\* A completed or failed task stays so, whatever callbacks still arrive.
OutcomeKept ==
    \A p \in Posts : task[p].status \in {"COMPLETED", "FAILED"}
                     => task'[p].status = task[p].status /\ task'[p].of = task[p].of

OutcomeIsFinal == [][OutcomeKept]_vars

\* The task that is in the store ends, or a new post takes its place.
EveryTaskEnds ==
    \A p \in Posts :
        (stored[TripOf[p]] = p /\ task[p].status \in {"QUEUED", "PROCESSING"})
        ~> (stored[TripOf[p]] # p \/ task[p].status \in Terminal)

\* The table of transitions in the module comment of task_service.py: there
\* is none that leaves CANCELED, so a canceled task stays canceled.
CanceledKept ==
    \A p \in Posts : task[p].status = "CANCELED" => task'[p].status = "CANCELED"

CanceledIsFinal == [][CanceledKept]_vars

=============================================================================
