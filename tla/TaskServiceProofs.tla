------------------------- MODULE TaskServiceProofs -------------------------
(***************************************************************************)
(* Theorems about the v1 server (TaskService), for every set of posts and  *)
(* trips, every limit, and any number of DELETEs and faults.               *)
(***************************************************************************)
EXTENDS TaskService, Lemmas

-----------------------------------------------------------------------------
(* The invariant.                                                          *)

Tasks == [status : {"ABSENT", "QUEUED", "PROCESSING"} \cup Terminal,
          deadLeft : 0 .. WORKER_DEAD_SEC, timeLeft : 0 .. TASK_TIMEOUT_SEC,
          of : Posts \cup {None}]

Known(p) == task[p].status # "ABSENT"

\* A Task is created with its post, not before.
NewIsAbsent == \A p \in Posts : post[p].pc \in {"new", "ready"} => ~Known(p)

\* The store holds for each trip a Task of that trip, from the first one on.
StoredIsKnown ==
    /\ \A t \in Trips : stored[t] # None => TripOf[stored[t]] = t /\ Known(stored[t])
    /\ \A p \in Posts : Known(p) => stored[TripOf[p]] # None

\* created_at orders all of them.
KnownIsCreated == \A p \in Posts : Known(p) => \E k \in 1 .. Len(created) : created[k] = p

\* While worker.submit is awaited nothing but a DELETE can change its task.
SendingIsOpen ==
    sending.pc # "no" => /\ callers # <<>>
                         /\ sending.post \in Posts
                         /\ task[sending.post].status \in {"QUEUED", "CANCELED"}

\* The worker and its thread have jobs that the API has sent.
WorkIsKnown ==
    /\ worker.current # None => Known(worker.current)
    /\ thread.pc # "idle" => thread.post \in Posts /\ Known(thread.post)
    /\ thread.pc = "callback" => thread.out \in Terminal

\* The inductive invariant.
ServiceInv ==
    /\ TypeOK /\ NewIsAbsent /\ StoredIsKnown /\ KnownIsCreated
    /\ SendingIsOpen /\ WorkIsKnown

-----------------------------------------------------------------------------
(* Parts of the steps.                                                     *)

\* Among the queued Tasks there is one that was created first.
LEMMA OldestIsQueued ==
    ASSUME ServiceInv, Queued # {}
    PROVE  Oldest \in Queued
  <1> DEFINE I == {k \in 1 .. Len(created) : created[k] \in Queued}
  <1>1. created \in Seq(Posts) /\ Queued \subseteq Posts
    BY DEF ServiceInv, TypeOK, Queued
  <1>2. \A p \in Queued : \E k \in I : created[k] = p
    BY <1>1 DEF ServiceInv, KnownIsCreated, Known, Queued
  <1>3. I # {} /\ I \subseteq Nat
    BY <1>1, <1>2
  <1>4. PICK i \in I : \A k \in I : i <= k
    BY <1>3, SmallestOfNat
  <1>5. \A q \in Queued \ {created[i]} : Before(created[i], q)
    <2> TAKE q \in Queued \ {created[i]}
    <2>1. PICK k \in I : created[k] = q
      BY <1>2
    <2>2. i < k
      BY <1>3, <1>4, <2>1
    <2> QED
      BY <2>1, <2>2 DEF Before
  <1> QED
    BY <1>4, <1>5 DEF Oldest

\* A Task that is known ends, and nothing else changes than that its event is
\* set.
LEMMA FinishKeeps ==
    ASSUME ServiceInv, NEW p \in Posts, Known(p),
           NEW status \in Terminal, NEW of \in Posts \cup {None},
           task' = FinishedTask(p, status, of), fired' = Fired(p),
           callers # <<>> => callers' # <<>>,
           sending'.pc # "no" => sending' = sending /\ (sending.post = p => status = "CANCELED")
    PROVE  /\ task' \in [Posts -> Tasks]
           /\ fired' \in SUBSET Posts
           /\ \A q \in Posts : (task'[q].status # "ABSENT") <=> (task[q].status # "ABSENT")
           /\ \A q \in Posts \ {p} : task'[q] = task[q]
           /\ task'[p].status = status
           /\ SendingIsOpen'
  <1>1. TypeOK /\ StoredIsKnown /\ SendingIsOpen
    BY DEF ServiceInv
  <1>2. WORKER_DEAD_SEC \in Nat /\ TASK_TIMEOUT_SEC \in Nat
    BY ServiceAssumption
  <1>3. task' = [task EXCEPT ![p] = [task[p] EXCEPT !.status = status, !.of = of,
                                                     !.deadLeft = 0, !.timeLeft = 0]]
    BY <1>1 DEF FinishedTask, TypeOK
  <1>4. task' \in [Posts -> Tasks]
    <2>1. task \in [Posts -> Tasks] /\ task[p] \in Tasks
      BY <1>1 DEF TypeOK, Tasks
    <2>2. task'[p] = [task[p] EXCEPT !.status = status, !.of = of,
                                     !.deadLeft = 0, !.timeLeft = 0]
      BY <1>3, <2>1
    <2>3. task'[p] = [status |-> status, deadLeft |-> 0, timeLeft |-> 0, of |-> of]
      BY <2>1, <2>2 DEF Tasks
    <2>4. task'[p] \in Tasks
      BY <1>2, <2>3 DEF Tasks
    <2>5. task' = [task EXCEPT ![p] = task'[p]]
      BY <1>3, <2>1, <2>2
    <2> QED
      BY <2>1, <2>4, <2>5
  <1>5. stored[TripOf[p]] # None /\ TripOf[p] \in Trips
    BY <1>1, ServiceAssumption DEF StoredIsKnown
  <1>6. fired' \in SUBSET Posts
    BY <1>1, <1>5 DEF Fired, TypeOK
  <1>7. /\ task'[p].status = status /\ status # "ABSENT"
        /\ \A q \in Posts \ {p} : task'[q] = task[q]
    BY <1>1, <1>3 DEF TypeOK, Terminal
  <1>8. SendingIsOpen'
    BY <1>1, <1>7 DEF SendingIsOpen
  <1>9. \A q \in Posts : (task'[q].status # "ABSENT") <=> (task[q].status # "ABSENT")
    BY <1>7 DEF Known
  <1> QED
    BY <1>4, <1>6, <1>7, <1>8, <1>9

\* What a step that leaves the Tasks alone has to keep.
LEMMA SameTasks ==
    ASSUME ServiceInv, UNCHANGED <<task, stored, created>>,
           TypeOK', SendingIsOpen', WorkIsKnown',
           \A p \in Posts : post'[p].pc \in {"new", "ready"} => post[p].pc \in {"new", "ready"}
    PROVE  ServiceInv' /\ OutcomeKept
  <1>1. NewIsAbsent'
    BY DEF ServiceInv, NewIsAbsent, Known
  <1>2. StoredIsKnown' /\ KnownIsCreated'
    BY DEF ServiceInv, StoredIsKnown, KnownIsCreated, Known
  <1>3. OutcomeKept
    BY DEF OutcomeKept
  <1> QED
    BY <1>1, <1>2, <1>3 DEF ServiceInv

\* What a step that changes known Tasks has to keep.
LEMMA SameStore ==
    ASSUME ServiceInv, UNCHANGED <<post, stored, created>>,
           TypeOK', SendingIsOpen', WorkIsKnown',
           \A p \in Posts : (task'[p].status # "ABSENT") <=> (task[p].status # "ABSENT"),
           \A p \in Posts : task[p].status \in {"COMPLETED", "FAILED"}
                            => task'[p].status = task[p].status /\ task'[p].of = task[p].of
    PROVE  ServiceInv' /\ OutcomeKept
  <1>1. NewIsAbsent'
    BY DEF ServiceInv, NewIsAbsent, Known
  <1>2. StoredIsKnown'
    BY DEF ServiceInv, StoredIsKnown, Known, TypeOK
  <1>3. KnownIsCreated'
    BY DEF ServiceInv, KnownIsCreated, Known
  <1>4. OutcomeKept
    BY DEF OutcomeKept
  <1> QED
    BY <1>1, <1>2, <1>3, <1>4 DEF ServiceInv

\* The lock is given up.
LEMMA ReleaseKeeps ==
    ASSUME TypeOK, callers # <<>>, Release
    PROVE  /\ callers' \in Seq(Posts \cup {Other})
           /\ post' \in [Posts -> [pc : {"new", "ready", "dispatch", "wait", "done"},
                                   event : Posts \cup {None}]]
           /\ \A p \in Posts : post'[p].pc \in {"new", "ready"}
                               => post[p].pc \in {"new", "ready"}
  <1>1. Head(callers) \in Posts \cup {Other} /\ callers' \in Seq(Posts \cup {Other})
    BY DEF TypeOK, Release
  <1>2. CASE Head(callers) = Other
    BY <1>1, <1>2 DEF TypeOK, Release
  <1>3. CASE Head(callers) # Other
    <2>1. stored[TripOf[Head(callers)]] \in Posts \cup {None}
      BY <1>1, <1>3, ServiceAssumption DEF TypeOK
    <2> QED
      BY <1>1, <1>3, <2>1 DEF TypeOK, Release
  <1> QED
    BY <1>2, <1>3

\* A caller joins those that wait for the lock.
LEMMA CallDispatchType ==
    ASSUME NEW S, NEW seq \in Seq(S), Other \in S
    PROVE  CallDispatch(seq) \in Seq(S) /\ (seq # <<>> => CallDispatch(seq) # <<>>)
  BY DEF CallDispatch

\* A budget that is drawn on stays one.
LEMMA FaultType ==
    ASSUME TypeOK, Fault \/ Delete
    PROVE  budget' \in [faults : Nat, deletes : Nat]
  <1>1. budget \in [faults : Nat, deletes : Nat] /\ budget.faults \in Nat /\ budget.deletes \in Nat
    BY DEF TypeOK
  <1>2. CASE Fault
    <2>1. budget.faults - 1 \in Nat
      BY <1>1, <1>2 DEF Fault
    <2> QED
      BY <1>1, <1>2, <2>1 DEF Fault
  <1>3. CASE Delete
    <2>1. budget.deletes - 1 \in Nat
      BY <1>1, <1>3 DEF Delete
    <2> QED
      BY <1>1, <1>3, <2>1 DEF Delete
  <1> QED
    BY <1>2, <1>3

-----------------------------------------------------------------------------
(* Every action keeps the invariant.                                       *)

LEMMA InitInv == Init => ServiceInv
  <1> SUFFICES ASSUME Init PROVE ServiceInv
    OBVIOUS
  <1>1. PICK load \in Loads :
          /\ post = [p \in Posts |-> [pc |-> IF p \in load.sent THEN "new" ELSE "done",
                                      event |-> None]]
          /\ budget = [faults |-> load.faults, deletes |-> load.deletes]
    BY DEF Init
  <1>2. load.faults \in Nat /\ load.deletes \in Nat
    BY ServiceAssumption
  <1>3. \A p \in Posts : task[p] = NoTask
    BY DEF Init
  <1>4. WORKER_DEAD_SEC \in Nat /\ TASK_TIMEOUT_SEC \in Nat
    BY ServiceAssumption
  <1>5. NoTask \in Tasks
    BY <1>4 DEF NoTask, Tasks
  <1>6. TypeOK
    <2>1. task \in [Posts -> Tasks]
      BY <1>5 DEF Init
    <2>2. sending \in [pc : {"no", "sent", "answered"}, post : Posts \cup {None},
                       reply : {"NONE", "ACCEPTED", "BUSY"}]
      BY DEF Init, NotSending
    <2>3. thread \in [pc : {"idle", "run", "callback"}, post : Posts \cup {None},
                      out : {"NONE"} \cup Terminal]
      BY DEF Init, IdleThread
    <2>4. /\ post \in [Posts -> [pc : {"new", "ready", "dispatch", "wait", "done"},
                                 event : Posts \cup {None}]]
          /\ budget \in [faults : Nat, deletes : Nat]
      BY <1>1, <1>2
    <2>5. /\ stored \in [Trips -> Posts \cup {None}]
          /\ created \in Seq(Posts) /\ callers \in Seq(Posts \cup {Other})
          /\ worker \in [current : Posts \cup {None}, flag : BOOLEAN, loaded : BOOLEAN]
          /\ fired \in SUBSET Posts /\ cancels \in SUBSET Trips
      BY DEF Init
    <2> QED
      BY <2>1, <2>2, <2>3, <2>4, <2>5 DEF TypeOK, Tasks
  <1>7. NewIsAbsent /\ StoredIsKnown /\ KnownIsCreated
    BY <1>3 DEF Init, NoTask, NewIsAbsent, StoredIsKnown, KnownIsCreated, Known
  <1>8. SendingIsOpen /\ WorkIsKnown
    BY DEF Init, NotSending, IdleThread, SendingIsOpen, WorkIsKnown
  <1> QED
    BY <1>6, <1>7, <1>8 DEF ServiceInv

\* A post goes on.
LEMMA PcType ==
    ASSUME TypeOK, NEW p \in Posts,
           NEW pc \in {"new", "ready", "dispatch", "wait", "done"},
           post' = [post EXCEPT ![p].pc = pc]
    PROVE  /\ post' \in [Posts -> [pc : {"new", "ready", "dispatch", "wait", "done"},
                                   event : Posts \cup {None}]]
           /\ post'[p].pc = pc
           /\ \A q \in Posts \ {p} : post'[q] = post[q]
  <1>1. post \in [Posts -> [pc : {"new", "ready", "dispatch", "wait", "done"},
                            event : Posts \cup {None}]]
    BY DEF TypeOK
  <1>2. post'[p] = [post[p] EXCEPT !.pc = pc]
    BY <1>1
  <1>3. post'[p] = [pc |-> pc, event |-> post[p].event]
    BY <1>1, <1>2
  <1>4. post' = [post EXCEPT ![p] = post'[p]]
    BY <1>1, <1>2
  <1> QED
    BY <1>1, <1>3, <1>4

\* A post puts its Task into the store.
LEMMA PutKeeps ==
    ASSUME ServiceInv, NEW p \in Posts, post[p].pc \in {"new", "ready"}, Put(p),
           UNCHANGED <<worker, thread, cancels, budget>>
    PROVE  ServiceInv' /\ OutcomeKept
  <1>1. TypeOK /\ NewIsAbsent /\ StoredIsKnown /\ KnownIsCreated /\ SendingIsOpen /\ WorkIsKnown
    BY DEF ServiceInv
  <1>2. TripOf[p] \in Trips /\ p # None
    BY ServiceAssumption
  <1>3. task[p].status = "ABSENT"
    BY <1>1 DEF NewIsAbsent, Known
  <1>4. task' \in [Posts -> Tasks] /\ task'[p].status = "QUEUED"
    <2>1. task \in [Posts -> Tasks] /\ task[p] \in Tasks
      BY <1>1 DEF TypeOK, Tasks
    <2>2. task'[p] = [task[p] EXCEPT !.status = "QUEUED"]
      BY <2>1 DEF Put
    <2>3. task'[p] = [status |-> "QUEUED", deadLeft |-> task[p].deadLeft,
                      timeLeft |-> task[p].timeLeft, of |-> task[p].of]
      BY <2>1, <2>2 DEF Tasks
    <2>4. task'[p] \in Tasks
      BY <2>1, <2>3 DEF Tasks
    <2>5. task' = [task EXCEPT ![p] = task'[p]]
      BY <2>1, <2>2 DEF Put
    <2> QED
      BY <2>1, <2>3, <2>4, <2>5
  <1>5. \A q \in Posts \ {p} : task'[q] = task[q]
    BY <1>1 DEF TypeOK, Put
  <1>6. \A q \in Posts : Known(q) => Known(q)'
    BY <1>4, <1>5 DEF Known
  <1>7. TypeOK'
    <2>1. post' \in [Posts -> [pc : {"new", "ready", "dispatch", "wait", "done"},
                               event : Posts \cup {None}]]
      BY <1>1, PcType DEF Put
    <2>2. /\ created' \in Seq(Posts) /\ callers' \in Seq(Posts \cup {Other})
          /\ stored' \in [Trips -> Posts \cup {None}]
      BY <1>1, <1>2 DEF TypeOK, Put
    <2> QED
      BY <1>1, <1>4, <2>1, <2>2 DEF TypeOK, Put, Tasks
  <1>8. NewIsAbsent'
    <2>1. post'[p].pc = "dispatch" /\ \A q \in Posts \ {p} : post'[q] = post[q]
      BY <1>1, PcType DEF Put
    <2> QED
      BY <1>1, <1>5, <2>1 DEF NewIsAbsent, Known
  <1>9. StoredIsKnown'
    <2>1. \A t \in Trips : stored'[t] = IF t = TripOf[p] THEN p ELSE stored[t]
      BY <1>1 DEF Put, TypeOK
    <2>2. \A t \in Trips : stored'[t] # None => TripOf[stored'[t]] = t /\ Known(stored[t])'
      <3> SUFFICES ASSUME NEW t \in Trips, stored'[t] # None
                   PROVE  TripOf[stored'[t]] = t /\ Known(stored[t])'
        OBVIOUS
      <3>1. CASE t = TripOf[p]
        BY <2>1, <3>1, <1>4 DEF Known
      <3>2. CASE t # TripOf[p]
        BY <2>1, <3>2, <1>1, <1>6 DEF StoredIsKnown, TypeOK, Known
      <3> QED
        BY <3>1, <3>2
    <2>3. \A q \in Posts : Known(q)' => stored'[TripOf[q]] # None
      BY <2>1, <1>1, <1>2, <1>5, ServiceAssumption DEF StoredIsKnown, Known
    <2> QED
      BY <2>2, <2>3 DEF StoredIsKnown
  <1>10. KnownIsCreated'
    <2> SUFFICES ASSUME NEW q \in Posts, Known(q)'
                 PROVE  \E k \in 1 .. Len(created') : created'[k] = q
      BY DEF KnownIsCreated
    <2>1. /\ Len(created') = Len(created) + 1 /\ Len(created) \in Nat
          /\ created'[Len(created) + 1] = p
          /\ \A k \in 1 .. Len(created) : created'[k] = created[k]
      BY <1>1 DEF Put, TypeOK
    <2>2. CASE q = p
      BY <2>1, <2>2
    <2>3. CASE q # p
      <3>1. Known(q)
        BY <1>5, <2>3 DEF Known
      <3>2. PICK k \in 1 .. Len(created) : created[k] = q
        BY <1>1, <3>1 DEF KnownIsCreated
      <3> QED
        BY <2>1, <3>2
    <2> QED
      BY <2>2, <2>3
  <1>11. SendingIsOpen'
    BY <1>1, <1>3, <1>5 DEF SendingIsOpen, Put
  <1>12. WorkIsKnown'
    BY <1>1, <1>6 DEF WorkIsKnown, Known, TypeOK
  <1>13. OutcomeKept
    BY <1>3, <1>5 DEF OutcomeKept
  <1> QED
    BY <1>7, <1>8, <1>9, <1>10, <1>11, <1>12, <1>13 DEF ServiceInv

\* The other steps of a post.
LEMMA PostKeeps ==
    ASSUME ServiceInv, NEW p \in Posts,
           \/ SubmitRejected(p) \/ SubmitQueued(p) \/ SubmitAsks(p) \/ WorkerReady(p)
           \/ WorkerNotReady(p) \/ PostReturns(p)
    PROVE  ServiceInv' /\ OutcomeKept
  <1>1. CASE SubmitQueued(p)
    BY <1>1, PutKeeps DEF SubmitQueued
  <1>2. CASE WorkerReady(p)
    BY <1>2, PutKeeps DEF WorkerReady
  <1>3. CASE SubmitRejected(p) \/ SubmitAsks(p) \/ WorkerNotReady(p) \/ PostReturns(p)
    <2>1. TypeOK /\ SendingIsOpen /\ WorkIsKnown
      BY DEF ServiceInv
    <2>2. UNCHANGED <<task, stored, created, callers, sending, fired, worker, thread, cancels>>
      BY <1>3 DEF SubmitRejected, SubmitAsks, WorkerNotReady, PostReturns
    <2>3. \/ post' = [post EXCEPT ![p].pc = "done"]
          \/ post' = [post EXCEPT ![p].pc = "ready"] /\ post[p].pc = "new"
      BY <1>3 DEF SubmitRejected, SubmitAsks, WorkerNotReady, PostReturns
    <2>4. /\ post' \in [Posts -> [pc : {"new", "ready", "dispatch", "wait", "done"},
                                  event : Posts \cup {None}]]
          /\ \A q \in Posts : post'[q].pc \in {"new", "ready"} => post[q].pc \in {"new", "ready"}
      BY <2>1, <2>3, PcType
    <2>5. budget' \in [faults : Nat, deletes : Nat]
      <3>1. CASE Fault
        BY <2>1, <3>1, FaultType
      <3>2. CASE UNCHANGED budget
        BY <2>1, <3>2 DEF TypeOK
      <3> QED
        BY <1>3, <3>1, <3>2 DEF SubmitRejected, SubmitAsks, WorkerNotReady, PostReturns
    <2>6. TypeOK'
      BY <2>1, <2>2, <2>4, <2>5 DEF TypeOK
    <2>7. SendingIsOpen' /\ WorkIsKnown'
      BY <2>1, <2>2 DEF SendingIsOpen, WorkIsKnown, Known
    <2> QED
      BY <2>2, <2>4, <2>6, <2>7, SameTasks
  <1> QED
    BY <1>1, <1>2, <1>3

\* _dispatch_next: the pick, and the end of the loop.
LEMMA DispatchKeeps ==
    ASSUME ServiceInv, DispatchPick \/ DispatchDone \/ Refused
    PROVE  ServiceInv' /\ OutcomeKept
  <1>1. TypeOK /\ SendingIsOpen /\ WorkIsKnown
    BY DEF ServiceInv
  <1>2. UNCHANGED <<task, stored, created, fired, worker, thread, cancels, budget>>
    BY DEF DispatchPick, DispatchDone, Refused
  <1>3. WorkIsKnown'
    BY <1>1, <1>2 DEF WorkIsKnown, Known
  <1>4. CASE DispatchPick
    <2>1. Oldest \in Queued
      BY <1>4, OldestIsQueued DEF DispatchPick
    <2>2. Oldest \in Posts /\ task[Oldest].status = "QUEUED"
      BY <2>1 DEF Queued
    <2>3. sending' = [pc |-> "sent", post |-> Oldest, reply |-> "NONE"]
      BY <1>4 DEF DispatchPick
    <2>4. SendingIsOpen'
      BY <1>2, <1>4, <2>2, <2>3 DEF SendingIsOpen, DispatchPick
    <2>5. TypeOK'
      BY <1>1, <1>2, <1>4, <2>2, <2>3 DEF TypeOK, DispatchPick
    <2> QED
      BY <1>2, <1>3, <1>4, <2>4, <2>5, SameTasks DEF DispatchPick
  <1>5. CASE DispatchDone
    <2>1. callers # <<>> /\ Release /\ UNCHANGED sending
      BY <1>5 DEF DispatchDone
    <2>2. TypeOK'
      BY <1>1, <1>2, <2>1, ReleaseKeeps DEF TypeOK
    <2>3. SendingIsOpen'
      BY <1>5 DEF SendingIsOpen, DispatchDone
    <2> QED
      BY <1>1, <1>2, <1>3, <2>1, <2>2, <2>3, ReleaseKeeps, SameTasks
  <1>6. CASE Refused
    <2>1. sending.pc # "no" /\ Release /\ sending' = NotSending
      BY <1>6 DEF Refused
    <2>2. callers # <<>>
      BY <1>1, <2>1 DEF SendingIsOpen
    <2>3. TypeOK'
      BY <1>1, <1>2, <2>1, <2>2, ReleaseKeeps DEF TypeOK, NotSending
    <2>4. SendingIsOpen'
      BY <2>1 DEF SendingIsOpen, NotSending
    <2> QED
      BY <1>1, <1>2, <1>3, <2>1, <2>2, <2>3, <2>4, ReleaseKeeps, SameTasks
  <1> QED
    BY <1>4, <1>5, <1>6

\* The worker takes the job or answers that it is busy.
LEMMA WorkerAnswersKeeps ==
    ASSUME ServiceInv, WorkerAnswers
    PROVE  ServiceInv' /\ OutcomeKept
  <1>1. TypeOK /\ SendingIsOpen /\ WorkIsKnown
    BY DEF ServiceInv
  <1>2. UNCHANGED <<post, task, stored, created, callers, fired, thread, cancels, budget>>
    BY DEF WorkerAnswers
  <1>3. /\ sending.pc = "sent" /\ sending.post \in Posts
        /\ task[sending.post].status \in {"QUEUED", "CANCELED"}
    BY <1>1 DEF WorkerAnswers, SendingIsOpen
  <1>4. PICK reply \in {"BUSY", "ACCEPTED"} :
          /\ sending' = [sending EXCEPT !.pc = "answered", !.reply = reply]
          /\ \/ worker' = worker
             \/ worker' = [worker EXCEPT !.current = sending.post, !.flag = FALSE]
    BY DEF WorkerAnswers
  <1>5. sending' = [pc |-> "answered", post |-> sending.post, reply |-> reply]
    BY <1>1, <1>4 DEF TypeOK
  <1>6. \/ worker' = worker
        \/ worker' = [current |-> sending.post, flag |-> FALSE, loaded |-> worker.loaded]
    BY <1>1, <1>4 DEF TypeOK
  <1>7. TypeOK'
    <2>1. sending' \in [pc : {"no", "sent", "answered"}, post : Posts \cup {None},
                        reply : {"NONE", "ACCEPTED", "BUSY"}]
      BY <1>3, <1>4, <1>5
    <2>2. worker' \in [current : Posts \cup {None}, flag : BOOLEAN, loaded : BOOLEAN]
      <3>1. worker \in [current : Posts \cup {None}, flag : BOOLEAN, loaded : BOOLEAN]
        BY <1>1 DEF TypeOK
      <3>2. CASE worker' = [current |-> sending.post, flag |-> FALSE, loaded |-> worker.loaded]
        BY <1>3, <3>1, <3>2
      <3> QED
        BY <1>6, <3>1, <3>2
    <2> QED
      BY <1>1, <1>2, <2>1, <2>2 DEF TypeOK
  <1>8. SendingIsOpen'
    BY <1>1, <1>2, <1>3, <1>5 DEF SendingIsOpen
  <1>9. WorkIsKnown'
    BY <1>1, <1>2, <1>3, <1>6 DEF WorkIsKnown, Known
  <1> QED
    BY <1>2, <1>7, <1>8, <1>9, SameTasks

\* The accepted task is PROCESSING, whatever it was before.
LEMMA AcceptedKeeps ==
    ASSUME ServiceInv, Accepted
    PROVE  ServiceInv' /\ OutcomeKept
  <1>1. TypeOK /\ SendingIsOpen /\ WorkIsKnown
    BY DEF ServiceInv
  <1> DEFINE p == sending.post
  <1>2. p \in Posts /\ task[p].status \in {"QUEUED", "CANCELED"}
    BY <1>1 DEF Accepted, SendingIsOpen
  <1>3. WORKER_DEAD_SEC \in Nat /\ TASK_TIMEOUT_SEC \in Nat
    BY ServiceAssumption
  <1>4. task \in [Posts -> Tasks] /\ task[p] \in Tasks
    BY <1>1, <1>2 DEF TypeOK, Tasks
  <1>5. task'[p] = [task[p] EXCEPT !.status = "PROCESSING", !.deadLeft = WORKER_DEAD_SEC,
                                   !.timeLeft = TASK_TIMEOUT_SEC]
    BY <1>2, <1>4 DEF Accepted
  <1>6. task'[p] = [status |-> "PROCESSING", deadLeft |-> WORKER_DEAD_SEC,
                    timeLeft |-> TASK_TIMEOUT_SEC, of |-> task[p].of]
    BY <1>4, <1>5 DEF Tasks
  <1>7. task'[p] \in Tasks
    BY <1>3, <1>4, <1>6 DEF Tasks
  <1>8. task' = [task EXCEPT ![p] = task'[p]]
    BY <1>2, <1>4, <1>5 DEF Accepted
  <1>9. task' \in [Posts -> Tasks] /\ \A q \in Posts \ {p} : task'[q] = task[q]
    BY <1>4, <1>7, <1>8
  <1> HIDE DEF p
  <1>10. TypeOK'
    BY <1>1, <1>9 DEF TypeOK, Tasks, Accepted, NotSending
  <1>11. SendingIsOpen'
    BY DEF SendingIsOpen, Accepted, NotSending
  <1>12. \A q \in Posts : (task'[q].status # "ABSENT") <=> (task[q].status # "ABSENT")
    BY <1>2, <1>6, <1>9
  <1>13. \A q \in Posts : task[q].status \in {"COMPLETED", "FAILED"}
                          => task'[q].status = task[q].status /\ task'[q].of = task[q].of
    BY <1>2, <1>9
  <1>14. WorkIsKnown'
    BY <1>1, <1>12 DEF WorkIsKnown, Known, Accepted, TypeOK
  <1> QED
    BY <1>10, <1>11, <1>12, <1>13, <1>14, SameStore DEF Accepted

\* A call to the worker that fails ends its task; a DELETE ends one that is
\* still QUEUED.
LEMMA EndsBeforeTheWorker ==
    ASSUME ServiceInv, SubmitFails \/ \E t \in Trips : CancelQueued(t)
    PROVE  ServiceInv' /\ OutcomeKept
  <1>1. TypeOK /\ StoredIsKnown /\ SendingIsOpen /\ WorkIsKnown
    BY DEF ServiceInv
  <1>2. UNCHANGED <<post, stored, created, callers, worker, thread, cancels>>
    BY DEF SubmitFails, CancelQueued
  <1>3. budget' \in [faults : Nat, deletes : Nat]
    <2>1. Fault \/ Delete \/ UNCHANGED budget
      BY DEF SubmitFails, CancelQueued
    <2> QED
      BY <1>1, <2>1, FaultType DEF TypeOK
  <1>4. PICK p \in Posts, status \in {"FAILED", "CANCELED"} :
          /\ Known(p) /\ task[p].status \in {"QUEUED", "CANCELED"}
          /\ task' = FinishedTask(p, status, None) /\ fired' = Fired(p)
          /\ sending' = NotSending \/ (sending' = sending /\ status = "CANCELED")
    <2>1. CASE SubmitFails
      <3>1. /\ sending.post \in Posts /\ Known(sending.post)
            /\ task[sending.post].status \in {"QUEUED", "CANCELED"}
        BY <1>1, <2>1 DEF SubmitFails, SendingIsOpen, Known
      <3> QED
        BY <2>1, <3>1 DEF SubmitFails
    <2>2. ASSUME NEW t \in Trips, CancelQueued(t)
          PROVE  \E p \in Posts, status \in {"FAILED", "CANCELED"} :
                   /\ Known(p) /\ task[p].status \in {"QUEUED", "CANCELED"}
                   /\ task' = FinishedTask(p, status, None) /\ fired' = Fired(p)
                   /\ sending' = NotSending \/ (sending' = sending /\ status = "CANCELED")
      <3>1. stored[t] \in Posts /\ task[stored[t]].status = "QUEUED" /\ Known(stored[t])
        BY <1>1, <2>2 DEF TypeOK, CancelQueued, Known
      <3> QED
        BY <2>2, <3>1 DEF CancelQueued
    <2> QED
      BY <2>1, <2>2
  <1>5. \/ sending' = NotSending
        \/ sending' = sending
    BY <1>4
  <1>6. sending'.pc # "no" => sending' = sending /\ (sending.post = p => status = "CANCELED")
    BY <1>4 DEF NotSending
  <1>7. /\ task' \in [Posts -> Tasks]
        /\ fired' \in SUBSET Posts
        /\ \A q \in Posts : (task'[q].status # "ABSENT") <=> (task[q].status # "ABSENT")
        /\ \A q \in Posts \ {p} : task'[q] = task[q]
        /\ SendingIsOpen'
    BY <1>2, <1>4, <1>6, FinishKeeps DEF Terminal
  <1>8. sending' \in [pc : {"no", "sent", "answered"}, post : Posts \cup {None},
                      reply : {"NONE", "ACCEPTED", "BUSY"}]
    BY <1>1, <1>5 DEF TypeOK, NotSending
  <1>9. TypeOK'
    BY <1>1, <1>2, <1>3, <1>7, <1>8 DEF TypeOK, Tasks
  <1>10. WorkIsKnown'
    BY <1>1, <1>2, <1>7 DEF WorkIsKnown, Known, TypeOK
  <1>11. \A q \in Posts : task[q].status \in {"COMPLETED", "FAILED"}
                          => task'[q].status = task[q].status /\ task'[q].of = task[q].of
    BY <1>4, <1>7
  <1> QED
    BY <1>2, <1>7, <1>9, <1>10, <1>11, SameStore

\* A callback ends the task of its trip that is PROCESSING, and no other.
LEMMA CallbackKeeps ==
    ASSUME ServiceInv, thread.pc = "callback", Callback, UNCHANGED <<worker, cancels>>,
           thread' \in {thread, IdleThread}, budget' \in [faults : Nat, deletes : Nat]
    PROVE  ServiceInv' /\ OutcomeKept
  <1>1. TypeOK /\ StoredIsKnown /\ SendingIsOpen /\ WorkIsKnown
    BY DEF ServiceInv
  <1>2. UNCHANGED <<post, stored, created, sending>>
    BY DEF Callback
  <1>3. /\ thread.post \in Posts /\ Known(thread.post) /\ thread.out \in Terminal
        /\ Addressee \in Posts /\ Known(Addressee)
        /\ TripOf[Addressee] = TripOf[thread.post]
    BY <1>1, ServiceAssumption DEF TypeOK, StoredIsKnown, WorkIsKnown, Addressee
  <1>4. thread' \in [pc : {"idle", "run", "callback"}, post : Posts \cup {None},
                     out : {"NONE"} \cup Terminal]
    BY <1>1 DEF TypeOK, IdleThread
  <1>5. CASE task[Addressee].status # "PROCESSING"
    <2>1. UNCHANGED <<task, fired, callers>>
      BY <1>5 DEF Callback
    <2>2. TypeOK'
      BY <1>1, <1>2, <1>4, <2>1 DEF TypeOK
    <2>3. SendingIsOpen' /\ WorkIsKnown'
      BY <1>1, <1>2, <2>1 DEF SendingIsOpen, WorkIsKnown, Known, IdleThread
    <2> QED
      BY <1>2, <2>1, <2>2, <2>3, SameTasks
  <1>6. CASE task[Addressee].status = "PROCESSING"
    <2>1. /\ task' = FinishedTask(Addressee, thread.out, thread.post)
          /\ fired' = Fired(Addressee)
          /\ callers' = CallDispatch(callers)
      BY <1>3, <1>6 DEF Callback, Fired
    <2>2. sending'.pc # "no" => sending' = sending /\ sending.post # Addressee
      BY <1>1, <1>2, <1>6 DEF SendingIsOpen
    <2>3. callers' \in Seq(Posts \cup {Other}) /\ (callers # <<>> => callers' # <<>>)
      BY <1>1, <2>1, CallDispatchType DEF TypeOK
    <2>4. /\ task' \in [Posts -> Tasks]
          /\ fired' \in SUBSET Posts
          /\ \A q \in Posts : (task'[q].status # "ABSENT") <=> (task[q].status # "ABSENT")
          /\ \A q \in Posts \ {Addressee} : task'[q] = task[q]
          /\ SendingIsOpen'
      BY <1>3, <2>1, <2>2, <2>3, FinishKeeps
    <2>5. TypeOK'
      BY <1>1, <1>2, <1>4, <2>3, <2>4 DEF TypeOK, Tasks
    <2>6. WorkIsKnown'
      BY <1>1, <2>4 DEF WorkIsKnown, Known, TypeOK, IdleThread
    <2>7. \A q \in Posts : task[q].status \in {"COMPLETED", "FAILED"}
                           => task'[q].status = task[q].status /\ task'[q].of = task[q].of
      BY <1>6, <2>4
    <2> QED
      BY <1>2, <2>4, <2>5, <2>6, <2>7, SameStore
  <1> QED
    BY <1>5, <1>6

\* The watchdog ends what is PROCESSING and expired; it calls _dispatch_next.
LEMMA WatchdogKeeps ==
    ASSUME ServiceInv, WatchdogTick
    PROVE  ServiceInv' /\ OutcomeKept
  <1>1. TypeOK /\ StoredIsKnown /\ SendingIsOpen /\ WorkIsKnown
    BY DEF ServiceInv
  <1>2. UNCHANGED <<post, stored, created, sending, worker, thread, cancels, budget>>
    BY DEF WatchdogTick
  <1>3. WORKER_DEAD_SEC \in Nat /\ TASK_TIMEOUT_SEC \in Nat
    BY ServiceAssumption
  <1>4. task \in [Posts -> Tasks]
    BY <1>1 DEF TypeOK, Tasks
  <1>5. Dead \subseteq Posts /\ \A p \in Dead : task[p].status = "PROCESSING"
    BY <1>1 DEF Dead, TypeOK
  <1>6. \A p \in Posts \ Dead : task'[p] = task[p]
    BY DEF WatchdogTick
  <1>7. \A p \in Dead : task'[p] \in Tasks /\ task'[p].status = "FAILED"
    <2> SUFFICES ASSUME NEW p \in Dead
                 PROVE  task'[p] \in Tasks /\ task'[p].status = "FAILED"
      OBVIOUS
    <2>1. p \in Posts /\ task[p] \in Tasks
      BY <1>4, <1>5
    <2>2. task'[p] = [task[p] EXCEPT !.status = "FAILED", !.of = None,
                                     !.deadLeft = 0, !.timeLeft = 0]
      BY <1>4, <2>1 DEF WatchdogTick, FinishedTask
    <2>3. task'[p] = [status |-> "FAILED", deadLeft |-> 0, timeLeft |-> 0, of |-> None]
      BY <2>1, <2>2 DEF Tasks
    <2> QED
      BY <1>3, <2>3 DEF Tasks, Terminal
  <1>8. task' \in [Posts -> Tasks]
    <2>1. \A p \in Posts : task'[p] \in Tasks
      BY <1>4, <1>6, <1>7
    <2> QED
      BY <2>1 DEF WatchdogTick
  <1>9. callers' \in Seq(Posts \cup {Other}) /\ (callers # <<>> => callers' # <<>>)
    BY <1>1, CallDispatchType DEF TypeOK, WatchdogTick
  <1>10. fired' \in SUBSET Posts
    BY <1>1, <1>5 DEF TypeOK, WatchdogTick
  <1>11. TypeOK'
    BY <1>1, <1>2, <1>8, <1>9, <1>10 DEF TypeOK, Tasks
  <1>12. SendingIsOpen'
    BY <1>1, <1>2, <1>5, <1>6, <1>9 DEF SendingIsOpen
  <1>13. \A q \in Posts : (task'[q].status # "ABSENT") <=> (task[q].status # "ABSENT")
    BY <1>5, <1>6, <1>7
  <1>14. WorkIsKnown'
    BY <1>1, <1>2, <1>13 DEF WorkIsKnown, Known, TypeOK
  <1>15. \A q \in Posts : task[q].status \in {"COMPLETED", "FAILED"}
                          => task'[q].status = task[q].status /\ task'[q].of = task[q].of
    BY <1>5, <1>6
  <1> QED
    BY <1>2, <1>11, <1>12, <1>13, <1>14, <1>15, SameStore

\* Time passes; a progress report starts the watchdog's time again.
LEMMA TimeKeeps ==
    ASSUME ServiceInv, Time \/ ThreadReports
    PROVE  ServiceInv' /\ OutcomeKept
  <1>1. TypeOK /\ StoredIsKnown /\ SendingIsOpen /\ WorkIsKnown
    BY DEF ServiceInv
  <1>2. UNCHANGED <<post, stored, created, callers, sending, fired, worker, thread, cancels,
                    budget>>
    BY DEF Time, ThreadReports
  <1>3. WORKER_DEAD_SEC \in Nat /\ TASK_TIMEOUT_SEC \in Nat
    BY ServiceAssumption
  <1>4. task \in [Posts -> Tasks]
    BY <1>1 DEF TypeOK, Tasks
  <1>5. /\ task' \in [Posts -> Tasks]
        /\ \A p \in Posts : task'[p].status = task[p].status /\ task'[p].of = task[p].of
    <2>1. CASE Time
      <3>1. ASSUME NEW p \in Posts
            PROVE  /\ task'[p] \in Tasks
                   /\ task'[p].status = task[p].status /\ task'[p].of = task[p].of
        <4>1. task[p] \in Tasks /\ task[p].deadLeft \in 0 .. WORKER_DEAD_SEC
              /\ task[p].timeLeft \in 0 .. TASK_TIMEOUT_SEC
          BY <1>4 DEF Tasks
        <4>2. task'[p] = [task[p] EXCEPT !.deadLeft = Closer(@), !.timeLeft = Closer(@)]
          BY <2>1 DEF Time
        <4>3. task'[p] = [status |-> task[p].status, deadLeft |-> Closer(task[p].deadLeft),
                          timeLeft |-> Closer(task[p].timeLeft), of |-> task[p].of]
          BY <4>1, <4>2 DEF Tasks
        <4>4. /\ Closer(task[p].deadLeft) \in 0 .. WORKER_DEAD_SEC
              /\ Closer(task[p].timeLeft) \in 0 .. TASK_TIMEOUT_SEC
          BY <1>3, <4>1 DEF Closer
        <4> QED
          BY <4>1, <4>3, <4>4 DEF Tasks
      <3> QED
        BY <2>1, <3>1 DEF Time
    <2>2. CASE ThreadReports
      <3> DEFINE a == Addressee
      <3>1. a \in Posts /\ task[a] \in Tasks
        BY <1>1, <1>4, <2>2, ServiceAssumption
           DEF TypeOK, StoredIsKnown, WorkIsKnown, Addressee, ThreadReports
      <3>2. task'[a] = [task[a] EXCEPT !.deadLeft = WORKER_DEAD_SEC]
        BY <1>4, <2>2, <3>1 DEF ThreadReports
      <3>3. task'[a] = [status |-> task[a].status, deadLeft |-> WORKER_DEAD_SEC,
                        timeLeft |-> task[a].timeLeft, of |-> task[a].of]
        BY <3>1, <3>2 DEF Tasks
      <3>4. task'[a] \in Tasks
        BY <1>3, <3>1, <3>3 DEF Tasks
      <3>5. task' = [task EXCEPT ![a] = task'[a]]
        BY <1>4, <2>2, <3>1, <3>2 DEF ThreadReports
      <3> HIDE DEF a
      <3> QED
        BY <1>4, <3>1, <3>3, <3>4, <3>5
    <2> QED
      BY <2>1, <2>2
  <1>6. TypeOK'
    BY <1>1, <1>2, <1>5 DEF TypeOK, Tasks
  <1>7. SendingIsOpen'
    BY <1>1, <1>2, <1>5 DEF SendingIsOpen
  <1>8. WorkIsKnown'
    BY <1>1, <1>2, <1>5 DEF WorkIsKnown, Known, TypeOK
  <1> QED
    BY <1>2, <1>5, <1>6, <1>7, <1>8, SameStore

\* The steps of the worker and its calls that reach no Task.
LEMMA WorkerKeeps ==
    ASSUME ServiceInv,
           \/ ThreadStarts
           \/ \E out \in Terminal : ThreadEnds(out)
           \/ CallbackGivesUp
           \/ \E t \in Trips : CancelProcessing(t) \/ WorkerCancels(t) \/ CancelLost(t)
           \/ WorkerDies \/ WorkerLoads
    PROVE  ServiceInv' /\ OutcomeKept
  <1>1. TypeOK /\ SendingIsOpen /\ WorkIsKnown
    BY DEF ServiceInv
  <1>2. UNCHANGED <<post, task, stored, created, callers, sending, fired>>
    BY DEF ThreadStarts, ThreadEnds, CallbackGivesUp, CancelProcessing, WorkerCancels,
           CancelLost, WorkerDies, WorkerLoads, apiVars
  <1>3. budget' \in [faults : Nat, deletes : Nat]
    <2>1. Fault \/ Delete \/ UNCHANGED budget
      BY DEF ThreadStarts, ThreadEnds, CallbackGivesUp, CancelProcessing, WorkerCancels,
             CancelLost, WorkerDies, WorkerLoads
    <2> QED
      BY <1>1, <2>1, FaultType DEF TypeOK
  <1>4. cancels' \in SUBSET Trips
    <2>1. \/ UNCHANGED cancels
          \/ \E t \in Trips : cancels' = cancels \cup {t} \/ cancels' = cancels \ {t}
      BY DEF ThreadStarts, ThreadEnds, CallbackGivesUp, CancelProcessing, WorkerCancels,
             CancelLost, WorkerDies, WorkerLoads
    <2> QED
      BY <1>1, <2>1 DEF TypeOK
  <1>5. /\ thread' \in [pc : {"idle", "run", "callback"}, post : Posts \cup {None},
                        out : {"NONE"} \cup Terminal]
        /\ thread'.pc # "idle" => thread'.post \in Posts /\ Known(thread'.post)
        /\ thread'.pc = "callback" => thread'.out \in Terminal
    <2>1. CASE ThreadStarts
      BY <1>1, <2>1 DEF ThreadStarts, TypeOK, WorkIsKnown
    <2>2. ASSUME NEW out \in Terminal, ThreadEnds(out)
          PROVE  thread' = [pc |-> "callback", post |-> thread.post, out |-> out]
                 /\ thread.post \in Posts /\ Known(thread.post)
      BY <1>1, <2>2 DEF ThreadEnds, TypeOK, WorkIsKnown
    <2>3. CASE thread' = IdleThread \/ UNCHANGED thread
      BY <1>1, <2>3 DEF TypeOK, WorkIsKnown, IdleThread
    <2>4. \/ ThreadStarts \/ \E out \in Terminal : ThreadEnds(out)
          \/ thread' = IdleThread \/ UNCHANGED thread
      BY DEF CallbackGivesUp, CancelProcessing, WorkerCancels, CancelLost, WorkerDies,
             WorkerLoads
    <2>5. ASSUME NEW out \in Terminal, ThreadEnds(out)
          PROVE  /\ thread' \in [pc : {"idle", "run", "callback"}, post : Posts \cup {None},
                                 out : {"NONE"} \cup Terminal]
                 /\ thread'.pc # "idle" => thread'.post \in Posts /\ Known(thread'.post)
                 /\ thread'.pc = "callback" => thread'.out \in Terminal
      BY <2>2, <2>5
    <2> QED
      BY <2>1, <2>3, <2>4, <2>5
  <1>6. /\ worker' \in [current : Posts \cup {None}, flag : BOOLEAN, loaded : BOOLEAN]
        /\ worker'.current # None => Known(worker'.current)
    <2>1. worker' \in {worker, [current |-> None, flag |-> FALSE, loaded |-> FALSE],
                       [worker EXCEPT !.current = None, !.flag = FALSE],
                       [worker EXCEPT !.loaded = TRUE]}
          \/ \E t \in Trips :
               worker' = [worker EXCEPT !.flag =
                            @ \/ (worker.current # None /\ TripOf[worker.current] = t)]
      BY DEF ThreadStarts, ThreadEnds, CallbackGivesUp, CancelProcessing, WorkerCancels,
             CancelLost, WorkerDies, WorkerLoads
    <2>2. worker \in [current : Posts \cup {None}, flag : BOOLEAN, loaded : BOOLEAN]
          /\ (worker.current # None => Known(worker.current))
      BY <1>1 DEF TypeOK, WorkIsKnown
    <2>3. ASSUME NEW t \in Trips,
                 worker' = [worker EXCEPT !.flag =
                              @ \/ (worker.current # None /\ TripOf[worker.current] = t)]
          PROVE  worker' \in [current : Posts \cup {None}, flag : BOOLEAN, loaded : BOOLEAN]
                 /\ worker'.current = worker.current
      BY <2>2, <2>3
    <2>4. CASE worker' = [worker EXCEPT !.current = None, !.flag = FALSE]
      <3>1. worker' = [current |-> None, flag |-> FALSE, loaded |-> worker.loaded]
        BY <2>2, <2>4
      <3> QED
        BY <2>2, <3>1
    <2>5. CASE worker' = [worker EXCEPT !.loaded = TRUE]
      <3>1. /\ worker' = [current |-> worker.current, flag |-> worker.flag, loaded |-> TRUE]
            /\ worker.current \in Posts \cup {None} /\ worker.flag \in BOOLEAN
        BY <2>2, <2>5
      <3>2. worker' \in [current : Posts \cup {None}, flag : BOOLEAN, loaded : BOOLEAN]
        BY <3>1
      <3>3. worker'.current = worker.current
        BY <3>1
      <3> QED
        BY <2>2, <3>2, <3>3
    <2>6. CASE worker' = worker
      BY <2>2, <2>6
    <2>7. CASE worker' = [current |-> None, flag |-> FALSE, loaded |-> FALSE]
      <3>1. worker' \in [current : Posts \cup {None}, flag : BOOLEAN, loaded : BOOLEAN]
        BY <2>7
      <3>2. worker'.current = None
        BY <2>7
      <3> QED
        BY <3>1, <3>2
    <2> QED
      BY <2>1, <2>2, <2>3, <2>4, <2>5, <2>6, <2>7
  <1>7. TypeOK'
    BY <1>1, <1>2, <1>3, <1>4, <1>5, <1>6 DEF TypeOK
  <1>8. SendingIsOpen'
    BY <1>1, <1>2 DEF SendingIsOpen
  <1>9. WorkIsKnown'
    BY <1>2, <1>5, <1>6 DEF WorkIsKnown, Known
  <1> QED
    BY <1>2, <1>7, <1>8, <1>9, SameTasks

\* Every step of the system.
LEMMA NextKeeps == ServiceInv /\ [Next]_vars => ServiceInv' /\ OutcomeKept
  <1> SUFFICES ASSUME ServiceInv, [Next]_vars PROVE ServiceInv' /\ OutcomeKept
    OBVIOUS
  <1>1. CASE \E p \in Posts : \/ SubmitRejected(p) \/ SubmitQueued(p) \/ SubmitAsks(p)
                              \/ WorkerReady(p) \/ WorkerNotReady(p) \/ PostReturns(p)
    BY <1>1, PostKeeps
  <1>2. CASE DispatchPick \/ DispatchDone \/ Refused
    BY <1>2, DispatchKeeps
  <1>3. CASE WorkerAnswers \/ Accepted
    BY <1>3, WorkerAnswersKeeps, AcceptedKeeps
  <1>4. CASE SubmitFails \/ \E t \in Trips : CancelQueued(t)
    BY <1>4, EndsBeforeTheWorker
  <1>5. CASE CallbackArrives \/ CallbackReplyLost
    <2>1. budget' \in [faults : Nat, deletes : Nat]
      <3>1. TypeOK /\ (Fault \/ UNCHANGED budget)
        BY <1>5 DEF ServiceInv, CallbackArrives, CallbackReplyLost
      <3> QED
        BY <3>1, FaultType DEF TypeOK
    <2> QED
      BY <1>5, <2>1, CallbackKeeps DEF CallbackArrives, CallbackReplyLost
  <1>6. CASE WatchdogTick \/ Time \/ ThreadReports
    BY <1>6, WatchdogKeeps, TimeKeeps
  <1>7. CASE \/ ThreadStarts
             \/ \E out \in Terminal : ThreadEnds(out)
             \/ CallbackGivesUp
             \/ \E t \in Trips : CancelProcessing(t) \/ WorkerCancels(t) \/ CancelLost(t)
             \/ WorkerDies \/ WorkerLoads
    BY <1>7, WorkerKeeps
  <1>8. CASE UNCHANGED vars
    <2>1. UNCHANGED <<post, task, stored, created, callers, sending, fired, worker, thread,
                      cancels, budget>>
      BY <1>8 DEF vars, apiVars
    <2>2. TypeOK'
      BY <2>1 DEF ServiceInv, TypeOK
    <2>3. SendingIsOpen' /\ WorkIsKnown'
      BY <2>1 DEF ServiceInv, SendingIsOpen, WorkIsKnown, Known
    <2> QED
      BY <2>1, <2>2, <2>3, SameTasks
  <1> QED
    BY <1>1, <1>2, <1>3, <1>4, <1>5, <1>6, <1>7, <1>8 DEF Next

-----------------------------------------------------------------------------
(* Theorems.                                                               *)

\* The API's memory and the worker agree in every reachable state: no post that
\* is not yet stored has a Task, the store has a Task for every trip whose Task
\* was ever created, and what the worker runs is a Task that submit created.
THEOREM ServiceInvariant == Spec => []ServiceInv
  <1>1. ServiceInv /\ [Next]_vars => ServiceInv'
    BY NextKeeps
  <1> QED
    BY InitInv, <1>1, PTL DEF Spec

\* The records of task_store.py and of Runner keep their types.
THEOREM ServiceTypeCorrect == Spec => []TypeOK
  <1>1. ServiceInv => TypeOK
    BY DEF ServiceInv
  <1> QED
    BY ServiceInvariant, <1>1, PTL

\* A task that complete, fail or the watchdog has ended keeps its status and
\* its result: the guards on PROCESSING and QUEUED in task_service.py are enough
\* against callbacks that are late, repeated or of an earlier post of the trip.
THEOREM OutcomeStays == Spec => OutcomeIsFinal
  <1>1. ServiceInv /\ [Next]_vars => [OutcomeKept]_vars
    BY NextKeeps
  <1> QED
    BY ServiceInvariant, <1>1, PTL DEF Spec, OutcomeIsFinal

=============================================================================
