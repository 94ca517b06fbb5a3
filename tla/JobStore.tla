------------------------------ MODULE JobStore ------------------------------
(***************************************************************************)
(* The Redis job store of the v2 server: app/jobs/redis_store.py.          *)
(*                                                                         *)
(* Every operation of RedisJobStore runs as one WATCH/MULTI/EXEC           *)
(* transaction that is retried until it commits, so every operation is one *)
(* action.  The callers (Kafka receivers, runners, executing children,     *)
(* recovery loops, publishers, HTTP handlers) live in several processes    *)
(* and may be late, dead or repeated; here they call the store in any      *)
(* order, with any owner token that a claim has ever issued.               *)
(*                                                                         *)
(* Time.  A timestamp t of the code is kept as the time that is left until *)
(* t, and Tick brings all of them one unit closer, never below 0:          *)
(*    leaseLeft = heartbeat_at + JOBS_LEASE_SEC - now                      *)
(*    timeLeft  = started_at + job_timeout(kind) - now                     *)
(*    pubLeft   = publish_until - now                                      *)
(* and likewise the scores of the sorted sets "running" and "pending".     *)
(* `now < t' is then left > 0, and `now >= t' is left = 0.                 *)
(*                                                                         *)
(* The photo batch keys that register also clears are in PhotoBatches.     *)
(***************************************************************************)
EXTENDS Integers, FiniteSets

CONSTANTS
    Jobs,                     \* identities trip:kind:execution_id
    Trips,                    \* trip ids
    TripOf,                   \* [Jobs -> Trips]
    KindOf,                   \* [Jobs -> Kinds]
    NoJob,                    \* a missing "latest" or "slot" key
    Publishers,               \* the uuid of every publish_results loop
    NoPublisher,              \* publish_owner = None
    MAX_STORY_CONCURRENCY,    \* story slots that have a key
    JOBS_STORY_CONCURRENCY,   \* story slots in use
    JOBS_LEASE_SEC,
    JOBS_TIMEOUT_SEC,         \* [Kinds -> Nat \ {0}], job_timeout(kind)
    JOBS_PUBLISH_LEASE_SEC,
    TotalSteps,               \* progress.total
    Outcomes,                 \* what executions may hand in to finish
    MaxReturns                \* bound: claims of one job handed back

Kinds == {"process", "story"}

TERMINAL_STATUSES == {"COMPLETED", "FAILED", "CANCELED"}
ACTIVE_STATUSES == {"QUEUED", "PROCESSING"}
Statuses == {"ABSENT"} \cup ACTIVE_STATUSES \cup TERMINAL_STATUSES

\* A member that is not in a sorted set, and a job that no worker owns.
Absent == -1
NoOwner == 0

ASSUME JobsAssumption ==
    /\ TripOf \in [Jobs -> Trips]
    /\ KindOf \in [Jobs -> Kinds]
    /\ NoJob \notin Jobs
    /\ IsFiniteSet(Jobs)
    /\ NoPublisher \notin Publishers

ASSUME LimitAssumption ==
    /\ MAX_STORY_CONCURRENCY \in Nat \ {0}
    /\ JOBS_STORY_CONCURRENCY \in 1 .. MAX_STORY_CONCURRENCY

ASSUME TimeAssumption ==
    /\ JOBS_LEASE_SEC \in Nat \ {0}
    /\ JOBS_TIMEOUT_SEC \in [Kinds -> Nat \ {0}]
    /\ JOBS_PUBLISH_LEASE_SEC \in Nat \ {0}
    /\ TotalSteps \in Nat \ {0}
    /\ MaxReturns \in Nat

ASSUME OutcomesAssumption ==
    Outcomes \subseteq [status : TERMINAL_STATUSES,
                        code   : {"RESULT", "ERROR", "CANCELED"},
                        fits   : BOOLEAN]

VARIABLES
    rec,         \* job:{identity}, a JobRecord
    latest,      \* latest:{kind}:{trip}
    ignored,     \* ignored:{identity}
    sequence,    \* enqueue_sequence
    queue,       \* queue:{kind}, the score of every job or Absent
    slot,        \* slot:{kind}, slot:{kind}:1, ...
    running,     \* running, the time left until the score, or Absent
    pending,     \* pending, the time left until the score, or Absent
    counted,     \* metrics:operations, terminations counted for the job
    claims,      \* claims of the job so far; the n-th one owns token n
    claimScore,  \* queue_score held by the claim() that took the job
    order        \* history: the position at which the job was accepted

vars == <<rec, latest, ignored, sequence, queue, slot, running, pending,
          counted, claims, claimScore, order>>

indexes == <<queue, slot, running, pending, counted>>
registry == <<latest, ignored, sequence, order>>

-----------------------------------------------------------------------------
(* Records.                                                                *)

Codes == {"NONE", "RESULT", "CANCELED", "ERROR", "INVALID_REQUEST",
          "WORKER_DEAD", "TIMEOUT", "RESULT_TOO_LARGE"}

Events == [status : {"NONE"} \cup TERMINAL_STATUSES, code : Codes]

NoEvent == [status |-> "NONE", code |-> "NONE"]

JobRecord ==
    [status    : Statuses,
     owner     : Nat,
     leaseLeft : Nat,
     timeLeft  : Nat,
     done      : 0 .. TotalSteps,
     cancel    : BOOLEAN,
     event     : Events,
     pubOwner  : Publishers \cup {NoPublisher},
     pubLeft   : Nat,
     published : BOOLEAN]

NoRecord ==
    [status |-> "ABSENT", owner |-> NoOwner, leaseLeft |-> 0, timeLeft |-> 0,
     done |-> 0, cancel |-> FALSE, event |-> NoEvent,
     pubOwner |-> NoPublisher, pubLeft |-> 0, published |-> FALSE]

NewRecord == [NoRecord EXCEPT !.status = "QUEUED"]

Line(j) == <<TripOf[j], KindOf[j]>>

MinOf(a, b) == IF a <= b THEN a ELSE b

IsTerminal(r) == r.status \in TERMINAL_STATUSES

\* An event over RESULT_MAX_BYTES is replaced by a small failure.
EnforceSizeLimit(out) ==
    IF out.fits THEN [status |-> out.status, code |-> out.code]
                ELSE [status |-> "FAILED", code |-> "RESULT_TOO_LARGE"]

\* heartbeat_at and started_at of an ended record are never read again.
Terminate(r, event) ==
    [r EXCEPT !.event = event,
              !.status = event.status,
              !.leaseLeft = 0,
              !.timeLeft = 0,
              !.done = IF event.status = "COMPLETED" THEN TotalSteps ELSE @]

Owns(r, o) ==
    /\ r.status = "PROCESSING"
    /\ r.owner = o
    /\ r.leaseLeft > 0
    /\ r.timeLeft > 0

-----------------------------------------------------------------------------
(* Slots and the running index.                                            *)

\* slot_keys(kind): the first key is shared with the old single runner.
slot_keys(k) == IF k = "story" THEN 0 .. MAX_STORY_CONCURRENCY - 1 ELSE {0}

Limit(k) == IF k = "story" THEN JOBS_STORY_CONCURRENCY ELSE 1

Occupied(k) == {i \in slot_keys(k) : slot[k][i] # NoJob}

StaleSlots(k) == {i \in Occupied(k) : IsTerminal(rec[slot[k][i]])}

FirstFree(k) ==
    CHOOSE i \in slot_keys(k) \ Occupied(k) :
        \A n \in slot_keys(k) \ Occupied(k) : i <= n

Waiting(k) == {j \in Jobs : KindOf[j] = k /\ queue[j] # Absent}

IsHead(j, k) == j \in Waiting(k) /\ \A n \in Waiting(k) : queue[j] <= queue[n]

Deadline(r) == MinOf(r.leaseLeft, r.timeLeft)

Released(j, keys) ==
    [slot EXCEPT ![KindOf[j]] =
        [i \in DOMAIN @ |-> IF i \in keys /\ @[i] = j THEN NoJob ELSE @[i]]]

(***************************************************************************)
(* change(identity, update, queue_score): r is the record that update made *)
(* of rec[j].  A terminal record leaves the queue, the running index and   *)
(* its slots and waits in pending until it is published; a PROCESSING one  *)
(* gets its new deadline; one put back gives up its slot for its old place *)
(* in the queue.                                                           *)
(***************************************************************************)
QueueAfter_Kept(j, r, score) == IF r.status = "QUEUED" THEN score ELSE queue[j]

QueueAfter(j, r, score) ==
    IF IsTerminal(r) THEN Absent
    ELSE IF r.status = "QUEUED" THEN score ELSE queue[j]

SlotAfter(j, r, keys) ==
    IF r.status = "PROCESSING" THEN slot ELSE Released(j, keys)

RunningAfter(r) == IF r.status = "PROCESSING" THEN Deadline(r) ELSE Absent

PendingAfter_OnceOnly(j, r) ==
    IF IsTerminal(r) /\ r.pubOwner = NoPublisher THEN r.pubLeft ELSE Absent

PendingAfter(j, r) ==
    IF IsTerminal(r) /\ ~r.published THEN r.pubLeft ELSE pending[j]

CountedAfter(j, r) ==
    IF IsTerminal(r) /\ ~IsTerminal(rec[j]) THEN counted[j] + 1 ELSE counted[j]

\* keys are the slot keys that the image running the operation knows.
ChangeIn(j, r, score, keys) ==
    /\ rec' = [rec EXCEPT ![j] = r]
    /\ queue' = [queue EXCEPT ![j] = QueueAfter(j, r, score)]
    /\ slot' = SlotAfter(j, r, keys)
    /\ running' = [running EXCEPT ![j] = RunningAfter(r)]
    /\ pending' = [pending EXCEPT ![j] = PendingAfter(j, r)]
    /\ counted' = [counted EXCEPT ![j] = CountedAfter(j, r)]
    /\ UNCHANGED <<registry, claims, claimScore>>

Change(j, r, score) == ChangeIn(j, r, score, slot_keys(KindOf[j]))

-----------------------------------------------------------------------------
(* Intake: register.                                                       *)

Unseen_NoIgnored(j) == rec[j].status = "ABSENT"

Unseen(j) == rec[j].status = "ABSENT" /\ j \notin ignored

Busy_OnlyRunning(j) ==
    /\ latest[Line(j)] # NoJob
    /\ rec[latest[Line(j)]].status = "PROCESSING"

Busy(j) ==
    /\ latest[Line(j)] # NoJob
    /\ ~IsTerminal(rec[latest[Line(j)]])

\* The trip already has an unfinished job of this kind: the request is
\* dropped, and remembered so that a redelivery is dropped as well.
RegisterBusy(j) ==
    /\ Unseen(j)
    /\ Busy(j)
    /\ ignored' = ignored \cup {j}
    /\ UNCHANGED <<rec, latest, sequence, order, indexes, claims, claimScore>>

\* A request with an invalid body is stored as a failure to be published.
RegisterAccepted(j, valid) ==
    /\ Unseen(j)
    /\ ~Busy(j)
    /\ rec' = [rec EXCEPT ![j] =
                 IF valid THEN NewRecord
                 ELSE Terminate(NewRecord,
                                [status |-> "FAILED", code |-> "INVALID_REQUEST"])]
    /\ sequence' = sequence + 1
    /\ latest' = [latest EXCEPT ![Line(j)] = j]
    /\ queue' = [queue EXCEPT ![j] = IF valid THEN sequence + 1 ELSE @]
    /\ pending' = [pending EXCEPT ![j] = IF valid THEN @ ELSE 0]
    /\ counted' = [counted EXCEPT ![j] = IF valid THEN @ ELSE @ + 1]
    /\ order' = [order EXCEPT ![j] = sequence + 1]
    /\ UNCHANGED <<ignored, slot, running, claims, claimScore>>

-----------------------------------------------------------------------------
(* Execution: claim, return_unstarted, heartbeat, progress, finish.        *)

\* claim: slots whose occupant has ended are freed first, in a transaction
\* of their own.
ClearStaleSlots(k) ==
    /\ StaleSlots(k) # {}
    /\ slot' = [slot EXCEPT ![k] =
                  [i \in DOMAIN @ |-> IF i \in StaleSlots(k) THEN NoJob ELSE @[i]]]
    /\ UNCHANGED <<rec, registry, queue, running, pending, counted, claims,
                   claimScore>>

HasRoom_OneMore(k) == Cardinality(Occupied(k)) <= Limit(k)

HasRoom(k) == Cardinality(Occupied(k)) < Limit(k)

Claim_NoDeadline(k, j) ==
    /\ StaleSlots(k) = {}
    /\ HasRoom(k)
    /\ IsHead(j, k)
    /\ rec[j].status = "QUEUED"
    /\ rec' = [rec EXCEPT ![j].status = "PROCESSING",
                          ![j].owner = claims[j] + 1,
                          ![j].leaseLeft = JOBS_LEASE_SEC,
                          ![j].timeLeft = JOBS_TIMEOUT_SEC[k]]
    /\ claims' = [claims EXCEPT ![j] = @ + 1]
    /\ claimScore' = [claimScore EXCEPT ![j] = queue[j]]
    /\ queue' = [queue EXCEPT ![j] = Absent]
    /\ slot' = [slot EXCEPT ![k][FirstFree(k)] = j]
    /\ UNCHANGED <<registry, running, pending, counted>>

\* The head of the queue gets a fresh owner token (worker:uuid) and the
\* first free slot.  A head that is not QUEUED would be dropped from the
\* queue; QueueMatchesStatus says there is none.
Claim(k, j) ==
    /\ StaleSlots(k) = {}
    /\ HasRoom(k)
    /\ IsHead(j, k)
    /\ rec[j].status = "QUEUED"
    /\ rec' = [rec EXCEPT ![j].status = "PROCESSING",
                          ![j].owner = claims[j] + 1,
                          ![j].leaseLeft = JOBS_LEASE_SEC,
                          ![j].timeLeft = JOBS_TIMEOUT_SEC[k]]
    /\ claims' = [claims EXCEPT ![j] = @ + 1]
    /\ claimScore' = [claimScore EXCEPT ![j] = queue[j]]
    /\ queue' = [queue EXCEPT ![j] = Absent]
    /\ slot' = [slot EXCEPT ![k][FirstFree(k)] = j]
    /\ running' = [running EXCEPT ![j] =
                     MinOf(JOBS_LEASE_SEC, JOBS_TIMEOUT_SEC[k])]
    /\ UNCHANGED <<registry, pending, counted>>

Canceled == [status |-> "CANCELED", code |-> "CANCELED"]

ReturnUnstarted_NewPlace(j, o) ==
    /\ Owns(rec[j], o)
    /\ claims[j] <= MaxReturns
    /\ Change(j, IF rec[j].cancel THEN Terminate(rec[j], Canceled)
                 ELSE [rec[j] EXCEPT !.status = "QUEUED", !.owner = NoOwner,
                                     !.leaseLeft = 0, !.timeLeft = 0],
              sequence + 1)

\* The runner was told to stop between the claim's EXEC and its reply.
ReturnUnstarted(j, o) ==
    /\ Owns(rec[j], o)
    /\ claims[j] <= MaxReturns
    /\ Change(j, IF rec[j].cancel THEN Terminate(rec[j], Canceled)
                 ELSE [rec[j] EXCEPT !.status = "QUEUED", !.owner = NoOwner,
                                     !.leaseLeft = 0, !.timeLeft = 0],
              claimScore[j])

Heartbeat(j, o) ==
    /\ Owns(rec[j], o)
    /\ Change(j, [rec[j] EXCEPT !.leaseLeft = JOBS_LEASE_SEC], Absent)

Report_Unchecked(j, o, done) ==
    /\ Owns(rec[j], o)
    /\ ~rec[j].cancel
    /\ Change(j, [rec[j] EXCEPT !.done = done], Absent)

\* progress: a value outside the contract raises and changes nothing.
Report(j, o, done) ==
    /\ Owns(rec[j], o)
    /\ ~rec[j].cancel
    /\ done \in 0 .. TotalSteps
    /\ Change(j, [rec[j] EXCEPT !.done = done], Absent)

Finish_Unfenced(j, o, out) ==
    /\ rec[j].owner = o
    /\ Change(j, Terminate(rec[j],
                           IF rec[j].cancel THEN Canceled
                           ELSE EnforceSizeLimit(out)), Absent)

Finish(j, o, out) ==
    /\ Owns(rec[j], o)
    /\ Change(j, Terminate(rec[j],
                           IF rec[j].cancel THEN Canceled
                           ELSE EnforceSizeLimit(out)), Absent)

-----------------------------------------------------------------------------
(* Cancellation and recovery.                                              *)

\* cancel reads "latest" first and changes the record later.  Every job was
\* the latest of its line once, so any job may be the target; a target that
\* has ended meanwhile raises TASK_NOT_CANCELABLE.
Cancel(j) ==
    /\ rec[j].status \in ACTIVE_STATUSES
    /\ LET asked == [rec[j] EXCEPT !.cancel = TRUE]
       IN  Change(j, IF asked.status = "QUEUED" THEN Terminate(asked, Canceled)
                     ELSE asked, Absent)

Expired(r) == r.timeLeft = 0 \/ r.leaseLeft = 0

Abandoned(r) ==
    Terminate(r, [status |-> "FAILED",
                  code |-> IF r.timeLeft = 0 THEN "TIMEOUT" ELSE "WORKER_DEAD"])

\* The members of "running" whose score has passed are checked again.
Recover(j) ==
    /\ running[j] = 0
    /\ rec[j].status = "PROCESSING"
    /\ Expired(rec[j])
    /\ Change(j, Abandoned(rec[j]), Absent)

\* The recovery loop of the previous image, which knows only the first slot
\* key; a rolling deployment runs both images on one Redis.
LegacyRecover(j) ==
    /\ running[j] = 0
    /\ rec[j].status = "PROCESSING"
    /\ Expired(rec[j])
    /\ ChangeIn(j, Abandoned(rec[j]), Absent, {0})

-----------------------------------------------------------------------------
(* Publication of results: claim_result, acknowledge_result.               *)

ClaimResult(j, p) ==
    /\ rec[j].event # NoEvent
    /\ ~rec[j].published
    /\ rec[j].pubLeft = 0
    /\ Change(j, [rec[j] EXCEPT !.pubOwner = p,
                                !.pubLeft = JOBS_PUBLISH_LEASE_SEC], Absent)

AcknowledgeResult_KeepsPending(j, p) ==
    /\ rec[j].pubOwner = p
    /\ rec' = [rec EXCEPT ![j].published = TRUE]
    /\ UNCHANGED <<registry, indexes, claims, claimScore>>

\* The owner of the last claim_result may acknowledge after its lease.
AcknowledgeResult(j, p) ==
    /\ rec[j].pubOwner = p
    /\ rec' = [rec EXCEPT ![j].published = TRUE]
    /\ pending' = [pending EXCEPT ![j] = Absent]
    /\ UNCHANGED <<registry, queue, slot, running, counted, claims, claimScore>>

-----------------------------------------------------------------------------
(* Time.                                                                   *)

Closer(left) == IF left > 0 THEN left - 1 ELSE left

Tick ==
    /\ rec' = [j \in Jobs |->
                 [rec[j] EXCEPT !.leaseLeft = Closer(@), !.timeLeft = Closer(@),
                                !.pubLeft = Closer(@)]]
    /\ running' = [j \in Jobs |-> Closer(running[j])]
    /\ pending' = [j \in Jobs |-> Closer(pending[j])]
    /\ UNCHANGED <<registry, queue, slot, counted, claims, claimScore>>

-----------------------------------------------------------------------------
(* The specification.                                                      *)

Init ==
    /\ rec = [j \in Jobs |-> NoRecord]
    /\ latest = [l \in Trips \X Kinds |-> NoJob]
    /\ ignored = {}
    /\ sequence = 0
    /\ queue = [j \in Jobs |-> Absent]
    /\ slot = [k \in Kinds |-> [i \in slot_keys(k) |-> NoJob]]
    /\ running = [j \in Jobs |-> Absent]
    /\ pending = [j \in Jobs |-> Absent]
    /\ counted = [j \in Jobs |-> 0]
    /\ claims = [j \in Jobs |-> 0]
    /\ claimScore = [j \in Jobs |-> Absent]
    /\ order = [j \in Jobs |-> 0]

Next ==
    \/ \E j \in Jobs : RegisterBusy(j)
    \/ \E j \in Jobs, valid \in BOOLEAN : RegisterAccepted(j, valid)
    \/ \E k \in Kinds : ClearStaleSlots(k)
    \/ \E k \in Kinds, j \in Jobs : Claim(k, j)
    \/ \E j \in Jobs : \E o \in 1 .. claims[j] : ReturnUnstarted(j, o)
    \/ \E j \in Jobs : \E o \in 1 .. claims[j] : Heartbeat(j, o)
    \/ \E j \in Jobs : \E o \in 1 .. claims[j], d \in 0 .. TotalSteps + 1 :
           Report(j, o, d)
    \/ \E j \in Jobs : \E o \in 1 .. claims[j], out \in Outcomes : Finish(j, o, out)
    \/ \E j \in Jobs : Cancel(j)
    \/ \E j \in Jobs : Recover(j)
    \/ \E j \in Jobs : LegacyRecover(j)
    \/ \E j \in Jobs, p \in Publishers : ClaimResult(j, p)
    \/ \E j \in Jobs, p \in Publishers : AcknowledgeResult(j, p)
    \/ Tick

Spec == Init /\ [][Next]_vars

(***************************************************************************)
(* Time passes, some runner polls each queue (runner_loop) and some        *)
(* recovery loop scans "running" (recover_jobs).  Nothing is assumed of    *)
(* the executions: they may stay silent, or beat their heart for ever.     *)
(***************************************************************************)
Fairness ==
    /\ WF_vars(Tick)
    /\ \A k \in Kinds : WF_vars(ClearStaleSlots(k))
    /\ \A k \in Kinds : WF_vars(\E j \in Jobs : Claim(k, j))
    /\ \A j \in Jobs : WF_vars(Recover(j))

FairSpec == Spec /\ Fairness

-----------------------------------------------------------------------------
(* Properties.                                                             *)

\* The types of the Redis keys.
TypeOK ==
    /\ rec \in [Jobs -> JobRecord]
    /\ latest \in [Trips \X Kinds -> Jobs \cup {NoJob}]
    /\ ignored \in SUBSET Jobs
    /\ sequence \in Nat
    /\ queue \in [Jobs -> Nat \cup {Absent}]
    /\ DOMAIN slot = Kinds
    /\ \A k \in Kinds : slot[k] \in [slot_keys(k) -> Jobs \cup {NoJob}]
    /\ running \in [Jobs -> Nat \cup {Absent}]
    /\ pending \in [Jobs -> Nat \cup {Absent}]
    /\ counted \in [Jobs -> Nat]
    /\ claims \in [Jobs -> Nat]
    /\ claimScore \in [Jobs -> Nat \cup {Absent}]
    /\ order \in [Jobs -> Nat]

\* queue:{kind} holds exactly the QUEUED records, each at the position where
\* register accepted it, however often it was claimed and handed back.  So
\* the branch of claim that drops a head that is not QUEUED is never taken.
QueueMatchesStatus ==
    \A j \in Jobs :
        IF rec[j].status = "QUEUED" THEN queue[j] = order[j]
                                    ELSE queue[j] = Absent

\* "running" holds exactly the PROCESSING records, and its score is the
\* earlier of lease and timeout: the scan of recover misses no job that has
\* lost its worker or its time.
RunningIsIndexed ==
    \A j \in Jobs :
        running[j] = IF rec[j].status = "PROCESSING"
                     THEN MinOf(rec[j].leaseLeft, rec[j].timeLeft) ELSE Absent

\* A PROCESSING job holds one slot of its kind and no job holds two: no slot
\* leaks when a claim is handed back, and no running job loses its own.
SlotsMatchJobs ==
    \A k \in Kinds :
        /\ \A i \in Occupied(k) :
               /\ KindOf[slot[k][i]] = k
               /\ \/ rec[slot[k][i]].status = "PROCESSING"
                  \/ IsTerminal(rec[slot[k][i]])
        /\ \A i, n \in Occupied(k) : slot[k][i] = slot[k][n] => i = n
        /\ \A j \in Jobs : rec[j].status = "PROCESSING" /\ KindOf[j] = k
                           => \E i \in slot_keys(k) : slot[k][i] = j

\* Never more jobs of one kind in execution than the configured limit,
\* across all runners and images that share the Redis.
ConcurrencyLimit ==
    \A k \in Kinds :
        Cardinality({j \in Jobs : rec[j].status = "PROCESSING" /\ KindOf[j] = k})
            <= Limit(k)

\* A trip has at most one unfinished job of each kind, and that job is the
\* one "latest" names: status and cancel requests reach it.
OneActivePerLine ==
    \A j \in Jobs : rec[j].status \in ACTIVE_STATUSES => latest[Line(j)] = j

\* A result waits in "pending" until it is published, and is due again
\* exactly when the lease of its publisher ends.
ResultsArePending ==
    \A j \in Jobs :
        pending[j] = IF IsTerminal(rec[j]) /\ ~rec[j].published
                     THEN rec[j].pubLeft ELSE Absent

\* A request refused while its trip was busy never gets a record, also not
\* when Kafka delivers it again after the other job has ended.
IgnoredStaysOut == \A j \in ignored : rec[j].status = "ABSENT"

\* A job whose cancellation was accepted never completes.
CancelNeverCompletes ==
    \A j \in Jobs : rec[j].cancel => rec[j].status # "COMPLETED"

\* Every ended job is counted once in the operation metrics, though change
\* also runs when its result is claimed for publication.
CountedOnce ==
    \A j \in Jobs : counted[j] = IF IsTerminal(rec[j]) THEN 1 ELSE 0

\* An ended job keeps its status and event for ever, whatever late callers
\* do, and a published result stays published.
OutcomeKept ==
    \A j \in Jobs :
        IsTerminal(rec[j]) => /\ rec'[j].status = rec[j].status
                              /\ rec'[j].event = rec[j].event
                              /\ rec[j].published => rec'[j].published

TerminalIsFinal == [][OutcomeKept]_vars

\* Jobs of one kind start in the order in which they were accepted, those
\* that a stopping runner has handed back included.
EarliestStarts ==
    \A j, n \in Jobs :
        /\ rec[j].status = "QUEUED" /\ rec'[j].status = "PROCESSING"
        /\ rec[n].status = "QUEUED" /\ KindOf[n] = KindOf[j]
        => order[j] <= order[n]

StartsInOrder == [][EarliestStarts]_vars

\* Every accepted job ends, though its worker may die or never report.
EveryJobEnds ==
    \A j \in Jobs : (rec[j].status \in ACTIVE_STATUSES) ~> IsTerminal(rec[j])

=============================================================================
