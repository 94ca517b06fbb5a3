---------------------------- MODULE PhotoBatches ----------------------------
(***************************************************************************)
(* The photo batches that arrive before a process request, on top of       *)
(* JobStore: stage_photos, claim_batch, photo_batch and                    *)
(* save_photo_metrics of app/jobs/redis_store.py, the part of register     *)
(* that clears them, and the process runner and its child that embed them  *)
(* ahead of the request (run_photo_batch, run_batch).                      *)
(*                                                                         *)
(* bufferLeft and queueLeft are times left, as in JobStore: until Redis    *)
(* expires the buffer of an execution, and until a member of the batch     *)
(* queue (scored by its staging time) is old enough to be swept.  A        *)
(* photos_ready message that contradicts the buffer or exceeds a limit is  *)
(* rejected and changes nothing here; KafkaIntake has its way to the DLT.  *)
(***************************************************************************)
EXTENDS JobStore

CONSTANTS
    BatchNos,       \* batch_no
    BatchLimit,     \* batches kept for an execution (200)
    JOBS_PHOTOS_READY_TTL_SEC,
    Workers,        \* process runners
    MaxStagings     \* bound: stagings of one batch

ASSUME BatchAssumption ==
    /\ BatchLimit \in Nat
    /\ JOBS_PHOTOS_READY_TTL_SEC \in Nat \ {0}
    /\ MaxStagings \in Nat

VARIABLES
    buffer,        \* photo_batches:{identity}, the batches it holds
    bufferLeft,    \* 0: the key does not exist
    queueLeft,     \* queue:photo_batch, or Absent
    worker,        \* the process runners
    staged         \* history: how often a batch was stored in the buffer

photoVars == <<buffer, bufferLeft, queueLeft, worker, staged>>
batchVars == <<vars, photoVars>>

Members == Jobs \X BatchNos

NoBatch == [pc |-> "idle", job |-> NoJob, no |-> 0]

Closed(j) == rec[j].status # "ABSENT" \/ j \in ignored

-----------------------------------------------------------------------------
StagePhotos_Reopens(j, n) ==
    /\ n \notin buffer[j]
    /\ Cardinality(buffer[j]) < BatchLimit
    /\ staged[<<j, n>>] < MaxStagings
    /\ staged' = [staged EXCEPT ![<<j, n>>] = @ + 1]
    /\ buffer' = [buffer EXCEPT ![j] = @ \cup {n}]
    /\ bufferLeft' = [bufferLeft EXCEPT ![j] = JOBS_PHOTOS_READY_TTL_SEC]
    /\ queueLeft' = [m \in Members |->
                       IF m = <<j, n>> THEN JOBS_PHOTOS_READY_TTL_SEC
                       ELSE IF queueLeft[m] = 0 THEN Absent ELSE queueLeft[m]]
    /\ UNCHANGED <<vars, worker>>

\* A batch of an execution that is registered or ignored is "closed", one
\* that the buffer holds is a "duplicate".  Otherwise the buffer lives for
\* another period, the batch is queued, and old members are swept.
StagePhotos(j, n) ==
    /\ ~Closed(j)
    /\ n \notin buffer[j]
    /\ Cardinality(buffer[j]) < BatchLimit
    /\ staged[<<j, n>>] < MaxStagings
    /\ staged' = [staged EXCEPT ![<<j, n>>] = @ + 1]
    /\ buffer' = [buffer EXCEPT ![j] = @ \cup {n}]
    /\ bufferLeft' = [bufferLeft EXCEPT ![j] = JOBS_PHOTOS_READY_TTL_SEC]
    /\ queueLeft' = [m \in Members |->
                       IF m = <<j, n>> THEN JOBS_PHOTOS_READY_TTL_SEC
                       ELSE IF queueLeft[m] = 0 THEN Absent ELSE queueLeft[m]]
    /\ UNCHANGED <<vars, worker>>

\* register deletes the buffer and the queued batches that it holds.
ClearBatches(j) ==
    /\ buffer' = [buffer EXCEPT ![j] = {}]
    /\ bufferLeft' = [bufferLeft EXCEPT ![j] = 0]
    /\ queueLeft' = [m \in Members |->
                       IF m[1] = j /\ m[2] \in buffer[j] THEN Absent ELSE queueLeft[m]]

RegisterProcess(j) ==
    /\ RegisterBusy(j) \/ RegisterAccepted(j, TRUE)
    /\ ClearBatches(j)
    /\ UNCHANGED <<worker, staged>>

-----------------------------------------------------------------------------
(* claim_batch and the batch child.                                        *)

\* zpopmin: the batch that was staged first.
PopBatch(w, m) ==
    /\ worker[w].pc = "idle"
    /\ queueLeft[m] # Absent
    /\ \A n \in Members : queueLeft[n] # Absent => queueLeft[m] <= queueLeft[n]
    /\ queueLeft' = [queueLeft EXCEPT ![m] = Absent]
    /\ worker' = [worker EXCEPT ![w] = [pc |-> "popped", job |-> m[1], no |-> m[2]]]
    /\ UNCHANGED <<vars, buffer, bufferLeft, staged>>

\* A batch whose buffer is gone is dropped.
ClaimBatch(w) ==
    /\ worker[w].pc = "popped"
    /\ worker' = [worker EXCEPT ![w] = IF bufferLeft[worker[w].job] > 0
                                       THEN [@ EXCEPT !.pc = "claimed"] ELSE NoBatch]
    /\ UNCHANGED <<vars, buffer, bufferLeft, queueLeft, staged>>

\* The child reads the batch again: process may have been registered.
ReadBatch(w) ==
    /\ worker[w].pc = "claimed"
    /\ worker' = [worker EXCEPT ![w] = IF worker[w].no \in buffer[worker[w].job]
                                       THEN [@ EXCEPT !.pc = "embedding"] ELSE NoBatch]
    /\ UNCHANGED <<vars, buffer, bufferLeft, queueLeft, staged>>

\* The vectors are in Qdrant, the metrics in Redis; the pipeline computes
\* what it does not find there.
BatchDone(w) ==
    /\ worker[w].pc = "embedding"
    /\ worker' = [worker EXCEPT ![w] = NoBatch]
    /\ UNCHANGED <<vars, buffer, bufferLeft, queueLeft, staged>>

\* An error, the time limit or a death: the batch is not tried again.
BatchLost(w) ==
    /\ worker[w].pc # "idle"
    /\ worker' = [worker EXCEPT ![w] = NoBatch]
    /\ UNCHANGED <<vars, buffer, bufferLeft, queueLeft, staged>>

PhotoTick ==
    /\ Tick
    /\ bufferLeft' = [j \in Jobs |-> Closer(bufferLeft[j])]
    /\ buffer' = [j \in Jobs |-> IF bufferLeft[j] > 1 THEN buffer[j] ELSE {}]
    /\ queueLeft' = [m \in Members |-> Closer(queueLeft[m])]
    /\ UNCHANGED <<worker, staged>>

-----------------------------------------------------------------------------
PhotoInit ==
    /\ Init
    /\ buffer = [j \in Jobs |-> {}]
    /\ bufferLeft = [j \in Jobs |-> 0]
    /\ queueLeft = [m \in Members |-> Absent]
    /\ worker = [w \in Workers |-> NoBatch]
    /\ staged = [m \in Members |-> 0]

PhotoNext ==
    \/ \E j \in Jobs, n \in BatchNos : StagePhotos(j, n)
    \/ \E j \in Jobs : RegisterProcess(j)
    \/ \E j \in Jobs : Cancel(j) /\ UNCHANGED photoVars
    \/ \E w \in Workers, m \in Members : PopBatch(w, m)
    \/ \E w \in Workers : ClaimBatch(w)
    \/ \E w \in Workers : ReadBatch(w)
    \/ \E w \in Workers : BatchDone(w)
    \/ \E w \in Workers : BatchLost(w)
    \/ PhotoTick

PhotoSpec == PhotoInit /\ [][PhotoNext]_batchVars

-----------------------------------------------------------------------------
(* Properties.                                                             *)

\* The types of the batch keys; a buffer holds batches, and not too many,
\* exactly while its key exists.
PhotoTypeOK ==
    /\ buffer \in [Jobs -> SUBSET BatchNos]
    /\ bufferLeft \in [Jobs -> 0 .. JOBS_PHOTOS_READY_TTL_SEC]
    /\ \A j \in Jobs : /\ (buffer[j] = {}) = (bufferLeft[j] = 0)
                       /\ Cardinality(buffer[j]) <= BatchLimit
    /\ queueLeft \in [Members -> {Absent} \cup 0 .. JOBS_PHOTOS_READY_TTL_SEC]
    /\ worker \in [Workers -> [pc : {"idle", "popped", "claimed", "embedding"},
                               job : Jobs \cup {NoJob}, no : BatchNos \cup {0}]]
    /\ staged \in [Members -> 0 .. MaxStagings]

\* Neither the batches that are still queued when process is registered nor
\* those of a late photos_ready are embedded afterwards: what a runner starts
\* to embed belongs to an execution without process at that moment.
EmbedsAheadOnly ==
    \A w \in Workers :
        worker[w].pc # "embedding" /\ worker'[w].pc = "embedding"
        => ~Closed(worker[w].job)

NoBatchAfterProcess == [][EmbedsAheadOnly]_batchVars

=============================================================================
