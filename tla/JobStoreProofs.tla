--------------------------- MODULE JobStoreProofs ---------------------------
(***************************************************************************)
(* Theorems about JobStore, for every set of jobs, every assignment of     *)
(* jobs to trips and kinds, and every lease, timeout and limit.            *)
(***************************************************************************)
EXTENDS JobStoreRefinement, Lemmas

-----------------------------------------------------------------------------
(* What the operators return.                                              *)

FinalEvents == [status : TERMINAL_STATUSES, code : Codes]

\* terminate makes a record from a record.
LEMMA TerminateType ==
    ASSUME NEW r \in JobRecord, NEW e \in FinalEvents
    PROVE  /\ Terminate(r, e) \in JobRecord
           /\ Terminate(r, e).status = e.status
           /\ Terminate(r, e).event = e
           /\ Terminate(r, e).cancel = r.cancel
           /\ Terminate(r, e).pubOwner = r.pubOwner
           /\ Terminate(r, e).pubLeft = r.pubLeft
           /\ Terminate(r, e).published = r.published
  <1> DEFINE d == IF e.status = "COMPLETED" THEN TotalSteps ELSE r.done
  <1>1. d \in 0 .. TotalSteps
    BY TimeAssumption DEF JobRecord
  <1>2. e \in Events /\ e.status \in Statuses /\ e.status \in TERMINAL_STATUSES
    BY DEF FinalEvents, Events, Statuses
  <1>3. Terminate(r, e) = [r EXCEPT !.event = e, !.status = e.status,
                                    !.leaseLeft = 0, !.timeLeft = 0, !.done = d]
    BY DEF Terminate
  <1> HIDE DEF d
  <1>4. Terminate(r, e) =
          [status |-> e.status, owner |-> r.owner, leaseLeft |-> 0,
           timeLeft |-> 0, done |-> d, cancel |-> r.cancel, event |-> e,
           pubOwner |-> r.pubOwner, pubLeft |-> r.pubLeft,
           published |-> r.published]
    BY <1>3 DEF JobRecord
  <1>5. /\ r.owner \in Nat /\ r.cancel \in BOOLEAN /\ r.published \in BOOLEAN
        /\ r.pubOwner \in Publishers \cup {NoPublisher} /\ r.pubLeft \in Nat
    BY DEF JobRecord
  <1>6. Terminate(r, e) \in JobRecord
    BY <1>1, <1>2, <1>4, <1>5 DEF JobRecord
  <1> QED
    BY <1>4, <1>6

\* Whatever an execution hands in, finish stores an event of an ended job.
LEMMA SizeLimitType ==
    ASSUME NEW out \in Outcomes
    PROVE  EnforceSizeLimit(out) \in FinalEvents
  BY OutcomesAssumption
     DEF EnforceSizeLimit, FinalEvents, TERMINAL_STATUSES, Codes

\* A missing record and a new one.
LEMMA NewRecordType ==
    /\ NoRecord \in JobRecord
    /\ NewRecord \in JobRecord
    /\ NewRecord.status = "QUEUED"
    /\ NewRecord.event = NoEvent
    /\ NewRecord.cancel = FALSE
    /\ NewRecord.published = FALSE
    /\ NewRecord.pubLeft = 0
    /\ NewRecord.pubOwner = NoPublisher
  <1>2. NoEvent \in Events
    BY DEF NoEvent, Events, Codes
  <1>3. 0 \in 0 .. TotalSteps /\ NoOwner \in Nat
    BY TimeAssumption DEF NoOwner
  <1>4. "QUEUED" \in Statuses /\ "ABSENT" \in Statuses
    BY DEF Statuses, ACTIVE_STATUSES
  <1>5. NoRecord \in JobRecord
    BY <1>2, <1>3, <1>4 DEF NoRecord, JobRecord
  <1>6. NewRecord = [NoRecord EXCEPT !.status = "QUEUED"]
    BY DEF NewRecord
  <1>7. /\ NoRecord.event = NoEvent /\ NoRecord.cancel = FALSE
        /\ NoRecord.published = FALSE /\ NoRecord.pubLeft = 0
        /\ NoRecord.pubOwner = NoPublisher
    BY DEF NoRecord
  <1>8. NewRecord \in JobRecord
    BY <1>4, <1>5, <1>6 DEF JobRecord
  <1>9. /\ NewRecord.status = "QUEUED"
        /\ NewRecord.event = NoRecord.event /\ NewRecord.cancel = NoRecord.cancel
        /\ NewRecord.published = NoRecord.published
        /\ NewRecord.pubLeft = NoRecord.pubLeft
        /\ NewRecord.pubOwner = NoRecord.pubOwner
    BY <1>5, <1>6 DEF JobRecord
  <1> QED
    BY <1>5, <1>7, <1>8, <1>9

\* The event that cancel, finish and return_unstarted store for a canceled job.
LEMMA CanceledType == Canceled \in FinalEvents /\ Canceled.status = "CANCELED"
  BY DEF Canceled, FinalEvents, TERMINAL_STATUSES, Codes

\* recover ends a record as FAILED.
LEMMA AbandonedType ==
    ASSUME NEW r \in JobRecord
    PROVE  /\ Abandoned(r) \in JobRecord
           /\ Abandoned(r).status = "FAILED"
           /\ Abandoned(r).event.status = "FAILED"
           /\ Abandoned(r).cancel = r.cancel
           /\ Abandoned(r).pubOwner = r.pubOwner
           /\ Abandoned(r).published = r.published
  <1> DEFINE e == [status |-> "FAILED",
                   code |-> IF r.timeLeft = 0 THEN "TIMEOUT" ELSE "WORKER_DEAD"]
  <1>1. e \in FinalEvents /\ e.status = "FAILED"
    BY DEF FinalEvents, TERMINAL_STATUSES, Codes
  <1>2. Abandoned(r) = Terminate(r, e)
    BY DEF Abandoned
  <1> QED
    BY <1>1, <1>2, TerminateType

\* Giving up slots, as change does, leaves a job or nothing in every slot.
LEMMA ReleasedType ==
    ASSUME TypeOK, NEW j \in Jobs, NEW keys
    PROVE  /\ DOMAIN Released(j, keys) = Kinds
           /\ \A k \in Kinds : Released(j, keys)[k] \in [slot_keys(k) -> Jobs \cup {NoJob}]
           /\ \A k \in Kinds : \A i \in slot_keys(k) :
                  Released(j, keys)[k][i] =
                      IF k = KindOf[j] /\ i \in keys /\ slot[k][i] = j
                      THEN NoJob ELSE slot[k][i]
  BY JobsAssumption DEF Released, TypeOK

-----------------------------------------------------------------------------
(* Types.                                                                  *)

\* Every operation that goes through change keeps the types.
LEMMA ChangeType ==
    ASSUME TypeOK, NEW j \in Jobs, NEW r \in JobRecord,
           NEW score \in Nat \cup {Absent}, NEW keys,
           ChangeIn(j, r, score, keys)
    PROVE  TypeOK'
  <1>1. rec' \in [Jobs -> JobRecord]
    BY DEF TypeOK, ChangeIn
  <1>2. queue' \in [Jobs -> Nat \cup {Absent}]
    BY DEF TypeOK, ChangeIn, QueueAfter, Absent
  <1>3. DOMAIN slot' = Kinds /\ \A k \in Kinds : slot'[k] \in [slot_keys(k) -> Jobs \cup {NoJob}]
    BY ReleasedType DEF TypeOK, ChangeIn, SlotAfter
  <1>4. RunningAfter(r) \in Nat \cup {Absent}
    BY DEF RunningAfter, Deadline, MinOf, JobRecord
  <1>5. running' \in [Jobs -> Nat \cup {Absent}]
    BY <1>4 DEF TypeOK, ChangeIn
  <1>6. PendingAfter(j, r) \in Nat \cup {Absent}
    BY DEF PendingAfter, JobRecord, TypeOK
  <1>7. pending' \in [Jobs -> Nat \cup {Absent}]
    BY <1>6 DEF TypeOK, ChangeIn
  <1>8. counted' \in [Jobs -> Nat]
    BY DEF TypeOK, ChangeIn, CountedAfter
  <1> QED
    BY <1>1, <1>2, <1>3, <1>5, <1>7, <1>8 DEF TypeOK, ChangeIn, registry

\* claim takes the smallest free slot key, and there is one.
LEMMA FirstFreeType ==
    ASSUME TypeOK, NEW k \in Kinds, HasRoom(k)
    PROVE  FirstFree(k) \in slot_keys(k) /\ slot[k][FirstFree(k)] = NoJob
  <1> DEFINE free == slot_keys(k) \ Occupied(k)
  <1>1. IsFiniteSet(slot_keys(k)) /\ Cardinality(slot_keys(k)) >= Limit(k)
    <2>1. CASE k = "story"
      <3>1. slot_keys(k) = 0 .. MAX_STORY_CONCURRENCY - 1
        BY <2>1 DEF slot_keys
      <3>2. /\ IsFiniteSet(slot_keys(k))
            /\ Cardinality(slot_keys(k)) = MAX_STORY_CONCURRENCY
        BY <3>1, FS_Interval, LimitAssumption
      <3> QED
        BY <2>1, <3>2, LimitAssumption DEF Limit
    <2>2. CASE k = "process"
      <3>1. slot_keys(k) = {0} /\ Limit(k) = 1
        BY <2>2 DEF slot_keys, Limit
      <3>2. IsFiniteSet({0}) /\ Cardinality({0}) = 1
        BY FS_Singleton
      <3> QED
        BY <3>1, <3>2
    <2> QED
      BY <2>1, <2>2 DEF Kinds
  <1>2. Occupied(k) \subseteq slot_keys(k)
    BY DEF Occupied
  <1>3. free # {}
    <2>1. ASSUME free = {} PROVE Occupied(k) = slot_keys(k)
      BY <1>2, <2>1
    <2>2. Limit(k) \in Nat /\ Cardinality(slot_keys(k)) \in Nat
      BY <1>1, FS_CardinalityType, LimitAssumption DEF Limit
    <2> QED
      BY <1>1, <2>1, <2>2 DEF HasRoom
  <1>4. \E i \in free : \A n \in free : i <= n
    <2>1. slot_keys(k) \subseteq Nat
      BY LimitAssumption DEF slot_keys
    <2>2. free \in SUBSET Nat
      BY <2>1
    <2> QED
      BY <1>3, <2>2, SmallestOfNat
  <1>5. FirstFree(k) \in free
    BY <1>4 DEF FirstFree
  <1> QED
    BY <1>5 DEF Occupied

\* claim keeps the types.
LEMMA ClaimType ==
    ASSUME TypeOK, NEW k \in Kinds, NEW j \in Jobs, Claim(k, j)
    PROVE  TypeOK'
  <1>0. rec[j] \in JobRecord
    BY DEF TypeOK
  <1>1. /\ "PROCESSING" \in Statuses /\ claims[j] + 1 \in Nat
        /\ JOBS_LEASE_SEC \in Nat /\ JOBS_TIMEOUT_SEC[k] \in Nat
    BY TimeAssumption DEF TypeOK, Statuses, ACTIVE_STATUSES
  <1>2. [rec[j] EXCEPT !.status = "PROCESSING", !.owner = claims[j] + 1,
                       !.leaseLeft = JOBS_LEASE_SEC,
                       !.timeLeft = JOBS_TIMEOUT_SEC[k]] \in JobRecord
    BY <1>0, <1>1 DEF JobRecord
  <1>3. rec' = [rec EXCEPT ![j] =
                  [rec[j] EXCEPT !.status = "PROCESSING", !.owner = claims[j] + 1,
                                 !.leaseLeft = JOBS_LEASE_SEC,
                                 !.timeLeft = JOBS_TIMEOUT_SEC[k]]]
    BY DEF Claim, TypeOK
  <1>4. rec' \in [Jobs -> JobRecord]
    BY <1>2, <1>3 DEF TypeOK
  <1>5. FirstFree(k) \in slot_keys(k)
    BY FirstFreeType DEF Claim
  <1>6. /\ DOMAIN slot' = Kinds
        /\ \A n \in Kinds : slot'[n] \in [slot_keys(n) -> Jobs \cup {NoJob}]
    BY <1>5 DEF Claim, TypeOK
  <1>7. MinOf(JOBS_LEASE_SEC, JOBS_TIMEOUT_SEC[k]) \in Nat
    BY TimeAssumption DEF MinOf
  <1>8. running' \in [Jobs -> Nat \cup {Absent}]
    BY <1>7 DEF Claim, TypeOK
  <1>9. /\ claims' \in [Jobs -> Nat]
        /\ claimScore' \in [Jobs -> Nat \cup {Absent}]
        /\ queue' \in [Jobs -> Nat \cup {Absent}]
    BY DEF Claim, TypeOK, Absent
  <1> QED
    BY <1>4, <1>6, <1>8, <1>9 DEF TypeOK, Claim, registry

\* Time keeps the types.
LEMMA TickType ==
    ASSUME TypeOK, Tick
    PROVE  TypeOK'
  <1>1. \A n \in Nat : Closer(n) \in Nat
    BY DEF Closer
  <1>2. \A n \in Nat \cup {Absent} : Closer(n) \in Nat \cup {Absent}
    BY DEF Closer, Absent
  <1>3. ASSUME NEW r \in JobRecord
        PROVE  [r EXCEPT !.leaseLeft = Closer(@), !.timeLeft = Closer(@),
                         !.pubLeft = Closer(@)] \in JobRecord
    BY <1>1, <1>3 DEF JobRecord
  <1>4. rec' \in [Jobs -> JobRecord]
    BY <1>3 DEF Tick, TypeOK
  <1>5. /\ running' \in [Jobs -> Nat \cup {Absent}]
        /\ pending' \in [Jobs -> Nat \cup {Absent}]
    BY <1>2 DEF Tick, TypeOK
  <1> QED
    BY <1>4, <1>5 DEF TypeOK, Tick, registry

\* The keys of an empty Redis have their types.
LEMMA InitType == Init => TypeOK
  BY NewRecordType, JobsAssumption DEF Init, TypeOK, Absent

\* Every step keeps the types.
LEMMA NextType == TypeOK /\ [Next]_vars => TypeOK'
  <1> SUFFICES ASSUME TypeOK, [Next]_vars PROVE TypeOK'
    OBVIOUS
  <1>1. ASSUME NEW j \in Jobs, RegisterBusy(j) PROVE TypeOK'
    BY <1>1 DEF TypeOK, RegisterBusy, indexes
  <1>2. ASSUME NEW j \in Jobs, NEW valid \in BOOLEAN, RegisterAccepted(j, valid)
        PROVE  TypeOK'
    <2> DEFINE e == [status |-> "FAILED", code |-> "INVALID_REQUEST"]
    <2>1. e \in FinalEvents
      BY DEF FinalEvents, TERMINAL_STATUSES, Codes
    <2>2. Terminate(NewRecord, e) \in JobRecord
      BY <2>1, NewRecordType, TerminateType
    <2>3. rec' \in [Jobs -> JobRecord]
      BY <1>2, <2>2, NewRecordType DEF RegisterAccepted, TypeOK
    <2>4. Line(j) \in Trips \X Kinds
      BY JobsAssumption DEF Line
    <2>5. latest' \in [Trips \X Kinds -> Jobs \cup {NoJob}]
      BY <1>2, <2>4 DEF RegisterAccepted, TypeOK
    <2>6. /\ queue' \in [Jobs -> Nat \cup {Absent}]
          /\ pending' \in [Jobs -> Nat \cup {Absent}]
          /\ counted' \in [Jobs -> Nat]
          /\ order' \in [Jobs -> Nat]
          /\ sequence' \in Nat
      BY <1>2 DEF RegisterAccepted, TypeOK
    <2> QED
      BY <1>2, <2>3, <2>5, <2>6 DEF RegisterAccepted, TypeOK
  <1>3. ASSUME NEW k \in Kinds, ClearStaleSlots(k) PROVE TypeOK'
    BY <1>3 DEF TypeOK, ClearStaleSlots, registry
  <1>4. ASSUME NEW k \in Kinds, NEW j \in Jobs, Claim(k, j) PROVE TypeOK'
    BY <1>4, ClaimType
  <1>5. ASSUME NEW j \in Jobs, NEW o \in 1 .. claims[j], ReturnUnstarted(j, o)
        PROVE  TypeOK'
    <2> DEFINE back == [rec[j] EXCEPT !.status = "QUEUED", !.owner = NoOwner,
                                      !.leaseLeft = 0, !.timeLeft = 0]
    <2>1. rec[j] \in JobRecord /\ claimScore[j] \in Nat \cup {Absent}
      BY DEF TypeOK
    <2>2. back \in JobRecord
      BY <2>1 DEF JobRecord, Statuses, ACTIVE_STATUSES, NoOwner
    <2>3. Terminate(rec[j], Canceled) \in JobRecord
      BY <2>1, CanceledType, TerminateType
    <2> QED
      BY <1>5, <2>1, <2>2, <2>3, ChangeType DEF ReturnUnstarted, Change
  <1>6. ASSUME NEW j \in Jobs, NEW o \in 1 .. claims[j], Heartbeat(j, o)
        PROVE  TypeOK'
    <2>1. rec[j] \in JobRecord
      BY DEF TypeOK
    <2>2. [rec[j] EXCEPT !.leaseLeft = JOBS_LEASE_SEC] \in JobRecord
      BY <2>1, TimeAssumption DEF JobRecord
    <2> QED
      BY <1>6, <2>2, ChangeType DEF Heartbeat, Change, Absent
  <1>7. ASSUME NEW j \in Jobs, NEW o \in 1 .. claims[j], NEW d \in 0 .. TotalSteps + 1,
               Report(j, o, d)
        PROVE  TypeOK'
    <2>1. rec[j] \in JobRecord
      BY DEF TypeOK
    <2>2. [rec[j] EXCEPT !.done = d] \in JobRecord
      BY <1>7, <2>1 DEF JobRecord, Report
    <2> QED
      BY <1>7, <2>2, ChangeType DEF Report, Change, Absent
  <1>8. ASSUME NEW j \in Jobs, NEW o \in 1 .. claims[j], NEW out \in Outcomes,
               Finish(j, o, out)
        PROVE  TypeOK'
    <2>1. rec[j] \in JobRecord
      BY DEF TypeOK
    <2>2. (IF rec[j].cancel THEN Canceled ELSE EnforceSizeLimit(out)) \in FinalEvents
      BY CanceledType, SizeLimitType
    <2> QED
      BY <1>8, <2>1, <2>2, TerminateType, ChangeType DEF Finish, Change, Absent
  <1>9. ASSUME NEW j \in Jobs, Cancel(j) PROVE TypeOK'
    <2> DEFINE asked == [rec[j] EXCEPT !.cancel = TRUE]
    <2>1. rec[j] \in JobRecord
      BY DEF TypeOK
    <2>2. asked \in JobRecord
      BY <2>1 DEF JobRecord
    <2>3. Terminate(asked, Canceled) \in JobRecord
      BY <2>2, CanceledType, TerminateType
    <2> QED
      BY <1>9, <2>2, <2>3, ChangeType DEF Cancel, Change, Absent
  <1>10. ASSUME NEW j \in Jobs, Recover(j) PROVE TypeOK'
    BY <1>10, AbandonedType, ChangeType DEF Recover, Change, Absent, TypeOK
  <1>11. ASSUME NEW j \in Jobs, LegacyRecover(j) PROVE TypeOK'
    BY <1>11, AbandonedType, ChangeType DEF LegacyRecover, Absent, TypeOK
  <1>12. ASSUME NEW j \in Jobs, NEW p \in Publishers, ClaimResult(j, p)
         PROVE  TypeOK'
    <2>1. rec[j] \in JobRecord
      BY DEF TypeOK
    <2>2. [rec[j] EXCEPT !.pubOwner = p, !.pubLeft = JOBS_PUBLISH_LEASE_SEC]
            \in JobRecord
      BY <2>1, TimeAssumption DEF JobRecord
    <2> QED
      BY <1>12, <2>2, ChangeType DEF ClaimResult, Change, Absent
  <1>13. ASSUME NEW j \in Jobs, NEW p \in Publishers, AcknowledgeResult(j, p)
         PROVE  TypeOK'
    <2>1. rec[j] \in JobRecord
      BY DEF TypeOK
    <2>2. [rec[j] EXCEPT !.published = TRUE] \in JobRecord
      BY <2>1 DEF JobRecord
    <2>3. rec' \in [Jobs -> JobRecord]
      BY <1>13, <2>2 DEF AcknowledgeResult, TypeOK
    <2>4. pending' \in [Jobs -> Nat \cup {Absent}]
      BY <1>13 DEF AcknowledgeResult, TypeOK
    <2> QED
      BY <1>13, <2>3, <2>4 DEF TypeOK, AcknowledgeResult, registry
  <1>14. ASSUME Tick PROVE TypeOK'
    BY <1>14, TickType
  <1>15. CASE UNCHANGED vars
    BY <1>15 DEF TypeOK, vars
  <1> QED
    BY <1>1, <1>2, <1>3, <1>4, <1>5, <1>6, <1>7, <1>8, <1>9, <1>10, <1>11,
       <1>12, <1>13, <1>14, <1>15 DEF Next

\* Whatever sequence of calls reaches the Redis store, from live, late or dead
\* callers, its keys keep their types.
THEOREM TypeCorrect == Spec => []TypeOK
  <1>1. Init => TypeOK
    BY InitType
  <1>2. TypeOK /\ [Next]_vars => TypeOK'
    BY NextType
  <1> QED
    BY <1>1, <1>2, PTL DEF Spec

-----------------------------------------------------------------------------
(* The inductive invariant.                                                *)

\* A record has an event exactly when it has ended, with the same status.
EventMatchesStatus ==
    \A j \in Jobs : IF IsTerminal(rec[j])
                    THEN rec[j].event.status = rec[j].status
                    ELSE rec[j].event = NoEvent

\* A job in execution remembers the place from which it was claimed.
ClaimKeepsPlace ==
    \A j \in Jobs : rec[j].status = "PROCESSING" => claimScore[j] = order[j]

\* Only results of ended jobs are claimed or acknowledged by a publisher.
OnlyEndedArePublished ==
    \A j \in Jobs : rec[j].pubOwner # NoPublisher \/ rec[j].published
                    => IsTerminal(rec[j])

StoreInv ==
    /\ TypeOK
    /\ EventMatchesStatus
    /\ OnlyEndedArePublished
    /\ CancelNeverCompletes
    /\ ClaimKeepsPlace
    /\ QueueMatchesStatus
    /\ RunningIsIndexed
    /\ ResultsArePending
    /\ CountedOnce
    /\ OneActivePerLine
    /\ IgnoredStaysOut

(***************************************************************************)
(* Nine operations change one record through change.  Whatever they do, it *)
(* is a legal update: an ended record keeps its outcome, a job enters      *)
(* PROCESSING only by a claim and the queue only at the place it came      *)
(* from, and only an ended record may keep a slot.                         *)
(***************************************************************************)
LegalUpdate(j, r, score, keys) ==
    /\ rec[j].status # "ABSENT"
    /\ r.status # "ABSENT"
    /\ IsTerminal(rec[j]) => /\ r.status = rec[j].status
                             /\ r.event = rec[j].event
                             /\ r.published = rec[j].published
    /\ r.status = "QUEUED" => /\ rec[j].status = "PROCESSING"
                              /\ score = claimScore[j]
    /\ r.status = "PROCESSING" => rec[j].status = "PROCESSING"
    /\ IF IsTerminal(r) THEN r.event.status = r.status ELSE r.event = NoEvent
    /\ r.cancel => r.status # "COMPLETED"
    /\ r.pubOwner # NoPublisher \/ r.published => IsTerminal(r)
    /\ ~IsTerminal(r) => keys = slot_keys(KindOf[j])

UpdateStep(j, r, score, keys) ==
    /\ j \in Jobs
    /\ r \in JobRecord
    /\ score \in Nat \cup {Absent}
    /\ LegalUpdate(j, r, score, keys)
    /\ ChangeIn(j, r, score, keys)

\* Ending an active job is a legal update.
LEMMA TerminateIsLegal ==
    ASSUME TypeOK, OnlyEndedArePublished,
           NEW j \in Jobs, rec[j].status \in ACTIVE_STATUSES,
           NEW r \in JobRecord, r.status = rec[j].status,
           r.pubOwner = rec[j].pubOwner, r.published = rec[j].published,
           NEW e \in FinalEvents, r.cancel => e.status # "COMPLETED",
           NEW score, NEW keys
    PROVE  LegalUpdate(j, Terminate(r, e), score, keys)
  <1>1. e.status \in TERMINAL_STATUSES
    BY DEF FinalEvents
  <1> QED
    BY <1>1, TerminateType
       DEF LegalUpdate, IsTerminal, TERMINAL_STATUSES, ACTIVE_STATUSES

\* Every step is a registration, a claim, a clearing of slots, a legal
\* update, an acknowledgement or a tick.
LEMMA StepCases ==
    ASSUME StoreInv, [Next]_vars
    PROVE  \/ \E j \in Jobs : RegisterBusy(j)
           \/ \E j \in Jobs, valid \in BOOLEAN : RegisterAccepted(j, valid)
           \/ \E k \in Kinds : ClearStaleSlots(k)
           \/ \E k \in Kinds, j \in Jobs : Claim(k, j)
           \/ \E j, r, score, keys : UpdateStep(j, r, score, keys)
           \/ \E j \in Jobs, p \in Publishers : AcknowledgeResult(j, p)
           \/ Tick
           \/ UNCHANGED vars
  <1> DEFINE Updates == \E j, r, score, keys : UpdateStep(j, r, score, keys)
  <1> USE DEF StoreInv
  <1>0. \A j \in Jobs : rec[j] \in JobRecord
    BY DEF TypeOK
  <1>1. ASSUME NEW j \in Jobs, NEW o \in 1 .. claims[j], ReturnUnstarted(j, o)
        PROVE  Updates
    <2> DEFINE back == [rec[j] EXCEPT !.status = "QUEUED", !.owner = NoOwner,
                                      !.leaseLeft = 0, !.timeLeft = 0]
    <2>1. rec[j] \in JobRecord /\ claimScore[j] \in Nat \cup {Absent}
      BY DEF TypeOK
    <2>2. rec[j].status = "PROCESSING"
      BY <1>1 DEF ReturnUnstarted, Owns
    <2>3. CASE rec[j].cancel
      <3>1. Terminate(rec[j], Canceled) \in JobRecord
        BY <2>1, CanceledType, TerminateType
      <3>2. LegalUpdate(j, Terminate(rec[j], Canceled), claimScore[j],
                        slot_keys(KindOf[j]))
        BY <2>1, <2>2, CanceledType, TerminateIsLegal DEF ACTIVE_STATUSES
      <3> QED
        BY <1>1, <2>1, <2>3, <3>1, <3>2 DEF ReturnUnstarted, Change, UpdateStep
    <2>4. CASE ~rec[j].cancel
      <3>1. /\ back \in JobRecord /\ back.status = "QUEUED"
            /\ back.event = rec[j].event /\ back.pubOwner = rec[j].pubOwner
            /\ back.published = rec[j].published /\ back.cancel = rec[j].cancel
        BY <2>1 DEF JobRecord, Statuses, ACTIVE_STATUSES, NoOwner
      <3>2. LegalUpdate(j, back, claimScore[j], slot_keys(KindOf[j]))
        BY <2>2, <3>1 DEF LegalUpdate, EventMatchesStatus, OnlyEndedArePublished,
                          IsTerminal, TERMINAL_STATUSES
      <3> QED
        BY <1>1, <2>1, <2>4, <3>1, <3>2 DEF ReturnUnstarted, Change, UpdateStep
    <2> QED
      BY <2>3, <2>4
  <1>2. ASSUME NEW j \in Jobs, NEW o \in 1 .. claims[j], Heartbeat(j, o)
        PROVE  Updates
    <2> DEFINE r == [rec[j] EXCEPT !.leaseLeft = JOBS_LEASE_SEC]
    <2>1. /\ r \in JobRecord /\ r.status = rec[j].status
          /\ r.event = rec[j].event /\ r.pubOwner = rec[j].pubOwner
          /\ r.published = rec[j].published /\ r.cancel = rec[j].cancel
      BY <1>0, TimeAssumption DEF JobRecord
    <2>2. LegalUpdate(j, r, Absent, slot_keys(KindOf[j]))
      BY <1>2, <2>1 DEF Heartbeat, Owns, LegalUpdate, EventMatchesStatus,
                        OnlyEndedArePublished, IsTerminal, TERMINAL_STATUSES
    <2> QED
      BY <1>2, <2>1, <2>2 DEF Heartbeat, Change, UpdateStep
  <1>3. ASSUME NEW j \in Jobs, NEW o \in 1 .. claims[j], NEW d \in 0 .. TotalSteps + 1,
               Report(j, o, d)
        PROVE  Updates
    <2> DEFINE r == [rec[j] EXCEPT !.done = d]
    <2>1. /\ r \in JobRecord /\ r.status = rec[j].status
          /\ r.event = rec[j].event /\ r.pubOwner = rec[j].pubOwner
          /\ r.published = rec[j].published /\ r.cancel = rec[j].cancel
      BY <1>0, <1>3 DEF JobRecord, Report
    <2>2. LegalUpdate(j, r, Absent, slot_keys(KindOf[j]))
      BY <1>3, <2>1 DEF Report, Owns, LegalUpdate, EventMatchesStatus,
                        OnlyEndedArePublished, IsTerminal, TERMINAL_STATUSES
    <2> QED
      BY <1>3, <2>1, <2>2 DEF Report, Change, UpdateStep
  <1>4. ASSUME NEW j \in Jobs, NEW o \in 1 .. claims[j], NEW out \in Outcomes,
               Finish(j, o, out)
        PROVE  Updates
    <2> DEFINE e == IF rec[j].cancel THEN Canceled ELSE EnforceSizeLimit(out)
    <2>1. e \in FinalEvents /\ (rec[j].cancel => e.status # "COMPLETED")
      BY CanceledType, SizeLimitType
    <2>2. rec[j].status = "PROCESSING"
      BY <1>4 DEF Finish, Owns
    <2>3. Terminate(rec[j], e) \in JobRecord
      BY <1>0, <2>1, TerminateType
    <2>4. LegalUpdate(j, Terminate(rec[j], e), Absent, slot_keys(KindOf[j]))
      BY <1>0, <2>1, <2>2, TerminateIsLegal DEF ACTIVE_STATUSES
    <2> QED
      BY <1>4, <2>3, <2>4 DEF Finish, Change, UpdateStep
  <1>5. ASSUME NEW j \in Jobs, Cancel(j) PROVE Updates
    <2> DEFINE asked == [rec[j] EXCEPT !.cancel = TRUE]
    <2>1. /\ asked \in JobRecord /\ asked.status = rec[j].status
          /\ asked.event = rec[j].event /\ asked.pubOwner = rec[j].pubOwner
          /\ asked.published = rec[j].published
      BY <1>0 DEF JobRecord
    <2>2. rec[j].status \in ACTIVE_STATUSES
      BY <1>5 DEF Cancel
    <2>3. Terminate(asked, Canceled) \in JobRecord
      BY <2>1, CanceledType, TerminateType
    <2>4. LegalUpdate(j, Terminate(asked, Canceled), Absent, slot_keys(KindOf[j]))
      BY <2>1, <2>2, CanceledType, TerminateIsLegal
    <2>5. CASE rec[j].status = "QUEUED"
      BY <1>5, <2>1, <2>3, <2>4, <2>5 DEF Cancel, Change, UpdateStep
    <2>6. CASE rec[j].status = "PROCESSING"
      <3>1. LegalUpdate(j, asked, Absent, slot_keys(KindOf[j]))
        BY <2>1, <2>6 DEF LegalUpdate, EventMatchesStatus,
                          OnlyEndedArePublished, IsTerminal, TERMINAL_STATUSES
      <3> QED
        BY <1>5, <2>1, <2>6, <3>1 DEF Cancel, Change, UpdateStep
    <2> QED
      BY <2>2, <2>5, <2>6 DEF ACTIVE_STATUSES
  <1>6. ASSUME NEW j \in Jobs, NEW keys, rec[j].status = "PROCESSING",
               ChangeIn(j, Abandoned(rec[j]), Absent, keys)
        PROVE  Updates
    <2> DEFINE e == [status |-> "FAILED",
                     code |-> IF rec[j].timeLeft = 0 THEN "TIMEOUT" ELSE "WORKER_DEAD"]
    <2>1. e \in FinalEvents /\ e.status = "FAILED"
      BY DEF FinalEvents, TERMINAL_STATUSES, Codes
    <2>2. Abandoned(rec[j]) = Terminate(rec[j], e)
      BY DEF Abandoned
    <2> HIDE DEF e
    <2>3. LegalUpdate(j, Terminate(rec[j], e), Absent, keys)
      BY <1>0, <1>6, <2>1, TerminateIsLegal DEF ACTIVE_STATUSES
    <2>4. Abandoned(rec[j]) \in JobRecord
      BY <1>0, AbandonedType
    <2> QED
      BY <1>6, <2>2, <2>3, <2>4 DEF UpdateStep
  <1>7. ASSUME NEW j \in Jobs, Recover(j) PROVE Updates
    BY <1>6, <1>7 DEF Recover, Change
  <1>8. ASSUME NEW j \in Jobs, LegacyRecover(j) PROVE Updates
    BY <1>6, <1>8 DEF LegacyRecover
  <1>9. ASSUME NEW j \in Jobs, NEW p \in Publishers, ClaimResult(j, p)
        PROVE  Updates
    <2> DEFINE r == [rec[j] EXCEPT !.pubOwner = p, !.pubLeft = JOBS_PUBLISH_LEASE_SEC]
    <2>1. /\ r \in JobRecord /\ r.status = rec[j].status
          /\ r.event = rec[j].event
          /\ r.published = rec[j].published /\ r.cancel = rec[j].cancel
      BY <1>0, TimeAssumption DEF JobRecord
    <2>2. rec[j].event # NoEvent
      BY <1>9 DEF ClaimResult
    <2>3. IsTerminal(rec[j])
      BY <2>2 DEF EventMatchesStatus
    <2>4. LegalUpdate(j, r, Absent, slot_keys(KindOf[j]))
      BY <2>1, <2>3 DEF LegalUpdate, EventMatchesStatus, CancelNeverCompletes,
                        IsTerminal, TERMINAL_STATUSES
    <2> QED
      BY <1>9, <2>1, <2>4 DEF ClaimResult, Change, UpdateStep
  <1> QED
    BY <1>1, <1>2, <1>3, <1>4, <1>5, <1>7, <1>8, <1>9 DEF Next

\* A legal update keeps the invariant.
LEMMA UpdateKeepsInv ==
    ASSUME StoreInv, NEW j, NEW r, NEW score, NEW keys,
           UpdateStep(j, r, score, keys)
    PROVE  StoreInv'
  <1> USE DEF StoreInv
  <1>0. /\ j \in Jobs /\ r \in JobRecord /\ score \in Nat \cup {Absent}
        /\ LegalUpdate(j, r, score, keys)
        /\ ChangeIn(j, r, score, keys)
    BY DEF UpdateStep
  <1>1. TypeOK'
    BY <1>0, ChangeType
  <1>2. /\ rec'[j] = r
        /\ \A n \in Jobs \ {j} : rec'[n] = rec[n]
    BY <1>0 DEF ChangeIn, TypeOK
  <1>3. /\ order' = order /\ latest' = latest /\ ignored' = ignored
        /\ claimScore' = claimScore
    BY <1>0 DEF ChangeIn, registry
  <1>4. EventMatchesStatus'
    BY <1>0, <1>2 DEF EventMatchesStatus, LegalUpdate, IsTerminal
  <1>5. OnlyEndedArePublished'
    BY <1>0, <1>2 DEF OnlyEndedArePublished, LegalUpdate, IsTerminal
  <1>6. CancelNeverCompletes'
    BY <1>0, <1>2 DEF CancelNeverCompletes, LegalUpdate
  <1>7. ClaimKeepsPlace'
    BY <1>0, <1>2, <1>3 DEF ClaimKeepsPlace, LegalUpdate
  <1>8. QueueMatchesStatus'
    <2>1. /\ queue'[j] = QueueAfter(j, r, score)
          /\ \A n \in Jobs \ {j} : queue'[n] = queue[n]
      BY <1>0 DEF ChangeIn, TypeOK
    <2>2. IF r.status = "QUEUED" THEN QueueAfter(j, r, score) = order[j]
                                 ELSE QueueAfter(j, r, score) = Absent
      <3>1. r.status \in ACTIVE_STATUSES \cup TERMINAL_STATUSES
        BY <1>0 DEF LegalUpdate, JobRecord, Statuses
      <3> QED
        BY <1>0, <3>1 DEF QueueAfter, LegalUpdate, QueueMatchesStatus,
              ClaimKeepsPlace, IsTerminal, TERMINAL_STATUSES, ACTIVE_STATUSES
    <2> QED
      BY <1>2, <1>3, <2>1, <2>2 DEF QueueMatchesStatus
  <1>9. RunningIsIndexed'
    <2>1. /\ running'[j] = RunningAfter(r)
          /\ \A n \in Jobs \ {j} : running'[n] = running[n]
      BY <1>0 DEF ChangeIn, TypeOK
    <2> QED
      BY <1>2, <2>1 DEF RunningIsIndexed, RunningAfter, Deadline
  <1>10. ResultsArePending'
    <2>1. /\ pending'[j] = PendingAfter(j, r)
          /\ \A n \in Jobs \ {j} : pending'[n] = pending[n]
      BY <1>0 DEF ChangeIn, TypeOK
    <2>2. PendingAfter(j, r) = IF IsTerminal(r) /\ ~r.published THEN r.pubLeft
                                                                ELSE Absent
      BY <1>0 DEF PendingAfter, ResultsArePending, LegalUpdate,
                  OnlyEndedArePublished, IsTerminal
    <2> QED
      BY <1>2, <2>1, <2>2 DEF ResultsArePending, IsTerminal
  <1>11. CountedOnce'
    <2>1. /\ counted'[j] = CountedAfter(j, r)
          /\ \A n \in Jobs \ {j} : counted'[n] = counted[n]
      BY <1>0 DEF ChangeIn, TypeOK
    <2>2. CountedAfter(j, r) = IF IsTerminal(r) THEN 1 ELSE 0
      BY <1>0 DEF CountedAfter, CountedOnce, LegalUpdate, IsTerminal
    <2> QED
      BY <1>2, <2>1, <2>2 DEF CountedOnce, IsTerminal
  <1>12. OneActivePerLine'
    <2>1. r.status \in ACTIVE_STATUSES => rec[j].status \in ACTIVE_STATUSES
      BY <1>0 DEF LegalUpdate, ACTIVE_STATUSES
    <2> QED
      BY <1>0, <1>2, <1>3, <2>1 DEF OneActivePerLine, Line
  <1>13. IgnoredStaysOut'
    BY <1>0, <1>2, <1>3 DEF IgnoredStaysOut, LegalUpdate, TypeOK
  <1> QED
    BY <1>1, <1>4, <1>5, <1>6, <1>7, <1>8, <1>9, <1>10, <1>11, <1>12, <1>13

\* A claim keeps the invariant.
LEMMA ClaimKeepsInv ==
    ASSUME StoreInv, NEW k \in Kinds, NEW j \in Jobs, Claim(k, j)
    PROVE  StoreInv'
  <1> USE DEF StoreInv
  <1> DEFINE r == [rec[j] EXCEPT !.status = "PROCESSING", !.owner = claims[j] + 1,
                                 !.leaseLeft = JOBS_LEASE_SEC,
                                 !.timeLeft = JOBS_TIMEOUT_SEC[k]]
  <1>1. TypeOK'
    BY ClaimType
  <1>2. rec[j] \in JobRecord /\ rec[j].status = "QUEUED"
    BY DEF TypeOK, Claim
  <1>3. /\ r.status = "PROCESSING" /\ r.event = rec[j].event
        /\ r.pubOwner = rec[j].pubOwner /\ r.published = rec[j].published
        /\ r.cancel = rec[j].cancel /\ r.leaseLeft = JOBS_LEASE_SEC
        /\ r.timeLeft = JOBS_TIMEOUT_SEC[k]
    BY <1>2 DEF JobRecord
  <1>4. rec' = [rec EXCEPT ![j] = r]
    BY DEF Claim, TypeOK
  <1> HIDE DEF r
  <1>5. /\ rec'[j] = r
        /\ \A n \in Jobs \ {j} : rec'[n] = rec[n]
    BY <1>4 DEF TypeOK
  <1>6. /\ order' = order /\ latest' = latest /\ ignored' = ignored
        /\ pending' = pending /\ counted' = counted
    BY DEF Claim, registry
  <1>7. /\ queue'[j] = Absent /\ claimScore'[j] = queue[j]
        /\ running'[j] = MinOf(JOBS_LEASE_SEC, JOBS_TIMEOUT_SEC[k])
        /\ \A n \in Jobs \ {j} : /\ queue'[n] = queue[n]
                                 /\ claimScore'[n] = claimScore[n]
                                 /\ running'[n] = running[n]
    BY DEF Claim, TypeOK
  <1> USE <1>2, <1>3, <1>5, <1>6, <1>7
  <1>8. EventMatchesStatus'
    BY DEF EventMatchesStatus, IsTerminal, TERMINAL_STATUSES
  <1>9. OnlyEndedArePublished'
    BY DEF OnlyEndedArePublished, IsTerminal, TERMINAL_STATUSES
  <1>10. CancelNeverCompletes'
    BY DEF CancelNeverCompletes
  <1>11. ClaimKeepsPlace'
    BY DEF ClaimKeepsPlace, QueueMatchesStatus
  <1>12. QueueMatchesStatus'
    BY DEF QueueMatchesStatus
  <1>13. RunningIsIndexed'
    BY DEF RunningIsIndexed
  <1>14. ResultsArePending'
    BY DEF ResultsArePending, IsTerminal, TERMINAL_STATUSES
  <1>15. CountedOnce'
    BY DEF CountedOnce, IsTerminal, TERMINAL_STATUSES
  <1>16. OneActivePerLine'
    BY DEF OneActivePerLine, ACTIVE_STATUSES, Line
  <1>17. IgnoredStaysOut'
    BY DEF IgnoredStaysOut, TypeOK
  <1> QED
    BY <1>1, <1>8, <1>9, <1>10, <1>11, <1>12, <1>13, <1>14, <1>15, <1>16, <1>17

\* A registration keeps the invariant.
LEMMA RegisterKeepsInv ==
    ASSUME StoreInv, TypeOK', NEW j \in Jobs, NEW valid \in BOOLEAN,
           RegisterAccepted(j, valid)
    PROVE  StoreInv'
  <1> USE DEF StoreInv
  <1> DEFINE e == [status |-> "FAILED", code |-> "INVALID_REQUEST"]
  <1> DEFINE r == IF valid THEN NewRecord ELSE Terminate(NewRecord, e)
  <1>1. e \in FinalEvents /\ e.status = "FAILED"
    BY DEF FinalEvents, TERMINAL_STATUSES, Codes
  <1>2. /\ r.status = IF valid THEN "QUEUED" ELSE "FAILED"
        /\ r.event = IF valid THEN NoEvent ELSE e
        /\ r.cancel = FALSE /\ r.published = FALSE
        /\ r.pubOwner = NoPublisher /\ r.pubLeft = 0
    BY <1>1, NewRecordType, TerminateType
  <1>3. rec' = [rec EXCEPT ![j] = r]
    BY DEF RegisterAccepted
  <1> HIDE DEF r, e
  <1>4. /\ rec'[j] = r
        /\ \A n \in Jobs \ {j} : rec'[n] = rec[n]
    BY <1>3 DEF TypeOK
  <1>5. rec[j].status = "ABSENT" /\ j \notin ignored
    BY DEF RegisterAccepted, Unseen
  <1>6. queue[j] = Absent /\ pending[j] = Absent /\ counted[j] = 0 /\ running[j] = Absent
    BY <1>5 DEF QueueMatchesStatus, ResultsArePending, CountedOnce,
                RunningIsIndexed, IsTerminal, TERMINAL_STATUSES
  <1>7. /\ ignored' = ignored /\ running' = running /\ claimScore' = claimScore
        /\ order'[j] = sequence + 1
        /\ queue'[j] = IF valid THEN sequence + 1 ELSE Absent
        /\ pending'[j] = IF valid THEN Absent ELSE 0
        /\ counted'[j] = IF valid THEN 0 ELSE 1
        /\ \A n \in Jobs \ {j} : /\ order'[n] = order[n]
                                 /\ queue'[n] = queue[n]
                                 /\ pending'[n] = pending[n]
                                 /\ counted'[n] = counted[n]
    BY <1>6 DEF RegisterAccepted, TypeOK
  <1> USE <1>1, <1>2, <1>4, <1>5, <1>6, <1>7
  <1>8. EventMatchesStatus'
    BY DEF EventMatchesStatus, IsTerminal, TERMINAL_STATUSES
  <1>9. OnlyEndedArePublished'
    BY DEF OnlyEndedArePublished, IsTerminal, TERMINAL_STATUSES
  <1>10. CancelNeverCompletes'
    BY DEF CancelNeverCompletes
  <1>11. ClaimKeepsPlace'
    BY DEF ClaimKeepsPlace
  <1>12. QueueMatchesStatus'
    BY DEF QueueMatchesStatus
  <1>13. RunningIsIndexed'
    BY DEF RunningIsIndexed
  <1>14. ResultsArePending'
    BY DEF ResultsArePending, IsTerminal, TERMINAL_STATUSES
  <1>15. CountedOnce'
    BY DEF CountedOnce, IsTerminal, TERMINAL_STATUSES
  <1>16. OneActivePerLine'
    <2>1. Line(j) \in Trips \X Kinds
      BY JobsAssumption DEF Line
    <2>2. latest'[Line(j)] = j
      BY <2>1 DEF RegisterAccepted, TypeOK
    <2>3. ASSUME NEW n \in Jobs \ {j}, rec'[n].status \in ACTIVE_STATUSES
          PROVE  latest'[Line(n)] = n
      <3>1. latest[Line(n)] = n /\ ~IsTerminal(rec[n])
        BY <2>3 DEF OneActivePerLine, IsTerminal, TERMINAL_STATUSES, ACTIVE_STATUSES
      <3>2. Line(n) # Line(j)
        BY <3>1, JobsAssumption DEF RegisterAccepted, Busy
      <3>3. Line(n) \in Trips \X Kinds
        BY JobsAssumption DEF Line
      <3> QED
        BY <2>1, <3>1, <3>2, <3>3 DEF RegisterAccepted, TypeOK
    <2>4. Line(j)' = Line(j) /\ \A n \in Jobs : Line(n)' = Line(n)
      BY DEF Line
    <2> QED
      BY <2>2, <2>3, <2>4 DEF OneActivePerLine
  <1>17. IgnoredStaysOut'
    BY DEF IgnoredStaysOut, TypeOK
  <1> QED
    BY <1>8, <1>9, <1>10, <1>11, <1>12, <1>13, <1>14, <1>15, <1>16, <1>17

\* An acknowledgement keeps the invariant.
LEMMA AcknowledgeKeepsInv ==
    ASSUME StoreInv, TypeOK', NEW j \in Jobs, NEW p \in Publishers,
           AcknowledgeResult(j, p)
    PROVE  StoreInv'
  <1> USE DEF StoreInv
  <1> DEFINE r == [rec[j] EXCEPT !.published = TRUE]
  <1>1. rec[j] \in JobRecord
    BY DEF TypeOK
  <1>2. /\ r.status = rec[j].status /\ r.event = rec[j].event
        /\ r.cancel = rec[j].cancel /\ r.published = TRUE
        /\ r.leaseLeft = rec[j].leaseLeft /\ r.timeLeft = rec[j].timeLeft
    BY <1>1 DEF JobRecord
  <1>3. rec' = [rec EXCEPT ![j] = r]
    BY DEF AcknowledgeResult, TypeOK
  <1> HIDE DEF r
  <1>4. /\ rec'[j] = r
        /\ \A n \in Jobs \ {j} : rec'[n] = rec[n]
    BY <1>3 DEF TypeOK
  <1>5. IsTerminal(rec[j])
    BY JobsAssumption DEF AcknowledgeResult, OnlyEndedArePublished
  <1>6. /\ pending'[j] = Absent
        /\ \A n \in Jobs \ {j} : pending'[n] = pending[n]
    BY DEF AcknowledgeResult, TypeOK
  <1>7. /\ order' = order /\ latest' = latest /\ ignored' = ignored
        /\ queue' = queue /\ running' = running /\ counted' = counted
        /\ claimScore' = claimScore
    BY DEF AcknowledgeResult, registry
  <1> USE <1>2, <1>4, <1>5, <1>6, <1>7
  <1>8. EventMatchesStatus'
    BY DEF EventMatchesStatus, IsTerminal
  <1>9. OnlyEndedArePublished'
    BY DEF OnlyEndedArePublished, IsTerminal
  <1>10. CancelNeverCompletes'
    BY DEF CancelNeverCompletes
  <1>11. ClaimKeepsPlace' /\ QueueMatchesStatus'
    BY DEF ClaimKeepsPlace, QueueMatchesStatus
  <1>12. RunningIsIndexed'
    BY DEF RunningIsIndexed, MinOf
  <1>13. ResultsArePending'
    BY DEF ResultsArePending, IsTerminal
  <1>14. CountedOnce'
    BY DEF CountedOnce, IsTerminal
  <1>15. OneActivePerLine'
    BY DEF OneActivePerLine, Line
  <1>16. IgnoredStaysOut'
    BY DEF IgnoredStaysOut, TypeOK
  <1> QED
    BY <1>8, <1>9, <1>10, <1>11, <1>12, <1>13, <1>14, <1>15, <1>16

\* Time keeps the invariant: deadlines and records come closer together.
LEMMA TickKeepsInv ==
    ASSUME StoreInv, Tick
    PROVE  StoreInv'
  <1> USE DEF StoreInv
  <1>0. TypeOK'
    BY TickType
  <1>1. ASSUME NEW r \in JobRecord, NEW t,
               t = [r EXCEPT !.leaseLeft = Closer(@), !.timeLeft = Closer(@),
                             !.pubLeft = Closer(@)]
        PROVE  /\ t.status = r.status /\ t.event = r.event /\ t.cancel = r.cancel
               /\ t.published = r.published /\ t.pubOwner = r.pubOwner
               /\ t.leaseLeft = Closer(r.leaseLeft)
               /\ t.timeLeft = Closer(r.timeLeft)
               /\ t.pubLeft = Closer(r.pubLeft)
    BY <1>1 DEF JobRecord
  <1>2. ASSUME NEW j \in Jobs
        PROVE  /\ rec'[j].status = rec[j].status /\ rec'[j].event = rec[j].event
               /\ rec'[j].cancel = rec[j].cancel
               /\ rec'[j].published = rec[j].published
               /\ rec'[j].pubOwner = rec[j].pubOwner
               /\ rec'[j].leaseLeft = Closer(rec[j].leaseLeft)
               /\ rec'[j].timeLeft = Closer(rec[j].timeLeft)
               /\ rec'[j].pubLeft = Closer(rec[j].pubLeft)
    <2>1. rec[j] \in JobRecord
      BY DEF TypeOK
    <2>2. rec'[j] = [rec[j] EXCEPT !.leaseLeft = Closer(@), !.timeLeft = Closer(@),
                                   !.pubLeft = Closer(@)]
      BY DEF Tick
    <2> QED
      BY <1>1, <2>1, <2>2
  <1>3. /\ order' = order /\ latest' = latest /\ ignored' = ignored
        /\ queue' = queue /\ counted' = counted /\ claimScore' = claimScore
    BY DEF Tick, registry
  <1>4. EventMatchesStatus'
    BY <1>2 DEF EventMatchesStatus, IsTerminal
  <1>5. OnlyEndedArePublished'
    BY <1>2 DEF OnlyEndedArePublished, IsTerminal
  <1>6. CancelNeverCompletes'
    BY <1>2 DEF CancelNeverCompletes
  <1>7. ClaimKeepsPlace' /\ QueueMatchesStatus'
    BY <1>2, <1>3 DEF ClaimKeepsPlace, QueueMatchesStatus
  <1>8. RunningIsIndexed'
    <2>1. ASSUME NEW a \in Nat, NEW b \in Nat
          PROVE  MinOf(Closer(a), Closer(b)) = Closer(MinOf(a, b))
      BY DEF MinOf, Closer
    <2>2. Closer(Absent) = Absent
      BY DEF Closer, Absent
    <2>3. \A j \in Jobs : rec[j].leaseLeft \in Nat /\ rec[j].timeLeft \in Nat
      BY DEF TypeOK, JobRecord
    <2>4. \A j \in Jobs : running'[j] = Closer(running[j])
      BY DEF Tick
    <2> QED
      BY <1>2, <2>1, <2>2, <2>3, <2>4 DEF RunningIsIndexed
  <1>9. ResultsArePending'
    <2>1. Closer(Absent) = Absent
      BY DEF Closer, Absent
    <2>2. \A j \in Jobs : pending'[j] = Closer(pending[j])
      BY DEF Tick
    <2> QED
      BY <1>2, <2>1, <2>2 DEF ResultsArePending, IsTerminal
  <1>10. CountedOnce'
    BY <1>2, <1>3 DEF CountedOnce, IsTerminal
  <1>11. OneActivePerLine'
    BY <1>2, <1>3 DEF OneActivePerLine, Line
  <1>12. IgnoredStaysOut'
    BY <1>2, <1>3 DEF IgnoredStaysOut, TypeOK
  <1> QED
    BY <1>0, <1>4, <1>5, <1>6, <1>7, <1>8, <1>9, <1>10, <1>11, <1>12

\* Every step keeps the invariant.
LEMMA NextKeepsInv == StoreInv /\ [Next]_vars => StoreInv'
  <1> SUFFICES ASSUME StoreInv, [Next]_vars PROVE StoreInv'
    OBVIOUS
  <1>0. TypeOK'
    BY NextType DEF StoreInv
  <1>1. ASSUME NEW j \in Jobs, RegisterBusy(j) PROVE StoreInv'
    <2>1. /\ UNCHANGED <<rec, latest, order, queue, running, pending, counted, claimScore>>
          /\ ignored' = ignored \cup {j} /\ rec[j].status = "ABSENT"
      BY <1>1 DEF RegisterBusy, Unseen, indexes
    <2>2. IgnoredStaysOut'
      BY <2>1 DEF StoreInv, IgnoredStaysOut
    <2> QED
      BY <1>0, <2>1, <2>2
         DEF StoreInv, EventMatchesStatus, OnlyEndedArePublished, CancelNeverCompletes,
             ClaimKeepsPlace, QueueMatchesStatus, RunningIsIndexed,
             ResultsArePending, CountedOnce, OneActivePerLine, IsTerminal, Line
  <1>2. ASSUME NEW k \in Kinds, ClearStaleSlots(k) PROVE StoreInv'
    <2>1. UNCHANGED <<rec, latest, order, queue, running, pending, counted,
                      claimScore, ignored>>
      BY <1>2 DEF ClearStaleSlots, registry
    <2> QED
      BY <1>0, <2>1
         DEF StoreInv, EventMatchesStatus, OnlyEndedArePublished, CancelNeverCompletes,
             ClaimKeepsPlace, QueueMatchesStatus, RunningIsIndexed,
             ResultsArePending, CountedOnce, OneActivePerLine, IsTerminal, Line,
             IgnoredStaysOut
  <1>3. CASE UNCHANGED vars
    BY <1>0, <1>3
       DEF vars, StoreInv, EventMatchesStatus, OnlyEndedArePublished,
           CancelNeverCompletes, ClaimKeepsPlace, QueueMatchesStatus,
           RunningIsIndexed, ResultsArePending, CountedOnce,
           OneActivePerLine, IsTerminal, Line, IgnoredStaysOut
  <1> QED
    BY <1>0, <1>1, <1>2, <1>3, StepCases, RegisterKeepsInv, ClaimKeepsInv,
       UpdateKeepsInv, AcknowledgeKeepsInv, TickKeepsInv

\* The empty store satisfies the invariant.
LEMMA InitInv == Init => StoreInv
  <1> SUFFICES ASSUME Init PROVE StoreInv
    OBVIOUS
  <1>1. \A j \in Jobs : /\ rec[j].status = "ABSENT" /\ rec[j].event = NoEvent
                        /\ rec[j].cancel = FALSE /\ rec[j].published = FALSE
                        /\ rec[j].pubOwner = NoPublisher
    BY DEF Init, NoRecord
  <1>2. /\ ignored = {}
        /\ \A j \in Jobs : /\ queue[j] = Absent /\ running[j] = Absent
                           /\ pending[j] = Absent /\ counted[j] = 0
    BY DEF Init
  <1>3. TypeOK
    BY InitType
  <1> QED
    BY <1>1, <1>2, <1>3
       DEF StoreInv, EventMatchesStatus, OnlyEndedArePublished, CancelNeverCompletes,
           ClaimKeepsPlace, QueueMatchesStatus, RunningIsIndexed, ResultsArePending,
           CountedOnce, OneActivePerLine, IgnoredStaysOut, IsTerminal,
           TERMINAL_STATUSES, ACTIVE_STATUSES

\* Records, queue, "running", "pending", "latest", "ignored" and the metrics
\* agree in every reachable state of redis_store.py.
THEOREM StoreInvariant == Spec => []StoreInv
  <1>1. Init => StoreInv
    BY InitInv
  <1>2. StoreInv /\ [Next]_vars => StoreInv'
    BY NextKeepsInv
  <1> QED
    BY <1>1, <1>2, PTL DEF Spec

\* The queue and the running index agree with the records: no QUEUED job is
\* ever out of the queue, and recover never misses a job past its deadline.
THEOREM IndexesAgree == Spec => [](QueueMatchesStatus /\ RunningIsIndexed)
  <1>1. StoreInv => QueueMatchesStatus /\ RunningIsIndexed
    BY DEF StoreInv
  <1> QED
    BY <1>1, StoreInvariant, PTL

\* register lets no trip have two unfinished jobs of one kind, and status and
\* cancel requests, which go through "latest", find the unfinished one.
THEOREM OneActive == Spec => []OneActivePerLine
  <1>1. StoreInv => OneActivePerLine
    BY DEF StoreInv
  <1> QED
    BY <1>1, StoreInvariant, PTL

\* Every result waits to be published until it is, and is counted once.
THEOREM ResultsAreKept == Spec => [](ResultsArePending /\ CountedOnce)
  <1>1. StoreInv => ResultsArePending /\ CountedOnce
    BY DEF StoreInv
  <1> QED
    BY <1>1, StoreInvariant, PTL

\* A canceled job never completes, and a refused request never runs.
THEOREM RefusalsHold == Spec => [](CancelNeverCompletes /\ IgnoredStaysOut)
  <1>1. StoreInv => CancelNeverCompletes /\ IgnoredStaysOut
    BY DEF StoreInv
  <1> QED
    BY <1>1, StoreInvariant, PTL

-----------------------------------------------------------------------------
(* What a step may never do.                                               *)

\* How each step changes the status, the event and the publication of a job.
LEMMA OnlyUpdatesAndClaims ==
    ASSUME StoreInv, [Next]_vars, NEW n \in Jobs
    PROVE  /\ IsTerminal(rec[n]) => /\ rec'[n].status = rec[n].status
                                    /\ rec'[n].event = rec[n].event
                                    /\ rec[n].published => rec'[n].published
           /\ rec[n].status = "QUEUED" /\ rec'[n].status = "PROCESSING"
              => \E k \in Kinds : Claim(k, n)
  <1> USE DEF StoreInv
  <1>0. rec[n] \in JobRecord
    BY DEF TypeOK
  <1>1. ASSUME NEW j \in Jobs, RegisterBusy(j) PROVE rec'[n] = rec[n]
    BY <1>1 DEF RegisterBusy
  <1>2. ASSUME NEW j \in Jobs, NEW valid \in BOOLEAN, RegisterAccepted(j, valid)
        PROVE  rec[n].status # "ABSENT" => rec'[n] = rec[n]
    BY <1>2 DEF RegisterAccepted, Unseen, TypeOK
  <1>3. ASSUME NEW k \in Kinds, ClearStaleSlots(k) PROVE rec'[n] = rec[n]
    BY <1>3 DEF ClearStaleSlots
  <1>4. ASSUME NEW k \in Kinds, NEW j \in Jobs, Claim(k, j)
        PROVE  (n # j => rec'[n] = rec[n]) /\ (n = j => rec[n].status = "QUEUED")
    BY <1>4 DEF Claim, TypeOK
  <1>5. ASSUME NEW j, NEW r, NEW score, NEW keys, UpdateStep(j, r, score, keys)
        PROVE  /\ IsTerminal(rec[n]) => /\ rec'[n].status = rec[n].status
                                        /\ rec'[n].event = rec[n].event
                                        /\ rec'[n].published = rec[n].published
               /\ rec'[n].status = "PROCESSING" => rec[n].status = "PROCESSING"
    <2>1. j \in Jobs /\ LegalUpdate(j, r, score, keys) /\ rec' = [rec EXCEPT ![j] = r]
      BY <1>5 DEF UpdateStep, ChangeIn
    <2>2. (n = j => rec'[n] = r) /\ (n # j => rec'[n] = rec[n])
      BY <2>1 DEF TypeOK
    <2> QED
      BY <2>1, <2>2 DEF LegalUpdate
  <1>6. ASSUME NEW j \in Jobs, NEW p \in Publishers, AcknowledgeResult(j, p)
        PROVE  /\ rec'[n].status = rec[n].status /\ rec'[n].event = rec[n].event
               /\ rec[n].published => rec'[n].published
    <2>1. rec' = [rec EXCEPT ![j] = [rec[j] EXCEPT !.published = TRUE]]
      BY <1>6 DEF AcknowledgeResult, TypeOK
    <2>2. CASE n = j
      <3>1. rec'[n] = [rec[n] EXCEPT !.published = TRUE]
        BY <2>1, <2>2 DEF TypeOK
      <3> QED
        BY <1>0, <3>1 DEF JobRecord
    <2>3. CASE n # j
      BY <2>1, <2>3 DEF TypeOK
    <2> QED
      BY <2>2, <2>3
  <1>7. ASSUME Tick
        PROVE  /\ rec'[n].status = rec[n].status /\ rec'[n].event = rec[n].event
               /\ rec'[n].published = rec[n].published
    <2>1. rec'[n] = [rec[n] EXCEPT !.leaseLeft = Closer(@), !.timeLeft = Closer(@),
                                   !.pubLeft = Closer(@)]
      BY <1>7 DEF Tick
    <2> QED
      BY <1>0, <2>1 DEF JobRecord
  <1>8. CASE UNCHANGED vars
    BY <1>8 DEF vars
  <1> QED
    BY <1>1, <1>2, <1>3, <1>4, <1>5, <1>6, <1>7, <1>8, StepCases
       DEF IsTerminal, TERMINAL_STATUSES

\* An ended job never changes its outcome, whichever worker, recovery loop
\* or publisher comes late.
THEOREM OutcomesAreFinal == Spec => TerminalIsFinal
  <1>1. StoreInv /\ [Next]_vars => [OutcomeKept]_vars
    BY OnlyUpdatesAndClaims DEF OutcomeKept
  <1> QED
    BY <1>1, StoreInvariant, PTL DEF Spec, TerminalIsFinal

\* claim starts the jobs of one kind in the order in which register accepted
\* them, those given back by return_unstarted included.
THEOREM FirstComeFirstServed == Spec => StartsInOrder
  <1>1. StoreInv /\ [Next]_vars => [EarliestStarts]_vars
    <2> SUFFICES ASSUME StoreInv, [Next]_vars, NEW j \in Jobs, NEW n \in Jobs,
                        rec[j].status = "QUEUED", rec'[j].status = "PROCESSING",
                        rec[n].status = "QUEUED", KindOf[n] = KindOf[j]
                 PROVE  order[j] <= order[n]
      BY DEF EarliestStarts
    <2>1. PICK k \in Kinds : Claim(k, j)
      BY OnlyUpdatesAndClaims
    <2>2. IsHead(j, k)
      BY <2>1 DEF Claim
    <2>3. queue[j] = order[j] /\ queue[n] = order[n]
      BY DEF StoreInv, QueueMatchesStatus
    <2>4. order[n] \in Nat
      BY DEF StoreInv, TypeOK
    <2>5. n \in Waiting(k)
      BY <2>2, <2>3, <2>4 DEF IsHead, Waiting, Absent
    <2> QED
      BY <2>2, <2>3, <2>5 DEF IsHead
  <1> QED
    BY <1>1, StoreInvariant, PTL DEF Spec, StartsInOrder

-----------------------------------------------------------------------------
(* Slots.                                                                  *)

SlotInv ==
    /\ SlotsMatchJobs
    /\ \A k \in Kinds : Cardinality(Occupied(k)) <= Limit(k)

\* The slots of a kind are finitely many.
LEMMA OccupiedFinite ==
    ASSUME NEW k \in Kinds
    PROVE  IsFiniteSet(Occupied(k)) /\ Cardinality(Occupied(k)) \in Nat
  <1>1. IsFiniteSet(slot_keys(k))
    <2>1. CASE k = "story"
      BY <2>1, FS_Interval, LimitAssumption DEF slot_keys
    <2>2. CASE k # "story"
      BY <2>2, FS_Singleton DEF slot_keys
    <2> QED
      BY <2>1, <2>2
  <1>2. Occupied(k) \subseteq slot_keys(k)
    BY DEF Occupied
  <1> QED
    BY <1>1, <1>2, FS_Subset, FS_CardinalityType

\* Giving up slots cannot exceed the limit.
LEMMA FewerSlots ==
    ASSUME SlotInv, NEW k \in Kinds, Occupied(k)' \subseteq Occupied(k)
    PROVE  Cardinality(Occupied(k)') <= Limit(k)
  <1>1. /\ IsFiniteSet(Occupied(k)) /\ Cardinality(Occupied(k)) \in Nat
        /\ Cardinality(Occupied(k)) <= Limit(k)
    BY OccupiedFinite DEF SlotInv
  <1>2. /\ Cardinality(Occupied(k)') <= Cardinality(Occupied(k))
        /\ Cardinality(Occupied(k)') \in Nat
    BY <1>1, FS_Subset, FS_CardinalityType
  <1>3. Limit(k) \in Nat
    BY LimitAssumption DEF Limit
  <1> QED
    BY <1>1, <1>2, <1>3

\* A claim takes a free slot while fewer than the limit are occupied.
LEMMA ClaimKeepsSlots ==
    ASSUME StoreInv, SlotInv, NEW k \in Kinds, NEW j \in Jobs, Claim(k, j)
    PROVE  SlotInv'
  <1> USE DEF StoreInv
  <1> DEFINE f == FirstFree(k)
  <1>1. f \in slot_keys(k) /\ slot[k][f] = NoJob
    BY FirstFreeType DEF Claim
  <1>2. KindOf[j] = k /\ rec[j].status = "QUEUED"
    BY DEF Claim, IsHead, Waiting
  <1>3. /\ slot'[k][f] = j
        /\ \A i \in slot_keys(k) \ {f} : slot'[k][i] = slot[k][i]
        /\ \A n \in Kinds \ {k} : slot'[n] = slot[n]
    BY <1>1 DEF Claim, TypeOK
  <1>4. /\ rec'[j].status = "PROCESSING"
        /\ \A n \in Jobs \ {j} : rec'[n] = rec[n]
    BY DEF Claim, TypeOK, JobRecord
  <1> HIDE DEF f
  <1>5. \A n \in Kinds : \A i \in Occupied(n) : slot[n][i] # j /\ slot[n][i] \in Jobs
    <2>1. \A n \in Kinds : \A i \in Occupied(n) : slot[n][i] \in Jobs
      BY DEF Occupied, TypeOK
    <2> QED
      BY <1>2, <2>1 DEF SlotInv, SlotsMatchJobs, IsTerminal, TERMINAL_STATUSES
  <1>6. /\ Occupied(k)' = Occupied(k) \cup {f} /\ f \notin Occupied(k)
        /\ \A n \in Kinds \ {k} : Occupied(n)' = Occupied(n)
    BY <1>1, <1>3, JobsAssumption DEF Occupied
  <1>7. SlotsMatchJobs'
    <2> SUFFICES ASSUME NEW n \in Kinds
                 PROVE  /\ \A i \in Occupied(n)' :
                               /\ KindOf[slot'[n][i]] = n
                               /\ \/ rec'[slot'[n][i]].status = "PROCESSING"
                                  \/ IsTerminal(rec'[slot'[n][i]])
                        /\ \A i, m \in Occupied(n)' : slot'[n][i] = slot'[n][m] => i = m
                        /\ \A x \in Jobs : rec'[x].status = "PROCESSING" /\ KindOf[x] = n
                                           => \E i \in slot_keys(n) : slot'[n][i] = x
      BY DEF SlotsMatchJobs, IsTerminal
    <2>0. \A i \in Occupied(n) : i \in slot_keys(n)
      BY DEF Occupied
    <2>1. \A i \in Occupied(n) : slot'[n][i] = slot[n][i]
      BY <1>3, <1>6, <2>0
    <2>2. \A i \in Occupied(n) : rec'[slot[n][i]] = rec[slot[n][i]]
      BY <1>4, <1>5
    <2>3. \A i \in Occupied(n)' : i \in Occupied(n) \/ (n = k /\ i = f)
      BY <1>6
    <2>4. \A i \in Occupied(n)' : /\ KindOf[slot'[n][i]] = n
                                  /\ \/ rec'[slot'[n][i]].status = "PROCESSING"
                                     \/ IsTerminal(rec'[slot'[n][i]])
      BY <1>2, <1>3, <1>4, <2>1, <2>2, <2>3 DEF SlotInv, SlotsMatchJobs, IsTerminal
    <2>5. \A i, m \in Occupied(n)' : slot'[n][i] = slot'[n][m] => i = m
      BY <1>3, <1>5, <2>1, <2>3 DEF SlotInv, SlotsMatchJobs
    <2>6. \A x \in Jobs : rec'[x].status = "PROCESSING" /\ KindOf[x] = n
                          => \E i \in slot_keys(n) : slot'[n][i] = x
      <3> TAKE x \in Jobs
      <3> HAVE rec'[x].status = "PROCESSING" /\ KindOf[x] = n
      <3>1. CASE x = j
        BY <1>1, <1>2, <1>3, <3>1
      <3>2. CASE x # j
        <4>1. PICK i \in slot_keys(n) : slot[n][i] = x
          BY <1>4, <3>2 DEF SlotInv, SlotsMatchJobs
        <4>2. i \in Occupied(n)
          BY <4>1, JobsAssumption DEF Occupied
        <4> QED
          BY <2>1, <4>1, <4>2
      <3> QED
        BY <3>1, <3>2
    <2> QED
      BY <2>4, <2>5, <2>6
  <1>8. ASSUME NEW n \in Kinds PROVE Cardinality(Occupied(n)') <= Limit(n)
    <2>1. CASE n = k
      <3>1. Cardinality(Occupied(k)') = Cardinality(Occupied(k)) + 1
        BY <1>6, OccupiedFinite, FS_AddElement
      <3>2. Cardinality(Occupied(k)) < Limit(k)
        BY DEF Claim, HasRoom
      <3>3. Limit(k) \in Nat /\ Cardinality(Occupied(k)) \in Nat
        BY OccupiedFinite, LimitAssumption DEF Limit
      <3> QED
        BY <2>1, <3>1, <3>2, <3>3
    <2>2. CASE n # k
      BY <1>6, <2>2 DEF SlotInv
    <2> QED
      BY <2>1, <2>2
  <1> QED
    BY <1>7, <1>8 DEF SlotInv, Limit

\* A step that only frees slots, never that of a job in execution, and puts
\* no occupant back into the queue, keeps the slots in order.
LEMMA FreeingKeepsSlots ==
    ASSUME StoreInv, SlotInv,
           \A k \in Kinds : \A i \in slot_keys(k) :
               slot'[k][i] = slot[k][i] \/ slot'[k][i] = NoJob,
           \A k \in Kinds : \A i \in slot_keys(k) :
               slot'[k][i] # NoJob => \/ rec'[slot[k][i]].status = "PROCESSING"
                                      \/ IsTerminal(rec'[slot[k][i]]),
           \A j \in Jobs : rec'[j].status = "PROCESSING" =>
               /\ rec[j].status = "PROCESSING"
               /\ \A k \in Kinds : \A i \in slot_keys(k) :
                      slot[k][i] = j => slot'[k][i] = j
    PROVE  SlotInv'
  <1>1. ASSUME NEW k \in Kinds
        PROVE  /\ Occupied(k)' \subseteq Occupied(k)
               /\ \A i \in Occupied(k)' : slot'[k][i] = slot[k][i]
               /\ \A i \in Occupied(k)' : slot'[k][i] # NoJob /\ i \in slot_keys(k)
    BY DEF Occupied
  <1>2. SlotsMatchJobs'
    <2> SUFFICES ASSUME NEW k \in Kinds
                 PROVE  /\ \A i \in Occupied(k)' :
                               /\ KindOf[slot'[k][i]] = k
                               /\ \/ rec'[slot'[k][i]].status = "PROCESSING"
                                  \/ IsTerminal(rec'[slot'[k][i]])
                        /\ \A i, m \in Occupied(k)' : slot'[k][i] = slot'[k][m] => i = m
                        /\ \A x \in Jobs : rec'[x].status = "PROCESSING" /\ KindOf[x] = k
                                           => \E i \in slot_keys(k) : slot'[k][i] = x
      BY DEF SlotsMatchJobs, IsTerminal
    <2>1. \A i \in Occupied(k)' : /\ KindOf[slot'[k][i]] = k
                                  /\ \/ rec'[slot'[k][i]].status = "PROCESSING"
                                     \/ IsTerminal(rec'[slot'[k][i]])
      BY <1>1 DEF SlotInv, SlotsMatchJobs
    <2>2. \A i, m \in Occupied(k)' : slot'[k][i] = slot'[k][m] => i = m
      BY <1>1 DEF SlotInv, SlotsMatchJobs
    <2>3. \A x \in Jobs : rec'[x].status = "PROCESSING" /\ KindOf[x] = k
                          => \E i \in slot_keys(k) : slot'[k][i] = x
      BY DEF SlotInv, SlotsMatchJobs
    <2> QED
      BY <2>1, <2>2, <2>3
  <1>3. \A k \in Kinds : Cardinality(Occupied(k)') <= Limit(k)
    BY <1>1, FewerSlots
  <1> QED
    BY <1>2, <1>3 DEF SlotInv, Limit

\* A legal update frees the slot of the job it ends or puts back.
LEMMA UpdateKeepsSlots ==
    ASSUME StoreInv, SlotInv, NEW j, NEW r, NEW score, NEW keys,
           UpdateStep(j, r, score, keys)
    PROVE  SlotInv'
  <1> USE DEF StoreInv
  <1>1. /\ j \in Jobs /\ r \in JobRecord /\ LegalUpdate(j, r, score, keys)
        /\ rec' = [rec EXCEPT ![j] = r] /\ slot' = SlotAfter(j, r, keys)
    BY DEF UpdateStep, ChangeIn
  <1>2. rec'[j] = r /\ \A n \in Jobs \ {j} : rec'[n] = rec[n]
    BY <1>1 DEF TypeOK
  <1>3. r.status \in {"QUEUED", "PROCESSING"} \/ IsTerminal(r)
    BY <1>1 DEF LegalUpdate, JobRecord, Statuses, ACTIVE_STATUSES, IsTerminal
  <1>4. ASSUME NEW k \in Kinds, NEW i \in slot_keys(k)
        PROVE  slot'[k][i] =
                 IF r.status # "PROCESSING" /\ k = KindOf[j] /\ i \in keys /\ slot[k][i] = j
                 THEN NoJob ELSE slot[k][i]
    BY <1>1, ReleasedType DEF SlotAfter
  <1>5. \A k \in Kinds : \A i \in slot_keys(k) :
            slot'[k][i] = slot[k][i] \/ slot'[k][i] = NoJob
    BY <1>4
  <1>6. ASSUME NEW k \in Kinds, NEW i \in slot_keys(k), slot'[k][i] # NoJob
        PROVE  rec'[slot[k][i]].status = "PROCESSING" \/ IsTerminal(rec'[slot[k][i]])
    <2>1. /\ slot[k][i] \in Jobs /\ i \in Occupied(k) /\ KindOf[slot[k][i]] = k
          /\ \/ rec[slot[k][i]].status = "PROCESSING"
             \/ IsTerminal(rec[slot[k][i]])
      BY <1>4, <1>6 DEF SlotInv, SlotsMatchJobs, Occupied, TypeOK
    <2>2. CASE slot[k][i] # j
      BY <1>2, <2>1, <2>2 DEF IsTerminal
    <2>3. CASE slot[k][i] = j
      <3>1. r.status # "QUEUED"
        BY <1>1, <1>4, <1>6, <2>1, <2>3
           DEF LegalUpdate, IsTerminal, TERMINAL_STATUSES
      <3> QED
        BY <1>2, <1>3, <2>3, <3>1 DEF IsTerminal
    <2> QED
      BY <2>2, <2>3
  <1>7. ASSUME NEW n \in Jobs, rec'[n].status = "PROCESSING"
        PROVE  /\ rec[n].status = "PROCESSING"
               /\ \A k \in Kinds : \A i \in slot_keys(k) : slot[k][i] = n => slot'[k][i] = n
    BY <1>1, <1>2, <1>4, <1>7 DEF LegalUpdate
  <1> QED
    BY <1>5, <1>6, <1>7, FreeingKeepsSlots

\* Every step keeps the slots in order.
LEMMA NextKeepsSlots == StoreInv /\ SlotInv /\ [Next]_vars => SlotInv'
  <1> SUFFICES ASSUME StoreInv, SlotInv, [Next]_vars PROVE SlotInv'
    OBVIOUS
  <1> USE DEF StoreInv
  <1>0. \A k \in Kinds : \A i \in slot_keys(k) : slot[k][i] # NoJob =>
            /\ slot[k][i] \in Jobs
            /\ \/ rec[slot[k][i]].status = "PROCESSING"
               \/ IsTerminal(rec[slot[k][i]])
    BY DEF SlotInv, SlotsMatchJobs, Occupied, TypeOK
  <1>1. ASSUME slot' = slot, \A n \in Jobs : rec'[n].status = rec[n].status
        PROVE  SlotInv'
    <2>1. \A n \in Jobs : IsTerminal(rec[n]) => IsTerminal(rec'[n])
      BY <1>1 DEF IsTerminal
    <2> QED
      BY <1>0, <1>1, <2>1, FreeingKeepsSlots
  <1>2. ASSUME NEW j \in Jobs, RegisterBusy(j) PROVE SlotInv'
    BY <1>1, <1>2 DEF RegisterBusy, indexes
  <1>3. ASSUME NEW j \in Jobs, NEW valid \in BOOLEAN, RegisterAccepted(j, valid)
        PROVE  SlotInv'
    <2>1. slot' = slot /\ rec[j].status = "ABSENT"
      BY <1>3 DEF RegisterAccepted, Unseen
    <2>2. \A n \in Jobs \ {j} : rec'[n] = rec[n]
      BY <1>3 DEF RegisterAccepted, TypeOK
    <2>3. rec'[j].status # "PROCESSING"
      <3> DEFINE e == [status |-> "FAILED", code |-> "INVALID_REQUEST"]
      <3>1. e \in FinalEvents /\ e.status = "FAILED"
        BY DEF FinalEvents, TERMINAL_STATUSES, Codes
      <3>2. rec'[j] = IF valid THEN NewRecord ELSE Terminate(NewRecord, e)
        BY <1>3 DEF RegisterAccepted, TypeOK
      <3> HIDE DEF e
      <3> QED
        BY <3>1, <3>2, NewRecordType, TerminateType
    <2>4. \A k \in Kinds : \A i \in slot_keys(k) : slot[k][i] # j
      BY <1>0, <2>1, JobsAssumption DEF IsTerminal, TERMINAL_STATUSES
    <2>5. \A k \in Kinds : \A i \in slot_keys(k) : slot'[k][i] # NoJob =>
              \/ rec'[slot[k][i]].status = "PROCESSING"
              \/ IsTerminal(rec'[slot[k][i]])
      BY <1>0, <2>1, <2>2, <2>4 DEF IsTerminal
    <2> QED
      BY <2>1, <2>2, <2>3, <2>5, FreeingKeepsSlots
  <1>4. ASSUME NEW k \in Kinds, ClearStaleSlots(k) PROVE SlotInv'
    <2>1. rec' = rec
      BY <1>4 DEF ClearStaleSlots
    <2>2. \A n \in Kinds : \A i \in slot_keys(n) :
              slot'[n][i] = IF n = k /\ i \in StaleSlots(k) THEN NoJob ELSE slot[n][i]
      BY <1>4 DEF ClearStaleSlots, TypeOK
    <2>3. \A i \in StaleSlots(k) : IsTerminal(rec[slot[k][i]])
      BY DEF StaleSlots
    <2>4. \A j \in Jobs : rec'[j].status = "PROCESSING" =>
              /\ rec[j].status = "PROCESSING"
              /\ \A n \in Kinds : \A i \in slot_keys(n) :
                     slot[n][i] = j => slot'[n][i] = j
      BY <2>1, <2>2, <2>3 DEF IsTerminal, TERMINAL_STATUSES
    <2>5. \A n \in Kinds : \A i \in slot_keys(n) : slot'[n][i] # NoJob =>
              \/ rec'[slot[n][i]].status = "PROCESSING"
              \/ IsTerminal(rec'[slot[n][i]])
      BY <1>0, <2>1, <2>2 DEF IsTerminal
    <2> QED
      BY <2>2, <2>4, <2>5, FreeingKeepsSlots
  <1>5. ASSUME NEW j \in Jobs, NEW p \in Publishers, AcknowledgeResult(j, p)
        PROVE  SlotInv'
    BY <1>1, <1>5 DEF AcknowledgeResult, TypeOK, JobRecord
  <1>6. ASSUME Tick PROVE SlotInv'
    BY <1>1, <1>6 DEF Tick, TypeOK, JobRecord
  <1>7. CASE UNCHANGED vars
    BY <1>1, <1>7 DEF vars
  <1> QED
    BY <1>2, <1>3, <1>4, <1>5, <1>6, <1>7, StepCases, ClaimKeepsSlots,
       UpdateKeepsSlots

\* Distinct jobs in execution hold distinct slots, so they are no more than
\* the occupied slots.
LEMMA RunningHoldSlots ==
    ASSUME TypeOK, SlotInv, NEW k \in Kinds
    PROVE  LET P == {j \in Jobs : rec[j].status = "PROCESSING" /\ KindOf[j] = k}
           IN  IsFiniteSet(P) /\ Cardinality(P) <= Cardinality(Occupied(k))
  <1> DEFINE P == {j \in Jobs : rec[j].status = "PROCESSING" /\ KindOf[j] = k}
  <1> DEFINE h == [j \in P |-> CHOOSE i \in slot_keys(k) : slot[k][i] = j]
  <1>1. ASSUME NEW j \in P PROVE h[j] \in Occupied(k) /\ slot[k][h[j]] = j
    <2>1. \E i \in slot_keys(k) : slot[k][i] = j
      BY DEF SlotInv, SlotsMatchJobs
    <2>2. h[j] \in slot_keys(k) /\ slot[k][h[j]] = j
      BY <2>1
    <2> QED
      BY <2>2, JobsAssumption DEF Occupied
  <1>2. h \in Injection(P, Occupied(k))
    <2>1. h \in [P -> Occupied(k)]
      BY <1>1
    <2>2. \A a, b \in P : h[a] = h[b] => a = b
      BY <1>1
    <2> HIDE DEF h, P
    <2> QED
      BY <2>1, <2>2 DEF Injection, IsInjective
  <1>3. IsFiniteSet(Occupied(k))
    BY OccupiedFinite
  <1> HIDE DEF h, P
  <1>4. IsFiniteSet(P) /\ Cardinality(P) <= Cardinality(Occupied(k))
    BY <1>2, <1>3, FS_Injection DEF ExistsInjection
  <1> QED
    BY <1>4 DEF P

\* The limit on occupied slots is a limit on jobs in execution.
LEMMA SlotsBoundJobs ==
    ASSUME TypeOK, SlotInv
    PROVE  ConcurrencyLimit
  <1> SUFFICES ASSUME NEW k \in Kinds
               PROVE  Cardinality({j \in Jobs : rec[j].status = "PROCESSING"
                                                /\ KindOf[j] = k}) <= Limit(k)
    BY DEF ConcurrencyLimit
  <1> DEFINE P == {j \in Jobs : rec[j].status = "PROCESSING" /\ KindOf[j] = k}
  <1>1. IsFiniteSet(P) /\ Cardinality(P) <= Cardinality(Occupied(k))
    BY RunningHoldSlots
  <1> HIDE DEF P
  <1>2. Cardinality(P) \in Nat /\ Cardinality(Occupied(k)) \in Nat
    BY <1>1, FS_CardinalityType, OccupiedFinite
  <1>3. Cardinality(Occupied(k)) <= Limit(k) /\ Limit(k) \in Nat
    BY LimitAssumption DEF SlotInv, Limit
  <1>4. Cardinality(P) <= Limit(k)
    BY <1>1, <1>2, <1>3
  <1> QED
    BY <1>4 DEF P

\* All slots of the empty store are free.
LEMMA InitSlots == Init => SlotInv
  <1> SUFFICES ASSUME Init PROVE SlotInv
    OBVIOUS
  <1>1. \A k \in Kinds : Occupied(k) = {}
    BY DEF Init, Occupied
  <1>2. Cardinality({}) = 0
    BY FS_EmptySet
  <1>3. \A k \in Kinds : Cardinality(Occupied(k)) <= Limit(k)
    BY <1>1, <1>2, LimitAssumption DEF Limit
  <1>4. \A j \in Jobs : rec[j].status # "PROCESSING"
    BY DEF Init, NoRecord
  <1> QED
    BY <1>1, <1>3, <1>4 DEF SlotInv, SlotsMatchJobs

\* A job in execution has exactly one slot, and no more jobs of a kind are
\* in execution than configured, also while an old image leaks slots.
THEOREM SlotsAreSafe == Spec => [](SlotsMatchJobs /\ ConcurrencyLimit)
  <1>1. Init => SlotInv
    BY InitSlots
  <1>2. StoreInv /\ SlotInv /\ [Next]_vars => SlotInv'
    BY NextKeepsSlots
  <1>3. StoreInv /\ SlotInv => SlotsMatchJobs /\ ConcurrencyLimit
    BY SlotsBoundJobs DEF StoreInv, SlotInv
  <1> QED
    BY <1>1, <1>2, <1>3, StoreInvariant, PTL DEF Spec

-----------------------------------------------------------------------------
(* The store implements the board, for every instance of JobStore: the     *)
(* mapping.                                                                *)

\* What the board shows of a record with the given fields.
LEMMA StateOfRecord ==
    ASSUME TypeOK, NEW j \in Jobs
    PROVE  /\ rec[j].status = "ABSENT" => StateOf(j) = IF j \in ignored THEN "refused"
                                                       ELSE "new"
           /\ rec[j].status = "QUEUED" => StateOf(j) = "waiting"
           /\ rec[j].status = "PROCESSING" => StateOf(j) = "running"
           /\ IsTerminal(rec[j]) => StateOf(j) = "ended"
  BY DEF StateOf, IsTerminal, TERMINAL_STATUSES

\* The empty store is an empty board.
LEMMA BoardInitially == Init => Board!BoardInit
  <1> SUFFICES ASSUME Init PROVE Board!BoardInit
    OBVIOUS
  <1>1. /\ \A j \in Jobs : /\ rec[j].status = "ABSENT" /\ ~rec[j].cancel
                           /\ rec[j].event.status = "NONE" /\ ~rec[j].published
                           /\ order[j] = 0
        /\ ignored = {} /\ sequence = 0 /\ order = [j \in Jobs |-> 0]
    BY DEF Init, NoRecord, NoEvent
  <1>2. TypeOK
    BY InitType
  <1>3. boardState = [j \in Jobs |-> "new"]
    BY <1>1, <1>2, StateOfRecord DEF boardState
  <1>4. canceledJobs = {} /\ publishedJobs = {} /\ outcomes = [j \in Jobs |-> "NONE"]
    BY <1>1 DEF canceledJobs, publishedJobs, outcomes
  <1> QED
    BY <1>1, <1>3, <1>4 DEF Board!BoardInit

\* A step that leaves every status, cancel mark, event and published mark
\* alone, refuses nothing and accepts nothing is a stutter of the board.
LEMMA BoardStutter ==
    ASSUME UNCHANGED <<ignored, sequence, order>>,
           \A j \in Jobs : /\ rec'[j].status = rec[j].status
                           /\ rec'[j].cancel = rec[j].cancel
                           /\ rec'[j].event = rec[j].event
                           /\ rec'[j].published = rec[j].published
    PROVE  UNCHANGED Board!boardVars
  <1>1. ASSUME NEW j \in Jobs PROVE StateOf(j)' = StateOf(j)
    <2>1. (rec[j].status)' = rec[j].status /\ ignored' = ignored
      OBVIOUS
    <2> QED
      BY <2>1 DEF StateOf, IsTerminal
  <1>2. boardState' = boardState
    BY <1>1 DEF boardState
  <1>3. canceledJobs' = canceledJobs /\ outcomes' = outcomes /\ publishedJobs' = publishedJobs
    BY DEF canceledJobs, outcomes, publishedJobs
  <1> QED
    BY <1>2, <1>3 DEF Board!boardVars

\* How the board moves when the record of one job becomes r.
LEMMA BoardMove ==
    ASSUME TypeOK, NEW j \in Jobs, NEW r, rec' = [rec EXCEPT ![j] = r],
           r \in JobRecord, r.status # "ABSENT", UNCHANGED ignored
    PROVE  /\ r.status = "QUEUED" => boardState' = [boardState EXCEPT ![j] = "waiting"]
           /\ r.status = "PROCESSING" => boardState' = [boardState EXCEPT ![j] = "running"]
           /\ IsTerminal(r) => boardState' = [boardState EXCEPT ![j] = "ended"]
           /\ outcomes' = [outcomes EXCEPT ![j] = r.event.status]
           /\ canceledJobs' = IF r.cancel THEN canceledJobs \cup {j}
                                          ELSE canceledJobs \ {j}
           /\ publishedJobs' = IF r.published THEN publishedJobs \cup {j}
                                              ELSE publishedJobs \ {j}
  <1>1. rec'[j] = r /\ \A n \in Jobs \ {j} : rec'[n] = rec[n]
    BY DEF TypeOK
  <1>2. \A n \in Jobs \ {j} : StateOf(n)' = StateOf(n)
    BY <1>1 DEF StateOf, IsTerminal
  <1>3. /\ r.status = "QUEUED" => StateOf(j)' = "waiting"
        /\ r.status = "PROCESSING" => StateOf(j)' = "running"
        /\ IsTerminal(r) => StateOf(j)' = "ended"
    BY <1>1 DEF StateOf, IsTerminal, TERMINAL_STATUSES
  <1>4. boardState' = [boardState EXCEPT ![j] = StateOf(j)']
    BY <1>2 DEF boardState
  <1>5. outcomes' = [outcomes EXCEPT ![j] = r.event.status]
    <2>1. outcomes' = [n \in Jobs |-> (rec')[n].event.status]
      BY DEF outcomes
    <2>2. \A n \in Jobs : (rec')[n].event.status =
                            IF n = j THEN r.event.status ELSE outcomes[n]
      BY <1>1 DEF outcomes
    <2>3. outcomes \in [Jobs -> {rec[n].event.status : n \in Jobs}]
      BY DEF outcomes
    <2> QED
      BY <2>1, <2>2, <2>3
  <1>6. canceledJobs' = IF r.cancel THEN canceledJobs \cup {j} ELSE canceledJobs \ {j}
    BY <1>1 DEF canceledJobs, JobRecord
  <1>7. publishedJobs' = IF r.published THEN publishedJobs \cup {j}
                                        ELSE publishedJobs \ {j}
    BY <1>1 DEF publishedJobs, JobRecord
  <1> QED
    BY <1>3, <1>4, <1>5, <1>6, <1>7

-----------------------------------------------------------------------------
(* What the mapping needs to know of the store beyond StoreInv and SlotInv. *)

\* "latest" names a registered job of its own line, and a job that is not
\* registered is not canceled.
LatestInv ==
    /\ \A l \in Trips \X Kinds :
          latest[l] # NoJob => Line(latest[l]) = l /\ rec[latest[l]].status # "ABSENT"
    /\ \A j \in Jobs : rec[j].status = "ABSENT" => ~rec[j].cancel

\* A record never disappears, and only register writes "latest".
LEMMA NextKeepsLatest == StoreInv /\ LatestInv /\ [Next]_vars => LatestInv'
  <1> SUFFICES ASSUME StoreInv, LatestInv, [Next]_vars PROVE LatestInv'
    OBVIOUS
  <1> USE DEF StoreInv
  <1>0. TypeOK'
    BY NextType
  <1>1. ASSUME UNCHANGED latest,
               \A j \in Jobs : /\ rec[j].status # "ABSENT" => rec'[j].status # "ABSENT"
                               /\ rec[j].status = "ABSENT"
                                  => rec'[j].status # "ABSENT" \/ rec'[j].cancel = rec[j].cancel
        PROVE  LatestInv'
    BY <1>1 DEF LatestInv, TypeOK
  <1>2. ASSUME NEW j \in Jobs, RegisterBusy(j) PROVE LatestInv'
    BY <1>1, <1>2 DEF RegisterBusy
  <1>3. ASSUME NEW j \in Jobs, NEW valid \in BOOLEAN, RegisterAccepted(j, valid)
        PROVE  LatestInv'
    <2> DEFINE e == [status |-> "FAILED", code |-> "INVALID_REQUEST"]
    <2> DEFINE r == IF valid THEN NewRecord ELSE Terminate(NewRecord, e)
    <2>1. e \in FinalEvents
      BY DEF FinalEvents, TERMINAL_STATUSES, Codes
    <2>2. r.status # "ABSENT"
      BY <2>1, NewRecordType, TerminateType
    <2>3. rec' = [rec EXCEPT ![j] = r] /\ latest' = [latest EXCEPT ![Line(j)] = j]
      BY <1>3 DEF RegisterAccepted
    <2> HIDE DEF r
    <2>4. /\ rec'[j] = r
          /\ \A n \in Jobs \ {j} : rec'[n] = rec[n]
          /\ latest'[Line(j)] = j
          /\ \A l \in Trips \X Kinds : l # Line(j) => latest'[l] = latest[l]
      BY <2>3, JobsAssumption DEF TypeOK, Line
    <2> QED
      BY <2>2, <2>4 DEF LatestInv, TypeOK
  <1>4. ASSUME NEW k \in Kinds, ClearStaleSlots(k) PROVE LatestInv'
    BY <1>1, <1>4 DEF ClearStaleSlots, registry
  <1>5. ASSUME NEW k \in Kinds, NEW j \in Jobs, Claim(k, j) PROVE LatestInv'
    <2>1. /\ rec[j].status = "QUEUED"
          /\ \A n \in Jobs \ {j} : rec'[n] = rec[n]
          /\ rec'[j].status = "PROCESSING"
      BY <1>5 DEF Claim, TypeOK, JobRecord
    <2>2. UNCHANGED latest
      BY <1>5 DEF Claim, registry
    <2> QED
      BY <1>1, <2>1, <2>2
  <1>6. ASSUME NEW j, NEW r, NEW score, NEW keys, UpdateStep(j, r, score, keys)
        PROVE  LatestInv'
    <2>1. /\ rec[j].status # "ABSENT" /\ r.status # "ABSENT"
          /\ rec'[j] = r /\ \A n \in Jobs \ {j} : rec'[n] = rec[n]
      BY <1>6 DEF UpdateStep, LegalUpdate, ChangeIn, TypeOK
    <2>2. UNCHANGED latest
      BY <1>6 DEF UpdateStep, ChangeIn, registry
    <2> QED
      BY <1>1, <2>1, <2>2
  <1>7. ASSUME NEW j \in Jobs, NEW p \in Publishers, AcknowledgeResult(j, p)
        PROVE  LatestInv'
    <2>1. \A n \in Jobs : rec'[n].status = rec[n].status /\ rec'[n].cancel = rec[n].cancel
      BY <1>7 DEF AcknowledgeResult, TypeOK, JobRecord
    <2>2. UNCHANGED latest
      BY <1>7 DEF AcknowledgeResult, registry
    <2> QED
      BY <1>1, <2>1, <2>2
  <1>8. ASSUME Tick PROVE LatestInv'
    <2>1. \A n \in Jobs : rec'[n].status = rec[n].status /\ rec'[n].cancel = rec[n].cancel
      BY <1>8 DEF Tick, TypeOK, JobRecord
    <2>2. UNCHANGED latest
      BY <1>8 DEF Tick, registry
    <2> QED
      BY <1>1, <2>1, <2>2
  <1>9. CASE UNCHANGED vars
    BY <1>1, <1>9 DEF vars
  <1> QED
    BY <1>2, <1>3, <1>4, <1>5, <1>6, <1>7, <1>8, <1>9, StepCases

-----------------------------------------------------------------------------
(* One step of the board, or a stutter, for each operation of the store.   *)

BoardInv == StoreInv /\ SlotInv /\ LatestInv

\* A line of the board is busy exactly when register finds "latest" busy.
LEMMA BusyLine ==
    ASSUME BoardInv, NEW j \in Jobs
    PROVE  Board!LineIsBusy(j) <=> Busy(j)
  <1> USE DEF BoardInv, StoreInv
  <1>1. ASSUME NEW n \in Jobs
        PROVE  Board!Unfinished(n) <=> rec[n].status \in ACTIVE_STATUSES
    <2>1. rec[n].status \in Statuses
      BY DEF TypeOK, JobRecord
    <2> QED
      BY <2>1, StateOfRecord
         DEF Board!Unfinished, boardState, IsTerminal, Statuses, ACTIVE_STATUSES,
             TERMINAL_STATUSES
  <1>2. ASSUME Busy(j) PROVE Board!LineIsBusy(j)
    <2> DEFINE l == latest[Line(j)]
    <2>1. Line(j) \in Trips \X Kinds
      BY JobsAssumption DEF Line
    <2>2. l \in Jobs /\ Line(l) = Line(j) /\ rec[l].status # "ABSENT"
      BY <1>2, <2>1 DEF Busy, LatestInv, TypeOK
    <2>3. rec[l].status \in ACTIVE_STATUSES
      BY <1>2, <2>2 DEF Busy, IsTerminal, TypeOK, JobRecord, Statuses
    <2> QED
      BY <1>1, <2>2, <2>3 DEF Board!LineIsBusy
  <1>3. ASSUME Board!LineIsBusy(j) PROVE Busy(j)
    <2>1. PICK n \in Jobs : Line(n) = Line(j) /\ rec[n].status \in ACTIVE_STATUSES
      BY <1>1, <1>3 DEF Board!LineIsBusy
    <2>2. latest[Line(j)] = n
      BY <2>1 DEF OneActivePerLine
    <2> QED
      BY <2>1, <2>2, JobsAssumption
         DEF Busy, IsTerminal, ACTIVE_STATUSES, TERMINAL_STATUSES
  <1> QED
    BY <1>2, <1>3

\* A request that register drops is refused.
LEMMA RegisterBusyRefuses ==
    ASSUME BoardInv, NEW j \in Jobs, RegisterBusy(j)
    PROVE  Board!Refuse(j)
  <1> USE DEF BoardInv, StoreInv
  <1>1. rec[j].status = "ABSENT" /\ j \notin ignored
    BY DEF RegisterBusy, Unseen
  <1>2. Board!LineIsBusy(j)
    BY BusyLine DEF RegisterBusy
  <1>3. boardState[j] = "new"
    BY <1>1, StateOfRecord DEF boardState
  <1>4. boardState' = [boardState EXCEPT ![j] = "refused"]
    <2>1. rec' = rec /\ ignored' = ignored \cup {j}
      BY DEF RegisterBusy
    <2>2. \A n \in Jobs \ {j} : StateOf(n)' = StateOf(n)
      BY <2>1 DEF StateOf, IsTerminal
    <2>3. StateOf(j)' = "refused"
      BY <1>1, <2>1 DEF StateOf, IsTerminal, TERMINAL_STATUSES
    <2>4. \A n \in Jobs : StateOf(n)' = IF n = j THEN "refused" ELSE boardState[n]
      BY <2>2, <2>3 DEF boardState
    <2>5. boardState' = [n \in Jobs |-> StateOf(n)']
      BY DEF boardState
    <2>6. DOMAIN boardState = Jobs
      BY DEF boardState
    <2> QED
      BY <2>4, <2>5, <2>6
  <1>5. UNCHANGED <<sequence, order, canceledJobs, outcomes, publishedJobs>>
    BY DEF RegisterBusy, canceledJobs, outcomes, publishedJobs
  <1> QED
    BY <1>2, <1>3, <1>4, <1>5 DEF Board!Refuse

\* A request that register stores is accepted, at the next place.
LEMMA RegisterAccepts ==
    ASSUME BoardInv, NEW j \in Jobs, NEW valid \in BOOLEAN, RegisterAccepted(j, valid)
    PROVE  Board!Accept(j, valid)
  <1> USE DEF BoardInv, StoreInv
  <1> DEFINE e == [status |-> "FAILED", code |-> "INVALID_REQUEST"]
  <1> DEFINE r == IF valid THEN NewRecord ELSE Terminate(NewRecord, e)
  <1>1. e \in FinalEvents
    BY DEF FinalEvents, TERMINAL_STATUSES, Codes
  <1>2. /\ r \in JobRecord /\ r.cancel = FALSE /\ r.published = FALSE
        /\ r.status = IF valid THEN "QUEUED" ELSE "FAILED"
        /\ r.event.status = IF valid THEN "NONE" ELSE "FAILED"
    BY <1>1, NewRecordType, TerminateType DEF NoEvent
  <1>3. rec' = [rec EXCEPT ![j] = r]
    BY DEF RegisterAccepted
  <1> HIDE DEF r, e
  <1>4. rec[j].status = "ABSENT" /\ j \notin ignored
    BY DEF RegisterAccepted, Unseen
  <1>5. boardState[j] = "new" /\ ~Board!LineIsBusy(j)
    BY <1>4, StateOfRecord, BusyLine DEF boardState, RegisterAccepted
  <1>6. UNCHANGED ignored
    BY DEF RegisterAccepted
  <1>7. /\ boardState' = [boardState EXCEPT ![j] = IF valid THEN "waiting" ELSE "ended"]
        /\ outcomes' = [outcomes EXCEPT ![j] = r.event.status]
        /\ canceledJobs' = canceledJobs \ {j}
        /\ publishedJobs' = publishedJobs \ {j}
    BY <1>2, <1>3, <1>6, BoardMove DEF IsTerminal, TERMINAL_STATUSES
  <1>8. j \notin canceledJobs /\ j \notin publishedJobs /\ outcomes[j] = "NONE"
    BY <1>4 DEF canceledJobs, publishedJobs, outcomes, LatestInv, OnlyEndedArePublished,
                EventMatchesStatus, NoEvent, IsTerminal, TERMINAL_STATUSES
  <1>9. outcomes' = [outcomes EXCEPT ![j] = IF valid THEN @ ELSE "FAILED"]
    BY <1>2, <1>7, <1>8
  <1>10. sequence' = sequence + 1 /\ order' = [order EXCEPT ![j] = sequence + 1]
    BY DEF RegisterAccepted
  <1> QED
    BY <1>5, <1>7, <1>8, <1>9, <1>10 DEF Board!Accept

\* A claim starts the job that has waited longest, within the limit.
LEMMA ClaimStarts ==
    ASSUME BoardInv, NEW k \in Kinds, NEW j \in Jobs, Claim(k, j)
    PROVE  Board!Start(j)
  <1> USE DEF BoardInv, StoreInv
  <1> DEFINE r == [rec[j] EXCEPT !.status = "PROCESSING", !.owner = claims[j] + 1,
                                 !.leaseLeft = JOBS_LEASE_SEC,
                                 !.timeLeft = JOBS_TIMEOUT_SEC[k]]
  <1>1. rec[j] \in JobRecord /\ rec[j].status = "QUEUED" /\ KindOf[j] = k
    BY DEF TypeOK, Claim, IsHead, Waiting
  <1>2. /\ r.status = "PROCESSING" /\ r.event = rec[j].event
        /\ r.published = rec[j].published /\ r.cancel = rec[j].cancel
    BY <1>1 DEF JobRecord
  <1>3. rec' = [rec EXCEPT ![j] = r]
    BY DEF Claim, TypeOK
  <1>4. r \in JobRecord
    BY <1>3, ClaimType DEF TypeOK
  <1> HIDE DEF r
  <1>5. UNCHANGED <<ignored, sequence, order>>
    BY DEF Claim, registry
  <1>6. boardState' = [boardState EXCEPT ![j] = "running"]
    BY <1>2, <1>3, <1>4, <1>5, BoardMove
  <1>7. canceledJobs' = canceledJobs /\ outcomes' = outcomes /\ publishedJobs' = publishedJobs
    <2>1. \A n \in Jobs : /\ rec'[n].cancel = rec[n].cancel
                          /\ rec'[n].event = rec[n].event
                          /\ rec'[n].published = rec[n].published
      BY <1>2, <1>3 DEF TypeOK
    <2> QED
      BY <2>1 DEF canceledJobs, outcomes, publishedJobs
  <1>8. boardState[j] = "waiting"
    BY <1>1, StateOfRecord DEF boardState
  <1>9. ASSUME NEW n \in Jobs, KindOf[n] = KindOf[j], boardState[n] = "waiting"
        PROVE  order[j] <= order[n]
    <2>1. rec[n].status = "QUEUED"
      BY <1>9, StateOfRecord DEF boardState, TypeOK, JobRecord, Statuses,
                                 ACTIVE_STATUSES, IsTerminal
    <2>2. queue[j] = order[j] /\ queue[n] = order[n] /\ order[n] \in Nat
      BY <1>1, <2>1 DEF QueueMatchesStatus, TypeOK
    <2>3. n \in Waiting(k)
      BY <1>1, <1>9, <2>2 DEF Waiting, Absent
    <2> QED
      BY <2>2, <2>3 DEF Claim, IsHead
  <1>10. Cardinality(Board!RunningOf(k)) < Limit(k)
    <2> DEFINE P == {n \in Jobs : rec[n].status = "PROCESSING" /\ KindOf[n] = k}
    <2>1. Board!RunningOf(k) = P
      BY StateOfRecord DEF Board!RunningOf, boardState, TypeOK, JobRecord, Statuses,
                           ACTIVE_STATUSES, IsTerminal
    <2>2. IsFiniteSet(P) /\ Cardinality(P) <= Cardinality(Occupied(k))
      BY RunningHoldSlots
    <2>3. Cardinality(P) \in Nat /\ Cardinality(Occupied(k)) \in Nat /\ Limit(k) \in Nat
      BY <2>2, FS_CardinalityType, OccupiedFinite, LimitAssumption DEF Limit
    <2> HIDE DEF P
    <2> QED
      BY <2>1, <2>2, <2>3 DEF Claim, HasRoom
  <1>11. /\ \A n \in Jobs : KindOf[n] = KindOf[j] /\ boardState[n] = "waiting"
                            => order[j] <= order[n]
         /\ Board!Cardinality(Board!RunningOf(KindOf[j])) < Limit(KindOf[j])
    BY <1>1, <1>9, <1>10 DEF Cardinality, Board!Cardinality, IsFiniteSet, Board!IsFiniteSet
  <1> QED
    BY <1>5, <1>6, <1>7, <1>8, <1>11 DEF Board!Start

\* A job in execution whose record is ended is ended on the board, unless
\* it was canceled with any outcome but COMPLETED.
LEMMA TerminateEnds ==
    ASSUME BoardInv, NEW j \in Jobs, rec[j].status = "PROCESSING",
           NEW e \in FinalEvents, rec[j].cancel => e.status # "COMPLETED",
           rec' = [rec EXCEPT ![j] = Terminate(rec[j], e)],
           UNCHANGED <<ignored, sequence, order>>
    PROVE  Board!End(j, e.status)
  <1> USE DEF BoardInv, StoreInv
  <1>0. rec[j] \in JobRecord
    BY DEF TypeOK
  <1>1. /\ Terminate(rec[j], e) \in JobRecord
        /\ Terminate(rec[j], e).status = e.status
        /\ Terminate(rec[j], e).event = e
        /\ Terminate(rec[j], e).cancel = rec[j].cancel
        /\ Terminate(rec[j], e).published = rec[j].published
        /\ e.status \in TERMINAL_STATUSES
    BY <1>0, TerminateType DEF FinalEvents
  <1> DEFINE r == Terminate(rec[j], e)
  <1> HIDE DEF r
  <1>2. /\ boardState' = [boardState EXCEPT ![j] = "ended"]
        /\ outcomes' = [outcomes EXCEPT ![j] = e.status]
    <2>1. /\ rec' = [rec EXCEPT ![j] = r] /\ r \in JobRecord
          /\ IsTerminal(r) /\ r.status # "ABSENT" /\ r.event.status = e.status
      BY <1>1 DEF r, IsTerminal, TERMINAL_STATUSES
    <2>2. TypeOK /\ ignored' = ignored
      OBVIOUS
    <2>3. /\ IsTerminal(r) => boardState' = [boardState EXCEPT ![j] = "ended"]
          /\ outcomes' = [outcomes EXCEPT ![j] = r.event.status]
      BY <2>1, <2>2, BoardMove, Zenon
    <2> QED
      BY <2>1, <2>3
  <1>3. canceledJobs' = canceledJobs /\ publishedJobs' = publishedJobs
    <2>1. \A n \in Jobs : /\ rec'[n].cancel = rec[n].cancel
                          /\ rec'[n].published = rec[n].published
      BY <1>1 DEF TypeOK
    <2> QED
      BY <2>1 DEF canceledJobs, publishedJobs
  <1>4. boardState[j] = "running" /\ (j \in canceledJobs => e.status # "COMPLETED")
    BY StateOfRecord DEF boardState, canceledJobs
  <1> QED
    BY <1>2, <1>3, <1>4 DEF Board!End

\* A claim handed back waits again at its place, or ends when it was canceled
\* in the meantime.
LEMMA ReturnGivesBack ==
    ASSUME BoardInv, NEW j \in Jobs, NEW o, ReturnUnstarted(j, o)
    PROVE  Board!GiveBack(j) \/ Board!End(j, "CANCELED")
  <1> USE DEF BoardInv, StoreInv
  <1> DEFINE back == [rec[j] EXCEPT !.status = "QUEUED", !.owner = NoOwner,
                                    !.leaseLeft = 0, !.timeLeft = 0]
  <1>1. rec[j] \in JobRecord /\ rec[j].status = "PROCESSING"
    BY DEF TypeOK, ReturnUnstarted, Owns
  <1>2. UNCHANGED <<ignored, sequence, order>>
    BY DEF ReturnUnstarted, Change, ChangeIn, registry
  <1>3. CASE rec[j].cancel
    <2>1. rec' = [rec EXCEPT ![j] = Terminate(rec[j], Canceled)]
      BY <1>3 DEF ReturnUnstarted, Change, ChangeIn
    <2> QED
      BY <1>1, <1>2, <2>1, CanceledType, TerminateEnds
  <1>4. CASE ~rec[j].cancel
    <2>1. rec' = [rec EXCEPT ![j] = back]
      BY <1>4 DEF ReturnUnstarted, Change, ChangeIn
    <2>2. /\ back \in JobRecord /\ back.status = "QUEUED"
          /\ back.event = rec[j].event /\ back.cancel = rec[j].cancel
          /\ back.published = rec[j].published
      BY <1>1 DEF JobRecord, Statuses, ACTIVE_STATUSES, NoOwner
    <2> HIDE DEF back
    <2>3. boardState' = [boardState EXCEPT ![j] = "waiting"]
      BY <1>2, <2>1, <2>2, BoardMove
    <2>4. canceledJobs' = canceledJobs /\ outcomes' = outcomes
          /\ publishedJobs' = publishedJobs
      <3>1. \A n \in Jobs : /\ rec'[n].cancel = rec[n].cancel
                            /\ rec'[n].event = rec[n].event
                            /\ rec'[n].published = rec[n].published
        BY <2>1, <2>2 DEF TypeOK
      <3> QED
        BY <3>1 DEF canceledJobs, outcomes, publishedJobs
    <2>5. boardState[j] = "running" /\ j \notin canceledJobs
      BY <1>1, <1>4, StateOfRecord DEF boardState, canceledJobs
    <2> QED
      BY <1>2, <2>3, <2>4, <2>5 DEF Board!GiveBack
  <1> QED
    BY <1>3, <1>4

\* Whatever an execution hands in, its job ends, canceled jobs not COMPLETED.
LEMMA FinishEnds ==
    ASSUME BoardInv, NEW j \in Jobs, NEW o, NEW out \in Outcomes, Finish(j, o, out)
    PROVE  \E how \in Board!Ends : Board!End(j, how)
  <1> USE DEF BoardInv, StoreInv
  <1> DEFINE e == IF rec[j].cancel THEN Canceled ELSE EnforceSizeLimit(out)
  <1>1. e \in FinalEvents /\ (rec[j].cancel => e.status # "COMPLETED")
    BY CanceledType, SizeLimitType
  <1>2. /\ rec[j].status = "PROCESSING"
        /\ rec' = [rec EXCEPT ![j] = Terminate(rec[j], e)]
        /\ UNCHANGED <<ignored, sequence, order>>
    BY DEF Finish, Owns, Change, ChangeIn, registry
  <1> HIDE DEF e
  <1>3. Board!End(j, e.status)
    BY <1>1, <1>2, TerminateEnds
  <1>4. e.status \in Board!Ends
    BY <1>1 DEF FinalEvents, TERMINAL_STATUSES, Board!Ends
  <1> QED
    BY <1>3, <1>4

\* recover ends a job as FAILED, under either image.
LEMMA RecoveryEnds ==
    ASSUME BoardInv, NEW j \in Jobs, Recover(j) \/ LegacyRecover(j)
    PROVE  Board!End(j, "FAILED")
  <1> USE DEF BoardInv, StoreInv
  <1> DEFINE e == [status |-> "FAILED",
                   code |-> IF rec[j].timeLeft = 0 THEN "TIMEOUT" ELSE "WORKER_DEAD"]
  <1>1. e \in FinalEvents /\ e.status = "FAILED"
    BY DEF FinalEvents, TERMINAL_STATUSES, Codes
  <1>2. /\ rec[j].status = "PROCESSING"
        /\ rec' = [rec EXCEPT ![j] = Terminate(rec[j], e)]
        /\ UNCHANGED <<ignored, sequence, order>>
    BY DEF Recover, LegacyRecover, Abandoned, Change, ChangeIn, registry
  <1> HIDE DEF e
  <1>3. Board!End(j, e.status)
    BY <1>1, <1>2, TerminateEnds
  <1> QED
    BY <1>1, <1>3

\* A cancel ends a waiting job and marks a running one.
LEMMA CancelCancels ==
    ASSUME BoardInv, NEW j \in Jobs, Cancel(j)
    PROVE  Board!CancelWaiting(j) \/ Board!CancelRunning(j)
  <1> USE DEF BoardInv, StoreInv
  <1> DEFINE asked == [rec[j] EXCEPT !.cancel = TRUE]
  <1> DEFINE r == IF asked.status = "QUEUED" THEN Terminate(asked, Canceled) ELSE asked
  <1>1. rec[j] \in JobRecord /\ rec[j].status \in ACTIVE_STATUSES
    BY DEF TypeOK, Cancel
  <1>2. /\ asked \in JobRecord /\ asked.status = rec[j].status
        /\ asked.event = rec[j].event /\ asked.cancel = TRUE
        /\ asked.published = rec[j].published
    BY <1>1 DEF JobRecord
  <1>3. /\ rec' = [rec EXCEPT ![j] = r]
        /\ UNCHANGED <<ignored, sequence, order>>
    BY DEF Cancel, Change, ChangeIn, registry
  <1> HIDE DEF asked
  <1>4. /\ r \in JobRecord /\ r.cancel = TRUE /\ r.published = rec[j].published
        /\ rec[j].status = "QUEUED" => r.status = "CANCELED" /\ r.event.status = "CANCELED"
        /\ rec[j].status = "PROCESSING" => r.status = "PROCESSING" /\ r.event = rec[j].event
    BY <1>2, CanceledType, TerminateType
  <1> HIDE DEF r
  <1>5. r.status # "ABSENT"
    BY <1>1, <1>4 DEF ACTIVE_STATUSES
  <1>6. canceledJobs' = canceledJobs \cup {j}
    BY <1>3, <1>4, <1>5, BoardMove
  <1>7. publishedJobs' = publishedJobs
    <2>1. \A n \in Jobs : rec'[n].published = rec[n].published
      BY <1>3, <1>4 DEF TypeOK
    <2> QED
      BY <2>1 DEF publishedJobs
  <1>8. CASE rec[j].status = "QUEUED"
    <2>1. IsTerminal(r)
      BY <1>4, <1>8 DEF IsTerminal, TERMINAL_STATUSES
    <2>2. /\ boardState' = [boardState EXCEPT ![j] = "ended"]
          /\ outcomes' = [outcomes EXCEPT ![j] = r.event.status]
      BY <1>3, <1>4, <1>5, <2>1, BoardMove
    <2>3. boardState[j] = "waiting"
      BY <1>8, StateOfRecord DEF boardState
    <2> QED
      BY <1>3, <1>4, <1>6, <1>7, <1>8, <2>2, <2>3 DEF Board!CancelWaiting
  <1>9. CASE rec[j].status = "PROCESSING"
    <2>1. boardState[j] = "running"
      BY <1>9, StateOfRecord DEF boardState
    <2>2. /\ boardState' = [boardState EXCEPT ![j] = "running"]
          /\ outcomes' = [outcomes EXCEPT ![j] = r.event.status]
      BY <1>3, <1>4, <1>5, <1>9, BoardMove
    <2>3. boardState' = boardState
      BY <2>1, <2>2 DEF boardState
    <2>4. r.event.status = outcomes[j]
      BY <1>4, <1>9 DEF outcomes
    <2>5. outcomes' = outcomes
      BY <2>2, <2>4 DEF outcomes
    <2> QED
      BY <1>3, <1>6, <1>7, <2>1, <2>3, <2>5 DEF Board!CancelRunning
  <1> QED
    BY <1>1, <1>8, <1>9 DEF ACTIVE_STATUSES

\* An acknowledged result is delivered: its job has ended.
LEMMA AcknowledgeDelivers ==
    ASSUME BoardInv, NEW j \in Jobs, NEW p \in Publishers, AcknowledgeResult(j, p)
    PROVE  Board!Deliver(j)
  <1> USE DEF BoardInv, StoreInv
  <1> DEFINE r == [rec[j] EXCEPT !.published = TRUE]
  <1>1. rec[j] \in JobRecord /\ IsTerminal(rec[j])
    BY JobsAssumption DEF TypeOK, AcknowledgeResult, OnlyEndedArePublished
  <1>2. rec' = [rec EXCEPT ![j] = r] /\ UNCHANGED <<ignored, sequence, order>>
    BY DEF AcknowledgeResult, TypeOK, registry
  <1>3. /\ r.status = rec[j].status /\ r.event = rec[j].event
        /\ r.cancel = rec[j].cancel /\ r.published = TRUE
    BY <1>1 DEF JobRecord
  <1> HIDE DEF r
  <1>4. \A n \in Jobs : /\ rec'[n].status = rec[n].status
                        /\ rec'[n].event = rec[n].event
                        /\ rec'[n].cancel = rec[n].cancel
                        /\ rec'[n].published <=> (rec[n].published \/ n = j)
    BY <1>2, <1>3 DEF TypeOK
  <1>5. boardState' = boardState
    <2>1. \A n \in Jobs : StateOf(n)' = StateOf(n)
      BY <1>2, <1>4 DEF StateOf, IsTerminal
    <2> QED
      BY <2>1 DEF boardState
  <1>6. /\ canceledJobs' = canceledJobs /\ outcomes' = outcomes
        /\ publishedJobs' = publishedJobs \cup {j}
    BY <1>4 DEF canceledJobs, outcomes, publishedJobs
  <1>7. boardState[j] = "ended"
    BY <1>1, StateOfRecord DEF boardState
  <1> QED
    BY <1>2, <1>5, <1>6, <1>7 DEF Board!Deliver

\* Heartbeats, progress, claims of results, freed slots and time do not show
\* on the board.
LEMMA UnseenSteps ==
    ASSUME BoardInv,
           \/ \E j \in Jobs : \E o : Heartbeat(j, o)
           \/ \E j \in Jobs : \E o, d : Report(j, o, d)
           \/ \E j \in Jobs, p \in Publishers : ClaimResult(j, p)
           \/ \E k \in Kinds : ClearStaleSlots(k)
           \/ Tick
    PROVE  UNCHANGED Board!boardVars
  <1> USE DEF BoardInv, StoreInv
  <1>0. \A n \in Jobs : rec[n] \in JobRecord
    BY DEF TypeOK
  <1>1. ASSUME NEW j \in Jobs, NEW r, rec' = [rec EXCEPT ![j] = r],
               r.status = rec[j].status, r.event = rec[j].event,
               r.cancel = rec[j].cancel, r.published = rec[j].published,
               UNCHANGED registry
        PROVE  UNCHANGED Board!boardVars
    BY <1>1, BoardStutter DEF TypeOK, registry
  <1>2. ASSUME NEW j \in Jobs, NEW o, Heartbeat(j, o)
        PROVE  UNCHANGED Board!boardVars
    BY <1>0, <1>1, <1>2 DEF Heartbeat, Change, ChangeIn, JobRecord
  <1>3. ASSUME NEW j \in Jobs, NEW o, NEW d, Report(j, o, d)
        PROVE  UNCHANGED Board!boardVars
    BY <1>0, <1>1, <1>3 DEF Report, Change, ChangeIn, JobRecord
  <1>4. ASSUME NEW j \in Jobs, NEW p \in Publishers, ClaimResult(j, p)
        PROVE  UNCHANGED Board!boardVars
    BY <1>0, <1>1, <1>4 DEF ClaimResult, Change, ChangeIn, JobRecord
  <1>5. ASSUME NEW k \in Kinds, ClearStaleSlots(k)
        PROVE  UNCHANGED Board!boardVars
    BY <1>5, BoardStutter DEF ClearStaleSlots, registry
  <1>6. CASE Tick
    BY <1>0, <1>6, BoardStutter DEF Tick, JobRecord, registry
  <1> QED
    BY <1>2, <1>3, <1>4, <1>5, <1>6

\* Every step of the store is a step of the board or changes nothing there.
LEMMA NextOnBoard ==
    BoardInv /\ [Next]_vars => [Board!BoardNext]_(Board!boardVars)
  <1> SUFFICES ASSUME BoardInv, [Next]_vars
               PROVE  Board!BoardNext \/ UNCHANGED Board!boardVars
    OBVIOUS
  <1>1. ASSUME NEW j \in Jobs, RegisterBusy(j) PROVE Board!BoardNext
    BY <1>1, RegisterBusyRefuses DEF Board!BoardNext
  <1>2. ASSUME NEW j \in Jobs, NEW valid \in BOOLEAN, RegisterAccepted(j, valid)
        PROVE  Board!BoardNext
    BY <1>2, RegisterAccepts DEF Board!BoardNext
  <1>3. ASSUME NEW k \in Kinds, NEW j \in Jobs, Claim(k, j) PROVE Board!BoardNext
    BY <1>3, ClaimStarts DEF Board!BoardNext
  <1>4. ASSUME NEW j \in Jobs, NEW o, ReturnUnstarted(j, o) PROVE Board!BoardNext
    BY <1>4, ReturnGivesBack DEF Board!BoardNext, Board!Ends
  <1>5. ASSUME NEW j \in Jobs, NEW o, NEW out \in Outcomes, Finish(j, o, out)
        PROVE  Board!BoardNext
    BY <1>5, FinishEnds DEF Board!BoardNext
  <1>6. ASSUME NEW j \in Jobs, Cancel(j) PROVE Board!BoardNext
    BY <1>6, CancelCancels DEF Board!BoardNext
  <1>7. ASSUME NEW j \in Jobs, Recover(j) \/ LegacyRecover(j) PROVE Board!BoardNext
    BY <1>7, RecoveryEnds DEF Board!BoardNext, Board!Ends
  <1>8. ASSUME NEW j \in Jobs, NEW p \in Publishers, AcknowledgeResult(j, p)
        PROVE  Board!BoardNext
    BY <1>8, AcknowledgeDelivers DEF Board!BoardNext
  <1>9. ASSUME UNCHANGED vars PROVE UNCHANGED Board!boardVars
    BY <1>9, BoardStutter DEF vars
  <1> QED
    BY <1>1, <1>2, <1>3, <1>4, <1>5, <1>6, <1>7, <1>8, <1>9, UnseenSteps DEF Next

\* RedisJobStore as a whole is the board that JobBoard describes: requests of a
\* line are refused while it is busy, jobs start in the order of acceptance and
\* within the limits, end once, and are delivered afterwards, whatever the
\* callers do and however late they come.
THEOREM StoreImplementsBoard == Spec => ImplementsBoard
  <1>1. Init => Board!BoardInit
    BY BoardInitially
  <1>2. Init => LatestInv
    BY JobsAssumption DEF Init, LatestInv, NoRecord
  <1>3. Init => SlotInv
    BY InitSlots
  <1>4. StoreInv /\ SlotInv /\ [Next]_vars => SlotInv'
    BY NextKeepsSlots
  <1>5. StoreInv /\ LatestInv /\ [Next]_vars => LatestInv'
    BY NextKeepsLatest
  <1>6. StoreInv /\ SlotInv /\ LatestInv /\ [Next]_vars
        => [Board!BoardNext]_(Board!boardVars)
    BY NextOnBoard DEF BoardInv
  <1> QED
    BY <1>1, <1>2, <1>3, <1>4, <1>5, <1>6, StoreInvariant, PTL
       DEF Spec, ImplementsBoard, Board!BoardSpec

=============================================================================
