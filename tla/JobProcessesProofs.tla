------------------------- MODULE JobProcessesProofs -------------------------
(*****************************************************************************)
(* Theorems about the processes that work on the jobs: the runners and their *)
(* children (JobRunners), the two Kafka tasks of app/infra/kafka.py, that    *)
(* take requests in (KafkaIntake) and publish results (ResultPublisher), the *)
(* photo batches that runners take ahead of process (PhotoBatches), and what *)
(* the runners of one host share and keep ready (PlaceIndexFile,             *)
(* StandbyChildren).  They hold for every set of jobs, runners, offsets,     *)
(* consumers, publishers and batches, every limit and size of the pools,     *)
(* every assignment of index versions to the runners, and any number of      *)
(* stops, kills, faults and lost replies.                                    *)
(*****************************************************************************)
EXTENDS JobRunners, KafkaIntake, ResultPublisher, PhotoBatches, StandbyChildren,
        JobStoreProofs

(*****************************************************************************)
(* The runners and their children (JobRunners).                              *)
(*****************************************************************************)

-----------------------------------------------------------------------------
(* What the steps of the store do to an owner.                             *)

\* The steps that the processes make of the store, without return_unstarted.
StoreStep ==
    \/ UNCHANGED vars
    \/ Tick
    \/ \E j \in Jobs : \/ RegisterBusy(j) \/ RegisterAccepted(j, TRUE)
                       \/ Cancel(j) \/ Recover(j)
    \/ \E k \in Kinds, j \in Jobs : Claim(k, j)
    \/ \E j \in Jobs : \E o \in 1 .. claims[j] :
           \/ Heartbeat(j, o)
           \/ \E d \in 0 .. TotalSteps + 1 : Report(j, o, d)
           \/ \E out \in Outcomes : Finish(j, o, out)

\* None of them gives a job to an earlier owner, or puts one back that has
\* started.
LEMMA StoreStepKeeps ==
    ASSUME TypeOK, StoreStep, NEW n \in Jobs
    PROVE  /\ claims[n] \in Nat /\ claims'[n] \in Nat /\ claims[n] <= claims'[n]
           /\ \A o \in 1 .. claims[n] : Owns(rec'[n], o) => Owns(rec[n], o)
           /\ rec'[n].status \in {"ABSENT", "QUEUED"}
              => rec[n].status \in {"ABSENT", "QUEUED"}
  <1> USE DEF TypeOK
  <1>1. CASE UNCHANGED vars
    BY <1>1 DEF vars
  <1>2. CASE Tick
    <2>1. claims' = claims
      BY <1>2 DEF Tick
    <2>2. /\ rec'[n].status = rec[n].status /\ rec'[n].owner = rec[n].owner
          /\ rec'[n].leaseLeft = Closer(rec[n].leaseLeft)
          /\ rec'[n].timeLeft = Closer(rec[n].timeLeft)
          /\ rec[n].leaseLeft \in Nat /\ rec[n].timeLeft \in Nat
      BY <1>2 DEF Tick, JobRecord
    <2> QED
      BY <2>1, <2>2 DEF Owns, Closer
  <1>3. ASSUME NEW j \in Jobs, RegisterBusy(j) PROVE claims' = claims /\ rec' = rec
    BY <1>3 DEF RegisterBusy
  <1>4. ASSUME NEW j \in Jobs, RegisterAccepted(j, TRUE)
        PROVE  /\ claims' = claims /\ \A i \in Jobs \ {j} : rec'[i] = rec[i]
               /\ rec'[j].status = "QUEUED" /\ rec[j].status = "ABSENT"
    BY <1>4, NewRecordType DEF RegisterAccepted, Unseen
  <1>5. ASSUME NEW j \in Jobs, Cancel(j)
        PROVE  /\ claims' = claims /\ \A i \in Jobs \ {j} : rec'[i] = rec[i]
               /\ \/ rec[j].status = "QUEUED" /\ rec'[j].status = "CANCELED"
                  \/ rec'[j].status = rec[j].status /\ rec'[j].owner = rec[j].owner
                     /\ rec'[j].leaseLeft = rec[j].leaseLeft
                     /\ rec'[j].timeLeft = rec[j].timeLeft
    <2>1. rec[j] \in JobRecord
      OBVIOUS
    <2> QED
      BY <1>5, <2>1 DEF Cancel, Change, ChangeIn, Terminate, Canceled, ACTIVE_STATUSES, JobRecord
  <1>6. ASSUME NEW j \in Jobs, Recover(j)
        PROVE  /\ claims' = claims /\ \A i \in Jobs \ {j} : rec'[i] = rec[i]
               /\ rec'[j].status = "FAILED"
    BY <1>6, AbandonedType DEF Recover, Change, ChangeIn
  <1>7. ASSUME NEW k \in Kinds, NEW j \in Jobs, Claim(k, j)
        PROVE  /\ claims' = [claims EXCEPT ![j] = claims[j] + 1]
               /\ \A i \in Jobs \ {j} : rec'[i] = rec[i]
               /\ rec'[j].status = "PROCESSING" /\ rec'[j].owner = claims[j] + 1
    BY <1>7 DEF Claim, JobRecord
  <1>8. ASSUME NEW j \in Jobs, NEW o \in 1 .. claims[j],
               Heartbeat(j, o) \/ \E d \in 0 .. TotalSteps + 1 : Report(j, o, d)
        PROVE  /\ claims' = claims /\ \A i \in Jobs \ {j} : rec'[i] = rec[i]
               /\ Owns(rec[j], o)
               /\ rec'[j].status = rec[j].status /\ rec'[j].owner = rec[j].owner
    <2>1. rec[j] \in JobRecord
      OBVIOUS
    <2>2. CASE Heartbeat(j, o)
      BY <2>1, <2>2 DEF Heartbeat, Change, ChangeIn, JobRecord
    <2>3. CASE \E d \in 0 .. TotalSteps + 1 : Report(j, o, d)
      BY <2>1, <2>3 DEF Report, Change, ChangeIn, JobRecord
    <2> QED
      BY <1>8, <2>2, <2>3
  <1>9. ASSUME NEW j \in Jobs, NEW o \in 1 .. claims[j], NEW out \in Outcomes,
               Finish(j, o, out)
        PROVE  /\ claims' = claims /\ \A i \in Jobs \ {j} : rec'[i] = rec[i]
               /\ rec'[j].status \in TERMINAL_STATUSES
    <2>1. rec[j] \in JobRecord /\ EnforceSizeLimit(out) \in FinalEvents
      BY SizeLimitType
    <2> QED
      BY <1>9, <2>1, CanceledType, TerminateType DEF Finish, Change, ChangeIn, FinalEvents
  <1> HIDE DEF TypeOK
  <1>10. claims \in [Jobs -> Nat]
    BY DEF TypeOK
  <1>11. CASE \E j \in Jobs : \/ RegisterBusy(j) \/ RegisterAccepted(j, TRUE)
                             \/ Cancel(j) \/ Recover(j)
    <2>1. PICK j \in Jobs : \/ RegisterBusy(j) \/ RegisterAccepted(j, TRUE)
                            \/ Cancel(j) \/ Recover(j)
      BY <1>11
    <2>2. claims' = claims /\ (n # j => rec'[n] = rec[n])
      BY <1>3, <1>4, <1>5, <1>6, <2>1
    <2>3. \/ rec'[j] = rec[j]
          \/ rec'[j].status = "QUEUED" /\ rec[j].status = "ABSENT"
          \/ rec'[j].status \in {"CANCELED", "FAILED"}
          \/ rec'[j].status = rec[j].status /\ rec'[j].owner = rec[j].owner
             /\ rec'[j].leaseLeft = rec[j].leaseLeft
             /\ rec'[j].timeLeft = rec[j].timeLeft
      BY <1>3, <1>4, <1>5, <1>6, <2>1
    <2> QED
      BY <1>10, <2>2, <2>3 DEF Owns
  <1>12. CASE \E k \in Kinds, j \in Jobs : Claim(k, j)
    BY <1>7, <1>10, <1>12 DEF Owns
  <1>13. CASE \E j \in Jobs : \E o \in 1 .. claims[j] :
                 \/ Heartbeat(j, o)
                 \/ \E d \in 0 .. TotalSteps + 1 : Report(j, o, d)
                 \/ \E out \in Outcomes : Finish(j, o, out)
    BY <1>8, <1>9, <1>10, <1>13 DEF Owns, TERMINAL_STATUSES
  <1> QED
    BY <1>1, <1>2, <1>11, <1>12, <1>13 DEF StoreStep

\* return_unstarted ends the ownership of its job and leaves the others alone.
LEMMA ReturnKeeps ==
    ASSUME TypeOK, NEW j \in Jobs, NEW o, ReturnUnstarted(j, o)
    PROVE  /\ claims' = claims /\ \A i \in Jobs \ {j} : rec'[i] = rec[i]
           /\ rec'[j].status \in {"QUEUED", "CANCELED"}
  <1>1. rec[j] \in JobRecord
    BY DEF TypeOK
  <1>2. Terminate(rec[j], Canceled).status = "CANCELED"
    BY <1>1, CanceledType, TerminateType
  <1> QED
    BY <1>1, <1>2 DEF ReturnUnstarted, Change, ChangeIn, TypeOK, JobRecord

-----------------------------------------------------------------------------
(* The invariant.                                                          *)

Runs == [pc : RunnerPCs, job : Jobs \cup {NoJob}, token : Nat]
Children == [pc : ChildPCs, out : {"NONE", "COMPLETED", "FAILED", "CANCELED"}]

\* A token that a runner holds was issued by a claim of its job, and a
\* runner at work has one; it has a child exactly while it supervises, and the
\* child has an outcome when it comes to save one.
RunsHaveClaims ==
    \A r \in Runners :
        /\ run[r].job # NoJob => run[r].token \in 1 .. claims[run[r].job]
        /\ run[r].pc \in {"claiming", "starting", "supervising", "canceling"}
           => run[r].job # NoJob
        /\ (child[r].pc # "none") = (run[r].pc = "supervising")
        /\ child[r].pc = "saving" => child[r].out # "NONE"

\* No two runners got the same token of a job.
TokensDiffer ==
    \A r, q \in Runners :
        r # q /\ run[r].job # NoJob /\ run[r].job = run[q].job
        => run[r].token # run[q].token

\* A runner that has not come as far as the handler.
Fresh(r) == run[r].pc \in {"claiming", "starting"} \/ child[r].pc \in {"boot", "check"}

\* Once its handler was started a job is never queued again, and its owner,
\* if it has one, is past the start.
StartIsOwned ==
    \A j \in Jobs :
        starts[j] > 0 => /\ rec[j].status \notin {"ABSENT", "QUEUED"}
                         /\ \A r \in Runners : run[r].job = j /\ Holds(r) => ~ Fresh(r)

RunInv == /\ RunTypeOK
          /\ RunsHaveClaims
          /\ TokensDiffer
          /\ DrainLeavesNothing
          /\ StartIsOwned
          /\ HandlerStartsOnce

-----------------------------------------------------------------------------
(* The steps of the processes.                                             *)

\* finish, called with one of the outcomes that children hand in, ends the
\* ownership.
LEMMA FinishStep ==
    ASSUME RunTypeOK, RunsHaveClaims, NEW r \in Runners, NEW status, NEW code,
           [status |-> status, code |-> code, fits |-> TRUE] \in Handed,
           FinishCall(r, status, code)
    PROVE  /\ StoreStep
           /\ run[r].job \in Jobs => ~ Owns(rec'[run[r].job], run[r].token)
  <1> DEFINE out == [status |-> status, code |-> code, fits |-> TRUE]
  <1>1. out \in Outcomes /\ EnforceSizeLimit(out) \in FinalEvents
    BY RunnersAssumption, SizeLimitType
  <1> HIDE DEF out
  <1>2. CASE Holds(r)
    <2>1. run[r].job \in Jobs /\ run[r].token \in 1 .. claims[run[r].job]
      BY <1>2 DEF Holds, RunTypeOK, RunsHaveClaims
    <2>2. Finish(run[r].job, run[r].token, out)
      BY <1>2 DEF FinishCall, out
    <2>3. StoreStep
      BY <1>1, <2>1, <2>2 DEF StoreStep
    <2>4. rec[run[r].job] \in JobRecord
      BY <2>1 DEF RunTypeOK, TypeOK
    <2>5. rec'[run[r].job].status \in TERMINAL_STATUSES
      BY <1>1, <2>1, <2>2, <2>4, CanceledType, TerminateType
         DEF Finish, Change, ChangeIn, FinalEvents, RunTypeOK, TypeOK
    <2> QED
      BY <2>3, <2>5 DEF Owns, TERMINAL_STATUSES
  <1>3. CASE ~ Holds(r)
    <2>1. UNCHANGED vars
      BY <1>3 DEF FinishCall
    <2> QED
      BY <1>3, <2>1, RunnersAssumption, JobsAssumption DEF StoreStep, Holds, vars
  <1> QED
    BY <1>2, <1>3

\* What a step of one process is to the others: it changes the state of its
\* own runner and child alone.  A runner takes a new claim, lets go, or goes
\* on with the claim that it has.
NewClaim(r) ==
    \E j \in Jobs : /\ Claim(RunnerKind[r], j)
                    /\ run'[r] = [pc |-> "claiming", job |-> j, token |-> claims[j] + 1]
                    /\ child'[r] = child[r] /\ run[r].pc = "idle"

LetsGo(r) ==
    /\ run'[r].job = NoJob /\ run'[r].token = NoOwner
    /\ run'[r].pc \in {"idle", "drained", "gone"} /\ child'[r].pc = "none"

GoesOn(r) ==
    /\ run'[r].job = run[r].job /\ run'[r].token = run[r].token
    /\ run'[r].pc \in {"claiming", "starting", "supervising", "canceling"}
       => run[r].pc \in {"claiming", "starting", "supervising", "canceling"}
    /\ (child'[r].pc # "none") = (run'[r].pc = "supervising")
    /\ child'[r].pc = "saving" => child'[r].out # "NONE"
    /\ run'[r].pc = "drained" => \/ run[r].pc = "drained"
                                 \/ run[r].job \in Jobs
                                    /\ ~ Owns(rec'[run[r].job], run[r].token)

Own(r) ==
    /\ run' = [run EXCEPT ![r] = run'[r]] /\ run'[r] \in Runs
    /\ child' = [child EXCEPT ![r] = child'[r]] /\ child'[r] \in Children
    /\ stop' \in SUBSET Runners /\ stops' \in 0 .. MaxStops

\* The handler is started.
Starts(r) ==
    /\ Holds(r) /\ Fresh(r) /\ UNCHANGED <<vars, run>>
    /\ starts' = [starts EXCEPT ![run[r].job] = @ + 1]
    /\ child'[r].pc = "handler" /\ run[r].pc = "supervising"

LEMMA RunnerMoves ==
    ASSUME RunTypeOK, RunsHaveClaims, NEW r \in Runners, RunnerStep(r)
    PROVE  /\ Own(r) /\ starts' = starts
           /\ \/ NewClaim(r) \/ LetsGo(r)
              \/ GoesOn(r) /\ (Fresh(r)' => Fresh(r))
           /\ \/ StoreStep
              \/ Fresh(r) /\ Holds(r) /\ GiveBack(r)
  <1>0. /\ run \in [Runners -> Runs] /\ child \in [Runners -> Children]
        /\ stop \in SUBSET Runners /\ stops \in 0 .. MaxStops /\ MaxStops \in Nat
        /\ run[r] \in Runs /\ child[r] \in Children
    BY RunnersAssumption, LimitAssumption, TimeAssumption DEF RunTypeOK, Runs, Children
  <1>i. /\ (child[r].pc # "none") = (run[r].pc = "supervising")
        /\ child[r].pc = "saving" => child[r].out # "NONE"
    BY DEF RunsHaveClaims
  <1>n. NoRun \in Runs /\ NoChild \in Children /\ [NoRun EXCEPT !.pc = "drained"] \in Runs
        /\ [NoRun EXCEPT !.pc = "gone"] \in Runs
    BY DEF NoRun, NoChild, Runs, Children, RunnerPCs, ChildPCs, NoOwner
  <1>1. ASSUME NEW j \in Jobs, RunnerClaims(r, j)
        PROVE  Own(r) /\ starts' = starts /\ NewClaim(r) /\ StoreStep
    <2>1. claims[j] \in Nat
      BY DEF RunTypeOK, TypeOK
    <2>2. RunnerKind[r] \in Kinds
      BY RunnersAssumption
    <2>3. StoreStep /\ starts' = starts
      BY <1>1, <2>2 DEF RunnerClaims, StoreStep
    <2>4. NewClaim(r)
      BY <1>0, <1>1 DEF RunnerClaims, NewClaim
    <2>5. Own(r)
      BY <1>0, <1>1, <2>1 DEF RunnerClaims, Own, Runs, RunnerPCs
    <2> QED
      BY <2>3, <2>4, <2>5
  <1>2. CASE ClaimReturns(r) \/ Spawn(r)
    <2>1. starts' = starts /\ StoreStep
      BY <1>2 DEF ClaimReturns, Spawn, StoreStep
    <2>3. Own(r)
      <3>1. CASE ClaimReturns(r)
        BY <1>0, <3>1 DEF ClaimReturns, Own, Runs, RunnerPCs
      <3>2. CASE Spawn(r)
        BY <1>0, <3>2 DEF Spawn, Own, Runs, Children, RunnerPCs, ChildPCs
      <3> QED
        BY <1>2, <3>1, <3>2
    <2>2. GoesOn(r) /\ (Fresh(r)' => Fresh(r))
      BY <1>0, <1>i, <1>2 DEF ClaimReturns, Spawn, GoesOn, Fresh, Runs, Children
    <2> QED
      BY <2>1, <2>2, <2>3
  <1>3. CASE ClaimReplyLost(r) \/ BeatRefused(r) \/ RunnerRetries(r) \/ StoppedIdle(r)
             \/ Killed(r) \/ Restarted(r)
    <2>1. Own(r) /\ starts' = starts
      BY <1>0, <1>n, <1>3 DEF ClaimReplyLost, BeatRefused, RunnerRetries, StoppedIdle, Killed,
                        Restarted, Own
    <2>2. UNCHANGED vars
      BY <1>3 DEF ClaimReplyLost, BeatRefused, RunnerRetries, StoppedIdle, Killed, Restarted
    <2>3. LetsGo(r)
      BY <1>0, <1>i, <1>3 DEF ClaimReplyLost, BeatRefused, RunnerRetries, StoppedIdle, Killed,
                        Restarted, LetsGo, NoRun, NoChild, Runs, Children
    <2> QED
      BY <2>1, <2>2, <2>3 DEF StoreStep
  <1>4. CASE Beat(r)
    <2>1. run[r].job \in Jobs /\ run[r].token \in 1 .. claims[run[r].job]
      BY <1>0, <1>4 DEF Beat, Holds, RunsHaveClaims, Runs
    <2>2. StoreStep
      BY <1>4, <2>1 DEF Beat, StoreStep
    <2>3. UNCHANGED procVars
      BY <1>4 DEF Beat
    <2> QED
      BY <1>0, <1>i, <2>2, <2>3 DEF procVars, Own, GoesOn, Fresh
  <1>5. CASE ChildReaped(r)
    <2>1. Own(r) /\ starts' = starts /\ LetsGo(r)
      BY <1>0, <1>n, <1>5 DEF ChildReaped, Own, LetsGo, NoRun, NoChild
    <2>2. StoreStep
      BY <1>5, FinishStep DEF ChildReaped, Handed
    <2> QED
      BY <2>1, <2>2
  <1>6. CASE StopRequested(r)
    BY <1>0, <1>i, <1>6 DEF StopRequested, Own, GoesOn, Fresh, StoreStep
  <1>7. CASE RunnerCanceled(r)
    BY <1>0, <1>n, <1>7 DEF RunnerCanceled, Own, GoesOn, Fresh, StoreStep, Runs, RunnerPCs, NoChild
  <1>8. CASE CancelStored(r)
    <2>1. Own(r) /\ starts' = starts
      BY <1>0, <1>8 DEF CancelStored, Own, Runs, RunnerPCs
    <2>2. run[r].job \in Jobs
      BY <1>0, <1>8 DEF CancelStored, RunsHaveClaims, Runs
    <2>3. StoreStep /\ ~ Owns(rec'[run[r].job], run[r].token)
      BY <1>8, <2>2, FinishStep DEF CancelStored, Handed
    <2>4. GoesOn(r) /\ (Fresh(r)' => Fresh(r))
      BY <1>0, <1>i, <1>8, <2>2, <2>3 DEF CancelStored, GoesOn, Fresh, Runs
    <2> QED
      BY <2>1, <2>3, <2>4
  <1>9. CASE GiveBack(r)
    <2>1. Own(r) /\ starts' = starts
      BY <1>0, <1>9 DEF GiveBack, Own, Runs, RunnerPCs
    <2>2. run[r].job \in Jobs /\ run[r].pc = "claiming"
      BY <1>0, <1>9 DEF GiveBack, RunsHaveClaims, Runs
    <2>3. /\ ~ Owns(rec'[run[r].job], run[r].token)
          /\ StoreStep \/ (Fresh(r) /\ Holds(r) /\ GiveBack(r))
      <3>1. CASE Holds(r)
        <4>1. rec'[run[r].job].status \in {"QUEUED", "CANCELED"}
          BY <1>9, <2>2, <3>1, ReturnKeeps DEF GiveBack, RunTypeOK
        <4> QED
          BY <1>9, <2>2, <3>1, <4>1 DEF Owns, Fresh
      <3>2. CASE ~ Holds(r)
        BY <1>9, <2>2, <3>2, JobsAssumption DEF GiveBack, StoreStep, Holds, vars
      <3> QED
        BY <3>1, <3>2
    <2>4. GoesOn(r) /\ (Fresh(r)' => Fresh(r))
      BY <1>0, <1>i, <1>9, <2>2, <2>3 DEF GiveBack, GoesOn, Fresh, Runs
    <2> QED
      BY <2>1, <2>3, <2>4
  <1> QED
    BY <1>1, <1>2, <1>3, <1>4, <1>5, <1>6, <1>7, <1>8, <1>9 DEF RunnerStep

LEMMA ChildMoves ==
    ASSUME RunTypeOK, RunsHaveClaims, NEW r \in Runners, ChildStep(r)
    PROVE  /\ Own(r) /\ GoesOn(r) /\ StoreStep
           /\ \/ starts' = starts /\ (Fresh(r)' => Fresh(r))
              \/ Starts(r)
  <1>0. /\ run \in [Runners -> Runs] /\ child \in [Runners -> Children]
        /\ stop \in SUBSET Runners /\ stops \in 0 .. MaxStops /\ MaxStops \in Nat
        /\ run[r] \in Runs /\ child[r] \in Children
    BY RunnersAssumption, LimitAssumption, TimeAssumption DEF RunTypeOK, Runs, Children
  <1>i. /\ (child[r].pc # "none") = (run[r].pc = "supervising")
        /\ child[r].pc = "saving" => child[r].out # "NONE"
    BY DEF RunsHaveClaims
  <1>1. CASE ChildBoots(r)
    BY <1>0, <1>i, <1>1 DEF ChildBoots, Own, GoesOn, StoreStep, Fresh, Children, ChildPCs
  <1>2. CASE ChildChecks(r)
    <2>1. Own(r) /\ StoreStep
      BY <1>0, <1>2 DEF ChildChecks, Own, StoreStep, Children, ChildPCs
    <2>2. GoesOn(r)
      BY <1>0, <1>i, <1>2 DEF ChildChecks, GoesOn, Children
    <2>3. (starts' = starts /\ (Fresh(r)' => Fresh(r))) \/ Starts(r)
      BY <1>0, <1>i, <1>2 DEF ChildChecks, Starts, Fresh, Children
    <2> QED
      BY <2>1, <2>2, <2>3
  <1>3. CASE ChildReports(r)
    <2>1. Own(r) /\ GoesOn(r) /\ starts' = starts /\ (Fresh(r)' => Fresh(r))
      BY <1>0, <1>i, <1>3 DEF ChildReports, Own, GoesOn, Fresh, Children, ChildPCs
    <2>2. StoreStep
      <3>1. CASE UNCHANGED vars
        BY <3>1 DEF StoreStep
      <3>2. CASE Holds(r) /\ \E d \in 0 .. TotalSteps + 1 : Report(run[r].job, run[r].token, d)
        <4>1. run[r].job \in Jobs /\ run[r].token \in 1 .. claims[run[r].job]
          BY <1>0, <3>2 DEF Holds, RunsHaveClaims, Runs
        <4> QED
          BY <3>2, <4>1 DEF StoreStep
      <3> QED
        BY <1>3, <3>1, <3>2 DEF ChildReports
    <2> QED
      BY <2>1, <2>2
  <1>4. ASSUME NEW out \in {"COMPLETED", "FAILED"}, HandlerEnds(r, out)
        PROVE  Own(r) /\ GoesOn(r) /\ StoreStep /\ starts' = starts /\ (Fresh(r)' => Fresh(r))
    BY <1>0, <1>i, <1>4 DEF HandlerEnds, Own, GoesOn, StoreStep, Fresh, Children, ChildPCs
  <1>5. CASE ChildSaves(r)
    <2>1. Own(r) /\ GoesOn(r) /\ starts' = starts /\ (Fresh(r)' => Fresh(r))
      BY <1>0, <1>i, <1>5 DEF ChildSaves, Own, GoesOn, Fresh, Children, ChildPCs
    <2>2. CASE child[r].out = "COMPLETED"
      <3>1. FinishCall(r, "COMPLETED", "RESULT")
        BY <1>5, <2>2 DEF ChildSaves
      <3> QED
        BY <2>1, <3>1, FinishStep DEF Handed
    <2>3. CASE child[r].out = "FAILED"
      <3>1. FinishCall(r, "FAILED", "ERROR")
        BY <1>5, <2>3 DEF ChildSaves
      <3> QED
        BY <2>1, <3>1, FinishStep DEF Handed
    <2>4. CASE child[r].out = "CANCELED"
      <3>1. FinishCall(r, "CANCELED", "CANCELED")
        BY <1>5, <2>4 DEF ChildSaves
      <3> QED
        BY <2>1, <3>1, FinishStep DEF Handed
    <2> QED
      BY <1>0, <1>i, <1>5, <2>2, <2>3, <2>4 DEF ChildSaves, Children
  <1>6. CASE ChildExits(r) \/ GuardAborts(r) \/ ChildDies(r)
    <2>1. UNCHANGED <<vars, run, stop, starts>> /\ stops' \in 0 .. MaxStops
      BY <1>0, <1>6 DEF ChildExits, GuardAborts, ChildDies
    <2>2. /\ child' = [child EXCEPT ![r].pc = "exited"]
          /\ child[r].pc # "none"
      BY <1>6 DEF ChildExits, GuardAborts, ChildDies, ChildAlive
    <2> QED
      BY <1>0, <1>i, <2>1, <2>2 DEF Own, GoesOn, StoreStep, Fresh, Children, ChildPCs
  <1> QED
    BY <1>1, <1>2, <1>3, <1>4, <1>5, <1>6 DEF ChildStep

-----------------------------------------------------------------------------
(* The steps keep the invariant.                                           *)

\* A process makes steps of the store.
LEMMA RunStep ==
    ASSUME RunTypeOK, RunsHaveClaims, [RunNext]_runnerVars
    PROVE  [Next]_vars
  <1>1. ASSUME StoreStep PROVE [Next]_vars
    BY <1>1 DEF StoreStep, Next
  <1>2. ASSUME NEW r \in Runners, Holds(r), GiveBack(r) PROVE [Next]_vars
    <2>1. run[r].job \in Jobs /\ run[r].token \in 1 .. claims[run[r].job]
      BY <1>2 DEF Holds, RunTypeOK, RunsHaveClaims
    <2>2. ReturnUnstarted(run[r].job, run[r].token)
      BY <1>2 DEF GiveBack
    <2> QED
      BY <2>1, <2>2 DEF Next
  <1>3. CASE OtherCallers
    BY <1>3 DEF OtherCallers, Next
  <1>4. CASE UNCHANGED runnerVars
    BY <1>4 DEF runnerVars
  <1> QED
    BY <1>1, <1>2, <1>3, <1>4, RunnerMoves, ChildMoves DEF RunNext

\* What a step does to a claim that a runner still holds, and to the queue.
LEMMA StepKeepsOwners ==
    ASSUME RunTypeOK, RunsHaveClaims, NEW n \in Jobs,
           StoreStep \/ \E r \in Runners : Fresh(r) /\ Holds(r) /\ GiveBack(r)
    PROVE  /\ claims'[n] \in Nat /\ claims[n] <= claims'[n]
           /\ \A o \in 1 .. claims[n] : Owns(rec'[n], o) => Owns(rec[n], o)
           /\ rec'[n].status \in {"ABSENT", "QUEUED"}
              => \/ rec[n].status \in {"ABSENT", "QUEUED"}
                 \/ \E r \in Runners : Fresh(r) /\ Holds(r) /\ run[r].job = n
  <1>1. CASE StoreStep
    BY <1>1, StoreStepKeeps DEF RunTypeOK
  <1>2. ASSUME NEW r \in Runners, Fresh(r), Holds(r), GiveBack(r)
        PROVE  /\ claims' = claims
               /\ \/ run[r].job = n /\ rec'[n].status \in {"QUEUED", "CANCELED"}
                  \/ rec'[n] = rec[n]
    <2>1. run[r].job \in Jobs /\ ReturnUnstarted(run[r].job, run[r].token)
      BY <1>2 DEF Holds, RunTypeOK, GiveBack
    <2> QED
      BY <2>1, ReturnKeeps DEF RunTypeOK
  <1>3. claims[n] \in Nat
    BY DEF RunTypeOK, TypeOK
  <1> QED
    BY <1>1, <1>2, <1>3 DEF Owns

\* A step that leaves all processes where they are.
LEMMA OthersKeepInv ==
    ASSUME RunInv, TypeOK', StoreStep, UNCHANGED procVars
    PROVE  RunInv'
  <1> USE DEF RunInv, procVars
  <1>1. RunTypeOK'
    BY DEF RunTypeOK
  <1>2. \A n \in Jobs : /\ claims'[n] \in Nat /\ claims[n] \in Nat /\ claims[n] <= claims'[n]
                        /\ \A o \in 1 .. claims[n] : Owns(rec'[n], o) => Owns(rec[n], o)
                        /\ rec'[n].status \in {"ABSENT", "QUEUED"}
                           => rec[n].status \in {"ABSENT", "QUEUED"}
    BY StoreStepKeeps DEF RunTypeOK
  <1>3. \A r \in Runners : run[r].job \in Jobs \cup {NoJob}
    BY DEF RunTypeOK
  <1>4. RunsHaveClaims' /\ TokensDiffer' /\ HandlerStartsOnce'
    BY <1>2, <1>3 DEF RunsHaveClaims, TokensDiffer, HandlerStartsOnce
  <1>5. \A r \in Runners : Holds(r)' => Holds(r)
    BY <1>2, <1>3 DEF Holds, RunsHaveClaims
  <1>6. DrainLeavesNothing'
    BY <1>5 DEF DrainLeavesNothing
  <1>7. StartIsOwned'
    BY <1>2, <1>5 DEF StartIsOwned, Fresh, RunTypeOK
  <1> QED
    BY <1>1, <1>4, <1>6, <1>7

\* A step of the runner or the child of r.
LEMMA OwnKeepsInv ==
    ASSUME RunInv, TypeOK', NEW r \in Runners, Own(r),
           StoreStep \/ (Fresh(r) /\ Holds(r) /\ GiveBack(r)),
           \/ /\ starts' = starts
              /\ NewClaim(r) \/ LetsGo(r) \/ (GoesOn(r) /\ (Fresh(r)' => Fresh(r)))
           \/ Starts(r) /\ GoesOn(r)
    PROVE  RunInv'
  <1> USE DEF RunInv
  <1>a. NewClaim(r) \/ LetsGo(r) \/ GoesOn(r)
    OBVIOUS
  <1>0. /\ run \in [Runners -> Runs] /\ child \in [Runners -> Children]
        /\ claims \in [Jobs -> Nat] /\ starts \in [Jobs -> Nat]
    BY DEF RunTypeOK, TypeOK, Runs, Children
  <1>1. /\ run' \in [Runners -> Runs] /\ child' \in [Runners -> Children]
        /\ \A q \in Runners \ {r} : run'[q] = run[q] /\ child'[q] = child[q]
    BY <1>0 DEF Own
  <1>2. \A n \in Jobs :
            /\ claims'[n] \in Nat /\ claims[n] <= claims'[n]
            /\ \A o \in 1 .. claims[n] : Owns(rec'[n], o) => Owns(rec[n], o)
            /\ rec'[n].status \in {"ABSENT", "QUEUED"}
               => \/ rec[n].status \in {"ABSENT", "QUEUED"}
                  \/ \E q \in Runners : Fresh(q) /\ Holds(q) /\ run[q].job = n
    BY StepKeepsOwners
  <1>3. \A q \in Runners : run'[q].job = run[q].job /\ run'[q].token = run[q].token /\ Holds(q)'
                           => Holds(q)
    BY <1>0, <1>1, <1>2 DEF Holds, RunsHaveClaims, Runs
  <1>4. ASSUME NewClaim(r)
        PROVE  \E j \in Jobs :
                  /\ run'[r].job = j /\ run'[r].token = claims[j] + 1 /\ run'[r].pc = "claiming"
                  /\ child'[r] = child[r] /\ child[r].pc = "none"
                  /\ claims'[j] = claims[j] + 1 /\ rec[j].status = "QUEUED"
    <2>1. PICK j \in Jobs :
            /\ Claim(RunnerKind[r], j)
            /\ run'[r] = [pc |-> "claiming", job |-> j, token |-> claims[j] + 1]
            /\ child'[r] = child[r] /\ run[r].pc = "idle"
      BY <1>4 DEF NewClaim
    <2>2. claims'[j] = claims[j] + 1 /\ rec[j].status = "QUEUED"
      BY <1>0, <2>1 DEF Claim
    <2> QED
      BY <1>0, <2>1, <2>2 DEF RunsHaveClaims, Children
  <1>5. RunTypeOK'
    <2>1. starts' \in [Jobs -> Nat]
      BY <1>0 DEF Starts
    <2> QED
      BY <1>1, <2>1 DEF RunTypeOK, Own, Runs, Children
  <1>6. RunsHaveClaims'
    <2> SUFFICES ASSUME NEW q \in Runners
                 PROVE  /\ run'[q].job # NoJob => run'[q].token \in 1 .. claims'[run'[q].job]
                        /\ run'[q].pc \in {"claiming", "starting", "supervising", "canceling"}
                           => run'[q].job # NoJob
                        /\ (child'[q].pc # "none") = (run'[q].pc = "supervising")
                        /\ child'[q].pc = "saving" => child'[q].out # "NONE"
      BY DEF RunsHaveClaims
    <2>0. run[q].job # NoJob => /\ run[q].job \in Jobs
                                /\ run[q].token \in 1 .. claims'[run[q].job]
      BY <1>0, <1>2 DEF RunsHaveClaims, Runs
    <2>1. CASE q # r
      BY <1>1, <2>0, <2>1 DEF RunsHaveClaims
    <2>2. CASE q = r /\ NewClaim(r)
      BY <1>0, <1>4, <2>2, JobsAssumption
    <2>3. CASE q = r /\ LetsGo(r)
      BY <2>3 DEF LetsGo
    <2>4. CASE q = r /\ GoesOn(r)
      BY <2>0, <2>4 DEF GoesOn, RunsHaveClaims
    <2> QED
      BY <1>a, <2>1, <2>2, <2>3, <2>4
  <1>7. TokensDiffer'
    <2> SUFFICES ASSUME NEW p \in Runners, NEW q \in Runners, p # q,
                        run'[p].job # NoJob, run'[p].job = run'[q].job
                 PROVE  run'[p].token # run'[q].token
      BY DEF TokensDiffer
    <2>0. \A i \in Runners : run[i].job # NoJob => /\ run[i].job \in Jobs
                                                   /\ run[i].token \in 1 .. claims[run[i].job]
      BY <1>0 DEF RunsHaveClaims, Runs
    <2>1. CASE NewClaim(r)
      <3>1. PICK j \in Jobs : run'[r].job = j /\ run'[r].token = claims[j] + 1
        BY <1>4, <2>1
      <3>2. \A i \in Runners \ {r} : run[i].job = j => run[i].token < claims[j] + 1
        BY <1>0, <2>0, JobsAssumption
      <3>3. \A i \in Runners : run[i].token \in Nat
        BY <1>0 DEF Runs
      <3> QED
        BY <1>0, <1>1, <3>1, <3>2, <3>3 DEF TokensDiffer
    <2>2. CASE LetsGo(r)
      BY <1>1, <2>2 DEF LetsGo, TokensDiffer
    <2>3. CASE GoesOn(r)
      BY <1>1, <2>3 DEF GoesOn, TokensDiffer
    <2> QED
      BY <1>a, <2>1, <2>2, <2>3
  <1>8. DrainLeavesNothing'
    <2> SUFFICES ASSUME NEW q \in Runners, run'[q].pc = "drained" PROVE ~ Holds(q)'
      BY DEF DrainLeavesNothing
    <2>1. CASE q # r
      BY <1>1, <1>3, <2>1 DEF DrainLeavesNothing
    <2>2. CASE q = r /\ NewClaim(r)
      BY <1>4, <2>2
    <2>3. CASE q = r /\ LetsGo(r)
      BY <2>3 DEF LetsGo, Holds
    <2>4. CASE q = r /\ GoesOn(r)
      BY <1>3, <2>4 DEF GoesOn, Holds, DrainLeavesNothing
    <2> QED
      BY <1>a, <2>1, <2>2, <2>3, <2>4
  <1>9. ASSUME starts' = starts,
               NewClaim(r) \/ LetsGo(r) \/ (GoesOn(r) /\ (Fresh(r)' => Fresh(r)))
        PROVE  StartIsOwned' /\ HandlerStartsOnce'
    <2>1. HandlerStartsOnce'
      BY <1>9 DEF HandlerStartsOnce
    <2> SUFFICES ASSUME NEW j \in Jobs, starts[j] > 0
                 PROVE  /\ rec'[j].status \notin {"ABSENT", "QUEUED"}
                        /\ \A q \in Runners : run'[q].job = j /\ Holds(q)' => ~ Fresh(q)'
      BY <1>9, <2>1 DEF StartIsOwned
    <2>2. /\ rec[j].status \notin {"ABSENT", "QUEUED"}
          /\ \A q \in Runners : run[q].job = j /\ Holds(q) => ~ Fresh(q)
      BY DEF StartIsOwned
    <2>3. rec'[j].status \notin {"ABSENT", "QUEUED"}
      BY <1>2, <2>2
    <2>4. ASSUME NEW q \in Runners, run'[q].job = j, Holds(q)', Fresh(q)' PROVE FALSE
      <3>1. CASE q # r
        BY <1>1, <1>3, <2>2, <2>4, <3>1 DEF Fresh
      <3>2. CASE q = r /\ NewClaim(r)
        BY <1>4, <2>2, <2>4, <3>2
      <3>3. CASE q = r /\ LetsGo(r)
        BY <2>4, <3>3 DEF LetsGo, Holds
      <3>4. CASE q = r /\ GoesOn(r) /\ (Fresh(r)' => Fresh(r))
        BY <1>3, <2>2, <2>4, <3>4 DEF GoesOn
      <3> QED
        BY <1>9, <3>1, <3>2, <3>3, <3>4
    <2> QED
      BY <2>3, <2>4
  <1>10. ASSUME Starts(r), GoesOn(r)
         PROVE  StartIsOwned' /\ HandlerStartsOnce'
    <2> DEFINE n == run[r].job
    <2>1. /\ n \in Jobs /\ Holds(r) /\ Fresh(r) /\ UNCHANGED <<vars, run>>
          /\ starts' = [starts EXCEPT ![n] = starts[n] + 1]
          /\ child'[r].pc = "handler" /\ run[r].pc = "supervising"
      BY <1>0, <1>10 DEF Starts, Holds, Runs
    <2>2. starts[n] = 0
      BY <1>0, <2>1 DEF StartIsOwned
    <2>3. HandlerStartsOnce'
      BY <1>0, <2>1, <2>2 DEF HandlerStartsOnce
    <2>4. \A q \in Runners : Holds(q)' = Holds(q)
      BY <2>1 DEF Holds, vars
    <2>5. \A q \in Runners \ {r} : run[q].job = n => ~ Holds(q)
      BY <1>0, <2>1, JobsAssumption DEF TokensDiffer, Holds, Owns
    <2>6. ~ Fresh(r)' /\ \A q \in Runners \ {r} : Fresh(q)' = Fresh(q)
      BY <1>1, <2>1 DEF Fresh
    <2>7. rec[n].status = "PROCESSING" /\ rec' = rec
      BY <2>1 DEF Holds, Owns, vars
    <2>8. StartIsOwned'
      BY <1>0, <2>1, <2>4, <2>5, <2>6, <2>7 DEF StartIsOwned
    <2> QED
      BY <2>3, <2>8
  <1> QED
    BY <1>5, <1>6, <1>7, <1>8, <1>9, <1>10

LEMMA RunNextKeepsInv ==
    ASSUME RunInv, [RunNext]_runnerVars
    PROVE  RunInv'
  <1>1. TypeOK'
    BY RunStep, NextType DEF RunInv, RunTypeOK
  <1>2. CASE UNCHANGED runnerVars \/ (OtherCallers /\ UNCHANGED procVars)
    <2>1. StoreStep /\ UNCHANGED procVars
      BY <1>2 DEF OtherCallers, StoreStep, runnerVars
    <2> QED
      BY <1>1, <2>1, OthersKeepInv
  <1>3. ASSUME NEW r \in Runners, RunnerStep(r) PROVE RunInv'
    BY <1>1, <1>3, RunnerMoves, OwnKeepsInv DEF RunInv
  <1>4. ASSUME NEW r \in Runners, ChildStep(r) PROVE RunInv'
    BY <1>1, <1>4, ChildMoves, OwnKeepsInv DEF RunInv
  <1> QED
    BY <1>2, <1>3, <1>4 DEF RunNext

LEMMA RunInitially == RunInit => RunInv
  <1> SUFFICES ASSUME RunInit PROVE RunInv
    OBVIOUS
  <1>1. TypeOK
    BY InitType DEF RunInit
  <1>2. MaxStops \in Nat
    BY RunnersAssumption, TimeAssumption
  <1> QED
    BY <1>1, <1>2 DEF RunInit, RunInv, RunTypeOK, RunsHaveClaims, TokensDiffer,
       DrainLeavesNothing, StartIsOwned, HandlerStartsOnce, Holds, NoRun, NoChild,
       RunnerPCs, ChildPCs, NoOwner

-----------------------------------------------------------------------------
(* The theorems.                                                           *)

THEOREM RunInvariant == RunSpec => []RunInv
  <1>1. RunInv /\ [RunNext]_runnerVars => RunInv'
    BY RunNextKeepsInv
  <1> QED
    BY <1>1, RunInitially, PTL DEF RunSpec

\* Runners and children keep to the contract of the store: they call it with
\* a token that their claim has issued and an outcome that it expects.  So
\* every theorem about the store holds with them.
THEOREM RunnersUseStore == RunSpec => Spec
  <1>1. RunInit => Init
    BY DEF RunInit
  <1>2. RunInv /\ [RunNext]_runnerVars => [Next]_vars
    BY RunStep DEF RunInv
  <1> QED
    BY <1>1, <1>2, RunInvariant, PTL DEF RunSpec, Spec

\* execute and return_unstarted: the handler of a job is started at most once,
\* though jobs are claimed, handed back and claimed again, and runners and
\* children die.
THEOREM OneStart == RunSpec => []HandlerStartsOnce
  BY RunInvariant, PTL DEF RunInv

\* runner_loop: a runner that has drained, or has stored its cancellation,
\* owns no job.
THEOREM DrainedIsFree == RunSpec => []DrainLeavesNothing
  BY RunInvariant, PTL DEF RunInv

(*****************************************************************************)
(* Intake of requests (KafkaIntake).                                         *)
(*****************************************************************************)

-----------------------------------------------------------------------------
(* The store underneath.                                                   *)

\* Every step of a consumer is a step of the store.
LEMMA IntakeStep ==
    ASSUME IntakeTypeOK, [IntakeNext]_intakeVars,
           \A c \in Consumers : loop[c].pc # "getone" => loop[c].offset \in Offsets
    PROVE  [Next]_vars
  <1>1. ASSUME NEW j \in Jobs, Register(j) PROVE [Next]_vars
    <2>1. (j \in ValidJobs) \in BOOLEAN
      OBVIOUS
    <2> QED
      BY <1>1, <2>1 DEF Register, Next
  <1>2. ASSUME NEW c \in Consumers, loop[c].pc = "accept", Message(c) # NoJob
        PROVE  Message(c) \in Jobs
    BY <1>2, IntakeAssumption DEF Message
  <1>3. ASSUME NEW c \in Consumers, Accept(c) \/ AcceptReplyLost(c) PROVE [Next]_vars
    BY <1>1, <1>2, <1>3 DEF Accept, AcceptReplyLost
  <1>4. ASSUME NEW j \in Jobs, Cancel(j) PROVE [Next]_vars
    BY <1>4 DEF Next
  <1>5. ASSUME NEW c \in Consumers,
               \/ GetOne(c) \/ Reject(c) \/ Quarantine(c) \/ QuarantineTooLarge(c)
               \/ Commit(c) \/ CommitRefused(c) \/ Reassign(c) \/ QuarantineFails(c)
               \/ CommitReplyLost(c) \/ Rebalance(c) \/ ConsumerDies(c)
        PROVE  [Next]_vars
    BY <1>5 DEF GetOne, Reject, Quarantine, QuarantineTooLarge, Commit, CommitRefused,
                Reassign, QuarantineFails, CommitReplyLost, Rebalance, ConsumerDies
  <1>6. CASE UNCHANGED intakeVars
    BY <1>6 DEF intakeVars
  <1> QED
    BY <1>3, <1>4, <1>5, <1>6 DEF IntakeNext, LoopStep

\* register decides a job for good, and no other.
LEMMA RegisterDecides ==
    ASSUME TypeOK, NEW j \in Jobs, Register(j), NEW i \in Jobs
    PROVE  /\ ~ Unseen(j)'
           /\ i # j => Unseen(i)' = Unseen(i)
  <1>1. CASE RegisterBusy(j)
    BY <1>1 DEF RegisterBusy, Unseen, TypeOK
  <1>2. CASE RegisterAccepted(j, j \in ValidJobs)
    <2>1. [status |-> "FAILED", code |-> "INVALID_REQUEST"] \in FinalEvents
      BY DEF FinalEvents, TERMINAL_STATUSES, Codes
    <2>2. rec'[j].status # "ABSENT"
      BY <1>2, <2>1, NewRecordType, TerminateType DEF RegisterAccepted, TypeOK
    <2>3. ignored' = ignored /\ (i # j => rec'[i] = rec[i])
      BY <1>2 DEF RegisterAccepted, TypeOK
    <2> QED
      BY <2>2, <2>3 DEF Unseen
  <1>3. CASE ~ Unseen(j) /\ UNCHANGED vars
    BY <1>3 DEF Unseen, vars
  <1> QED
    BY <1>1, <1>2, <1>3 DEF Register

LEMMA CancelDecides ==
    ASSUME TypeOK, NEW j \in Jobs, Cancel(j), NEW i \in Jobs
    PROVE  Unseen(i)' = Unseen(i)
  <1> USE DEF TypeOK
  <1>1. ignored' = ignored
    BY DEF Cancel, Change, ChangeIn, registry
  <1>2. i # j => rec'[i] = rec[i]
    BY DEF Cancel, Change, ChangeIn
  <1>3. rec[j].status # "ABSENT" /\ rec'[j].status # "ABSENT"
    BY DEF Cancel, Change, ChangeIn, ACTIVE_STATUSES, Terminate, Canceled, JobRecord
  <1> QED
    BY <1>1, <1>2, <1>3 DEF Unseen

-----------------------------------------------------------------------------
(* The invariant.                                                          *)

\* What a loop works at, and that every earlier message was handled.
LoopIsInOrder ==
    \A c \in Consumers :
        loop[c].pc # "getone"
        => /\ loop[c].offset \in Offsets
           /\ \A n \in Offsets : n < loop[c].offset => Handled(n)
           /\ loop[c].pc = "quarantine" => Message(c) = NoJob
           /\ loop[c].pc = "commit" => Handled(loop[c].offset)

\* The owner of the partition has fetched nothing that is neither handled nor
\* in its hands.
FetchIsInOrder ==
    \A c \in Consumers :
        assigned = c
        => \A n \in Offsets : n < position[c]
                              => Handled(n) \/ (loop[c].pc # "getone" /\ n = loop[c].offset)

IntakeInv == IntakeTypeOK /\ LoopIsInOrder /\ FetchIsInOrder /\ CommittedIsHandled /\ HandledInOrder

LEMMA IntakeInitially == IntakeInit => IntakeInv
  <1> SUFFICES ASSUME IntakeInit PROVE IntakeInv
    OBVIOUS
  <1>1. Cardinality(Offsets) \in Nat /\ Offsets = 1 .. Cardinality(Offsets)
    BY IntakeAssumption, FS_CardinalityType
  <1>2. IntakeTypeOK
    BY <1>1, IntakeAssumption DEF IntakeInit, IntakeTypeOK, IdleLoop, MaxAttempts
  <1>3. LoopIsInOrder
    BY DEF IntakeInit, LoopIsInOrder, IdleLoop
  <1>4. FetchIsInOrder /\ CommittedIsHandled
    BY <1>1 DEF IntakeInit, FetchIsInOrder, CommittedIsHandled
  <1>5. HandledInOrder
    <2>1. \A n \in Offsets : ~ Handled(n)
      BY IntakeAssumption DEF IntakeInit, Init, Handled, Unseen, NoRecord
    <2> QED
      BY <2>1 DEF HandledInOrder
  <1> QED
    BY <1>2, <1>3, <1>4, <1>5 DEF IntakeInv

-----------------------------------------------------------------------------
(* What a step does to the messages.                                       *)

ConsumerStep(c) ==
    LoopStep(c) \/ Reassign(c) \/ AcceptReplyLost(c) \/ QuarantineFails(c)
    \/ CommitReplyLost(c) \/ Rebalance(c) \/ ConsumerDies(c)

\* A handled message stays handled, and a step of c handles only what c works
\* at, and the other copies of it in the log.
HandlesOwn(c) ==
    \A n \in Offsets :
        /\ Handled(n) => Handled(n)'
        /\ Handled(n)' /\ ~ Handled(n)
           => /\ loop[c].pc # "getone"
              /\ \/ n = loop[c].offset
                 \/ Partition[n] # NoJob /\ Partition[n] = Partition[loop[c].offset]

\* Decisions that leave the DLT alone, or the store.
LEMMA StoreAlone ==
    ASSUME dlt' = dlt, \A i \in Jobs : Unseen(i)' = Unseen(i)
    PROVE  \A n \in Offsets : Handled(n)' = Handled(n)
  BY IntakeAssumption DEF Handled

LEMMA StepHandlesOwn ==
    ASSUME TypeOK, IntakeInv, NEW c \in Consumers, ConsumerStep(c)
    PROVE  HandlesOwn(c)
  <1> USE DEF IntakeInv
  <1>1. CASE Accept(c) \/ AcceptReplyLost(c)
    <2>1. /\ loop[c].pc = "accept" /\ dlt' = dlt /\ Message(c) # NoJob /\ Register(Message(c))
      BY <1>1 DEF Accept, AcceptReplyLost
    <2>2. loop[c].offset \in Offsets /\ Message(c) \in Jobs
      BY <2>1, IntakeAssumption DEF LoopIsInOrder, Message
    <2>3. PICK j \in Jobs : j = Message(c)
      BY <2>2
    <2>4. Register(j) /\ j # NoJob
      BY <2>1, <2>3
    <2>5. ASSUME NEW i \in Jobs PROVE ~ Unseen(j)' /\ (i # j => Unseen(i)' = Unseen(i))
      BY <2>4, RegisterDecides
    <2>6. ASSUME NEW n \in Offsets, Partition[n] = NoJob PROVE Handled(n)' = Handled(n)
      BY <2>1, <2>6 DEF Handled
    <2>7. ASSUME NEW n \in Offsets, Partition[n] # NoJob
          PROVE  /\ Partition[n] # j => Handled(n)' = Handled(n)
                 /\ Partition[n] = j => Handled(n)'
      <3>1. PICK i \in Jobs : i = Partition[n]
        BY <2>7, IntakeAssumption
      <3>2. Handled(n) = ~ Unseen(i) /\ Handled(n)' = ~ Unseen(i)'
        BY <2>7, <3>1 DEF Handled
      <3> QED
        BY <2>5, <3>1, <3>2
    <2> QED
      BY <2>1, <2>3, <2>6, <2>7 DEF HandlesOwn, Message
  <1>2. CASE Quarantine(c) \/ QuarantineFails(c)
    <2>1. /\ loop[c].pc = "quarantine" /\ UNCHANGED vars
          /\ dlt \subseteq dlt' /\ dlt' \subseteq dlt \cup {loop[c].offset}
      BY <1>2 DEF Quarantine, QuarantineFails
    <2>2. \A j : Unseen(j)' = Unseen(j)
      BY <2>1 DEF vars, Unseen
    <2> QED
      BY <2>1, <2>2 DEF HandlesOwn, Handled
  <1>3. CASE \/ GetOne(c) \/ Reject(c) \/ QuarantineTooLarge(c) \/ Commit(c)
             \/ CommitRefused(c) \/ Reassign(c) \/ CommitReplyLost(c) \/ Rebalance(c)
             \/ ConsumerDies(c)
    <2>1. UNCHANGED vars /\ dlt' = dlt
      BY <1>3 DEF GetOne, Reject, QuarantineTooLarge, Commit, CommitRefused, Reassign,
                  CommitReplyLost, Rebalance, ConsumerDies
    <2>2. \A j : Unseen(j)' = Unseen(j)
      BY <2>1 DEF vars, Unseen
    <2> QED
      BY <2>1, <2>2, StoreAlone DEF HandlesOwn
  <1> QED
    BY <1>1, <1>2, <1>3 DEF ConsumerStep, LoopStep

\* What c works at comes after everything before it: so the first of equal
\* messages is handled after all that precede it.
LEMMA OwnInOrder ==
    ASSUME IntakeInv, NEW c \in Consumers, HandlesOwn(c)
    PROVE  HandledInOrder'
  <1> SUFFICES ASSUME NEW o \in Offsets, NEW n \in Offsets, o < n,
                      Partition[n] \notin {Partition[m] : m \in 1 .. n - 1}, Handled(n)'
               PROVE  Handled(o)'
    BY DEF HandledInOrder
  <1> USE DEF IntakeInv
  <1>0. Cardinality(Offsets) \in Nat /\ Offsets = 1 .. Cardinality(Offsets)
    BY IntakeAssumption, FS_CardinalityType
  <1>1. CASE Handled(n)
    BY <1>1 DEF HandledInOrder, HandlesOwn
  <1>2. CASE ~ Handled(n)
    <2> DEFINE k == loop[c].offset
    <2>1. /\ loop[c].pc # "getone"
          /\ n = k \/ Partition[n] = Partition[k]
      BY <1>2 DEF HandlesOwn
    <2>2. k \in Offsets /\ \A m \in Offsets : m < k => Handled(m)
      BY <2>1 DEF LoopIsInOrder
    <2>3. ~ k < n
      BY <1>0, <2>1, <2>2
    <2>4. o < k
      BY <1>0, <2>2, <2>3
    <2> QED
      BY <2>2, <2>4 DEF HandlesOwn
  <1> QED
    BY <1>1, <1>2

\* The types.
LEMMA StepKeepsTypes ==
    ASSUME IntakeInv, NEW c \in Consumers, ConsumerStep(c)
    PROVE  IntakeTypeOK'
  <1> USE DEF IntakeInv
  <1>0. /\ Cardinality(Offsets) \in Nat /\ Offsets = 1 .. Cardinality(Offsets)
        /\ MaxFaults \in Nat
        /\ loop[c].pc # "getone" => loop[c].offset \in Offsets
    BY IntakeAssumption, FS_CardinalityType DEF LoopIsInOrder
  <1> DEFINE Loops == [pc : {"getone", "accept", "quarantine", "commit"}, offset : Offsets \cup {0}]
  <1>1. /\ loop \in [Consumers -> Loops]
        /\ position \in [Consumers -> 1 .. Cardinality(Offsets) + 1]
        /\ assigned \in Consumers \cup {NoConsumer} /\ paused \in SUBSET Consumers
        /\ committed \in 1 .. Cardinality(Offsets) + 1
        /\ attempts \in [Offsets -> 0 .. MaxAttempts] /\ dlt \in SUBSET Offsets
        /\ faults \in 0 .. MaxFaults /\ IdleLoop \in Loops
    BY DEF IntakeTypeOK, IdleLoop
  <1>2. loop' \in [Consumers -> Loops]
    <2>1. ASSUME NEW p \in {"accept", "quarantine", "commit"}, loop[c].pc # "getone"
          PROVE  [loop EXCEPT ![c].pc = p] \in [Consumers -> Loops]
      BY <1>1
    <2>2. [loop EXCEPT ![c] = IdleLoop] \in [Consumers -> Loops]
      BY <1>1
    <2> HIDE DEF Loops
    <2>3. CASE GetOne(c)
      <3>1. [pc |-> "accept", offset |-> position[c]] \in Loops
        BY <2>3 DEF GetOne, Loops
      <3> QED
        BY <1>1, <2>3, <3>1 DEF GetOne
    <2>4. CASE Accept(c) \/ Reject(c) \/ Quarantine(c) \/ QuarantineFails(c) \/ CommitReplyLost(c)
      BY <1>1, <2>1, <2>4 DEF Accept, Reject, Quarantine, QuarantineFails, CommitReplyLost
    <2>5. CASE QuarantineTooLarge(c) \/ Commit(c) \/ CommitRefused(c) \/ ConsumerDies(c)
      BY <2>2, <2>5 DEF QuarantineTooLarge, Commit, CommitRefused, ConsumerDies
    <2>6. CASE Reassign(c) \/ AcceptReplyLost(c) \/ Rebalance(c)
      BY <1>1, <2>6 DEF Reassign, AcceptReplyLost, Rebalance
    <2> QED
      BY <2>3, <2>4, <2>5, <2>6 DEF ConsumerStep, LoopStep
  <1>3. position' \in [Consumers -> 1 .. Cardinality(Offsets) + 1]
    BY <1>0, <1>1 DEF ConsumerStep, LoopStep, GetOne, Accept, Reject, Quarantine,
       QuarantineTooLarge, Commit, CommitRefused, Reassign, AcceptReplyLost, QuarantineFails,
       CommitReplyLost, Rebalance, ConsumerDies
  <1>4. assigned' \in Consumers \cup {NoConsumer} /\ paused' \in SUBSET Consumers
    BY <1>1 DEF ConsumerStep, LoopStep, GetOne, Accept, Reject, Quarantine,
       QuarantineTooLarge, Commit, CommitRefused, Reassign, AcceptReplyLost, QuarantineFails,
       CommitReplyLost, Rebalance, ConsumerDies
  <1>5. committed' \in 1 .. Cardinality(Offsets) + 1
    BY <1>0, <1>1 DEF ConsumerStep, LoopStep, GetOne, Accept, Reject, Quarantine,
       QuarantineTooLarge, Commit, CommitRefused, Reassign, AcceptReplyLost, QuarantineFails,
       CommitReplyLost, Rebalance, ConsumerDies
  <1>6. attempts' \in [Offsets -> 0 .. MaxAttempts]
    BY <1>0, <1>1 DEF ConsumerStep, LoopStep, GetOne, Accept, Reject, Quarantine,
       QuarantineTooLarge, Commit, CommitRefused, Reassign, AcceptReplyLost, QuarantineFails,
       CommitReplyLost, Rebalance, ConsumerDies, Counted, MinOf, MaxAttempts
  <1>7. dlt' \in SUBSET Offsets /\ faults' \in 0 .. MaxFaults
    BY <1>0, <1>1 DEF ConsumerStep, LoopStep, GetOne, Accept, Reject, Quarantine,
       QuarantineTooLarge, Commit, CommitRefused, Reassign, AcceptReplyLost, QuarantineFails,
       CommitReplyLost, Rebalance, ConsumerDies, Fault
  <1> QED
    BY <1>2, <1>3, <1>4, <1>5, <1>6, <1>7 DEF IntakeTypeOK

\* What the step of one consumer leaves of the others.
LEMMA OthersAreLeft ==
    ASSUME IntakeInv, NEW c \in Consumers, ConsumerStep(c), NEW d \in Consumers, d # c
    PROVE  loop'[d] = loop[d] /\ position'[d] = position[d] /\ (assigned' = d => assigned = d)
  <1> USE IntakeAssumption DEF IntakeInv, IntakeTypeOK
  <1>1. CASE LoopStep(c)
    BY <1>1 DEF LoopStep, GetOne, Accept, Reject, Quarantine, QuarantineTooLarge, Commit,
                CommitRefused
  <1>2. CASE Reassign(c) \/ AcceptReplyLost(c) \/ QuarantineFails(c)
    BY <1>2 DEF Reassign, AcceptReplyLost, QuarantineFails
  <1>3. CASE CommitReplyLost(c) \/ Rebalance(c) \/ ConsumerDies(c)
    BY <1>3 DEF CommitReplyLost, Rebalance, ConsumerDies
  <1> QED
    BY <1>1, <1>2, <1>3 DEF ConsumerStep

\* A message is handled once register has answered.
LEMMA AcceptedIsHandled ==
    ASSUME TypeOK, NEW c \in Consumers, Accept(c),
           NEW o \in Offsets, o = loop[c].offset
    PROVE  Handled(o)'
  <1>1. Partition[o] \in Jobs /\ Partition[o] # NoJob /\ Register(Partition[o])
    BY IntakeAssumption DEF Accept, Message
  <1>2. ~ Unseen(Partition[o])'
    BY <1>1, RegisterDecides
  <1> QED
    BY <1>1, <1>2 DEF Handled

\* A loop fetches a message when all before it are handled, and gets to the
\* commit once it is handled itself.
LEMMA StepKeepsLoops ==
    ASSUME TypeOK, IntakeInv, NEW c \in Consumers, ConsumerStep(c), HandlesOwn(c)
    PROVE  LoopIsInOrder'
  <1> USE DEF IntakeInv
  <1> SUFFICES ASSUME NEW d \in Consumers, loop'[d].pc # "getone",
                      NEW o, o = loop'[d].offset
               PROVE  /\ o \in Offsets
                      /\ \A n \in Offsets : n < o => Handled(n)'
                      /\ loop'[d].pc = "quarantine" => Partition[o] = NoJob
                      /\ loop'[d].pc = "commit" => Handled(o)'
    BY DEF LoopIsInOrder, Message
  <1>1. \A n \in Offsets : Handled(n) => Handled(n)'
    BY DEF HandlesOwn
  <1>2. ASSUME loop[d].pc # "getone", o = loop[d].offset
        PROVE  /\ o \in Offsets
               /\ \A n \in Offsets : n < o => Handled(n)'
               /\ loop[d].pc = "quarantine" => Partition[o] = NoJob
               /\ loop[d].pc = "commit" => Handled(o)'
    BY <1>1, <1>2 DEF LoopIsInOrder, Message
  <1>3. CASE d # c
    BY <1>2, <1>3, OthersAreLeft
  <1>4. CASE d = c
    <2>1. /\ loop[c] \in [pc : {"getone", "accept", "quarantine", "commit"},
                           offset : Offsets \cup {0}]
          /\ loop'[c] \in [pc : {"getone", "accept", "quarantine", "commit"},
                            offset : Offsets \cup {0}]
      BY StepKeepsTypes DEF IntakeTypeOK
    <2>2. CASE GetOne(c)
      <3>1. /\ loop[c].pc = "getone" /\ assigned = c /\ o = position[c]
            /\ position[c] \in Offsets /\ loop'[c].pc = "accept"
        BY <1>4, <2>2 DEF GetOne, IntakeTypeOK
      <3> QED
        BY <1>1, <1>4, <3>1 DEF FetchIsInOrder
    <2>3. CASE Accept(c)
      <3>1. /\ loop[c].pc = "accept" /\ loop'[c].pc = "commit" /\ o = loop[c].offset
        BY <1>4, <2>3 DEF Accept, IntakeTypeOK
      <3> QED
        BY <1>2, <1>4, <2>3, <3>1, AcceptedIsHandled
    <2>4. CASE Reject(c)
      <3>1. /\ loop[c].pc = "accept" /\ loop'[c].pc \in {"accept", "quarantine"}
            /\ o = loop[c].offset /\ Partition[o] = NoJob
        BY <1>4, <2>4 DEF Reject, IntakeTypeOK, Message
      <3> QED
        BY <1>2, <1>4, <3>1
    <2>5. CASE Quarantine(c)
      <3>1. /\ loop[c].pc = "quarantine" /\ loop'[c].pc = "commit" /\ o = loop[c].offset
            /\ o \in dlt'
        BY <1>4, <2>5 DEF Quarantine, IntakeTypeOK
      <3> QED
        BY <1>2, <1>4, <3>1 DEF Handled
    <2>6. CASE QuarantineFails(c) \/ CommitReplyLost(c)
      <3>1. loop[c].pc # "getone" /\ loop'[c].pc = "accept" /\ o = loop[c].offset
        BY <1>4, <2>6 DEF QuarantineFails, CommitReplyLost, IntakeTypeOK
      <3> QED
        BY <1>2, <1>4, <3>1
    <2>7. CASE Reassign(c) \/ AcceptReplyLost(c) \/ Rebalance(c)
      BY <1>2, <1>4, <2>7 DEF Reassign, AcceptReplyLost, Rebalance
    <2>8. CASE QuarantineTooLarge(c) \/ Commit(c) \/ CommitRefused(c) \/ ConsumerDies(c)
      <3>1. loop'[c].pc = "getone"
        BY <2>8 DEF QuarantineTooLarge, Commit, CommitRefused, ConsumerDies, IdleLoop, IntakeTypeOK
      <3> QED
        BY <1>4, <3>1
    <2> QED
      BY <2>2, <2>3, <2>4, <2>5, <2>6, <2>7, <2>8 DEF ConsumerStep, LoopStep
  <1> QED
    BY <1>3, <1>4

\* What is committed is handled: the offset of a loop in order, and all before.
LEMMA StepKeepsCommitted ==
    ASSUME IntakeInv, NEW c \in Consumers, ConsumerStep(c), HandlesOwn(c)
    PROVE  CommittedIsHandled'
  <1> USE DEF IntakeInv
  <1> SUFFICES ASSUME NEW o \in Offsets, o < committed' PROVE Handled(o)'
    BY DEF CommittedIsHandled
  <1>1. Handled(o) => Handled(o)'
    BY DEF HandlesOwn
  <1>2. CASE committed' = committed
    BY <1>1, <1>2 DEF CommittedIsHandled
  <1>3. CASE Commit(c) \/ CommitReplyLost(c)
    <2>1. loop[c].pc = "commit" /\ committed' \in {committed, loop[c].offset + 1}
      BY <1>3 DEF Commit, CommitReplyLost
    <2>2. /\ loop[c].offset \in Offsets /\ Handled(loop[c].offset)
          /\ \A n \in Offsets : n < loop[c].offset => Handled(n)
      BY <2>1 DEF LoopIsInOrder
    <2>3. Cardinality(Offsets) \in Nat /\ Offsets = 1 .. Cardinality(Offsets)
      BY IntakeAssumption, FS_CardinalityType
    <2>4. committed' = loop[c].offset + 1 => o < loop[c].offset \/ o = loop[c].offset
      BY <2>2, <2>3
    <2> QED
      BY <1>1, <1>2, <2>1, <2>2, <2>4
  <1>4. CASE ~ (Commit(c) \/ CommitReplyLost(c))
    <2>1. committed' = committed
      BY <1>4 DEF ConsumerStep, LoopStep, GetOne, Accept, Reject, Quarantine,
         QuarantineTooLarge, CommitRefused, Reassign, AcceptReplyLost, QuarantineFails,
         Rebalance, ConsumerDies
    <2> QED
      BY <1>2, <2>1
  <1> QED
    BY <1>3, <1>4

\* The owner goes on from what is committed, or from what it has in hand.
LEMMA StepKeepsFetch ==
    ASSUME IntakeInv, NEW c \in Consumers, ConsumerStep(c), HandlesOwn(c)
    PROVE  FetchIsInOrder'
  <1> USE DEF IntakeInv
  <1> SUFFICES ASSUME NEW d \in Consumers, assigned' = d,
                      NEW n \in Offsets, n < position'[d]
               PROVE  Handled(n)' \/ (loop'[d].pc # "getone" /\ n = loop'[d].offset)
    BY DEF FetchIsInOrder
  <1>1. Handled(n) => Handled(n)'
    BY DEF HandlesOwn
  <1>2. /\ loop[c] \in [pc : {"getone", "accept", "quarantine", "commit"},
                         offset : Offsets \cup {0}]
        /\ Cardinality(Offsets) \in Nat /\ Offsets = 1 .. Cardinality(Offsets)
        /\ position[c] \in 1 .. Cardinality(Offsets) + 1
        /\ NoConsumer \notin Consumers
    BY IntakeAssumption, FS_CardinalityType DEF IntakeTypeOK
  <1>3. CASE d # c
    BY <1>1, <1>3, OthersAreLeft DEF FetchIsInOrder
  <1>4. CASE d = c
    <2>1. CASE GetOne(c)
      <3>1. /\ loop[c].pc = "getone" /\ assigned = c /\ position'[c] = position[c] + 1
            /\ loop'[c].pc = "accept" /\ loop'[c].offset = position[c]
        BY <2>1 DEF GetOne, IntakeTypeOK
      <3>2. n < position[c] \/ n = position[c]
        BY <1>2, <1>4, <3>1
      <3> QED
        BY <1>1, <1>4, <3>1, <3>2 DEF FetchIsInOrder
    <2>2. CASE \/ Accept(c) \/ Reject(c) \/ Quarantine(c) \/ QuarantineFails(c)
               \/ CommitReplyLost(c)
      <3>1. /\ loop[c].pc # "getone" /\ assigned = c /\ position'[c] = position[c]
            /\ loop'[c].pc # "getone" /\ loop'[c].offset = loop[c].offset
        BY <1>2, <1>4, <2>2 DEF Accept, Reject, Quarantine, QuarantineFails, CommitReplyLost,
                                IntakeTypeOK
      <3> QED
        BY <1>1, <1>4, <3>1 DEF FetchIsInOrder
    <2>3. CASE AcceptReplyLost(c)
      <3>1. loop' = loop /\ position' = position /\ assigned' = assigned
        BY <2>3 DEF AcceptReplyLost
      <3> QED
        BY <1>1, <3>1 DEF FetchIsInOrder
    <2>4. CASE QuarantineTooLarge(c)
      <3>1. loop[c].pc = "quarantine" /\ position'[c] = loop[c].offset
        BY <1>4, <2>4 DEF QuarantineTooLarge, IntakeTypeOK
      <3> QED
        BY <1>1, <1>4, <3>1 DEF LoopIsInOrder
    <2>5. CASE Commit(c)
      <3>1. loop[c].pc = "commit" /\ assigned = c /\ position'[c] = position[c]
        BY <2>5 DEF Commit
      <3>2. n = loop[c].offset => Handled(n)
        BY <3>1 DEF LoopIsInOrder
      <3> QED
        BY <1>1, <1>4, <3>1, <3>2 DEF FetchIsInOrder
    <2>6. CASE Rebalance(c) \/ Reassign(c)
      <3>1. position'[c] = committed
        BY <2>6 DEF Rebalance, Reassign, IntakeTypeOK
      <3> QED
        BY <1>1, <1>4, <3>1 DEF CommittedIsHandled
    <2>7. CASE CommitRefused(c) \/ ConsumerDies(c)
      BY <1>2, <1>4, <2>7 DEF CommitRefused, ConsumerDies
    <2> QED
      BY <2>1, <2>2, <2>3, <2>4, <2>5, <2>6, <2>7 DEF ConsumerStep, LoopStep
  <1> QED
    BY <1>3, <1>4

-----------------------------------------------------------------------------
(* The theorems.                                                           *)

\* Every step keeps the invariant.
LEMMA IntakeNextKeepsInv ==
    TypeOK /\ IntakeInv /\ [IntakeNext]_intakeVars => IntakeInv'
  <1> SUFFICES ASSUME TypeOK, IntakeInv, [IntakeNext]_intakeVars PROVE IntakeInv'
    OBVIOUS
  <1>1. ASSUME NEW c \in Consumers, ConsumerStep(c) PROVE IntakeInv'
    <2>1. HandlesOwn(c)
      BY <1>1, StepHandlesOwn
    <2> QED
      BY <1>1, <2>1, StepKeepsTypes, StepKeepsLoops, StepKeepsFetch, StepKeepsCommitted,
         OwnInOrder DEF IntakeInv
  <1>2. ASSUME UNCHANGED kafkaVars, \A j \in Jobs : Unseen(j)' = Unseen(j) PROVE IntakeInv'
    <2>1. \A n \in Offsets : Handled(n)' = Handled(n)
      BY <1>2, StoreAlone DEF kafkaVars
    <2>2. IntakeTypeOK'
      BY <1>2 DEF IntakeInv, IntakeTypeOK, kafkaVars
    <2>3. LoopIsInOrder'
      <3> SUFFICES ASSUME NEW d \in Consumers, loop[d].pc # "getone", NEW o, o = loop[d].offset
                   PROVE  /\ o \in Offsets
                          /\ \A n \in Offsets : n < o => Handled(n)'
                          /\ loop[d].pc = "quarantine" => Partition[o] = NoJob
                          /\ loop[d].pc = "commit" => Handled(o)'
        BY <1>2 DEF LoopIsInOrder, Message, kafkaVars
      <3> QED
        BY <2>1 DEF IntakeInv, LoopIsInOrder, Message
    <2>4. FetchIsInOrder'
      BY <1>2, <2>1 DEF IntakeInv, FetchIsInOrder, kafkaVars
    <2>5. CommittedIsHandled'
      BY <1>2, <2>1 DEF IntakeInv, CommittedIsHandled, kafkaVars
    <2>6. HandledInOrder'
      BY <2>1 DEF IntakeInv, HandledInOrder
    <2> QED
      BY <2>2, <2>3, <2>4, <2>5, <2>6 DEF IntakeInv
  <1>3. ASSUME NEW j \in Jobs, Cancel(j) /\ UNCHANGED kafkaVars PROVE IntakeInv'
    BY <1>2, <1>3, CancelDecides
  <1>4. CASE UNCHANGED intakeVars
    BY <1>2, <1>4 DEF intakeVars, vars, Unseen
  <1> QED
    BY <1>1, <1>3, <1>4 DEF IntakeNext, ConsumerStep

\* The invariant of the intake, with the types of the store.
THEOREM IntakeInvariant == IntakeSpec => [](TypeOK /\ IntakeInv)
  <1>1. IntakeInit => TypeOK /\ IntakeInv
    BY InitType, IntakeInitially DEF IntakeInit
  <1>2. TypeOK /\ IntakeInv /\ [IntakeNext]_intakeVars => (TypeOK /\ IntakeInv)'
    BY IntakeStep, NextType, IntakeNextKeepsInv DEF IntakeInv, LoopIsInOrder
  <1> QED
    BY <1>1, <1>2, PTL DEF IntakeSpec

\* The intake is one more user of the store: whatever is proved of Spec holds
\* here too.
THEOREM IntakeUsesStore == IntakeSpec => Spec
  <1>1. IntakeInit => Init
    BY DEF IntakeInit
  <1>2. IntakeInv /\ [IntakeNext]_intakeVars => [Next]_vars
    BY IntakeStep DEF IntakeInv, LoopIsInOrder
  <1> QED
    BY <1>1, <1>2, IntakeInvariant, PTL DEF IntakeSpec, Spec

\* consume_requests commits an offset only after register or the DLT has
\* taken every message up to it: no death, rebalance or lost reply skips one.
THEOREM CommittedWasHandled == IntakeSpec => []CommittedIsHandled
  BY IntakeInvariant, PTL DEF IntakeInv

\* The loops register messages in the order of the partition, also when
\* several of them believe that it is theirs.
THEOREM HandledAsLogged == IntakeSpec => []HandledInOrder
  BY IntakeInvariant, PTL DEF IntakeInv

(*****************************************************************************)
(* Publication of results (ResultPublisher).                                 *)
(*****************************************************************************)

-----------------------------------------------------------------------------
(* The rest of the system.                                                 *)

\* Other callers leave an ended record as it is, and publish none.
LEMMA OthersKeepResults ==
    ASSUME TypeOK, OtherOwners, NEW n \in Jobs
    PROVE  /\ IsTerminal(rec[n]) => rec'[n] = rec[n]
           /\ rec'[n].published => rec[n].published
  <1> USE DEF TypeOK
  <1>1. ASSUME NEW j \in Jobs, RegisterBusy(j) PROVE rec' = rec
    BY <1>1 DEF RegisterBusy
  <1>2. ASSUME NEW j \in Jobs, NEW valid \in BOOLEAN, RegisterAccepted(j, valid)
        PROVE  /\ \A i \in Jobs \ {j} : rec'[i] = rec[i]
               /\ ~ IsTerminal(rec[j]) /\ ~ rec'[j].published
    <2>1. [status |-> "FAILED", code |-> "INVALID_REQUEST"] \in FinalEvents
      BY DEF FinalEvents, TERMINAL_STATUSES, Codes
    <2> QED
      BY <1>2, <2>1, NewRecordType, TerminateType
         DEF RegisterAccepted, Unseen, IsTerminal, TERMINAL_STATUSES
  <1>3. ASSUME NEW k \in Kinds, NEW j \in Jobs, Claim(k, j)
        PROVE  /\ \A i \in Jobs \ {j} : rec'[i] = rec[i]
               /\ ~ IsTerminal(rec[j]) /\ rec'[j].published = rec[j].published
    BY <1>3 DEF Claim, JobRecord, IsTerminal, TERMINAL_STATUSES
  <1>4. ASSUME NEW j \in Jobs, NEW o \in 1 .. claims[j], NEW out \in Outcomes,
               Finish(j, o, out)
        PROVE  /\ \A i \in Jobs \ {j} : rec'[i] = rec[i]
               /\ ~ IsTerminal(rec[j]) /\ rec'[j].published = rec[j].published
    <2>1. rec[j] \in JobRecord /\ EnforceSizeLimit(out) \in FinalEvents
      BY SizeLimitType
    <2>2. rec[j].status = "PROCESSING"
      BY <1>4 DEF Finish, Owns
    <2>3. rec' = [rec EXCEPT ![j] = Terminate(rec[j], IF rec[j].cancel THEN Canceled
                                                      ELSE EnforceSizeLimit(out))]
      BY <1>4 DEF Finish, Change, ChangeIn
    <2>4. rec'[j].published = rec[j].published
      BY <2>1, <2>3, CanceledType, TerminateType
    <2>5. \A i \in Jobs \ {j} : rec'[i] = rec[i]
      BY <2>3
    <2> QED
      BY <2>2, <2>4, <2>5 DEF IsTerminal, TERMINAL_STATUSES
  <1>5. ASSUME NEW j \in Jobs, Cancel(j)
        PROVE  /\ \A i \in Jobs \ {j} : rec'[i] = rec[i]
               /\ ~ IsTerminal(rec[j]) /\ rec'[j].published = rec[j].published
    <2> DEFINE asked == [rec[j] EXCEPT !.cancel = TRUE]
    <2>0. rec[j] \in JobRecord
      OBVIOUS
    <2>1. asked \in JobRecord /\ asked.published = rec[j].published
      BY <2>0 DEF JobRecord
    <2> HIDE DEF asked
    <2>2. \/ rec' = [rec EXCEPT ![j] = asked]
          \/ rec' = [rec EXCEPT ![j] = Terminate(asked, Canceled)]
      BY <1>5 DEF Cancel, Change, ChangeIn, asked
    <2>3. ~ IsTerminal(rec[j])
      BY <1>5 DEF Cancel, ACTIVE_STATUSES, IsTerminal, TERMINAL_STATUSES
    <2> QED
      BY <2>1, <2>2, <2>3, CanceledType, TerminateType
  <1>6. ASSUME NEW j \in Jobs, Recover(j)
        PROVE  /\ \A i \in Jobs \ {j} : rec'[i] = rec[i]
               /\ ~ IsTerminal(rec[j]) /\ rec'[j].published = rec[j].published
    BY <1>6, AbandonedType DEF Recover, Change, ChangeIn, IsTerminal, TERMINAL_STATUSES
  <1> HIDE DEF TypeOK
  <1> QED
    BY <1>1, <1>2, <1>3, <1>4, <1>5, <1>6 DEF OtherOwners

\* What publishers and time do to a record: they change the fields of its
\* publication alone.
LEMMA ClaimResultOn ==
    ASSUME StoreInv, NEW j \in Jobs, NEW p \in Publishers, ClaimResult(j, p)
    PROVE  /\ \A i \in Jobs \ {j} : rec'[i] = rec[i]
           /\ IsTerminal(rec[j]) /\ rec[j].pubLeft = 0 /\ IsTerminal(rec'[j])
           /\ rec'[j].pubOwner = p /\ rec'[j].pubLeft = JOBS_PUBLISH_LEASE_SEC
           /\ ~ rec'[j].published
  <1>1. rec[j] \in JobRecord /\ rec \in [Jobs -> JobRecord]
    BY DEF StoreInv, TypeOK
  <1>2. rec' = [rec EXCEPT ![j] = [rec[j] EXCEPT !.pubOwner = p,
                                                 !.pubLeft = JOBS_PUBLISH_LEASE_SEC]]
    BY DEF ClaimResult, Change, ChangeIn
  <1>3. IsTerminal(rec[j])
    BY DEF ClaimResult, StoreInv, EventMatchesStatus
  <1>4. rec[j].pubLeft = 0 /\ ~ rec[j].published
    BY DEF ClaimResult
  <1> QED
    BY <1>1, <1>2, <1>3, <1>4 DEF JobRecord, IsTerminal

LEMMA AcknowledgeOn ==
    ASSUME TypeOK, NEW j \in Jobs, NEW p \in Publishers, AcknowledgeResult(j, p), NEW n \in Jobs
    PROVE  /\ rec'[n].status = rec[n].status
           /\ rec'[n].pubOwner = rec[n].pubOwner /\ rec'[n].pubLeft = rec[n].pubLeft
           /\ n # j => rec'[n].published = rec[n].published
  BY DEF AcknowledgeResult, TypeOK, JobRecord

LEMMA TickOn ==
    ASSUME TypeOK, Tick, NEW n \in Jobs
    PROVE  /\ rec'[n].status = rec[n].status /\ rec'[n].published = rec[n].published
           /\ rec'[n].pubOwner = rec[n].pubOwner
           /\ rec[n].pubLeft \in Nat /\ rec'[n].pubLeft = Closer(rec[n].pubLeft)
  BY DEF Tick, TypeOK, JobRecord

-----------------------------------------------------------------------------
(* The store underneath.                                                   *)

\* Every step of a publisher is a step of the store.
LEMMA PubStep ==
    ASSUME PubTypeOK, [PubNext]_allPubVars
    PROVE  [Next]_vars
  <1>1. CASE OtherOwners
    BY <1>1 DEF OtherOwners, Next
  <1>2. ASSUME NEW p \in Publishers, NEW j \in Jobs, PubClaims(p, j) PROVE [Next]_vars
    BY <1>2 DEF PubClaims, Next
  <1>3. ASSUME NEW p \in Publishers, Acks(p) PROVE [Next]_vars
    <2>1. pub[p].job \in Jobs
      BY <1>3 DEF Acks, PubTypeOK
    <2> QED
      BY <1>3, <2>1 DEF Acks, Next
  <1>4. ASSUME NEW p \in Publishers,
               SendSucceeds(p) \/ SendTooLarge(p) \/ SendFails(p) \/ SendTimesOut(p) \/ PubDies(p)
        PROVE  [Next]_vars
    BY <1>4 DEF SendSucceeds, SendTooLarge, SendFails, SendTimesOut, PubDies
  <1>5. ASSUME NEW m \in inflight, LateDelivery(m) PROVE [Next]_vars
    BY <1>5 DEF LateDelivery
  <1>6. CASE PubTick
    BY <1>6 DEF PubTick, Next
  <1>7. CASE UNCHANGED allPubVars
    BY <1>7 DEF allPubVars
  <1> QED
    BY <1>1, <1>2, <1>3, <1>4, <1>5, <1>6, <1>7 DEF PubNext

-----------------------------------------------------------------------------
(* The invariant.                                                          *)

\* The broker has the message whose reply a publisher has seen.
AckedIsDelivered ==
    \A p \in Publishers : pub[p].pc = "acking" => delivered[pub[p].job] # {}

\* A publisher that sends is the owner of the result, and its send times out
\* before its lease ends.
SendingIsLeased ==
    \A p \in Publishers :
        pub[p].pc = "sending"
        => LET r == rec[pub[p].job]
           IN  IsTerminal(r) /\ r.pubOwner = p /\ r.pubLeft > pub[p].left

PubInv == PubTypeOK /\ AckedIsDelivered /\ PublishedIsDelivered /\ SendingIsLeased

LEMMA PubInitially == PubInit => PubInv
  <1> SUFFICES ASSUME PubInit PROVE PubInv
    OBVIOUS
  <1>1. \A j \in Jobs : ~ rec[j].published
    BY DEF PubInit, Init, NoRecord
  <1> QED
    BY <1>1, PublisherAssumption DEF PubInit, PubInv, PubTypeOK, AckedIsDelivered,
       PublishedIsDelivered, SendingIsLeased, Idle

\* What a step of one publisher, with the store left alone, has to show.
LEMMA PublisherStep ==
    ASSUME StoreInv, PubInv, NEW p \in Publishers,
           UNCHANGED rec, sendFaults' \in 0 .. MaxSendFaults, inflight' \in SUBSET (Jobs \X Events),
           delivered' \in [Jobs -> SUBSET Events],
           \A j \in Jobs : delivered[j] \subseteq delivered'[j],
           \/ pub' = [pub EXCEPT ![p] = Idle]
           \/ pub' = [pub EXCEPT ![p].pc = "acking"] /\ pub[p].pc = "sending"
              /\ delivered'[pub[p].job] # {}
           \/ pub' = pub
    PROVE  PubInv'
  <1> USE DEF PubInv
  <1>0. /\ pub \in [Publishers -> [pc : {"idle", "sending", "acking"},
                                   job : Jobs \cup {NoJob}, left : Nat]]
        /\ \A q \in Publishers : pub[q].pc # "idle" => pub[q].job \in Jobs
    BY DEF PubTypeOK
  <1>1. PubTypeOK'
    BY <1>0 DEF PubTypeOK, Idle
  <1>2. \A q \in Publishers : \/ pub'[q].pc = "idle" \/ pub'[q] = pub[q]
                              \/ /\ pub'[q].pc = "acking" /\ pub'[q].job = pub[q].job
                                 /\ delivered'[pub[q].job] # {}
    BY <1>0 DEF Idle
  <1>3. AckedIsDelivered'
    BY <1>0, <1>2 DEF AckedIsDelivered
  <1>4. PublishedIsDelivered'
    BY DEF PublishedIsDelivered
  <1>5. SendingIsLeased'
    BY <1>0, <1>2 DEF SendingIsLeased
  <1> QED
    BY <1>1, <1>3, <1>4, <1>5

LEMMA NextKeepsPub ==
    ASSUME StoreInv, PubInv, [PubNext]_allPubVars
    PROVE  PubInv'
  <1> USE DEF PubInv
  <1>0. /\ pub \in [Publishers -> [pc : {"idle", "sending", "acking"},
                                   job : Jobs \cup {NoJob}, left : Nat]]
        /\ \A q \in Publishers : pub[q].pc # "idle" => pub[q].job \in Jobs
        /\ delivered \in [Jobs -> SUBSET Events] /\ inflight \in SUBSET (Jobs \X Events)
        /\ sendFaults \in 0 .. MaxSendFaults /\ MaxSendFaults \in Nat
        /\ \A j \in Jobs : rec[j].event \in Events
    BY PublisherAssumption DEF PubTypeOK, StoreInv, TypeOK, JobRecord
  <1>t. TypeOK
    BY DEF StoreInv
  <1>1. CASE OtherOwners /\ UNCHANGED pubVars
    <2>1. \A n \in Jobs : /\ IsTerminal(rec[n]) => rec'[n] = rec[n]
                          /\ rec'[n].published => rec[n].published
      BY <1>1, <1>t, OthersKeepResults
    <2>2. UNCHANGED <<pub, inflight, delivered, sendFaults>>
      BY <1>1 DEF pubVars
    <2>3. PubTypeOK'
      BY <2>2 DEF PubTypeOK
    <2>4. AckedIsDelivered' /\ PublishedIsDelivered'
      BY <2>1, <2>2 DEF AckedIsDelivered, PublishedIsDelivered
    <2>5. SendingIsLeased'
      BY <1>0, <2>1, <2>2 DEF SendingIsLeased
    <2> QED
      BY <2>3, <2>4, <2>5
  <1>2. ASSUME NEW p \in Publishers, NEW j \in Jobs, PubClaims(p, j) PROVE PubInv'
    <2>1. /\ \A i \in Jobs \ {j} : rec'[i] = rec[i]
          /\ IsTerminal(rec[j]) /\ rec[j].pubLeft = 0 /\ IsTerminal(rec'[j])
          /\ rec'[j].pubOwner = p /\ rec'[j].pubLeft = JOBS_PUBLISH_LEASE_SEC
          /\ ~ rec'[j].published
      BY <1>2, ClaimResultOn DEF PubClaims
    <2>2. SendTimeout \in Nat /\ SendTimeout < JOBS_PUBLISH_LEASE_SEC
      BY TimeAssumption DEF SendTimeout
    <2>3. /\ pub' = [pub EXCEPT ![p] = [pc |-> "sending", job |-> j, left |-> SendTimeout]]
          /\ UNCHANGED <<inflight, delivered, sendFaults>>
      BY <1>2 DEF PubClaims
    <2>4. \A q \in Publishers : pub[q].pc = "sending" => pub[q].job # j
      BY <1>0, <2>1 DEF SendingIsLeased
    <2>5. PubTypeOK'
      BY <1>0, <2>2, <2>3, JobsAssumption DEF PubTypeOK
    <2>6. AckedIsDelivered' /\ PublishedIsDelivered'
      BY <1>0, <2>1, <2>3 DEF AckedIsDelivered, PublishedIsDelivered
    <2>7. SendingIsLeased'
      BY <1>0, <2>1, <2>2, <2>3, <2>4 DEF SendingIsLeased
    <2> QED
      BY <2>5, <2>6, <2>7
  <1>3. ASSUME NEW p \in Publishers, SendSucceeds(p) PROVE PubInv'
    <2>1. /\ pub[p].pc = "sending" /\ pub[p].job \in Jobs
          /\ delivered' = [delivered EXCEPT ![pub[p].job] = @ \cup {rec[pub[p].job].event}]
          /\ pub' = [pub EXCEPT ![p].pc = "acking"]
          /\ UNCHANGED <<vars, inflight, sendFaults>>
      BY <1>0, <1>3 DEF SendSucceeds, Delivery
    <2>2. /\ delivered' \in [Jobs -> SUBSET Events]
          /\ \A i \in Jobs : delivered[i] \subseteq delivered'[i]
          /\ delivered'[pub[p].job] # {}
      BY <1>0, <2>1
    <2>3. UNCHANGED rec
      BY <2>1 DEF vars
    <2> QED
      BY <1>0, <2>1, <2>2, <2>3, PublisherStep
  <1>4. ASSUME NEW p \in Publishers,
               SendTooLarge(p) \/ SendFails(p) \/ SendTimesOut(p) \/ PubDies(p)
        PROVE  PubInv'
    <2>1. /\ pub' = [pub EXCEPT ![p] = Idle] /\ UNCHANGED <<rec, delivered>>
          /\ pub[p].pc # "idle"
          /\ inflight' \in {inflight, inflight \cup {<<pub[p].job, rec[pub[p].job].event>>}}
      BY <1>4 DEF SendTooLarge, SendFails, SendTimesOut, PubDies, vars
    <2>2. inflight' \in SUBSET (Jobs \X Events)
      BY <1>0, <2>1
    <2>3. sendFaults' \in 0 .. MaxSendFaults
      BY <1>0, <1>4 DEF SendTooLarge, SendFails, SendTimesOut, PubDies
    <2> QED
      BY <1>0, <2>1, <2>2, <2>3, PublisherStep
  <1>5. ASSUME NEW m \in inflight, LateDelivery(m) PROVE PubInv'
    <2>1. /\ inflight' = inflight \ {m} /\ UNCHANGED <<rec, pub, sendFaults>>
          /\ delivered' = [delivered EXCEPT ![m[1]] = @ \cup {m[2]}]
          /\ m[1] \in Jobs /\ m[2] \in Events
      BY <1>0, <1>5 DEF LateDelivery, vars
    <2>2. /\ delivered' \in [Jobs -> SUBSET Events]
          /\ \A i \in Jobs : delivered[i] \subseteq delivered'[i]
          /\ inflight' \in SUBSET (Jobs \X Events)
      BY <1>0, <2>1
    <2>3. PubTypeOK'
      BY <2>1, <2>2 DEF PubTypeOK
    <2> QED
      BY <1>0, <2>1, <2>2, <2>3 DEF AckedIsDelivered, PublishedIsDelivered, SendingIsLeased
  <1>6. ASSUME NEW p \in Publishers, Acks(p) PROVE PubInv'
    <2>1. /\ pub[p].pc = "acking" /\ pub[p].job \in Jobs
          /\ pub' = [pub EXCEPT ![p] = Idle]
          /\ UNCHANGED <<inflight, delivered, sendFaults>>
      BY <1>0, <1>6 DEF Acks
    <2>2. \A n \in Jobs : /\ rec'[n].status = rec[n].status
                          /\ rec'[n].pubOwner = rec[n].pubOwner
                          /\ rec'[n].pubLeft = rec[n].pubLeft
                          /\ n # pub[p].job => rec'[n].published = rec[n].published
      BY <1>6, <1>t, <2>1, AcknowledgeOn DEF Acks, vars
    <2>3. delivered[pub[p].job] # {}
      BY <2>1 DEF AckedIsDelivered
    <2>4. PubTypeOK'
      BY <1>0, <2>1 DEF PubTypeOK, Idle
    <2>5. AckedIsDelivered' /\ PublishedIsDelivered'
      BY <1>0, <2>1, <2>2, <2>3 DEF AckedIsDelivered, PublishedIsDelivered, Idle
    <2>6. SendingIsLeased'
      BY <1>0, <2>1, <2>2 DEF SendingIsLeased, Idle, IsTerminal
    <2> QED
      BY <2>4, <2>5, <2>6
  <1>7. CASE PubTick
    <2>1. \A n \in Jobs : /\ rec'[n].status = rec[n].status
                          /\ rec'[n].published = rec[n].published
                          /\ rec'[n].pubOwner = rec[n].pubOwner
                          /\ rec[n].pubLeft \in Nat /\ rec'[n].pubLeft = Closer(rec[n].pubLeft)
      BY <1>7, <1>t, TickOn DEF PubTick
    <2>2. /\ UNCHANGED <<inflight, delivered, sendFaults>>
          /\ \A p \in Publishers : pub[p].pc = "sending" => pub[p].left > 0
          /\ pub' = [p \in Publishers |-> [pub[p] EXCEPT !.left = Closer(@)]]
      BY <1>7 DEF PubTick
    <2>3. \A p \in Publishers : /\ pub'[p].pc = pub[p].pc /\ pub'[p].job = pub[p].job
                                /\ pub[p].left \in Nat /\ pub'[p].left = Closer(pub[p].left)
      BY <1>0, <2>2
    <2>4. PubTypeOK'
      BY <1>0, <2>2 DEF PubTypeOK, Closer
    <2>5. AckedIsDelivered' /\ PublishedIsDelivered'
      BY <2>1, <2>2, <2>3 DEF AckedIsDelivered, PublishedIsDelivered
    <2>6. SendingIsLeased'
      <3> SUFFICES ASSUME NEW p \in Publishers, pub'[p].pc = "sending"
                   PROVE  LET r == rec'[pub'[p].job]
                          IN  IsTerminal(r) /\ r.pubOwner = p /\ r.pubLeft > pub'[p].left
        BY DEF SendingIsLeased
      <3> DEFINE n == pub[p].job
      <3>1. pub[p].pc = "sending" /\ n \in Jobs /\ pub'[p].job = n
        BY <1>0, <2>3
      <3>2. IsTerminal(rec[n]) /\ rec[n].pubOwner = p /\ rec[n].pubLeft > pub[p].left
        BY <3>1 DEF SendingIsLeased
      <3>3. pub[p].left > 0
        BY <2>2, <3>1
      <3> QED
        BY <2>1, <2>3, <3>1, <3>2, <3>3 DEF IsTerminal, Closer
    <2> QED
      BY <2>4, <2>5, <2>6
  <1>8. CASE UNCHANGED allPubVars
    BY <1>8 DEF allPubVars, vars, pubVars, PubTypeOK, AckedIsDelivered, PublishedIsDelivered,
                SendingIsLeased
  <1> QED
    BY <1>1, <1>2, <1>3, <1>4, <1>5, <1>6, <1>7, <1>8 DEF PubNext

-----------------------------------------------------------------------------
(* The theorems.                                                           *)

THEOREM PubInvariant == PubSpec => [](StoreInv /\ PubInv)
  <1>1. PubInit => StoreInv /\ PubInv
    BY InitInv, PubInitially DEF PubInit
  <1>2. StoreInv /\ PubInv /\ [PubNext]_allPubVars => (StoreInv /\ PubInv)'
    BY NextKeepsPub, PubStep, NextKeepsInv DEF PubInv
  <1> QED
    BY <1>1, <1>2, PTL DEF PubSpec

\* publish_results keeps to the contract of the store, so that every theorem
\* about the store holds with publishers.
THEOREM PublishersUseStore == PubSpec => Spec
  <1>1. PubInit => Init
    BY DEF PubInit
  <1>2. PubInv /\ [PubNext]_allPubVars => [Next]_vars
    BY PubStep DEF PubInv
  <1> QED
    BY <1>1, <1>2, PubInvariant, PTL DEF PubSpec, Spec

\* publish_results and acknowledge_result: a result is marked published only
\* when the broker has stored it.
THEOREM PublishedWasDelivered == PubSpec => []PublishedIsDelivered
  BY PubInvariant, PTL DEF PubInv

\* claim_result and the send timeout of half the lease: two publishers never
\* send the same result at the same time.
THEOREM OneSender == PubSpec => []NoDoubleSend
  <1>1. PubInv => NoDoubleSend
    BY DEF PubInv, SendingIsLeased, NoDoubleSend
  <1> QED
    BY <1>1, PubInvariant, PTL

(*****************************************************************************)
(* Photo batches (PhotoBatches).                                             *)
(*****************************************************************************)

-----------------------------------------------------------------------------
(* The store underneath.                                                   *)

\* What the batches leave of the job store is one of its steps.
LEMMA PhotoStep ==
    ASSUME [PhotoNext]_batchVars
    PROVE  [Next]_vars
  <1>1. ASSUME NEW j \in Jobs, NEW n \in BatchNos, StagePhotos(j, n) PROVE [Next]_vars
    BY <1>1 DEF StagePhotos
  <1>2. ASSUME NEW j \in Jobs, RegisterProcess(j) PROVE [Next]_vars
    BY <1>2 DEF RegisterProcess, Next
  <1>3. ASSUME NEW j \in Jobs, Cancel(j) PROVE [Next]_vars
    BY <1>3 DEF Next
  <1>4. ASSUME NEW w \in Workers, NEW m \in Members, PopBatch(w, m) PROVE [Next]_vars
    BY <1>4 DEF PopBatch
  <1>5. ASSUME NEW w \in Workers,
               ClaimBatch(w) \/ ReadBatch(w) \/ BatchDone(w) \/ BatchLost(w)
        PROVE  [Next]_vars
    BY <1>5 DEF ClaimBatch, ReadBatch, BatchDone, BatchLost
  <1>6. ASSUME PhotoTick PROVE [Next]_vars
    BY <1>6 DEF PhotoTick, Next
  <1>7. CASE UNCHANGED batchVars
    BY <1>7 DEF batchVars
  <1> QED
    BY <1>1, <1>2, <1>3, <1>4, <1>5, <1>6, <1>7 DEF PhotoNext

\* The part of the server that stages and embeds batches uses the job store
\* as JobStore has it, so every theorem about the store holds of it.
THEOREM PhotosUseStore == PhotoSpec => Spec
  <1>1. PhotoInit => Init
    BY DEF PhotoInit
  <1>2. [PhotoNext]_batchVars => [Next]_vars
    BY PhotoStep
  <1> QED
    BY <1>1, <1>2, PTL DEF PhotoSpec, Spec

-----------------------------------------------------------------------------
(* The invariant.                                                          *)

BuffersFinite == \A j \in Jobs : IsFiniteSet(buffer[j])

\* register clears the buffer, and nothing fills it afterwards.
ClosedIsEmpty == \A j \in Jobs : Closed(j) => buffer[j] = {}

WorkersHaveBatches ==
    \A w \in Workers : worker[w].pc # "idle"
                       => worker[w].job \in Jobs /\ worker[w].no \in BatchNos

PhotoInv == PhotoTypeOK /\ BuffersFinite /\ ClosedIsEmpty /\ WorkersHaveBatches

\* A job that is closed stays closed, and only register closes one.
LEMMA ClosedByRegister ==
    ASSUME TypeOK, NEW i \in Jobs,
           \/ Tick \/ UNCHANGED vars
           \/ \E j \in Jobs : Cancel(j)
           \/ \E j \in Jobs : j # i /\ (RegisterBusy(j) \/ RegisterAccepted(j, TRUE))
    PROVE  Closed(i)' = Closed(i)
  <1> USE DEF TypeOK, Closed
  <1>1. CASE Tick
    BY <1>1 DEF Tick, registry, JobRecord
  <1>2. CASE UNCHANGED vars
    BY <1>2 DEF vars
  <1>3. ASSUME NEW j \in Jobs, Cancel(j) PROVE Closed(i)' = Closed(i)
    <2>1. ignored' = ignored
      BY <1>3 DEF Cancel, Change, ChangeIn, registry
    <2>2. i # j => rec'[i] = rec[i]
      BY <1>3 DEF Cancel, Change, ChangeIn
    <2>3. rec[j].status # "ABSENT" /\ rec'[j].status # "ABSENT"
      BY <1>3 DEF Cancel, Change, ChangeIn, ACTIVE_STATUSES, Terminate, Canceled, JobRecord
    <2> QED
      BY <2>1, <2>2, <2>3
  <1>4. ASSUME NEW j \in Jobs, j # i, RegisterBusy(j) PROVE Closed(i)' = Closed(i)
    BY <1>4 DEF RegisterBusy
  <1>5. ASSUME NEW j \in Jobs, j # i, RegisterAccepted(j, TRUE) PROVE Closed(i)' = Closed(i)
    BY <1>5 DEF RegisterAccepted
  <1> QED
    BY <1>1, <1>2, <1>3, <1>4, <1>5

LEMMA PhotoInitially == PhotoInit => PhotoInv
  <1> SUFFICES ASSUME PhotoInit PROVE PhotoInv
    OBVIOUS
  <1> USE DEF PhotoInit
  <1>1. IsFiniteSet({}) /\ Cardinality({}) = 0
    BY FS_EmptySet
  <1>2. PhotoTypeOK
    BY <1>1, BatchAssumption DEF PhotoTypeOK, NoBatch
  <1> QED
    BY <1>1, <1>2 DEF PhotoInv, BuffersFinite, ClosedIsEmpty, WorkersHaveBatches, NoBatch

LEMMA StageKeepsInv ==
    ASSUME TypeOK, PhotoInv, NEW j \in Jobs, NEW n \in BatchNos, StagePhotos(j, n)
    PROVE  PhotoInv'
  <1> USE DEF PhotoInv
  <1>1. /\ UNCHANGED <<vars, worker>>
        /\ buffer' = [buffer EXCEPT ![j] = @ \cup {n}]
        /\ bufferLeft' = [bufferLeft EXCEPT ![j] = JOBS_PHOTOS_READY_TTL_SEC]
        /\ n \notin buffer[j] /\ Cardinality(buffer[j]) < BatchLimit /\ ~ Closed(j)
    BY DEF StagePhotos
  <1>2. \A i \in Jobs : Closed(i)' = Closed(i)
    BY <1>1, ClosedByRegister
  <1>3. /\ IsFiniteSet(buffer[j] \cup {n})
        /\ Cardinality(buffer[j] \cup {n}) <= BatchLimit
    <2>1. IsFiniteSet(buffer[j]) /\ Cardinality(buffer[j]) \in Nat
      BY FS_CardinalityType DEF BuffersFinite
    <2>2. IsFiniteSet(buffer[j] \cup {n})
      BY <2>1, FS_AddElement
    <2>3. Cardinality(buffer[j] \cup {n}) = Cardinality(buffer[j]) + 1
      BY <1>1, <2>1, FS_AddElement
    <2> QED
      BY <1>1, <2>1, <2>2, <2>3, BatchAssumption
  <1>4. PhotoTypeOK'
    <2>1. buffer' \in [Jobs -> SUBSET BatchNos]
      BY <1>1 DEF PhotoTypeOK
    <2>2. bufferLeft' \in [Jobs -> 0 .. JOBS_PHOTOS_READY_TTL_SEC]
      BY <1>1, BatchAssumption DEF PhotoTypeOK
    <2>3. \A i \in Jobs : /\ (buffer'[i] = {}) = (bufferLeft'[i] = 0)
                          /\ Cardinality(buffer'[i]) <= BatchLimit
      BY <1>1, <1>3, BatchAssumption DEF PhotoTypeOK
    <2>4. queueLeft' \in [Members -> {Absent} \cup 0 .. JOBS_PHOTOS_READY_TTL_SEC]
      BY BatchAssumption DEF PhotoTypeOK, StagePhotos
    <2>5. staged' \in [Members -> 0 .. MaxStagings]
      BY BatchAssumption DEF PhotoTypeOK, StagePhotos, Members
    <2> QED
      BY <1>1, <2>1, <2>2, <2>3, <2>4, <2>5 DEF PhotoTypeOK
  <1>5. BuffersFinite'
    BY <1>1, <1>3 DEF BuffersFinite, PhotoTypeOK
  <1>6. ClosedIsEmpty'
    BY <1>1, <1>2 DEF ClosedIsEmpty, PhotoTypeOK
  <1>7. WorkersHaveBatches'
    BY <1>1 DEF WorkersHaveBatches
  <1> QED
    BY <1>4, <1>5, <1>6, <1>7

LEMMA RegisterKeepsPhotos ==
    ASSUME TypeOK, PhotoInv, NEW j \in Jobs, RegisterProcess(j)
    PROVE  PhotoInv'
  <1> USE DEF PhotoInv
  <1>1. /\ UNCHANGED <<worker, staged>>
        /\ buffer' = [buffer EXCEPT ![j] = {}]
        /\ bufferLeft' = [bufferLeft EXCEPT ![j] = 0]
    BY DEF RegisterProcess, ClearBatches
  <1>2. \A i \in Jobs \ {j} : Closed(i)' = Closed(i)
    BY ClosedByRegister DEF RegisterProcess
  <1>3. IsFiniteSet({}) /\ Cardinality({}) = 0
    BY FS_EmptySet
  <1>4. queueLeft' \in [Members -> {Absent} \cup 0 .. JOBS_PHOTOS_READY_TTL_SEC]
    BY DEF RegisterProcess, ClearBatches, PhotoTypeOK
  <1>5. PhotoTypeOK'
    BY <1>1, <1>3, <1>4, BatchAssumption DEF PhotoTypeOK
  <1>6. BuffersFinite'
    BY <1>1, <1>3 DEF BuffersFinite, PhotoTypeOK
  <1>7. ClosedIsEmpty'
    BY <1>1, <1>2 DEF ClosedIsEmpty, PhotoTypeOK
  <1>8. WorkersHaveBatches'
    BY <1>1 DEF WorkersHaveBatches
  <1> QED
    BY <1>5, <1>6, <1>7, <1>8

LEMMA WorkerKeepsInv ==
    ASSUME TypeOK, PhotoInv, NEW w \in Workers,
           \/ \E m \in Members : PopBatch(w, m)
           \/ ClaimBatch(w) \/ ReadBatch(w) \/ BatchDone(w) \/ BatchLost(w)
    PROVE  PhotoInv'
  <1> USE DEF PhotoInv
  <1>1. UNCHANGED <<vars, buffer, bufferLeft, staged>>
    BY DEF PopBatch, ClaimBatch, ReadBatch, BatchDone, BatchLost
  <1>2. \A i \in Jobs : Closed(i)' = Closed(i)
    BY <1>1, ClosedByRegister
  <1>3. queueLeft' \in [Members -> {Absent} \cup 0 .. JOBS_PHOTOS_READY_TTL_SEC]
    BY DEF PopBatch, ClaimBatch, ReadBatch, BatchDone, BatchLost, PhotoTypeOK
  <1>4. /\ worker' = [worker EXCEPT ![w] = worker'[w]]
        /\ worker'[w] \in [pc : {"idle", "popped", "claimed", "embedding"},
                           job : Jobs \cup {NoJob}, no : BatchNos \cup {0}]
        /\ worker'[w].pc # "idle" => worker'[w].job \in Jobs /\ worker'[w].no \in BatchNos
    <2>0. worker \in [Workers -> [pc : {"idle", "popped", "claimed", "embedding"},
                                 job : Jobs \cup {NoJob}, no : BatchNos \cup {0}]]
      BY DEF PhotoTypeOK
    <2>1. CASE \E m \in Members : PopBatch(w, m)
      BY <2>0, <2>1 DEF PopBatch, Members
    <2>2. CASE ClaimBatch(w)
      BY <2>0, <2>2 DEF ClaimBatch, WorkersHaveBatches, NoBatch
    <2>3. CASE ReadBatch(w)
      BY <2>0, <2>3 DEF ReadBatch, WorkersHaveBatches, NoBatch
    <2>4. CASE BatchDone(w) \/ BatchLost(w)
      BY <2>0, <2>4 DEF BatchDone, BatchLost, WorkersHaveBatches, NoBatch
    <2> QED
      BY <2>1, <2>2, <2>3, <2>4
  <1>5. PhotoTypeOK'
    BY <1>1, <1>3, <1>4 DEF PhotoTypeOK
  <1>6. BuffersFinite' /\ ClosedIsEmpty'
    BY <1>1, <1>2 DEF BuffersFinite, ClosedIsEmpty
  <1>7. WorkersHaveBatches'
    BY <1>4 DEF WorkersHaveBatches, PhotoTypeOK
  <1> QED
    BY <1>5, <1>6, <1>7

LEMMA PhotoTickKeepsInv ==
    ASSUME TypeOK, PhotoInv, PhotoTick
    PROVE  PhotoInv'
  <1> USE DEF PhotoInv
  <1>1. /\ UNCHANGED <<worker, staged>>
        /\ bufferLeft' = [j \in Jobs |-> Closer(bufferLeft[j])]
        /\ buffer' = [j \in Jobs |-> IF bufferLeft[j] > 1 THEN buffer[j] ELSE {}]
        /\ queueLeft' = [m \in Members |-> Closer(queueLeft[m])]
    BY DEF PhotoTick
  <1>2. \A i \in Jobs : Closed(i)' = Closed(i)
    BY ClosedByRegister DEF PhotoTick
  <1>3. IsFiniteSet({}) /\ Cardinality({}) = 0
    BY FS_EmptySet
  <1>4. PhotoTypeOK'
    BY <1>1, <1>3, BatchAssumption DEF PhotoTypeOK, Closer, Absent
  <1>5. BuffersFinite' /\ ClosedIsEmpty'
    BY <1>1, <1>2, <1>3 DEF BuffersFinite, ClosedIsEmpty
  <1>6. WorkersHaveBatches'
    BY <1>1 DEF WorkersHaveBatches
  <1> QED
    BY <1>4, <1>5, <1>6

LEMMA NextKeepsPhotos ==
    ASSUME TypeOK, PhotoInv, [PhotoNext]_batchVars
    PROVE  PhotoInv'
  <1>1. ASSUME NEW j \in Jobs, Cancel(j) /\ UNCHANGED photoVars PROVE PhotoInv'
    <2>1. \A i \in Jobs : Closed(i)' = Closed(i)
      BY <1>1, ClosedByRegister
    <2> QED
      BY <1>1, <2>1 DEF PhotoInv, photoVars, PhotoTypeOK, BuffersFinite, ClosedIsEmpty,
                        WorkersHaveBatches
  <1>2. CASE UNCHANGED batchVars
    <2>1. \A i \in Jobs : Closed(i)' = Closed(i)
      BY <1>2, ClosedByRegister DEF batchVars
    <2> QED
      BY <1>2, <2>1 DEF batchVars, photoVars, PhotoInv, PhotoTypeOK, BuffersFinite,
                        ClosedIsEmpty, WorkersHaveBatches
  <1> QED
    BY <1>1, <1>2, StageKeepsInv, RegisterKeepsPhotos, WorkerKeepsInv, PhotoTickKeepsInv
       DEF PhotoNext

-----------------------------------------------------------------------------
(* The theorems.                                                           *)

THEOREM PhotoInvariant == PhotoSpec => [](TypeOK /\ PhotoInv)
  <1>1. PhotoInit => PhotoInv
    BY PhotoInitially
  <1>2. TypeOK /\ PhotoInv /\ [PhotoNext]_batchVars => PhotoInv'
    BY NextKeepsPhotos
  <1> QED
    BY <1>1, <1>2, PhotosUseStore, TypeCorrect, PTL DEF PhotoSpec

\* register and the batches: no runner starts to embed a batch whose
\* execution has its process request already, whether the batch was still
\* queued then or arrived too late.
THEOREM OnlyAheadOfProcess == PhotoSpec => NoBatchAfterProcess
  <1>1. ASSUME TypeOK, PhotoInv, [PhotoNext]_batchVars PROVE [EmbedsAheadOnly]_batchVars
    <2> SUFFICES ASSUME NEW w \in Workers,
                        worker[w].pc # "embedding", worker'[w].pc = "embedding"
                 PROVE  ~ Closed(worker[w].job)
      BY DEF EmbedsAheadOnly
    <2> USE <1>1 DEF PhotoInv, PhotoTypeOK
    <2>1. ~ UNCHANGED worker
      OBVIOUS
    <2>2. PICK v \in Workers : \/ \E m \in Members : PopBatch(v, m)
                              \/ ClaimBatch(v) \/ ReadBatch(v)
                              \/ BatchDone(v) \/ BatchLost(v)
      BY <2>1 DEF PhotoNext, StagePhotos, RegisterProcess, PhotoTick, photoVars, batchVars
    <2>3. v = w
      BY <2>2 DEF PopBatch, ClaimBatch, ReadBatch, BatchDone, BatchLost
    <2>4. ReadBatch(w)
      BY <2>2, <2>3 DEF PopBatch, ClaimBatch, BatchDone, BatchLost, NoBatch
    <2>5. worker[w].no \in buffer[worker[w].job] /\ worker[w].job \in Jobs
      BY <2>4 DEF ReadBatch, NoBatch, WorkersHaveBatches
    <2> QED
      BY <2>5 DEF ClosedIsEmpty
  <1> QED
    BY <1>1, PhotoInvariant, PTL DEF PhotoSpec, NoBatchAfterProcess

(*****************************************************************************)
(* The index file and the standby children (PlaceIndexFile, StandbyChildren). *)
(*****************************************************************************)

-----------------------------------------------------------------------------
(* The index file.                                                         *)

Inside == {"check", "trusted", "downloaded", "swap", "swapped", "stamping"}
Places == Inside \cup {"start", "open", "ready"}

IndexTypeOK ==
    /\ file \in Files \cup {NoFile}
    /\ partial \in Files \cup {NoFile}
    /\ stamp \in Stamps \cup {NoStamp, EmptyStamp}
    /\ holder \in HostRunners \cup {NoRunner}
    /\ prep \in [HostRunners -> Places]

\* A runner is between taking and giving back the lock exactly while it is
\* the holder, so at most one is.
OneInside == \A r \in HostRunners : prep[r] \in Inside <=> holder = r

\* A stamp that has the time of the file names its content.
StampIsTrue ==
    file # NoFile /\ stamp \in Stamps /\ stamp.time = file.time => stamp.sha = file.content

\* What the holder has established at each of its steps.
HolderKnows ==
    \A r \in HostRunners :
        /\ prep[r] \in {"downloaded", "swap"} => partial \in Files
        /\ At(r, "swap") => partial.content = Wanted[r] /\ stamp = NoStamp
        /\ prep[r] \in {"swapped", "stamping", "trusted"}
           => file \in Files /\ file.content = Wanted[r]
        /\ At(r, "swapped") => stamp = NoStamp
        /\ At(r, "stamping") => stamp = EmptyStamp

\* What the runners that have left the lock rely on.
OpenedIsVerified ==
    \A r \in HostRunners : prep[r] \in {"open", "ready"}
                       => file \in Files /\ \E q \in HostRunners : file.content = Wanted[q]

IndexInv == IndexTypeOK /\ OneInside /\ StampIsTrue /\ HolderKnows /\ OpenedIsVerified

\* A host whose stamp, if it has one, is not of another file of the same time.
LEMMA IndexInitially == IndexInit => IndexInv
  <1> SUFFICES ASSUME IndexInit PROVE IndexInv
    OBVIOUS
  <1> USE IndexAssumption DEF IndexInit
  <1>1. IndexTypeOK
    <2>1. stamp \in Stamps \cup {NoStamp, EmptyStamp}
      BY DEF Files, Stamps
    <2>2. prep \in [HostRunners -> Places]
      BY DEF Places
    <2> QED
      BY <2>1, <2>2 DEF IndexTypeOK
  <1>2. OneInside
    BY DEF OneInside, Inside
  <1>3. StampIsTrue
    BY DEF StampIsTrue, Files
  <1>4. HolderKnows /\ OpenedIsVerified
    BY DEF HolderKnows, OpenedIsVerified, At
  <1> QED
    BY <1>1, <1>2, <1>3, <1>4 DEF IndexInv

\* One step of ensure_local_index, or the end of a runner, keeps it.
LEMMA PrepareKeeps ==
    ASSUME IndexInv, NEW r \in HostRunners, Prepare(r) \/ Leaves(r)
    PROVE  IndexInv'
  <1> USE IndexAssumption DEF IndexInv, IndexTypeOK, At, Goes
  <1>1. CASE TakeLock(r)
    BY <1>1 DEF TakeLock, OneInside, StampIsTrue, HolderKnows, OpenedIsVerified, Inside, Places
  <1>2. CASE TrustStamp(r)
    <2>1. file \in Files /\ stamp \in Stamps /\ stamp.time = file.time /\ stamp.sha = Wanted[r]
      BY <1>2 DEF TrustStamp, StampHolds, StampOf, Files, Stamps
    <2> QED
      BY <1>2, <2>1 DEF TrustStamp, OneInside, StampIsTrue, HolderKnows, OpenedIsVerified,
                        Inside, Places
  <1>3. CASE Download(r)
    BY <1>3 DEF Download, OneInside, StampIsTrue, HolderKnows, OpenedIsVerified, Inside, Places
  <1>4. CASE RejectDownload(r)
    BY <1>4 DEF RejectDownload, OneInside, StampIsTrue, HolderKnows, OpenedIsVerified,
                Inside, Places
  <1>5. CASE DropStamp(r)
    BY <1>5 DEF DropStamp, OneInside, StampIsTrue, HolderKnows, OpenedIsVerified, Inside, Places
  <1>6. CASE Swap(r)
    BY <1>6 DEF Swap, OneInside, StampIsTrue, HolderKnows, OpenedIsVerified, Inside, Places
  <1>7. CASE OpenStamp(r)
    BY <1>7 DEF OpenStamp, OneInside, StampIsTrue, HolderKnows, OpenedIsVerified, Inside, Places
  <1>8. CASE WriteStamp(r)
    <2>1. /\ StampOf(r, file) \in Stamps /\ StampOf(r, file).sha = Wanted[r]
      BY <1>8 DEF WriteStamp, StampOf, HolderKnows, Files, Stamps
    <2> QED
      BY <1>8, <2>1 DEF WriteStamp, OneInside, StampIsTrue, HolderKnows, OpenedIsVerified,
                        Inside, Places
  <1>9. CASE Unlock(r)
    BY <1>9 DEF Unlock, OneInside, StampIsTrue, HolderKnows, OpenedIsVerified, Inside, Places
  <1>10. CASE OpenIndex(r)
    BY <1>10 DEF OpenIndex, OneInside, StampIsTrue, HolderKnows, OpenedIsVerified, Inside, Places
  <1>11. CASE Leaves(r)
    BY <1>11 DEF Leaves, OneInside, StampIsTrue, HolderKnows, OpenedIsVerified, Inside, Places
  <1> QED
    BY <1>1, <1>2, <1>3, <1>4, <1>5, <1>6, <1>7, <1>8, <1>9, <1>10, <1>11 DEF Prepare

\* The steps of the loops and of the pools do not touch the file.
LEMMA HostOnFile ==
    ASSUME [HostNext]_hostVars
    PROVE  (\E r \in HostRunners : Prepare(r) \/ Leaves(r)) \/ UNCHANGED indexVars
  <1>1. ASSUME NEW r \in HostRunners,
               \/ Prepare(r) /\ UNCHANGED standbyVars
               \/ StartLoop(r) \/ FillOne(r) \/ FillEnds(r)
               \/ ClaimTask(r) \/ Handoff(r) \/ SpawnFresh(r) \/ SpawnFails(r)
               \/ TaskEnds(r) \/ CancelLoop(r) \/ CloseOne(r) \/ RunnerEnds(r)
               \/ RunnerKilled(r) \/ StandbyDies(r)
        PROVE  Prepare(r) \/ Leaves(r) \/ UNCHANGED indexVars
    BY <1>1 DEF StartLoop, FillOne, FillEnds, ClaimTask, Handoff, SpawnFresh, SpawnFails,
                TaskEnds, CancelLoop, CloseOne, RunnerEnds, RunnerKilled, StandbyDies
  <1>2. CASE UNCHANGED hostVars
    BY <1>2 DEF hostVars
  <1> QED
    BY <1>1, <1>2 DEF HostNext

LEMMA HostKeepsIndex == IndexInv /\ [HostNext]_hostVars => IndexInv'
  <1> SUFFICES ASSUME IndexInv, [HostNext]_hostVars PROVE IndexInv'
    OBVIOUS
  <1>1. CASE UNCHANGED indexVars
    BY <1>1 DEF indexVars, IndexInv, IndexTypeOK, OneInside, StampIsTrue, HolderKnows,
                OpenedIsVerified, At
  <1> QED
    BY <1>1, HostOnFile, PrepareKeeps

\* Whichever runners of whichever versions start, die and start again, the
\* index that a runner trusts has its hash, and the file that children of a
\* working runner open was verified.
THEOREM TrustedIndex == HostSpec => []IndexIsVerified
  <1>1. HostInit => IndexInv
    BY IndexInitially DEF HostInit
  <1>2. IndexInv /\ [HostNext]_hostVars => IndexInv'
    BY HostKeepsIndex
  <1>3. IndexInv => IndexIsVerified
    BY IndexAssumption
       DEF IndexInv, IndexIsVerified, HolderKnows, OpenedIsVerified, At
  <1> QED
    BY <1>1, <1>2, <1>3, PTL DEF HostSpec

-----------------------------------------------------------------------------
(* What is left of a pool.                                                 *)

States == {"waiting", "broken", "dead"}

\* What the definition of Alive computes up to the n-th child.
Keeps(s, n, g) ==
    g = [i \in 0 .. n |-> IF i = 0 THEN <<>>
                          ELSE IF IsAlive(s[i]) THEN Append(g[i - 1], s[i]) ELSE g[i - 1]]

LEMMA KeepsExists ==
    ASSUME NEW s \in Seq(States)
    PROVE  \E g : Keeps(s, Len(s), g)
  <1> DEFINE Has == {n \in 0 .. Len(s) : \E g : Keeps(s, n, g)}
  <1>1. 0 \in Has
    <2>1. Keeps(s, 0, [i \in 0 .. 0 |-> <<>>])
      BY DEF Keeps
    <2> QED
      BY <2>1
  <1>2. ASSUME NEW n \in 1 .. Len(s), n - 1 \in Has PROVE n \in Has
    <2>1. PICK g : Keeps(s, n - 1, g)
      BY <1>2
    <2> DEFINE next == IF IsAlive(s[n]) THEN Append(g[n - 1], s[n]) ELSE g[n - 1]
    <2> DEFINE h == [i \in 0 .. n |-> IF i = n THEN next ELSE g[i]]
    <2>2. \A i \in 0 .. n : h[i] = IF i = 0 THEN <<>>
                                  ELSE IF IsAlive(s[i]) THEN Append(h[i - 1], s[i])
                                  ELSE h[i - 1]
      <3> SUFFICES ASSUME NEW i \in 0 .. n
                   PROVE  h[i] = IF i = 0 THEN <<>>
                                 ELSE IF IsAlive(s[i]) THEN Append(h[i - 1], s[i])
                                 ELSE h[i - 1]
        OBVIOUS
      <3>1. CASE i = n
        <4>1. h[i] = next /\ i # 0
          BY <3>1
        <4>2. h[i - 1] = g[n - 1]
          BY <3>1
        <4> QED
          BY <3>1, <4>1, <4>2
      <3>2. CASE i # n
        <4>1. i \in 0 .. n - 1 /\ h[i] = g[i]
          BY <3>2
        <4>2. i # 0 => h[i - 1] = g[i - 1]
          BY <3>2
        <4>3. g[i] = IF i = 0 THEN <<>>
                     ELSE IF IsAlive(s[i]) THEN Append(g[i - 1], s[i]) ELSE g[i - 1]
          BY <2>1, <4>1 DEF Keeps
        <4> QED
          BY <4>1, <4>2, <4>3
      <3> QED
        BY <3>1, <3>2
    <2>3. h = [i \in 0 .. n |-> h[i]]
      OBVIOUS
    <2> HIDE DEF h
    <2>4. Keeps(s, n, h)
      BY <2>2, <2>3 DEF Keeps
    <2> QED
      BY <2>4
  <1>3. Len(s) \in Nat
    OBVIOUS
  <1> HIDE DEF Has
  <1>4. \A n \in 1 .. Len(s) : n - 1 \in Has => n \in Has
    BY <1>2
  <1>5. \A n \in 0 .. Len(s) : n \in Has
    BY <1>1, <1>3, <1>4, UpTo
  <1>6. Len(s) \in Has
    BY <1>3, <1>5
  <1> QED
    BY <1>6 DEF Has

\* Dropping the dead children of a pool leaves a pool, no larger.
LEMMA AlivePool ==
    ASSUME NEW s \in Seq(States)
    PROVE  Alive(s) \in Seq(States) /\ Len(Alive(s)) <= Len(s)
  <1> DEFINE g == CHOOSE f : Keeps(s, Len(s), f)
  <1> DEFINE Has == {n \in 0 .. Len(s) : g[n] \in Seq(States) /\ Len(g[n]) <= n}
  <1>1. Keeps(s, Len(s), g)
    BY KeepsExists
  <1>2. Alive(s) = g[Len(s)]
    BY DEF Alive, Keeps
  <1>3. Len(s) \in Nat /\ \A n \in 1 .. Len(s) : s[n] \in States
    OBVIOUS
  <1> HIDE DEF g
  <1>4. 0 \in Has
    BY <1>1, <1>3 DEF Keeps
  <1>5. ASSUME NEW n \in 1 .. Len(s), n - 1 \in Has PROVE n \in Has
    <2>1. n \in 0 .. Len(s) /\ n # 0 /\ n \in Nat /\ n - 1 \in Nat
      BY <1>3
    <2>2. g[n] = IF IsAlive(s[n]) THEN Append(g[n - 1], s[n]) ELSE g[n - 1]
      BY <1>1, <2>1 DEF Keeps
    <2>3. g[n - 1] \in Seq(States) /\ Len(g[n - 1]) <= n - 1 /\ s[n] \in States
      BY <1>3, <1>5
    <2>4. g[n] \in Seq(States) /\ Len(g[n]) <= n
      <3>1. CASE IsAlive(s[n])
        <4>1. g[n] = Append(g[n - 1], s[n])
          BY <2>2, <3>1
        <4>2. /\ Append(g[n - 1], s[n]) \in Seq(States)
              /\ Len(Append(g[n - 1], s[n])) = Len(g[n - 1]) + 1
              /\ Len(g[n - 1]) \in Nat
          BY <2>3
        <4> QED
          BY <2>1, <2>3, <4>1, <4>2
      <3>2. CASE ~IsAlive(s[n])
        <4>1. g[n] = g[n - 1] /\ Len(g[n - 1]) \in Nat
          BY <2>2, <2>3, <3>2
        <4> QED
          BY <2>1, <2>3, <4>1
      <3> QED
        BY <3>1, <3>2
    <2> QED
      BY <2>1, <2>4
  <1> HIDE DEF Has
  <1>6. \A n \in 1 .. Len(s) : n - 1 \in Has => n \in Has
    BY <1>5
  <1>7. \A n \in 0 .. Len(s) : n \in Has
    BY <1>3, <1>4, <1>6, UpTo
  <1>8. Len(s) \in Has
    BY <1>3, <1>7
  <1> QED
    BY <1>2, <1>8 DEF Has

\* The oldest living child of a pool is in it; 0 if there is none.
LEMMA OldestInPool ==
    ASSUME NEW r \in HostRunners, pool[r] \in Seq(States)
    PROVE  Oldest(r) \in 0 .. Len(pool[r])
  <1> DEFINE less == {p \in Nat \X Nat : p[1] < p[2]}
  <1> DEFINE alive == {i \in 1 .. Len(pool[r]) : IsAlive(pool[r][i])}
  <1>1. Oldest(r) = IF alive # {} THEN Min(alive) ELSE 0
    BY DEF Oldest, SelectInSeq
  <1>2. Len(pool[r]) \in Nat
    OBVIOUS
  <1>3. ASSUME alive # {} PROVE Min(alive) \in alive
    <2>1. IsWellFoundedOn(less, Nat) /\ alive \subseteq Nat
      BY NatLessThanWellFounded DEF OpToRel
    <2>2. \E i \in alive : \A n \in alive : ~(<<n, i>> \in less)
      <3> HIDE DEF less, alive
      <3> QED
        BY <1>3, <2>1, WFMin
    <2>3. \A i, n \in alive : ~(<<n, i>> \in less) => i <= n
      OBVIOUS
    <2> HIDE DEF less, alive
    <2>4. \E i \in alive : \A n \in alive : i <= n
      BY <2>2, <2>3
    <2> QED
      BY <2>4 DEF Min
  <1> QED
    BY <1>1, <1>2, <1>3

\* What is left of a pool once a child is taken, or nothing is.
LEMMA RestOfPool ==
    ASSUME NEW r \in HostRunners, pool[r] \in Seq(States)
    PROVE  /\ Behind(r) \in Seq(States) /\ Len(Behind(r)) <= Len(pool[r])
           /\ Left(r) \in Seq(States) /\ Len(Left(r)) <= Len(pool[r])
  <1>1. Oldest(r) \in Nat /\ Oldest(r) <= Len(pool[r]) /\ Len(pool[r]) \in Nat
    BY OldestInPool
  <1> HIDE DEF Oldest
  <1>2. Behind(r) \in Seq(States) /\ Len(Behind(r)) <= Len(pool[r])
    BY <1>1 DEF Behind
  <1>3. Left(r) \in Seq(States) /\ Len(Left(r)) <= Len(pool[r])
    BY <1>1 DEF Left
  <1> QED
    BY <1>2, <1>3

LEMMA FrontOfPool ==
    ASSUME NEW s \in Seq(States), Len(s) # 0
    PROVE  Front(s) \in Seq(States) /\ Len(Front(s)) = Len(s) - 1
  <1>1. ASSUME NEW n \in Nat, n <= Len(s)
        PROVE  SubSeq(s, 1, n) \in Seq(States) /\ Len(SubSeq(s, 1, n)) = n
    BY <1>1
  <1>2. Len(s) - 1 \in Nat /\ Len(s) - 1 <= Len(s)
    OBVIOUS
  <1> QED
    BY <1>1, <1>2 DEF Front

-----------------------------------------------------------------------------
(* The standby children.                                                   *)

LoopPlaces == {"off", "fill", "refill", "poll", "start", "spawn", "supervise", "close"}

StandbyTypeOK ==
    /\ hostLoop \in [HostRunners -> LoopPlaces]
    /\ pool \in [HostRunners -> Seq(States)]
    /\ hostChild \in [HostRunners -> {"none", "alive"}]
    /\ given \in [HostRunners -> Nat]

\* A claimed task has been given to no child as long as the runner looks for
\* one.
NotYetGiven == \A r \in HostRunners : hostLoop[r] \in {"start", "spawn"} => given[r] = 0

StandbyInv == StandbyTypeOK /\ NotYetGiven /\ OneChildPerTask

LEMMA StandbyInitially == HostInit => StandbyInv
  <1> SUFFICES ASSUME HostInit PROVE StandbyInv
    OBVIOUS
  <1>1. StandbyTypeOK
    BY DEF HostInit, StandbyTypeOK, LoopPlaces
  <1>2. NotYetGiven /\ OneChildPerTask
    BY StandbyAssumption DEF HostInit, NotYetGiven, OneChildPerTask, In
  <1> QED
    BY <1>1, <1>2 DEF StandbyInv

\* A child is started for the task: it is the first one that gets it.
LEMMA StartedKeeps ==
    ASSUME StandbyInv, NEW r \in HostRunners, hostLoop[r] \in {"start", "spawn"},
           NEW children \in Seq(States), Len(children) <= Len(pool[r]),
           Started(r, children)
    PROVE  StandbyInv'
  <1> USE DEF StandbyInv, StandbyTypeOK
  <1>1. /\ Alive(children) \in Seq(States) /\ Len(Alive(children)) <= Len(children)
        /\ Len(Alive(children)) \in Nat
    BY AlivePool
  <1>2. Len(Alive(children)) <= Size
    BY <1>1, StandbyAssumption DEF OneChildPerTask
  <1> DEFINE left == Alive(children)
  <1>3. /\ pool' = [pool EXCEPT ![r] = left]
        /\ hostLoop' = [hostLoop EXCEPT ![r] = "refill"]
        /\ hostChild' = [hostChild EXCEPT ![r] = "alive"]
        /\ given' = [given EXCEPT ![r] = 1]
    <2>1. given[r] + 1 = 1
      BY DEF NotYetGiven
    <2> QED
      BY <2>1 DEF Started, Enters
  <1> HIDE DEF left
  <1>4. StandbyTypeOK'
    BY <1>1, <1>3 DEF LoopPlaces, left
  <1>5. NotYetGiven'
    BY <1>3 DEF NotYetGiven
  <1>6. OneChildPerTask'
    BY <1>2, <1>3 DEF OneChildPerTask, In, left
  <1> QED
    BY <1>4, <1>5, <1>6

\* One step of a runner.
LEMMA HostKeepsStandby == StandbyInv /\ [HostNext]_hostVars => StandbyInv'
  <1> SUFFICES ASSUME StandbyInv, [HostNext]_hostVars PROVE StandbyInv'
    OBVIOUS
  <1> USE StandbyAssumption
      DEF StandbyInv, StandbyTypeOK, NotYetGiven, OneChildPerTask, In, Enters, LoopPlaces
  <1>0. \A r \in HostRunners : pool[r] \in Seq(States) /\ Len(pool[r]) \in Nat
    OBVIOUS
  <1>1. ASSUME NEW r \in HostRunners, StartLoop(r) PROVE StandbyInv'
    BY <1>1 DEF StartLoop
  <1>2. ASSUME NEW r \in HostRunners, FillOne(r) PROVE StandbyInv'
    <2>1. /\ Append(pool[r], "waiting") \in Seq(States)
          /\ Len(Append(pool[r], "waiting")) = Len(pool[r]) + 1
      BY <1>0 DEF States
    <2> QED
      BY <1>0, <1>2, <2>1 DEF FillOne, Filling
  <1>3. ASSUME NEW r \in HostRunners, FillEnds(r) PROVE StandbyInv'
    BY <1>3 DEF FillEnds, Filling, Filled
  <1>4. ASSUME NEW r \in HostRunners, ClaimTask(r) PROVE StandbyInv'
    BY <1>4 DEF ClaimTask
  <1>5. ASSUME NEW r \in HostRunners, Handoff(r) PROVE StandbyInv'
    <2>1. Behind(r) \in Seq(States) /\ Len(Behind(r)) <= Len(pool[r])
      BY <1>0, RestOfPool
    <2>2. CASE Started(r, Behind(r))
      BY <1>5, <2>1, <2>2, StartedKeeps DEF Handoff
    <2>3. CASE /\ pool' = [pool EXCEPT ![r] = Behind(r)]
               /\ hostLoop' = [hostLoop EXCEPT ![r] = "spawn"]
               /\ UNCHANGED <<hostChild, given>>
      <3>1. Len(Behind(r)) <= Size /\ Len(Behind(r)) \in Nat
        BY <1>0, <2>1
      <3>2. hostLoop[r] = "start"
        BY <1>5 DEF Handoff
      <3> QED
        BY <2>1, <2>3, <3>1, <3>2
    <2> QED
      BY <1>5, <2>2, <2>3 DEF Handoff
  <1>6. ASSUME NEW r \in HostRunners, SpawnFresh(r) PROVE StandbyInv'
    BY <1>0, <1>6, RestOfPool, StartedKeeps DEF SpawnFresh, NoneTaken
  <1>7. ASSUME NEW r \in HostRunners, SpawnFails(r) PROVE StandbyInv'
    <2>1. Left(r) \in Seq(States) /\ Len(Left(r)) <= Len(pool[r]) /\ Len(Left(r)) \in Nat
      BY <1>0, RestOfPool
    <2>2. hostLoop[r] \in {"start", "spawn"}
      BY <1>7 DEF SpawnFails, NoneTaken
    <2> QED
      BY <1>0, <1>7, <2>1, <2>2 DEF SpawnFails
  <1>8. ASSUME NEW r \in HostRunners, TaskEnds(r) PROVE StandbyInv'
    BY <1>8 DEF TaskEnds
  <1>9. ASSUME NEW r \in HostRunners, CancelLoop(r) PROVE StandbyInv'
    BY <1>9 DEF CancelLoop
  <1>10. ASSUME NEW r \in HostRunners, CloseOne(r) PROVE StandbyInv'
    <2>1. Len(pool[r]) \in Nat /\ Len(pool[r]) # 0
      BY <1>0, <1>10 DEF CloseOne
    <2>2. Front(pool[r]) \in Seq(States) /\ Len(Front(pool[r])) = Len(pool[r]) - 1
      BY <1>0, <2>1, FrontOfPool
    <2> QED
      BY <1>0, <1>10, <2>1, <2>2 DEF CloseOne
  <1>11. ASSUME NEW r \in HostRunners, RunnerEnds(r) PROVE StandbyInv'
    BY <1>11 DEF RunnerEnds
  <1>12. ASSUME NEW r \in HostRunners, RunnerKilled(r) PROVE StandbyInv'
    BY <1>12 DEF RunnerKilled
  <1>13. ASSUME NEW r \in HostRunners, StandbyDies(r) PROVE StandbyInv'
    <2>1. PICK i \in DOMAIN pool[r] :
              pool' = [pool EXCEPT ![r][i] = IF @ = "waiting" THEN "broken" ELSE "dead"]
      BY <1>13 DEF StandbyDies
    <2> DEFINE next == IF pool[r][i] = "waiting" THEN "broken" ELSE "dead"
    <2> DEFINE died == [pool[r] EXCEPT ![i] = next]
    <2>2. pool' = [pool EXCEPT ![r] = died]
      BY <2>1
    <2>3. died \in Seq(States) /\ Len(died) = Len(pool[r]) /\ pool[r] # <<>>
      <3>1. next \in States /\ pool[r] \in Seq(States) /\ i \in 1 .. Len(pool[r])
        BY <1>0 DEF States
      <3> HIDE DEF next
      <3> QED
        BY <3>1
    <2> HIDE DEF died
    <2> QED
      BY <1>13, <2>2, <2>3 DEF StandbyDies
  <1>14. CASE UNCHANGED standbyVars
    BY <1>14 DEF standbyVars
  <1> QED
    BY <1>1, <1>2, <1>3, <1>4, <1>5, <1>6, <1>7, <1>8, <1>9, <1>10, <1>11, <1>12,
       <1>13, <1>14 DEF HostNext, hostVars

\* A task is given to one child, which works only while its runner waits for
\* it, and the pool never outgrows its size, whichever children die, whatever
\* cannot be started and whenever the runner is stopped or killed.
THEOREM TaskHasOneChild == HostSpec => []OneChildPerTask
  <1>1. HostInit => StandbyInv
    BY StandbyInitially
  <1>2. StandbyInv /\ [HostNext]_hostVars => StandbyInv'
    BY HostKeepsStandby
  <1>3. StandbyInv => OneChildPerTask
    BY DEF StandbyInv
  <1> QED
    BY <1>1, <1>2, <1>3, PTL DEF HostSpec
=============================================================================
