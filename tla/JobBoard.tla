------------------------------ MODULE JobBoard ------------------------------
(***************************************************************************)
(* What the job store promises to the backend that sends requests and      *)
(* reads results, without keys, tokens, leases or clocks.  Requests are    *)
(* accepted one at a time for each line (a trip and a kind) or refused;    *)
(* accepted jobs start in the order of acceptance, so many at once; a job  *)
(* ends once, and not COMPLETED when it was canceled; its result is        *)
(* delivered after that.                                                   *)
(***************************************************************************)
EXTENDS Integers, FiniteSets

CONSTANTS
    Jobs, Kinds, KindOf,
    Line(_),            \* jobs of one line exclude each other
    Limit(_)            \* jobs of a kind that run at once

Ends == {"COMPLETED", "FAILED", "CANCELED"}

VARIABLES
    state,      \* of each job
    accepted,   \* jobs accepted so far
    place,      \* the number of an accepted job
    canceled,   \* jobs for which a cancel was accepted
    result,     \* how a job has ended
    delivered   \* jobs whose result the backend has

boardVars == <<state, accepted, place, canceled, result, delivered>>

Unfinished(j) == state[j] \in {"waiting", "running"}
LineIsBusy(j) == \E other \in Jobs : Line(other) = Line(j) /\ Unfinished(other)
RunningOf(k) == {j \in Jobs : KindOf[j] = k /\ state[j] = "running"}

BoardInit ==
    /\ state = [j \in Jobs |-> "new"]
    /\ accepted = 0
    /\ place = [j \in Jobs |-> 0]
    /\ canceled = {}
    /\ result = [j \in Jobs |-> "NONE"]
    /\ delivered = {}

Refuse(j) ==
    /\ state[j] = "new" /\ LineIsBusy(j)
    /\ state' = [state EXCEPT ![j] = "refused"]
    /\ UNCHANGED <<accepted, place, canceled, result, delivered>>

\* A request with an invalid body ends at once.
Accept(j, valid) ==
    /\ state[j] = "new" /\ ~LineIsBusy(j)
    /\ state' = [state EXCEPT ![j] = IF valid THEN "waiting" ELSE "ended"]
    /\ result' = [result EXCEPT ![j] = IF valid THEN @ ELSE "FAILED"]
    /\ accepted' = accepted + 1
    /\ place' = [place EXCEPT ![j] = accepted + 1]
    /\ UNCHANGED <<canceled, delivered>>

Start(j) ==
    /\ state[j] = "waiting"
    /\ \A other \in Jobs :
          KindOf[other] = KindOf[j] /\ state[other] = "waiting" => place[j] <= place[other]
    /\ Cardinality(RunningOf(KindOf[j])) < Limit(KindOf[j])
    /\ state' = [state EXCEPT ![j] = "running"]
    /\ UNCHANGED <<accepted, place, canceled, result, delivered>>

GiveBack(j) ==
    /\ state[j] = "running" /\ j \notin canceled
    /\ state' = [state EXCEPT ![j] = "waiting"]
    /\ UNCHANGED <<accepted, place, canceled, result, delivered>>

CancelWaiting(j) ==
    /\ state[j] = "waiting"
    /\ state' = [state EXCEPT ![j] = "ended"]
    /\ result' = [result EXCEPT ![j] = "CANCELED"]
    /\ canceled' = canceled \cup {j}
    /\ UNCHANGED <<accepted, place, delivered>>

CancelRunning(j) ==
    /\ state[j] = "running"
    /\ canceled' = canceled \cup {j}
    /\ UNCHANGED <<state, accepted, place, result, delivered>>

End(j, how) ==
    /\ state[j] = "running"
    /\ j \in canceled => how # "COMPLETED"
    /\ state' = [state EXCEPT ![j] = "ended"]
    /\ result' = [result EXCEPT ![j] = how]
    /\ UNCHANGED <<accepted, place, canceled, delivered>>

Deliver(j) ==
    /\ state[j] = "ended"
    /\ delivered' = delivered \cup {j}
    /\ UNCHANGED <<state, accepted, place, canceled, result>>

BoardNext ==
    \E j \in Jobs :
        \/ Refuse(j)
        \/ \E valid \in BOOLEAN : Accept(j, valid)
        \/ Start(j) \/ GiveBack(j)
        \/ CancelWaiting(j) \/ CancelRunning(j)
        \/ \E how \in Ends : End(j, how)
        \/ Deliver(j)

BoardSpec == BoardInit /\ [][BoardNext]_boardVars
=============================================================================
