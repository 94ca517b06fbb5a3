---------------------------- MODULE RequestGate ----------------------------
(***************************************************************************)
(* The limit on calls to the generation server that all replicas share     *)
(* (RequestGate and GatedVlm of app/jobs/gpu_requests.py), the client      *)
(* behind it (VllmClient) and the agent's retries in front of it           *)
(* (Session.chat).                                                         *)
(*                                                                         *)
(* A chat is one Session.chat of the agent, or one GatedVlm.chat of a      *)
(* story or a search (no retries).  Every attempt runs the gate with a     *)
(* token of its own.  The sorted set is score: the time left until the     *)
(* lease of a token ends; a member whose lease has ended stays until the   *)
(* next claim removes it, as in Redis.  One unit of time is 5 s.           *)
(*                                                                         *)
(* WATCH, TIME and ZCOUNT are one step: a change of the key between them   *)
(* only makes EXEC fail.  EXEC is a step of its own, and so is its reply.  *)
(***************************************************************************)
EXTENDS Integers, FiniteSets

CONSTANTS
    Chats,
    Processes,      \* the chats of each process, a partition of Chats
    Limit,          \* GPU_GENERATION_INFLIGHT
    Timeout,        \* timeout_sec of the client of each chat
    Retries,        \* vlm_retries of each chat, 0 outside the agent
    Concurrency,    \* places of the session's semaphore
    WaitSec,        \* wait_sec
    Grace,          \* CALL_TIMEOUT_GRACE_SEC
    LeaseMargin,    \* the lease is timeout_sec + LeaseMargin
    ReplyDelay      \* longest time from TIME to the reply of EXEC

ASSUME GateAssumption ==
    /\ IsFiniteSet(Chats)
    /\ UNION Processes = Chats
    /\ \A p, q \in Processes : p = q \/ p \cap q = {}
    /\ Limit \in Nat \ {0} /\ WaitSec \in Nat \ {0} /\ Concurrency \in Nat \ {0}
    /\ Timeout \in [Chats -> Nat] /\ Retries \in [Chats -> Nat]
    /\ Grace \in Nat /\ LeaseMargin \in Nat /\ ReplyDelay \in Nat

VARIABLES
    pc,         \* where the coroutine of a chat stands
    attempt,    \* the attempt it makes, from 1
    raised,     \* what the attempt ended with
    score,      \* the sorted set, or Absent
    flight,     \* the score that an EXEC on its way would write, or Absent
    watched,    \* the key has not changed since this attempt's WATCH
    waitLeft,   \* until asyncio.timeout(wait_sec)
    callLeft,   \* until asyncio.timeout(timeout_sec + grace)
    claimAge,   \* time from TIME until the claim was answered
    leaked      \* history: tokens that their attempt could not give back

vars == <<pc, attempt, raised, score, flight, watched, waitLeft, callLeft,
          claimAge, leaked>>

Absent == -1
Tokens == UNION {{c} \X (1 .. Retries[c] + 1) : c \in Chats}
Token(c) == <<c, attempt[c]>>
Live == {t \in Tokens : score[t] > 0}
Claiming == {"claim", "granted"}
Busy == {"resolve", "wait", "claim", "granted", "call", "release", "backoff"}

\* VLMTransientError and TimeoutError are sent again; an incomplete answer,
\* another HTTP error (VLMUnavailable) and a missing slot are not.
Retried == {"transient", "timeout"}

ProcessOf(c) == CHOOSE p \in Processes : c \in p

\* Whoever changes the sorted set makes the EXECs under way fail.
Touched == [u \in Tokens |-> FALSE]

-----------------------------------------------------------------------------
\* Session.chat takes a place of the semaphore and keeps it until it ends.
Begin(c) ==
    /\ pc[c] = "idle"
    /\ Cardinality({d \in ProcessOf(c) : pc[d] \in Busy}) < Concurrency
    /\ pc' = [pc EXCEPT ![c] = "resolve"]
    /\ UNCHANGED <<attempt, raised, score, flight, watched, waitLeft, callLeft,
                   claimAge, leaked>>

\* The URLs of the photos are fetched anew for every attempt.
Resolve(c) ==
    /\ pc[c] = "resolve"
    /\ \/ /\ pc' = [pc EXCEPT ![c] = "wait"]
          /\ waitLeft' = [waitLeft EXCEPT ![c] = WaitSec]
       \/ /\ pc' = [pc EXCEPT ![c] = "ended"]
          /\ UNCHANGED waitLeft
    /\ UNCHANGED <<attempt, raised, score, flight, watched, callLeft, claimAge, leaked>>

Watch_ShortLease(c) ==
    /\ pc[c] = "wait"
    /\ Cardinality(Live) < Limit
    /\ pc' = [pc EXCEPT ![c] = "claim"]
    /\ flight' = [flight EXCEPT ![Token(c)] = Timeout[c]]
    /\ watched' = [watched EXCEPT ![Token(c)] = TRUE]
    /\ claimAge' = [claimAge EXCEPT ![c] = 0]
    /\ UNCHANGED <<attempt, raised, score, waitLeft, callLeft, leaked>>

\* _claim up to EXEC.  When the limit is reached it returns False and is
\* called again 50 ms later, which is no step.
Watch(c) ==
    /\ pc[c] = "wait"
    /\ Cardinality(Live) < Limit
    /\ pc' = [pc EXCEPT ![c] = "claim"]
    /\ flight' = [flight EXCEPT ![Token(c)] = Timeout[c] + LeaseMargin]
    /\ watched' = [watched EXCEPT ![Token(c)] = TRUE]
    /\ claimAge' = [claimAge EXCEPT ![c] = 0]
    /\ UNCHANGED <<attempt, raised, score, waitLeft, callLeft, leaked>>

\* Redis executes the EXEC of an attempt, which may have given up meanwhile.
Exec(t) ==
    LET c == t[1]
        waits == pc[c] = "claim" /\ attempt[c] = t[2]
    IN  /\ flight[t] # Absent
        /\ flight' = [flight EXCEPT ![t] = Absent]
        /\ IF watched[t]
           THEN /\ score' = [u \in Tokens |-> IF u = t THEN flight[t]
                                              ELSE IF score[u] = 0 THEN Absent
                                              ELSE score[u]]
                /\ watched' = Touched
                /\ pc' = IF waits THEN [pc EXCEPT ![c] = "granted"] ELSE pc
                /\ leaked' = IF waits THEN leaked ELSE leaked \cup {t}
           ELSE /\ pc' = IF waits THEN [pc EXCEPT ![c] = "wait"] ELSE pc
                /\ UNCHANGED <<score, watched, leaked>>
        /\ UNCHANGED <<attempt, raised, waitLeft, callLeft, claimAge>>

\* An EXEC whose connection broke before Redis read it.
LoseExec(t) ==
    /\ flight[t] # Absent
    /\ ~(pc[t[1]] = "claim" /\ attempt[t[1]] = t[2])
    /\ flight' = [flight EXCEPT ![t] = Absent]
    /\ watched' = [watched EXCEPT ![t] = FALSE]
    /\ UNCHANGED <<pc, attempt, raised, score, waitLeft, callLeft, claimAge, leaked>>

\* The reply of EXEC arrives and the call to the server starts.
StartCall(c) ==
    /\ pc[c] = "granted"
    /\ pc' = [pc EXCEPT ![c] = "call"]
    /\ callLeft' = [callLeft EXCEPT ![c] = Timeout[c] + Grace]
    /\ waitLeft' = [waitLeft EXCEPT ![c] = 0]
    /\ UNCHANGED <<attempt, raised, score, flight, watched, claimAge, leaked>>

\* Leave the body of run with an error or a result; the finally block
\* follows.
Leave(c, outcome) ==
    /\ pc' = [pc EXCEPT ![c] = "release"]
    /\ raised' = [raised EXCEPT ![c] = outcome]
    /\ waitLeft' = [waitLeft EXCEPT ![c] = 0]
    /\ callLeft' = [callLeft EXCEPT ![c] = 0]
    /\ claimAge' = [claimAge EXCEPT ![c] = 0]
    /\ UNCHANGED <<attempt, score, flight, watched, leaked>>

\* The wait for a slot times out: GateUnavailable, a VLMUnavailable.
WaitTimeout(c) ==
    /\ pc[c] \in {"wait"} \cup Claiming
    /\ waitLeft[c] = 0
    /\ Leave(c, "unavailable")

\* Redis fails, or its answer is later than its socket timeout.
RedisFails(c) ==
    /\ pc[c] \in {"wait"} \cup Claiming
    /\ Leave(c, "unavailable")

\* A turn, an answer that is cut off or malformed, none in time, a broken
\* connection, a status that asks to come back (408, 429, 5xx), or another.
Answers == {"turn", "incomplete", "late", "broken", "busy", "refused"}

\* What VllmClient._post and the checks of chat make of it.
Outcome(answer) ==
    CASE answer = "turn" -> "ok"
      [] answer = "late" -> "timeout"
      [] answer \in {"broken", "busy"} -> "transient"
      [] answer \in {"incomplete", "refused"} -> "unavailable"

\* The call returns or raises.
EndCall(c) ==
    /\ pc[c] = "call"
    /\ \E answer \in Answers : Leave(c, Outcome(answer))

\* The call has used up timeout_sec + grace without ending by itself.
CallTimeout(c) ==
    /\ pc[c] = "call"
    /\ callLeft[c] = 0
    /\ Leave(c, "timeout")

\* The caller is cancelled: the job ends, the search has timed out.
Cancel(c) ==
    /\ pc[c] \in Busy \ {"release"}
    /\ IF pc[c] \in {"resolve", "backoff"}
       THEN /\ pc' = [pc EXCEPT ![c] = "ended"]
            /\ UNCHANGED <<attempt, raised, score, flight, watched, waitLeft, callLeft,
                           claimAge, leaked>>
       ELSE Leave(c, "cancelled")

\* What follows the gate: Session.chat tries again or raises.
AfterRun(c) ==
    /\ pc' = [pc EXCEPT ![c] = IF raised[c] \in Retried /\ attempt[c] <= Retries[c]
                               THEN "backoff" ELSE "ended"]
    /\ raised' = [raised EXCEPT ![c] = "ok"]

Release_OnlyAfterResult(c) ==
    /\ pc[c] = "release"
    /\ score' = IF raised[c] = "ok" THEN [score EXCEPT ![Token(c)] = Absent] ELSE score
    /\ watched' = IF score' = score THEN watched ELSE Touched
    /\ AfterRun(c)
    /\ UNCHANGED <<attempt, flight, waitLeft, callLeft, claimAge, leaked>>

\* finally: the token is removed, also one whose claim was never answered.
Release(c) ==
    /\ pc[c] = "release"
    /\ score' = [score EXCEPT ![Token(c)] = Absent]
    /\ watched' = IF score[Token(c)] = Absent THEN watched ELSE Touched
    /\ AfterRun(c)
    /\ UNCHANGED <<attempt, flight, waitLeft, callLeft, claimAge, leaked>>

\* The removal fails, takes too long or is cancelled; the lease will end.
ReleaseFails(c) ==
    /\ pc[c] = "release"
    /\ leaked' = leaked \cup {Token(c)}
    /\ AfterRun(c)
    /\ UNCHANGED <<attempt, score, flight, watched, waitLeft, callLeft,
                   claimAge>>

Retry_Uncounted(c) ==
    /\ pc[c] = "backoff"
    /\ pc' = [pc EXCEPT ![c] = "resolve"]
    /\ UNCHANGED <<attempt, raised, score, flight, watched, waitLeft, callLeft,
                   claimAge, leaked>>

\* The pause before a retry grows with the attempts; it ends some time.
Retry(c) ==
    /\ pc[c] = "backoff"
    /\ pc' = [pc EXCEPT ![c] = "resolve"]
    /\ attempt' = [attempt EXCEPT ![c] = @ + 1]
    /\ UNCHANGED <<raised, score, flight, watched, waitLeft, callLeft, claimAge,
                   leaked>>

\* A process is killed with all its chats.
Kill(p) ==
    /\ \E c \in p : pc[c] \in Busy
    /\ pc' = [c \in Chats |-> IF c \in p THEN "ended" ELSE pc[c]]
    /\ leaked' = leaked \cup {Token(c) : c \in {d \in p : pc[d] \in Busy}}
    /\ raised' = [c \in Chats |-> IF c \in p THEN "ok" ELSE raised[c]]
    /\ waitLeft' = [c \in Chats |-> IF c \in p THEN 0 ELSE waitLeft[c]]
    /\ callLeft' = [c \in Chats |-> IF c \in p THEN 0 ELSE callLeft[c]]
    /\ claimAge' = [c \in Chats |-> IF c \in p THEN 0 ELSE claimAge[c]]
    /\ UNCHANGED <<attempt, score, flight, watched>>

\* Timers are prompt, and a claim is answered or fails within ReplyDelay.
Tick ==
    /\ \A c \in Chats :
         /\ pc[c] \in {"wait"} \cup Claiming => waitLeft[c] > 0
         /\ pc[c] = "call" => callLeft[c] > 0
         /\ pc[c] \in Claiming => claimAge[c] < ReplyDelay
    /\ LET Sooner(left) == IF left > 0 THEN left - 1 ELSE left IN
         /\ score' = [t \in Tokens |-> Sooner(score[t])]
         /\ flight' = [t \in Tokens |-> Sooner(flight[t])]
         /\ waitLeft' = [c \in Chats |-> Sooner(waitLeft[c])]
         /\ callLeft' = [c \in Chats |-> Sooner(callLeft[c])]
    /\ claimAge' = [c \in Chats |-> IF pc[c] \in Claiming THEN claimAge[c] + 1
                                    ELSE claimAge[c]]
    /\ UNCHANGED <<pc, attempt, raised, watched, leaked>>

-----------------------------------------------------------------------------
Init ==
    /\ pc = [c \in Chats |-> "idle"]
    /\ attempt = [c \in Chats |-> 1]
    /\ raised = [c \in Chats |-> "ok"]
    /\ score = [t \in Tokens |-> Absent]
    /\ flight = [t \in Tokens |-> Absent]
    /\ watched = [t \in Tokens |-> FALSE]
    /\ waitLeft = [c \in Chats |-> 0]
    /\ callLeft = [c \in Chats |-> 0]
    /\ claimAge = [c \in Chats |-> 0]
    /\ leaked = {}

ChatStep(c) ==
    \/ Begin(c) \/ Resolve(c) \/ Watch(c) \/ StartCall(c)
    \/ WaitTimeout(c) \/ RedisFails(c) \/ EndCall(c) \/ CallTimeout(c)
    \/ Cancel(c) \/ Release(c) \/ ReleaseFails(c) \/ Retry(c)

Next ==
    \/ \E c \in Chats : ChatStep(c)
    \/ \E t \in Tokens : Exec(t) \/ LoseExec(t)
    \/ \E p \in Processes : Kill(p)
    \/ Tick

\* Redis and the clock go on, the event loops run what is ready, every call
\* ends by its timeout at the latest.  Failures and cancellations need not
\* happen, and a call need not end before its timeout.
Fairness ==
    /\ \A c \in Chats :
         /\ WF_vars(Resolve(c)) /\ WF_vars(StartCall(c)) /\ WF_vars(WaitTimeout(c))
         /\ WF_vars(CallTimeout(c)) /\ WF_vars(Release(c) \/ ReleaseFails(c))
         /\ WF_vars(Retry(c))
    /\ \A t \in Tokens : WF_vars(Exec(t))
    /\ WF_vars(Tick)

Spec == Init /\ [][Next]_vars /\ Fairness

-----------------------------------------------------------------------------
(* Properties *)

\* run (gpu_requests.py:45-80): more calls than the limit are under way only
\* if a claim was answered so late that the lease, which starts at the TIME
\* of the claim, ends before the call's own timeout.
OverLimitOnlyAfterSlowClaim ==
    LET calls == {c \in Chats : pc[c] = "call"}
    IN  Cardinality(calls) > Limit =>
            \E c \in calls : claimAge[c] >= LeaseMargin - Grace

\* The finally block of run (gpu_requests.py:74-80) and Session.chat
\* (agent/model.py:54): a chat that waits before a retry or has ended holds no
\* slot, unless the removal failed or an EXEC overtook it.
IdleHoldsNoSlot ==
    \A t \in Live \ leaked :
        /\ pc[t[1]] \in {"granted", "call", "release"}
        /\ attempt[t[1]] = t[2]

\* Every chat ends: the wait, the call, the release and the number of
\* retries are all bounded, and lost slots come back with their leases.
EveryChatEnds == \A c \in Chats : pc[c] = "resolve" ~> pc[c] = "ended"
=============================================================================
