--------------------------- MODULE ResultPublisher ---------------------------
(***************************************************************************)
(* Publication of results to Kafka: publish_results of app/jobs/kafka.py,  *)
(* one loop per API replica, on top of JobStore.                           *)
(*                                                                         *)
(* A publisher takes the due results of "pending" one by one: it claims    *)
(* the result for JOBS_PUBLISH_LEASE_SEC, sends it with a timeout of half  *)
(* that lease, and acknowledges it after the broker's reply.  The broker   *)
(* may store a message and lose the reply, or store it after the publisher *)
(* has given up; publishers die at any point.                              *)
(***************************************************************************)
EXTENDS JobStore

CONSTANTS
    TooLargeResults,  \* codes of the results that the broker refuses for their size
    MaxSendFaults     \* bound: lost replies, late deliveries and deaths

ASSUME PublisherAssumption ==
    /\ TooLargeResults \subseteq Codes
    /\ MaxSendFaults \in Nat

VARIABLES
    pub,         \* the state of every publisher
    inflight,    \* messages the broker may still store after a timeout
    delivered,   \* the result topic: the events stored for every job
    sendFaults

pubVars == <<pub, inflight, delivered, sendFaults>>
allPubVars == <<vars, pubVars>>

Idle == [pc |-> "idle", job |-> NoJob, left |-> 0]

\* The timeout of send_and_wait.
SendTimeout_FullLease == JOBS_PUBLISH_LEASE_SEC

SendTimeout == JOBS_PUBLISH_LEASE_SEC \div 2

\* Everything the rest of the system does to the store.  Any worker may call
\* with any token, so late and repeated calls are included.
OtherOwners ==
    \/ \E j \in Jobs : RegisterBusy(j)
    \/ \E j \in Jobs, valid \in BOOLEAN : RegisterAccepted(j, valid)
    \/ \E k \in Kinds, j \in Jobs : Claim(k, j)
    \/ \E j \in Jobs : \E o \in 1 .. claims[j], out \in Outcomes : Finish(j, o, out)
    \/ \E j \in Jobs : Cancel(j)
    \/ \E j \in Jobs : Recover(j)

-----------------------------------------------------------------------------
PubClaims(p, j) ==
    /\ pub[p].pc = "idle"
    /\ pending[j] = 0
    /\ ClaimResult(j, p)
    /\ pub' = [pub EXCEPT ![p] = [pc |-> "sending", job |-> j, left |-> SendTimeout]]
    /\ UNCHANGED <<inflight, delivered, sendFaults>>

Delivery(p) ==
    delivered' = [delivered EXCEPT ![pub[p].job] = @ \cup {rec[pub[p].job].event}]

\* The broker has stored the message and said so.
SendSucceeds(p) ==
    /\ pub[p].pc = "sending"
    /\ rec[pub[p].job].event.code \notin TooLargeResults
    /\ Delivery(p)
    /\ pub' = [pub EXCEPT ![p].pc = "acking"]
    /\ UNCHANGED <<vars, inflight, sendFaults>>

\* MessageSizeTooLargeError: the result stays in "pending".
SendTooLarge(p) ==
    /\ pub[p].pc = "sending"
    /\ rec[pub[p].job].event.code \in TooLargeResults
    /\ pub' = [pub EXCEPT ![p] = Idle]
    /\ UNCHANGED <<vars, inflight, delivered, sendFaults>>

SendFails_Acks(p) ==
    /\ pub[p].pc = "sending"
    /\ sendFaults < MaxSendFaults
    /\ sendFaults' = sendFaults + 1
    /\ inflight' = inflight \cup {<<pub[p].job, rec[pub[p].job].event>>}
    /\ pub' = [pub EXCEPT ![p].pc = "acking"]
    /\ UNCHANGED <<vars, delivered>>

\* An error or the timeout; the broker may have the message, or get it yet.
SendFails(p) ==
    /\ pub[p].pc = "sending"
    /\ sendFaults < MaxSendFaults
    /\ sendFaults' = sendFaults + 1
    /\ inflight' = inflight \cup {<<pub[p].job, rec[pub[p].job].event>>}
    /\ pub' = [pub EXCEPT ![p] = Idle]
    /\ UNCHANGED <<vars, delivered>>

\* The broker stores a message whose sender has given up.
LateDelivery(m) ==
    /\ inflight' = inflight \ {m}
    /\ delivered' = [delivered EXCEPT ![m[1]] = @ \cup {m[2]}]
    /\ UNCHANGED <<vars, pub, sendFaults>>

Acks(p) ==
    /\ pub[p].pc = "acking"
    /\ IF rec[pub[p].job].pubOwner = p THEN AcknowledgeResult(pub[p].job, p)
                                       ELSE UNCHANGED vars
    /\ pub' = [pub EXCEPT ![p] = Idle]
    /\ UNCHANGED <<inflight, delivered, sendFaults>>

\* The replica dies, or Redis does not answer the acknowledgement.  (The
\* replica that follows has a new uuid; it acts only after its own claim.)
PubDies(p) ==
    /\ pub[p].pc # "idle"
    /\ sendFaults < MaxSendFaults
    /\ sendFaults' = sendFaults + 1
    /\ inflight' = IF pub[p].pc = "sending"
                   THEN inflight \cup {<<pub[p].job, rec[pub[p].job].event>>}
                   ELSE inflight
    /\ pub' = [pub EXCEPT ![p] = Idle]
    /\ UNCHANGED <<vars, delivered>>

\* asyncio's timer is prompt: a send ends before more time passes than its
\* timeout.  The pause before the acknowledgement is not bounded.
PubTick ==
    /\ \A p \in Publishers : pub[p].pc = "sending" => pub[p].left > 0
    /\ Tick
    /\ pub' = [p \in Publishers |-> [pub[p] EXCEPT !.left = Closer(@)]]
    /\ UNCHANGED <<inflight, delivered, sendFaults>>

\* The timer fires.
SendTimesOut(p) ==
    /\ pub[p].pc = "sending"
    /\ pub[p].left = 0
    /\ inflight' = inflight \cup {<<pub[p].job, rec[pub[p].job].event>>}
    /\ pub' = [pub EXCEPT ![p] = Idle]
    /\ UNCHANGED <<vars, delivered, sendFaults>>

-----------------------------------------------------------------------------
PubInit ==
    /\ Init
    /\ pub = [p \in Publishers |-> Idle]
    /\ inflight = {}
    /\ delivered = [j \in Jobs |-> {}]
    /\ sendFaults = 0

PubNext ==
    \/ OtherOwners /\ UNCHANGED pubVars
    \/ \E p \in Publishers, j \in Jobs : PubClaims(p, j)
    \/ \E p \in Publishers : SendSucceeds(p)
    \/ \E p \in Publishers : SendTooLarge(p)
    \/ \E p \in Publishers : SendFails(p)
    \/ \E p \in Publishers : SendTimesOut(p)
    \/ \E m \in inflight : LateDelivery(m)
    \/ \E p \in Publishers : Acks(p)
    \/ \E p \in Publishers : PubDies(p)
    \/ PubTick

PubSpec == PubInit /\ [][PubNext]_allPubVars

AcksInTime(p) == Acks(p) /\ rec[pub[p].job].pubOwner = p

(***************************************************************************)
(* Time passes and publishers poll.  A broker that is asked again and      *)
(* again stores the message and answers before the timeout; half of the    *)
(* lease is left at that moment, so that an acknowledgement which is tried *)
(* again and again is, at some time, not overtaken by another claim.       *)
(***************************************************************************)
PubFairness ==
    /\ WF_allPubVars(PubTick)
    /\ \A j \in Jobs : WF_allPubVars(\E p \in Publishers : PubClaims(p, j))
    /\ \A p \in Publishers :
         /\ SF_allPubVars(SendSucceeds(p))
         /\ SF_allPubVars(AcksInTime(p))
         /\ WF_allPubVars(Acks(p) \/ SendTooLarge(p) \/ SendTimesOut(p))

FairPubSpec == PubSpec /\ PubFairness

-----------------------------------------------------------------------------
(* Properties.                                                             *)

\* The types of the publishers' state; an idle publisher holds no result.
PubTypeOK ==
    /\ \A p \in Publishers : (pub[p].pc = "idle") = (pub[p].job = NoJob)
    /\ pub \in [Publishers -> [pc : {"idle", "sending", "acking"},
                               job : Jobs \cup {NoJob}, left : Nat]]
    /\ inflight \in SUBSET (Jobs \X Events)
    /\ delivered \in [Jobs -> SUBSET Events]
    /\ sendFaults \in 0 .. MaxSendFaults

\* A result is marked published only when the broker has stored it.
PublishedIsDelivered ==
    \A j \in Jobs : rec[j].published => delivered[j] # {}

\* Two publishers never send the same result at the same time: the send
\* timeout ends before the lease does.
NoDoubleSend ==
    \A p, q \in Publishers :
        pub[p].pc = "sending" /\ pub[q].pc = "sending" /\ pub[p].job = pub[q].job
        => p = q

\* Every ended job whose result the broker can take is published.
EveryResultPublished ==
    \A j \in Jobs :
        IsTerminal(rec[j]) ~> (rec[j].published \/ rec[j].event.code \in TooLargeResults)
=============================================================================
