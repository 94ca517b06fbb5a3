----------------------------- MODULE KafkaIntake -----------------------------
(***************************************************************************)
(* Intake of requests from one partition of a request topic, on top of     *)
(* JobStore: consume_requests and RequestReceiver of app/jobs/kafka.py,    *)
(* one loop per API replica, all in one consumer group.                    *)
(*                                                                         *)
(* A loop takes one message at a time, registers it (or counts a failed    *)
(* validation and, after the third, sends it to the DLT), and only then    *)
(* commits its offset; Redis and Kafka have no common transaction.         *)
(* Replies get lost, replicas die, and the partition is reassigned while a *)
(* loop is in the middle of a message and does not know it.                *)
(***************************************************************************)
EXTENDS JobStore

CONSTANTS
    Consumers,      \* API replicas
    NoConsumer,
    Partition,      \* the log: a job, or NoJob for a message that no check accepts
    ValidJobs,      \* jobs whose body passes the validation
    TooLarge,       \* offsets that the DLT refuses for their size
    MaxFaults       \* bound: lost replies, rebalances and deaths

VARIABLES
    loop,        \* the state of every consume_requests loop
    position,    \* the next offset that every consumer fetches
    assigned,    \* the consumer that owns the partition
    paused,      \* consumers that have paused the partition
    committed,   \* the committed offset of the group
    attempts,    \* invalid:{hash}, the failed validations of an offset
    dlt,         \* offsets whose message is in the DLT
    faults

kafkaVars == <<loop, position, assigned, paused, committed, attempts, dlt, faults>>
intakeVars == <<vars, kafkaVars>>

Offsets == DOMAIN Partition

ASSUME IntakeAssumption ==
    /\ NoConsumer \notin Consumers
    /\ IsFiniteSet(Offsets) /\ Offsets = 1 .. Cardinality(Offsets)
    /\ \A o \in Offsets : Partition[o] \in Jobs \cup {NoJob}
    /\ ValidJobs \subseteq Jobs
    /\ TooLarge \subseteq Offsets
    /\ MaxFaults \in Nat

MaxAttempts == 3

IdleLoop == [pc |-> "getone", offset |-> 0]

Message(c) == Partition[loop[c].offset]

Fault == faults < MaxFaults /\ faults' = faults + 1

-----------------------------------------------------------------------------
(* accept.                                                                 *)

\* consumer.getone()
GetOne(c) ==
    /\ loop[c].pc = "getone"
    /\ assigned = c
    /\ c \notin paused
    /\ position[c] \in Offsets
    /\ loop' = [loop EXCEPT ![c] = [pc |-> "accept", offset |-> position[c]]]
    /\ position' = [position EXCEPT ![c] = @ + 1]
    /\ UNCHANGED <<vars, assigned, paused, committed, attempts, dlt, faults>>

\* register: accepted, busy, or a duplicate that changes nothing.
Register(j) ==
    \/ RegisterBusy(j)
    \/ RegisterAccepted(j, j \in ValidJobs)
    \/ ~Unseen(j) /\ UNCHANGED vars

Accept(c) ==
    /\ loop[c].pc = "accept"
    /\ Message(c) # NoJob
    /\ Register(Message(c))
    /\ loop' = [loop EXCEPT ![c].pc = "commit"]
    /\ UNCHANGED <<position, assigned, paused, committed, attempts, dlt, faults>>

\* The registration is stored, its reply is lost: RedisError, accept again.
AcceptReplyLost(c) ==
    /\ loop[c].pc = "accept"
    /\ Message(c) # NoJob
    /\ Fault
    /\ Register(Message(c))
    /\ UNCHANGED <<loop, position, assigned, paused, committed, attempts, dlt>>

-----------------------------------------------------------------------------
(* reject and quarantine.                                                  *)

Counted(o) == MinOf(MaxAttempts, attempts[o] + 1)

Reject_GivesUp(c) ==
    /\ loop[c].pc = "accept"
    /\ Message(c) = NoJob
    /\ LET o == loop[c].offset
       IN  /\ attempts' = [attempts EXCEPT ![o] = Counted(o)]
           /\ loop' = IF Counted(o) < MaxAttempts
                      THEN [loop EXCEPT ![c] = IdleLoop]
                      ELSE [loop EXCEPT ![c].pc = "quarantine"]
    /\ UNCHANGED <<vars, position, assigned, paused, committed, dlt, faults>>

\* Below three failures InvalidMessage is raised and the message tried again.
Reject(c) ==
    /\ loop[c].pc = "accept"
    /\ Message(c) = NoJob
    /\ LET o == loop[c].offset
       IN  /\ attempts' = [attempts EXCEPT ![o] = Counted(o)]
           /\ loop' = IF Counted(o) < MaxAttempts
                      THEN loop
                      ELSE [loop EXCEPT ![c].pc = "quarantine"]
    /\ UNCHANGED <<vars, position, assigned, paused, committed, dlt, faults>>

Quarantine(c) ==
    /\ loop[c].pc = "quarantine"
    /\ loop[c].offset \notin TooLarge
    /\ dlt' = dlt \cup {loop[c].offset}
    /\ loop' = [loop EXCEPT ![c].pc = "commit"]
    /\ UNCHANGED <<vars, position, assigned, paused, committed, attempts, faults>>

QuarantineFails_Commits(c) ==
    /\ loop[c].pc = "quarantine"
    /\ Fault
    /\ \/ dlt' = dlt \cup ({loop[c].offset} \ TooLarge)
       \/ UNCHANGED dlt
    /\ loop' = [loop EXCEPT ![c].pc = "commit"]
    /\ UNCHANGED <<vars, position, assigned, paused, committed, attempts>>

QuarantineFails_Skips(c) ==
    /\ loop[c].pc = "quarantine"
    /\ Fault
    /\ \/ dlt' = dlt \cup ({loop[c].offset} \ TooLarge)
       \/ UNCHANGED dlt
    /\ loop' = [loop EXCEPT ![c] = IdleLoop]
    /\ UNCHANGED <<vars, position, assigned, paused, committed, attempts>>

\* An error or the timeout of 30 s; the broker may have stored the message.
QuarantineFails(c) ==
    /\ loop[c].pc = "quarantine"
    /\ Fault
    /\ \/ dlt' = dlt \cup ({loop[c].offset} \ TooLarge)
       \/ UNCHANGED dlt
    /\ loop' = [loop EXCEPT ![c].pc = "accept"]
    /\ UNCHANGED <<vars, position, assigned, paused, committed, attempts>>

\* The partition, if still assigned, is set back to the message and paused.
QuarantineTooLarge(c) ==
    /\ loop[c].pc = "quarantine"
    /\ loop[c].offset \in TooLarge
    /\ position' = IF assigned = c THEN [position EXCEPT ![c] = loop[c].offset]
                                   ELSE position
    /\ paused' = IF assigned = c THEN paused \cup {c} ELSE paused
    /\ loop' = [loop EXCEPT ![c] = IdleLoop]
    /\ UNCHANGED <<vars, assigned, committed, attempts, dlt, faults>>

-----------------------------------------------------------------------------
(* The commit and the consumer group.                                      *)

Commit(c) ==
    /\ loop[c].pc = "commit"
    /\ assigned = c
    /\ committed' = loop[c].offset + 1
    /\ loop' = [loop EXCEPT ![c] = IdleLoop]
    /\ UNCHANGED <<vars, position, assigned, paused, attempts, dlt, faults>>

\* CommitFailedError, IllegalStateError: the partition went elsewhere.
CommitRefused(c) ==
    /\ loop[c].pc = "commit"
    /\ assigned # c
    /\ loop' = [loop EXCEPT ![c] = IdleLoop]
    /\ UNCHANGED <<vars, position, assigned, paused, committed, attempts, dlt, faults>>

\* Another KafkaError: the commit may have been done; accept again.
CommitReplyLost(c) ==
    /\ loop[c].pc = "commit"
    /\ assigned = c
    /\ Fault
    /\ committed' \in {committed, loop[c].offset + 1}
    /\ loop' = [loop EXCEPT ![c].pc = "accept"]
    /\ UNCHANGED <<vars, position, assigned, paused, attempts, dlt>>

\* The group gives the partition to c, which resumes at the committed offset.
\* What c is doing with an earlier message goes on.
Rebalance(c) ==
    /\ assigned # c
    /\ Fault
    /\ assigned' = c
    /\ position' = [position EXCEPT ![c] = committed]
    /\ paused' = paused \ {c}
    /\ UNCHANGED <<vars, loop, committed, attempts, dlt>>

\* The replica dies, or its consumer is closed and started anew.
ConsumerDies(c) ==
    /\ Fault
    /\ loop' = [loop EXCEPT ![c] = IdleLoop]
    /\ assigned' = IF assigned = c THEN NoConsumer ELSE assigned
    /\ paused' = paused \ {c}
    /\ UNCHANGED <<vars, position, committed, attempts, dlt>>

\* The group finds a new owner after a death.
Reassign(c) ==
    /\ assigned = NoConsumer
    /\ assigned' = c
    /\ position' = [position EXCEPT ![c] = committed]
    /\ UNCHANGED <<vars, loop, paused, committed, attempts, dlt, faults>>

-----------------------------------------------------------------------------
IntakeInit ==
    /\ Init
    /\ loop = [c \in Consumers |-> IdleLoop]
    /\ position = [c \in Consumers |-> 1]
    /\ assigned = NoConsumer
    /\ paused = {}
    /\ committed = 1
    /\ attempts = [o \in Offsets |-> 0]
    /\ dlt = {}
    /\ faults = 0

LoopStep(c) ==
    \/ GetOne(c)
    \/ Accept(c)
    \/ Reject(c)
    \/ Quarantine(c)
    \/ QuarantineTooLarge(c)
    \/ Commit(c)
    \/ CommitRefused(c)

\* A running or waiting job ends, so that its trip takes requests again.
IntakeNext ==
    \/ \E j \in Jobs : Cancel(j) /\ UNCHANGED kafkaVars
    \/ \E c \in Consumers : LoopStep(c)
    \/ \E c \in Consumers : Reassign(c)
    \/ \E c \in Consumers : AcceptReplyLost(c)
    \/ \E c \in Consumers : QuarantineFails(c)
    \/ \E c \in Consumers : CommitReplyLost(c)
    \/ \E c \in Consumers : Rebalance(c)
    \/ \E c \in Consumers : ConsumerDies(c)

IntakeSpec == IntakeInit /\ [][IntakeNext]_intakeVars

\* The loops go on and the group does not stay without an owner.
IntakeFairness ==
    /\ WF_intakeVars(\E c \in Consumers : Reassign(c))
    /\ \A c \in Consumers : WF_intakeVars(LoopStep(c))

FairIntakeSpec == IntakeSpec /\ IntakeFairness

-----------------------------------------------------------------------------
(* Properties.                                                             *)

\* The types of the consumer group's state.
IntakeTypeOK ==
    /\ loop \in [Consumers -> [pc : {"getone", "accept", "quarantine", "commit"},
                               offset : Offsets \cup {0}]]
    /\ position \in [Consumers -> 1 .. Cardinality(Offsets) + 1]
    /\ assigned \in Consumers \cup {NoConsumer}
    /\ paused \in SUBSET Consumers
    /\ committed \in 1 .. Cardinality(Offsets) + 1
    /\ attempts \in [Offsets -> 0 .. MaxAttempts]
    /\ dlt \in SUBSET Offsets
    /\ faults \in 0 .. MaxFaults

\* Decided for good: the job is registered or ignored, or the message is in
\* the DLT.
Handled(o) ==
    IF Partition[o] = NoJob THEN o \in dlt ELSE ~Unseen(Partition[o])

\* An offset is committed only past messages that were handled: neither a
\* death nor a rebalance nor a refused DLT loses a request.
CommittedIsHandled == \A o \in Offsets : o < committed => Handled(o)

\* Messages are handled in the order of the partition, also when two
\* replicas believe that they own it.  So the earlier of two requests of a
\* trip is the one that runs.
HandledInOrder ==
    \A o, n \in Offsets :
        o < n /\ Partition[n] \notin {Partition[m] : m \in 1 .. n - 1}
        /\ Handled(n) => Handled(o)

\* Every message is handled in the end, unless the partition is stopped at an
\* earlier one that the DLT refuses.
EveryMessageHandled ==
    \A o \in Offsets : (\E n \in 1 .. o : n \in TooLarge) \/ <>Handled(o)
=============================================================================
