-------------------------- MODULE RequestGateProofs --------------------------
(***************************************************************************)
(* Theorems about the GPU request gate (RequestGate), for every set of     *)
(* chats and processes, every limit, timeout, number of retries and delay. *)
(***************************************************************************)
EXTENDS RequestGate, FiniteSetTheorems, TLAPS

Places == Busy \cup {"idle", "ended"}
Outcomes == {"ok", "timeout", "transient", "unavailable", "cancelled"}
Left == Nat \cup {Absent}

-----------------------------------------------------------------------------
(* The invariant.                                                          *)

GateTypeOK ==
    /\ pc \in [Chats -> Places]
    /\ attempt \in [Chats -> Nat]
    /\ raised \in [Chats -> Outcomes]
    /\ score \in [Tokens -> Left]
    /\ flight \in [Tokens -> Left]
    /\ watched \in [Tokens -> BOOLEAN]
    /\ waitLeft \in [Chats -> Nat]
    /\ callLeft \in [Chats -> Nat]
    /\ claimAge \in [Chats -> Nat]
    /\ leaked \subseteq Tokens

\* A chat makes no more attempts than it may.
AttemptsBounded ==
    \A c \in Chats :
        /\ attempt[c] \in 1 .. Retries[c] + 1
        /\ pc[c] = "backoff" => attempt[c] <= Retries[c]

\* A member of the sorted set, its lease ended or not, is of the attempt
\* that its chat makes, or was left behind.
MembersAreHeld ==
    \A t \in Tokens :
        score[t] # Absent /\ t \notin leaked
        => pc[t[1]] \in {"granted", "call", "release"} /\ attempt[t[1]] = t[2]

\* An EXEC that may still succeed leaves room for its own token.
LimitKept ==
    /\ Cardinality(Live) <= Limit
    /\ \A t \in Tokens : watched[t] /\ flight[t] # Absent => Cardinality(Live) < Limit

\* A lease with this much left is a member of the sorted set.
Lasts(t, left) == left > 0 => score[t] >= left

\* How much is left at least of the lease of a claim, a grant and a call.
LeaseOf(c) ==
    /\ pc[c] = "claim"
       => flight[Token(c)] \in Nat
          /\ flight[Token(c)] >= Timeout[c] + LeaseMargin - claimAge[c]
    /\ pc[c] \in {"granted", "call"} => flight[Token(c)] = Absent
    /\ pc[c] = "granted" => Lasts(Token(c), Timeout[c] + LeaseMargin - claimAge[c])
    /\ pc[c] = "call"
       => Lasts(Token(c), callLeft[c] + LeaseMargin - Grace - claimAge[c])

LeaseLasts == \A c \in Chats : LeaseOf(c)

GateInv == GateTypeOK /\ AttemptsBounded /\ MembersAreHeld /\ LimitKept /\ LeaseLasts

-----------------------------------------------------------------------------
(* Tokens.                                                                 *)

\* A token is a chat and the number of one of its attempts.
LEMMA TokenParts ==
    ASSUME NEW t \in Tokens
    PROVE  /\ t[1] \in Chats /\ t[2] \in 1 .. Retries[t[1]] + 1
           /\ t = <<t[1], t[2]>>
  BY DEF Tokens

\* The token of a chat's own attempt is one of them.
LEMMA TokenOf ==
    ASSUME NEW c \in Chats, attempt[c] \in 1 .. Retries[c] + 1
    PROVE  Token(c) \in Tokens /\ Token(c)[1] = c /\ Token(c)[2] = attempt[c]
  BY DEF Tokens, Token

\* There are finitely many.
LEMMA TokensFinite == IsFiniteSet(Tokens)
  <1> DEFINE Own(c) == {c} \X (1 .. Retries[c] + 1)
             Owns == {Own(c) : c \in Chats}
             of == [c \in Chats |-> Own(c)]
  <1>1. IsFiniteSet(Owns)
    <2>1. of \in Surjection(Chats, Owns)
      BY DEF Surjection
    <2> QED
      BY <2>1, FS_Surjection, GateAssumption
  <1>2. \A S \in Owns : IsFiniteSet(S)
    <2> SUFFICES ASSUME NEW c \in Chats PROVE IsFiniteSet(Own(c))
      OBVIOUS
    <2>1. IsFiniteSet({c})
      BY FS_Singleton
    <2>2. IsFiniteSet(1 .. Retries[c] + 1)
      BY FS_Interval, GateAssumption
    <2> QED
      BY <2>1, <2>2, FS_Product
  <1>3. IsFiniteSet(UNION Owns)
    BY <1>1, <1>2, FS_UNION
  <1> QED
    BY <1>3 DEF Tokens

-----------------------------------------------------------------------------
(* The steps.                                                              *)

\* A chat leaves the gate, or is cancelled outside it.
Leaves(c) == pc[c] \in Claiming \cup {"wait", "call"} /\ \E o \in Outcomes : Leave(c, o)
GivesUp(c) == /\ pc[c] \in {"resolve", "backoff"}
              /\ pc' = [pc EXCEPT ![c] = "ended"]
              /\ UNCHANGED <<attempt, raised, score, flight, watched, waitLeft, callLeft,
                             claimAge, leaked>>

LEMMA ChatSteps ==
    ASSUME NEW c \in Chats, ChatStep(c)
    PROVE  \/ Begin(c) \/ Resolve(c) \/ Watch(c) \/ StartCall(c) \/ Leaves(c)
           \/ GivesUp(c) \/ Release(c) \/ ReleaseFails(c) \/ Retry(c)
  <1>1. \A answer \in Answers : Outcome(answer) \in Outcomes
    BY DEF Answers, Outcome, Outcomes
  <1>2. EndCall(c) => Leaves(c)
    BY <1>1 DEF EndCall, Leaves
  <1>3. WaitTimeout(c) \/ RedisFails(c) \/ CallTimeout(c) => Leaves(c)
    BY DEF WaitTimeout, RedisFails, CallTimeout, Leaves, Outcomes
  <1>4. Cancel(c) => Leaves(c) \/ GivesUp(c)
    BY DEF Cancel, Leaves, GivesUp, Outcomes, Busy, Claiming
  <1> QED
    BY <1>2, <1>3, <1>4 DEF ChatStep

LEMMA GateInitially == Init => GateInv
  <1> SUFFICES ASSUME Init PROVE GateInv
    OBVIOUS
  <1> USE DEF Init
  <1>1. GateTypeOK
    BY DEF GateTypeOK, Places, Outcomes, Left, Absent
  <1>2. AttemptsBounded
    BY GateAssumption DEF AttemptsBounded
  <1>3. MembersAreHeld
    BY DEF MembersAreHeld
  <1>4. LimitKept
    <2>1. Live = {}
      BY DEF Live, Absent
    <2>2. Cardinality(Live) = 0
      BY <2>1, FS_EmptySet
    <2> QED
      BY <2>2, GateAssumption DEF LimitKept
  <1>5. LeaseLasts
    BY DEF LeaseLasts, LeaseOf
  <1> QED
    BY <1>1, <1>2, <1>3, <1>4, <1>5 DEF GateInv

\* A step of a chat keeps the types.
LEMMA ChatKeepsTypes ==
    ASSUME GateTypeOK, AttemptsBounded, NEW c \in Chats, ChatStep(c)
    PROVE  GateTypeOK'
  <1> USE DEF GateTypeOK
  <1>0. Token(c) \in Tokens
    BY TokenOf DEF AttemptsBounded
  <1>1. CASE Begin(c)
    BY <1>1 DEF Begin, Places, Busy
  <1>2. CASE Resolve(c)
    BY <1>2, GateAssumption DEF Resolve, Places, Busy
  <1>b. Timeout[c] + LeaseMargin \in Nat /\ Timeout[c] + Grace \in Nat
    BY GateAssumption
  <1>3. CASE Watch(c)
    BY <1>3, <1>0, <1>b DEF Watch, Places, Busy, Left
  <1>4. CASE StartCall(c)
    BY <1>4, <1>b DEF StartCall, Places, Busy
  <1>5. CASE Leaves(c)
    BY <1>5 DEF Leaves, Leave, Places, Busy
  <1>6. CASE GivesUp(c)
    BY <1>6 DEF GivesUp, Places
  <1>7. CASE Release(c)
    BY <1>7, <1>0 DEF Release, AfterRun, Places, Busy, Outcomes, Left, Touched
  <1>8. CASE ReleaseFails(c)
    BY <1>8, <1>0 DEF ReleaseFails, AfterRun, Places, Busy, Outcomes
  <1>9. CASE Retry(c)
    BY <1>9 DEF Retry, Places, Busy
  <1> QED
    BY <1>1, <1>2, <1>3, <1>4, <1>5, <1>6, <1>7, <1>8, <1>9, ChatSteps

LEMMA NextKeepsTypes ==
    ASSUME GateTypeOK, AttemptsBounded, [Next]_vars
    PROVE  GateTypeOK'
  <1>1. ASSUME NEW c \in Chats, ChatStep(c) PROVE GateTypeOK'
    BY <1>1, ChatKeepsTypes
  <1> USE DEF GateTypeOK
  <1>2. ASSUME NEW t \in Tokens, Exec(t) PROVE GateTypeOK'
    <2>1. t[1] \in Chats
      BY TokenParts
    <2>2. pc' \in [Chats -> Places]
      BY <1>2, <2>1 DEF Exec, Places, Busy
    <2>3. score' \in [Tokens -> Left] /\ flight' \in [Tokens -> Left]
      BY <1>2 DEF Exec, Left
    <2>4. watched' \in [Tokens -> BOOLEAN] /\ leaked' \subseteq Tokens
      BY <1>2 DEF Exec, Touched
    <2> QED
      BY <1>2, <2>2, <2>3, <2>4 DEF Exec
  <1>3. ASSUME NEW t \in Tokens, LoseExec(t) PROVE GateTypeOK'
    BY <1>3 DEF LoseExec, Left
  <1>4. ASSUME NEW p \in Processes, Kill(p) PROVE GateTypeOK'
    <2>1. leaked' \subseteq Tokens
      <3>1. \A c \in Chats : Token(c) \in Tokens
        BY TokenOf DEF AttemptsBounded
      <3>2. p \subseteq Chats
        BY GateAssumption
      <3> QED
        BY <1>4, <3>1, <3>2 DEF Kill
    <2> QED
      BY <1>4, <2>1 DEF Kill, Places, Outcomes
  <1>5. ASSUME Tick PROVE GateTypeOK'
    BY <1>5 DEF Tick, Left, Absent
  <1>6. CASE UNCHANGED vars
    BY <1>6 DEF vars
  <1> QED
    BY <1>1, <1>2, <1>3, <1>4, <1>5, <1>6 DEF Next

\* A chat never starts more attempts than it may.
LEMMA NextKeepsAttempts ==
    ASSUME GateTypeOK, AttemptsBounded, [Next]_vars
    PROVE  AttemptsBounded'
  <1> USE DEF GateTypeOK, AttemptsBounded
  <1> Retries \in [Chats -> Nat]
    BY GateAssumption
  <1>1. ASSUME NEW c \in Chats, ChatStep(c) PROVE AttemptsBounded'
    <2>1. CASE Begin(c) \/ Resolve(c) \/ Watch(c) \/ StartCall(c)
      BY <2>1 DEF Begin, Resolve, Watch, StartCall
    <2>2. CASE Leaves(c) \/ GivesUp(c)
      BY <2>2 DEF Leaves, Leave, GivesUp
    <2>3. CASE Release(c) \/ ReleaseFails(c)
      BY <2>3 DEF Release, ReleaseFails, AfterRun
    <2>4. CASE Retry(c)
      BY <2>4 DEF Retry
    <2> QED
      BY <1>1, <2>1, <2>2, <2>3, <2>4, ChatSteps
  <1>2. ASSUME NEW t \in Tokens, Exec(t) \/ LoseExec(t) PROVE AttemptsBounded'
    BY <1>2 DEF Exec, LoseExec
  <1>3. ASSUME NEW p \in Processes, Kill(p) PROVE AttemptsBounded'
    BY <1>3 DEF Kill
  <1>4. ASSUME Tick PROVE AttemptsBounded'
    BY <1>4 DEF Tick
  <1>5. CASE UNCHANGED vars
    BY <1>5 DEF vars
  <1> QED
    BY <1>1, <1>2, <1>3, <1>4, <1>5 DEF Next

\* Whoever gets a slot gives it back, or leaves it behind, before it goes on.
LEMMA NextKeepsMembers ==
    ASSUME GateTypeOK, AttemptsBounded, MembersAreHeld, [Next]_vars
    PROVE  MembersAreHeld'
  <1> SUFFICES ASSUME NEW u \in Tokens, score'[u] # Absent, u \notin leaked'
               PROVE  pc'[u[1]] \in {"granted", "call", "release"}
                      /\ attempt'[u[1]] = u[2]
    BY DEF MembersAreHeld
  <1> USE DEF GateTypeOK
  <1>0. /\ u[1] \in Chats /\ u = <<u[1], u[2]>>
        /\ score[u] # Absent /\ u \notin leaked
           => pc[u[1]] \in {"granted", "call", "release"} /\ attempt[u[1]] = u[2]
    BY TokenParts DEF MembersAreHeld
  <1>1. ASSUME NEW c \in Chats, ChatStep(c)
        PROVE  pc'[u[1]] \in {"granted", "call", "release"} /\ attempt'[u[1]] = u[2]
    <2>0. Token(c) \in Tokens /\ Token(c) = <<c, attempt[c]>>
      BY TokenOf DEF AttemptsBounded, Token
    <2>1. CASE Begin(c) \/ Resolve(c) \/ Watch(c) \/ StartCall(c)
      BY <1>0, <2>1 DEF Begin, Resolve, Watch, StartCall
    <2>2. CASE Leaves(c) \/ GivesUp(c)
      BY <1>0, <2>2 DEF Leaves, Leave, GivesUp
    <2>3. CASE Release(c)
      BY <1>0, <2>0, <2>3 DEF Release, AfterRun
    <2>4. CASE ReleaseFails(c)
      BY <1>0, <2>0, <2>4 DEF ReleaseFails, AfterRun
    <2>5. CASE Retry(c)
      BY <1>0, <2>5 DEF Retry
    <2> QED
      BY <1>1, <2>1, <2>2, <2>3, <2>4, <2>5, ChatSteps
  <1>2. ASSUME NEW t \in Tokens, Exec(t)
        PROVE  pc'[u[1]] \in {"granted", "call", "release"} /\ attempt'[u[1]] = u[2]
    <2>1. t[1] \in Chats /\ t = <<t[1], t[2]>>
      BY TokenParts
    <2>2. CASE watched[t] /\ u = t
      BY <1>0, <1>2, <2>1, <2>2 DEF Exec
    <2>3. CASE watched[t] /\ u # t
      BY <1>0, <1>2, <2>1, <2>3 DEF Exec
    <2>4. CASE ~ watched[t]
      BY <1>0, <1>2, <2>1, <2>4 DEF Exec
    <2> QED
      BY <2>2, <2>3, <2>4
  <1>3. ASSUME NEW t \in Tokens, LoseExec(t)
        PROVE  pc'[u[1]] \in {"granted", "call", "release"} /\ attempt'[u[1]] = u[2]
    BY <1>0, <1>3 DEF LoseExec
  <1>4. ASSUME NEW p \in Processes, Kill(p)
        PROVE  pc'[u[1]] \in {"granted", "call", "release"} /\ attempt'[u[1]] = u[2]
    <2>1. score[u] # Absent /\ u \notin leaked
      BY <1>4 DEF Kill
    <2>2. ASSUME u[1] \in p PROVE FALSE
      <3>1. u = Token(u[1]) /\ pc[u[1]] \in Busy
        BY <1>0, <2>1 DEF Token, Busy
      <3> QED
        BY <1>4, <2>2, <3>1 DEF Kill
    <2> QED
      BY <1>0, <1>4, <2>1, <2>2 DEF Kill
  <1>5. ASSUME Tick
        PROVE  pc'[u[1]] \in {"granted", "call", "release"} /\ attempt'[u[1]] = u[2]
    BY <1>0, <1>5 DEF Tick, Absent
  <1>6. CASE UNCHANGED vars
    BY <1>0, <1>6 DEF vars
  <1> QED
    BY <1>1, <1>2, <1>3, <1>4, <1>5, <1>6 DEF Next

-----------------------------------------------------------------------------
(* The limit.                                                              *)

\* The members whose leases go on, before and after, are finitely many.
LEMMA LiveFinite == IsFiniteSet(Live) /\ Cardinality(Live) \in Nat
  BY TokensFinite, FS_Subset, FS_CardinalityType DEF Live

\* A step that adds no member and starts no EXEC keeps the limit.
LEMMA LimitLeftAlone ==
    ASSUME LimitKept, Live' \subseteq Live,
           \A t \in Tokens : watched'[t] /\ flight'[t] # Absent
                            => watched[t] /\ flight[t] # Absent
    PROVE  LimitKept'
  <1>1. Cardinality(Live') <= Cardinality(Live)
    BY LiveFinite, FS_Subset
  <1>2. Cardinality(Live') \in Nat
    BY LiveFinite, FS_Subset, FS_CardinalityType
  <1> QED
    BY <1>1, <1>2, LiveFinite, GateAssumption DEF LimitKept

LEMMA NextKeepsLimit ==
    ASSUME GateTypeOK, AttemptsBounded, LimitKept, [Next]_vars
    PROVE  LimitKept'
  <1> USE DEF GateTypeOK
  <1>1. ASSUME NEW c \in Chats, ChatStep(c) PROVE LimitKept'
    <2>0. Token(c) \in Tokens
      BY TokenOf DEF AttemptsBounded
    <2>1. CASE Begin(c) \/ Resolve(c) \/ StartCall(c) \/ Leaves(c) \/ GivesUp(c)
               \/ ReleaseFails(c) \/ Retry(c)
      <3>1. UNCHANGED <<score, flight, watched>>
        BY <2>1 DEF Begin, Resolve, StartCall, Leaves, Leave, GivesUp, ReleaseFails, Retry
      <3>2. Live' = Live
        BY <3>1 DEF Live
      <3> QED
        BY <3>1, <3>2, LimitLeftAlone
    <2>2. CASE Watch(c)
      <3>1. Live' = Live
        BY <2>2 DEF Watch, Live
      <3> QED
        BY <2>2, <3>1 DEF Watch, LimitKept
    <2>3. CASE Release(c)
      <3>1. Live' \subseteq Live
        BY <2>0, <2>3 DEF Release, Live, Absent
      <3>2. \A t \in Tokens : watched'[t] /\ flight'[t] # Absent
                             => watched[t] /\ flight[t] # Absent
        BY <2>3 DEF Release, Touched
      <3> QED
        BY <3>1, <3>2, LimitLeftAlone
    <2> QED
      BY <1>1, <2>1, <2>2, <2>3, ChatSteps
  <1>2. ASSUME NEW t \in Tokens, Exec(t) PROVE LimitKept'
    <2>1. CASE watched[t]
      <3>1. Live' \subseteq Live \cup {t}
        BY <1>2, <2>1 DEF Exec, Live, Absent
      <3>2. Cardinality(Live) < Limit
        BY <1>2, <2>1 DEF Exec, LimitKept
      <3>3. Cardinality(Live \cup {t}) <= Cardinality(Live) + 1
        <4>1. Cardinality(Live \cup {t})
              = IF t \in Live THEN Cardinality(Live) ELSE Cardinality(Live) + 1
          BY LiveFinite, FS_AddElement
        <4> QED
          BY <4>1, LiveFinite
      <3>4. IsFiniteSet(Live \cup {t}) /\ Cardinality(Live \cup {t}) \in Nat
        BY LiveFinite, FS_AddElement, FS_CardinalityType
      <3>5. Cardinality(Live') <= Cardinality(Live \cup {t}) /\ Cardinality(Live') \in Nat
        BY <3>1, <3>4, FS_Subset, FS_CardinalityType
      <3>6. Cardinality(Live') <= Limit
        BY <3>2, <3>3, <3>4, <3>5, LiveFinite, GateAssumption
      <3>7. \A u \in Tokens : ~ watched'[u]
        BY <1>2, <2>1 DEF Exec, Touched
      <3> QED
        BY <3>6, <3>7 DEF LimitKept
    <2>2. CASE ~ watched[t]
      <3>1. Live' = Live /\ watched' = watched
        BY <1>2, <2>2 DEF Exec, Live
      <3>2. \A u \in Tokens : flight'[u] # Absent => flight[u] # Absent
        BY <1>2 DEF Exec
      <3> QED
        BY <3>1, <3>2, LimitLeftAlone
    <2> QED
      BY <2>1, <2>2
  <1>3. ASSUME NEW t \in Tokens, LoseExec(t) PROVE LimitKept'
    <2>1. Live' = Live
      BY <1>3 DEF LoseExec, Live
    <2>2. \A u \in Tokens : watched'[u] /\ flight'[u] # Absent
                           => watched[u] /\ flight[u] # Absent
      BY <1>3 DEF LoseExec
    <2> QED
      BY <2>1, <2>2, LimitLeftAlone
  <1>4. ASSUME NEW p \in Processes, Kill(p) PROVE LimitKept'
    <2>1. Live' = Live /\ UNCHANGED <<flight, watched>>
      BY <1>4 DEF Kill, Live
    <2> QED
      BY <2>1, LimitLeftAlone
  <1>5. ASSUME Tick PROVE LimitKept'
    <2>1. Live' \subseteq Live
      BY <1>5 DEF Tick, Live, Left, Absent
    <2>2. \A u \in Tokens : watched'[u] /\ flight'[u] # Absent
                           => watched[u] /\ flight[u] # Absent
      BY <1>5 DEF Tick, Left, Absent
    <2> QED
      BY <2>1, <2>2, LimitLeftAlone
  <1>6. CASE UNCHANGED vars
    <2>1. Live' = Live /\ UNCHANGED <<flight, watched>>
      BY <1>6 DEF vars, Live
    <2> QED
      BY <2>1, LimitLeftAlone
  <1> QED
    BY <1>1, <1>2, <1>3, <1>4, <1>5, <1>6 DEF Next

-----------------------------------------------------------------------------
(* The leases.                                                             *)

\* A chat that has no claim, grant or call has no lease to wait for.
LEMMA NoLease ==
    ASSUME NEW d \in Chats, pc'[d] \notin {"claim", "granted", "call"}
    PROVE  LeaseOf(d)'
  BY DEF LeaseOf

\* Steps of others leave the lease of a chat alone.
LEMMA LeaseLeftAlone ==
    ASSUME GateTypeOK, AttemptsBounded, NEW d \in Chats, LeaseOf(d),
           pc'[d] = pc[d], attempt'[d] = attempt[d],
           callLeft'[d] = callLeft[d], claimAge'[d] = claimAge[d],
           flight'[Token(d)] = flight[Token(d)],
           score[Token(d)] > 0 => score'[Token(d)] = score[Token(d)]
    PROVE  LeaseOf(d)'
  <1>1. Token(d)' = Token(d)
    BY DEF Token
  <1>2. score[Token(d)] \in Left
    BY TokenOf DEF GateTypeOK, AttemptsBounded
  <1>3. /\ Timeout[d] \in Nat /\ LeaseMargin \in Nat /\ Grace \in Nat
        /\ claimAge[d] \in Nat /\ callLeft[d] \in Nat
    BY GateAssumption DEF GateTypeOK
  <1> QED
    BY <1>1, <1>2, <1>3 DEF LeaseOf, Lasts, Left, Absent

\* The steps of a chat itself.
LEMMA OwnStepKeepsLease ==
    ASSUME GateTypeOK, AttemptsBounded, NEW c \in Chats, LeaseOf(c), ChatStep(c)
    PROVE  LeaseOf(c)'
  <1> USE DEF GateTypeOK
  <1>0. Token(c) \in Tokens
    BY TokenOf DEF AttemptsBounded
  <1>1. CASE Begin(c) \/ Resolve(c) \/ Leaves(c) \/ GivesUp(c) \/ Release(c)
             \/ ReleaseFails(c) \/ Retry(c)
    <2>1. pc'[c] \notin {"claim", "granted", "call"}
      BY <1>1 DEF Begin, Resolve, Leaves, Leave, GivesUp, Release, ReleaseFails,
                  AfterRun, Retry
    <2> QED
      BY <2>1, NoLease
  <1>2. CASE Watch(c)
    <2>1. Token(c)' = Token(c) /\ pc'[c] = "claim" /\ claimAge'[c] = 0
          /\ flight'[Token(c)] = Timeout[c] + LeaseMargin
      BY <1>0, <1>2 DEF Watch, Token
    <2>2. Timeout[c] \in Nat /\ LeaseMargin \in Nat
      BY GateAssumption
    <2> QED
      BY <2>1, <2>2 DEF LeaseOf
  <1>3. CASE StartCall(c)
    <2>1. /\ Token(c)' = Token(c) /\ pc[c] = "granted" /\ pc'[c] = "call"
          /\ callLeft'[c] = Timeout[c] + Grace
          /\ UNCHANGED <<score, flight, claimAge>>
      BY <1>3 DEF StartCall, Token
    <2>2. Timeout[c] \in Nat /\ LeaseMargin \in Nat /\ Grace \in Nat /\ claimAge[c] \in Nat
      BY GateAssumption
    <2> QED
      BY <2>1, <2>2 DEF LeaseOf, Lasts
  <1> QED
    BY <1>1, <1>2, <1>3, ChatSteps

LEMMA NextKeepsLeases ==
    ASSUME GateTypeOK, AttemptsBounded, LeaseLasts, [Next]_vars
    PROVE  LeaseLasts'
  <1> SUFFICES ASSUME NEW d \in Chats PROVE LeaseOf(d)'
    BY DEF LeaseLasts
  <1> USE DEF GateTypeOK
  <1>0. Token(d) \in Tokens /\ Token(d) = <<d, attempt[d]>> /\ LeaseOf(d)
    BY TokenOf DEF AttemptsBounded, LeaseLasts, Token
  <1>1. ASSUME NEW c \in Chats, ChatStep(c) PROVE LeaseOf(d)'
    <2>1. CASE c = d
      BY <1>0, <1>1, <2>1, OwnStepKeepsLease
    <2>2. CASE c # d
      <3>0. Token(c) \in Tokens /\ Token(c) # Token(d)
        BY <1>0, <2>2, TokenOf DEF AttemptsBounded, Token
      <3>1. /\ pc'[d] = pc[d] /\ attempt'[d] = attempt[d]
            /\ callLeft'[d] = callLeft[d] /\ claimAge'[d] = claimAge[d]
        <4>1. CASE Begin(c) \/ Resolve(c) \/ Watch(c) \/ StartCall(c) \/ Retry(c)
          BY <2>2, <4>1 DEF Begin, Resolve, Watch, StartCall, Retry
        <4>2. CASE Leaves(c) \/ GivesUp(c)
          BY <2>2, <4>2 DEF Leaves, Leave, GivesUp
        <4>3. CASE Release(c) \/ ReleaseFails(c)
          BY <2>2, <4>3 DEF Release, ReleaseFails, AfterRun
        <4> QED
          BY <1>1, <4>1, <4>2, <4>3, ChatSteps
      <3>2. flight'[Token(d)] = flight[Token(d)] /\ score'[Token(d)] = score[Token(d)]
        <4>1. CASE Begin(c) \/ Resolve(c) \/ StartCall(c) \/ Retry(c) \/ ReleaseFails(c)
          BY <4>1 DEF Begin, Resolve, StartCall, Retry, ReleaseFails
        <4>2. CASE Leaves(c) \/ GivesUp(c)
          BY <4>2 DEF Leaves, Leave, GivesUp
        <4>3. CASE Watch(c) \/ Release(c)
          BY <1>0, <3>0, <4>3 DEF Watch, Release
        <4> QED
          BY <1>1, <4>1, <4>2, <4>3, ChatSteps
      <3> QED
        BY <1>0, <3>1, <3>2, LeaseLeftAlone
    <2> QED
      BY <2>1, <2>2
  <1>2. ASSUME NEW t \in Tokens, Exec(t) PROVE LeaseOf(d)'
    <2>0. t[1] \in Chats /\ t = <<t[1], t[2]>>
      BY TokenParts
    <2>1. CASE t = Token(d) /\ pc[d] = "claim"
      <3>1. t[1] = d /\ t[2] = attempt[d] /\ Token(d)' = Token(d) /\ claimAge' = claimAge
        BY <1>0, <1>2, <2>1 DEF Exec, Token
      <3>2. CASE watched[t]
        <4>1. pc'[d] = "granted" /\ flight'[t] = Absent /\ score'[t] = flight[t]
          BY <1>2, <2>1, <3>1, <3>2 DEF Exec
        <4> QED
          BY <1>0, <2>1, <3>1, <4>1 DEF LeaseOf, Lasts
      <3>3. CASE ~ watched[t]
        <4>1. pc'[d] = "wait"
          BY <1>2, <2>1, <3>1, <3>3 DEF Exec
        <4> QED
          BY <4>1, NoLease
      <3> QED
        BY <3>2, <3>3
    <2>2. CASE t = Token(d) /\ pc[d] # "claim"
      <3>1. pc[d] \notin {"claim", "granted", "call"}
        BY <1>0, <1>2, <2>2 DEF Exec, LeaseOf
      <3>2. t[1] = d /\ pc'[d] = pc[d]
        BY <1>0, <1>2, <2>0, <2>2 DEF Exec
      <3> QED
        BY <3>1, <3>2, NoLease
    <2>3. CASE t # Token(d)
      <3>1. ~ (t[1] = d /\ attempt[d] = t[2])
        BY <1>0, <2>0, <2>3
      <3>2. /\ pc'[d] = pc[d] /\ attempt'[d] = attempt[d]
            /\ callLeft'[d] = callLeft[d] /\ claimAge'[d] = claimAge[d]
        BY <1>2, <2>0, <3>1 DEF Exec
      <3>3. /\ flight'[Token(d)] = flight[Token(d)]
            /\ score[Token(d)] > 0 => score'[Token(d)] = score[Token(d)]
        BY <1>0, <1>2, <2>3 DEF Exec
      <3> QED
        BY <1>0, <3>2, <3>3, LeaseLeftAlone
    <2> QED
      BY <2>1, <2>2, <2>3
  <1>3. ASSUME NEW t \in Tokens, LoseExec(t) PROVE LeaseOf(d)'
    <2>1. UNCHANGED <<pc, attempt, callLeft, claimAge, score>>
      BY <1>3 DEF LoseExec
    <2>2. CASE t # Token(d)
      <3>1. flight'[Token(d)] = flight[Token(d)]
        BY <1>0, <1>3, <2>2 DEF LoseExec
      <3> QED
        BY <1>0, <2>1, <3>1, LeaseLeftAlone
    <2>3. CASE t = Token(d)
      <3>1. pc'[d] \notin {"claim", "granted", "call"}
        BY <1>0, <1>3, <2>3 DEF LoseExec, LeaseOf
      <3> QED
        BY <3>1, NoLease
    <2> QED
      BY <2>2, <2>3
  <1>4. ASSUME NEW p \in Processes, Kill(p) PROVE LeaseOf(d)'
    <2>1. CASE d \in p
      <3>1. pc'[d] = "ended"
        BY <1>4, <2>1 DEF Kill
      <3> QED
        BY <3>1, NoLease
    <2>2. CASE d \notin p
      <3>1. /\ pc'[d] = pc[d] /\ callLeft'[d] = callLeft[d] /\ claimAge'[d] = claimAge[d]
            /\ UNCHANGED <<attempt, score, flight>>
        BY <1>4, <2>2 DEF Kill
      <3> QED
        BY <1>0, <3>1, LeaseLeftAlone
    <2> QED
      BY <2>1, <2>2
  <1>5. ASSUME Tick PROVE LeaseOf(d)'
    <2> DEFINE s == score[Token(d)]
               f == flight[Token(d)]
    <2>1. Token(d)' = Token(d) /\ pc'[d] = pc[d]
      BY <1>5 DEF Tick, Token
    <2>2. /\ score'[Token(d)] = IF s > 0 THEN s - 1 ELSE s
          /\ flight'[Token(d)] = IF f > 0 THEN f - 1 ELSE f
          /\ callLeft'[d] = IF callLeft[d] > 0 THEN callLeft[d] - 1 ELSE callLeft[d]
          /\ claimAge'[d] = IF pc[d] \in Claiming THEN claimAge[d] + 1 ELSE claimAge[d]
          /\ pc[d] = "call" => callLeft[d] > 0
      BY <1>0, <1>5 DEF Tick
    <2>3. /\ Timeout[d] \in Nat /\ LeaseMargin \in Nat /\ Grace \in Nat
          /\ claimAge[d] \in Nat /\ callLeft[d] \in Nat
          /\ s \in Left /\ f \in Left
      BY <1>0, GateAssumption
    <2> HIDE DEF GateTypeOK
    <2>4. CASE pc[d] = "claim"
      BY <1>0, <2>1, <2>2, <2>3, <2>4 DEF LeaseOf, Left, Absent, Claiming
    <2>5. CASE pc[d] = "granted"
      BY <1>0, <2>1, <2>2, <2>3, <2>5 DEF LeaseOf, Lasts, Left, Absent, Claiming
    <2>6. CASE pc[d] = "call"
      BY <1>0, <2>1, <2>2, <2>3, <2>6 DEF LeaseOf, Lasts, Left, Absent, Claiming
    <2>7. CASE pc[d] \notin {"claim", "granted", "call"}
      BY <2>1, <2>7, NoLease
    <2> QED
      BY <2>4, <2>5, <2>6, <2>7
  <1>6. CASE UNCHANGED vars
    BY <1>0, <1>6, LeaseLeftAlone DEF vars
  <1> QED
    BY <1>1, <1>2, <1>3, <1>4, <1>5, <1>6 DEF Next

-----------------------------------------------------------------------------
(* The theorems.                                                           *)

THEOREM GateInvariant == Spec => []GateInv
  <1>1. Init => GateInv
    BY GateInitially
  <1>2. GateInv /\ [Next]_vars => GateInv'
    BY NextKeepsTypes, NextKeepsAttempts, NextKeepsMembers, NextKeepsLimit,
       NextKeepsLeases DEF GateInv
  <1> QED
    BY <1>1, <1>2, PTL DEF Spec

\* The finally block of run gives back every slot that it can: a chat that
\* waits before a retry, or has ended, is no member of the sorted set, unless
\* its removal failed or an EXEC overtook it.
THEOREM SlotsComeBack == Spec => []IdleHoldsNoSlot
  <1>1. GateInv => IdleHoldsNoSlot
    BY DEF GateInv, MembersAreHeld, IdleHoldsNoSlot, Live, Absent
  <1> QED
    BY <1>1, GateInvariant, PTL

\* As many calls as there are prompt claims hold as many members of the
\* sorted set, one each.
LEMMA PromptCallsAreLive ==
    ASSUME GateInv, NEW calls \in SUBSET Chats,
           \A c \in calls : pc[c] = "call" /\ claimAge[c] < LeaseMargin - Grace
    PROVE  Cardinality(calls) <= Cardinality(Live) /\ Cardinality(calls) \in Nat
  <1> DEFINE own == [c \in calls |-> <<c, attempt[c]>>]
  <1>1. \A c \in calls : own[c] \in Live
    <2> TAKE c \in calls
    <2>1. Token(c) \in Tokens /\ LeaseOf(c)
      BY TokenOf DEF GateInv, AttemptsBounded, LeaseLasts
    <2>2. /\ LeaseMargin \in Nat /\ Grace \in Nat
          /\ claimAge[c] \in Nat /\ callLeft[c] \in Nat /\ score[Token(c)] \in Left
      BY <2>1, GateAssumption DEF GateInv, GateTypeOK
    <2>3. score[Token(c)] > 0
      BY <2>1, <2>2 DEF LeaseOf, Lasts, Left, Absent
    <2> QED
      BY <2>1, <2>3 DEF Live, Token
  <1>2. own \in Injection(calls, Live)
    BY <1>1 DEF Injection, IsInjective
  <1> HIDE DEF own
  <1>3. IsFiniteSet(calls) /\ Cardinality(calls) <= Cardinality(Live)
    BY <1>2, LiveFinite, FS_Injection
  <1> QED
    BY <1>3, FS_CardinalityType

\* The limit on calls in flight: more than GPU_GENERATION_INFLIGHT calls are
\* under way only if some claim was answered so late that its lease may end
\* before the call's own timeout.
THEOREM LimitIsKept == Spec => []OverLimitOnlyAfterSlowClaim
  <1>1. ASSUME GateInv PROVE OverLimitOnlyAfterSlowClaim
    <2> DEFINE calls == {c \in Chats : pc[c] = "call"}
    <2> SUFFICES ASSUME Cardinality(calls) > Limit,
                        ~ \E c \in calls : claimAge[c] >= LeaseMargin - Grace
                 PROVE  FALSE
      BY DEF OverLimitOnlyAfterSlowClaim
    <2>1. \A c \in calls : pc[c] = "call" /\ claimAge[c] < LeaseMargin - Grace
      BY <1>1, GateAssumption DEF GateInv, GateTypeOK
    <2>2. Cardinality(calls) <= Cardinality(Live) /\ Cardinality(calls) \in Nat
      BY <1>1, <2>1, PromptCallsAreLive
    <2> QED
      BY <1>1, <2>2, LiveFinite, GateAssumption DEF GateInv, LimitKept
  <1> QED
    BY <1>1, GateInvariant, PTL
=============================================================================
