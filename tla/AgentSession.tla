---------------------------- MODULE AgentSession ----------------------------
(***************************************************************************)
(* The session of the sorting agent: conversations with the generation     *)
(* model, their tools, and the Kakao calls of a job (Session, Tools,       *)
(* episode and estimate in app/pipeline/agent/model.py, KakaoBudget and    *)
(* KakaoLocalClient in app/infra/kakao_local.py).                          *)
(*                                                                         *)
(* All conversations of a job are tasks of one event loop: what lies       *)
(* between two awaits is one action.  A talk is the estimate of one photo; *)
(* what the model says is chosen from Replies, sequences of tool calls.    *)
(* A chat call with its retries and its GPU slot is one step here; they    *)
(* are the subject of RequestGate.  Searches run in threads of their own,  *)
(* which a cancellation of the talk does not reach.                        *)
(***************************************************************************)
EXTENDS Integers, Sequences, FiniteSets, FiniteSetsExt

CONSTANTS
    Talks,
    Spots,           \* places that searches can find
    InTrip,          \* those in the district of the trip
    Hits,            \* [Kakao queries -> SUBSET Spots]
    Replies,         \* replies of the model, sequences of tool calls
    InitialImages,   \* photos that estimate attaches to the first message
    MaxImages,
    ReadLimit,
    MaxCalls,
    Concurrency,
    KakaoLimit,      \* KAKAO_CALLS_PER_JOB
    None

VARIABLES
    talk,            \* the conversations
    kakao,           \* KakaoBudget, requests sent, kakao_results
    regionOf,        \* Session._regions
    tripRegion       \* load_regions and Session.region_keys

sessionVars == <<talk, kakao, regionOf, tripRegion>>

Queries == DOMAIN Hits

ReadCall(n)   == [tool |-> "read", n |-> n, query |-> None, spot |-> None, confidence |-> "low"]
SimilarCall   == [tool |-> "similar", n |-> 0, query |-> None, spot |-> None, confidence |-> "low"]
PublicCall(s) == [tool |-> "public", n |-> 0, query |-> None, spot |-> s, confidence |-> "low"]
KakaoCall(q)  == [tool |-> "kakao", n |-> 0, query |-> q, spot |-> None, confidence |-> "low"]
DecideExisting(confidence) ==
    [tool |-> "existing", n |-> 0, query |-> None, spot |-> None, confidence |-> confidence]
DecideNew(s, confidence) ==
    [tool |-> "new", n |-> 0, query |-> None, spot |-> s, confidence |-> confidence]

\* The state of a talk that has not been submitted.  A thread may work for a
\* talk, and its future may be canceled.
Silent == [at |-> "off", turn |-> 0, calls |-> <<>>, images |-> InitialImages,
           found |-> {}, spot |-> None, confidence |-> "low",
           thread |-> FALSE, canceled |-> FALSE]

Over == {"answered", "failed", "stopped"}

NextCall(c) == Head(talk[c].calls)

Waits(c, tool) == talk[c].at = "tools" /\ NextCall(c).tool = tool

\* A talk that is over keeps nothing but its proposal.
Ends(at) == [Silent EXCEPT !.at = at]

Canceled(at, thread) == [Ends(at) EXCEPT !.canceled = TRUE, !.thread = thread]

\* The proposal that estimate returns, with the search that found the place.
Proposed(t, spot, confidence) ==
    [Ends("answered") EXCEPT !.found = t.found \cap {spot}, !.spot = spot,
                                !.confidence = confidence]

\* The next round of episode; after the last one there is no final answer.
NextTurn(t) ==
    IF t.turn + 1 = MaxCalls
    THEN Proposed(t, None, "low")
    ELSE [t EXCEPT !.at = "queue", !.turn = @ + 1, !.calls = <<>>]

\* A tool has answered.
Done(t) ==
    IF Len(t.calls) = 1 THEN NextTurn(t)
    ELSE [t EXCEPT !.at = "tools", !.calls = Tail(@)]

TalkOnly(c, t) ==
    /\ talk' = [talk EXCEPT ![c] = t]
    /\ UNCHANGED <<kakao, regionOf, tripRegion>>

-----------------------------------------------------------------------------
(* Session.chat and episode.                                               *)

Enter(c) ==
    /\ talk[c].at = "queue"
    /\ Cardinality({d \in Talks : talk[d].at \in {"chat", "releasing"}}) < Concurrency
    /\ TalkOnly(c, [talk[c] EXCEPT !.at = "chat"])

\* A reply without tool calls costs a turn.
Reply(c, replies) ==
    /\ talk[c].at = "chat"
    /\ \E r \in replies :
         TalkOnly(c, IF r = <<>> THEN NextTurn(talk[c])
                     ELSE [talk[c] EXCEPT !.at = "tools", !.calls = r])

\* One URL that fails ends the chat while threads may still make the others.
ChatFails(c) ==
    /\ talk[c].at = "chat"
    /\ \E thread \in BOOLEAN : TalkOnly(c, [Ends("failed") EXCEPT !.thread = thread])

-----------------------------------------------------------------------------
(* The tools.                                                              *)

Room(t) == MaxImages - t.images

ReadPhotos(c) ==
    /\ Waits(c, "read")
    /\ LET t == talk[c]
           n == IF Room(t) <= 0 THEN 0 ELSE Min({NextCall(c).n, ReadLimit, Room(t)})
       IN  TalkOnly(c, Done([t EXCEPT !.images = @ + n]))

\* find_similar and search_public_places hand Qdrant and the index of public
\* places to a thread and await its end.
StartSearch(c) ==
    /\ Waits(c, "similar") \/ Waits(c, "public")
    /\ TalkOnly(c, [talk[c] EXCEPT !.at = "search", !.thread = TRUE])

\* The index finds the spot, or it cannot be read.  Similar photos are no
\* places.
SearchAnswers(c) ==
    /\ talk[c].at = "search"
    /\ \E found \in IF NextCall(c).tool = "public" THEN {{}, {NextCall(c).spot}} ELSE {{}} :
         TalkOnly(c, Done([talk[c] EXCEPT !.thread = FALSE, !.found = @ \cup found]))

\* Nothing catches an error of Qdrant.
SimilarFails(c) ==
    /\ talk[c].at = "search"
    /\ NextCall(c).tool = "similar"
    /\ TalkOnly(c, Ends("failed"))

\* KakaoBudget.take.
TakeFails == kakao.used >= KakaoLimit

Taken == [kakao EXCEPT !.used = @ + 1, !.sent = @ + 1]

\* The same search again is answered from kakao_results; a search over the
\* limit finds nothing.
KakaoUnsent(c) ==
    /\ Waits(c, "kakao")
    /\ LET q == NextCall(c).query
       IN  /\ q \in kakao.cache \/ TakeFails
           /\ TalkOnly(c, Done([talk[c] EXCEPT
                             !.found = @ \cup IF q \in kakao.cache THEN Hits[q] ELSE {}]))

KakaoSent(c) ==
    /\ Waits(c, "kakao")
    /\ NextCall(c).query \notin kakao.cache
    /\ ~TakeFails
    /\ kakao' = Taken
    /\ talk' = [talk EXCEPT ![c].at = "kakao"]
    /\ UNCHANGED <<regionOf, tripRegion>>

KakaoAnswers(c) ==
    /\ talk[c].at = "kakao"
    /\ LET q == NextCall(c).query
       IN  /\ kakao' = [kakao EXCEPT !.cache = @ \cup {q}]
           /\ talk' = [talk EXCEPT ![c] = Done([talk[c] EXCEPT !.found = @ \cup Hits[q]])]
    /\ UNCHANGED <<regionOf, tripRegion>>

\* KakaoUnavailable or a timeout: nothing is kept, the call is counted.
KakaoFails(c) ==
    /\ talk[c].at = "kakao"
    /\ TalkOnly(c, Done(talk[c]))

-----------------------------------------------------------------------------
(* The decision and the district of a new place.                           *)

\* An answer that needs no check of the district.
Decide(c) ==
    /\ talk[c].at = "tools"
    /\ NextCall(c).tool \in {"existing", "new"}
    /\ LET call == NextCall(c)
       IN  IF call.tool = "existing"
           THEN \E confidence \in {"low", call.confidence} :
                  TalkOnly(c, Proposed(talk[c], None, confidence))
           ELSE /\ call.spot \notin talk[c].found \/ call.confidence # "high"
                /\ TalkOnly(c, IF call.spot \notin talk[c].found
                               THEN Proposed(talk[c], None, "low")
                               ELSE Proposed(talk[c], call.spot, call.confidence))

Checked(t, spot, region) ==
    Proposed(t, spot, IF region = "in" /\ tripRegion = "known" THEN "high" ELSE "low")

AsksRegion(c) ==
    Waits(c, "new") /\ NextCall(c).spot \in talk[c].found /\ NextCall(c).confidence = "high"

\* The district is known from an earlier answer, or the limit is reached,
\* which is kept as an answer too.
RegionUnsent(c) ==
    /\ AsksRegion(c)
    /\ LET s == NextCall(c).spot
       IN  /\ regionOf[s] # "unasked" \/ TakeFails
           /\ regionOf' = [regionOf EXCEPT ![s] = IF @ = "unasked" THEN "none" ELSE @]
           /\ talk' = [talk EXCEPT ![c] = Checked(@, s, regionOf'[s])]
    /\ UNCHANGED <<kakao, tripRegion>>

RegionSent(c) ==
    /\ AsksRegion(c)
    /\ regionOf[NextCall(c).spot] = "unasked"
    /\ ~TakeFails
    /\ kakao' = Taken
    /\ talk' = [talk EXCEPT ![c].at = "region"]
    /\ UNCHANGED <<regionOf, tripRegion>>

\* The answer, or none if the call fails or the point has no district.
Regions(s) == {IF s \in InTrip THEN "in" ELSE "out", "none"}

RegionAnswers(c) ==
    /\ talk[c].at = "region"
    /\ LET s == NextCall(c).spot
       IN  \E region \in Regions(s) :
             /\ regionOf' = [regionOf EXCEPT ![s] = region]
             /\ talk' = [talk EXCEPT ![c] = Checked(@, s, region)]
    /\ UNCHANGED <<kakao, tripRegion>>

-----------------------------------------------------------------------------
(* Cancellation.  future.cancel only asks the event loop to cancel the     *)
(* task; until the loop gets to it the talk goes on.                       *)

\* What the CancelledError leaves of a talk.  A chat has its slot released
\* first, unless it was between two attempts, or threads were making the URLs
\* of its photos.
LeftOf(t) ==
    IF t.at = "chat"
    THEN {Canceled("releasing", FALSE), Canceled("stopped", FALSE), Canceled("stopped", TRUE)}
    ELSE {Canceled("stopped", t.thread)}

CancelArrives(c) ==
    /\ talk[c].canceled
    /\ talk[c].at \notin Over \cup {"releasing"}
    /\ \E t \in LeftOf(talk[c]) : TalkOnly(c, t)

\* zrem is answered or its five seconds are over.
SlotReleased(c) ==
    /\ talk[c].at = "releasing"
    /\ TalkOnly(c, Canceled("stopped", FALSE))

\* A thread ends that nobody waits for.
ThreadEnds(c) ==
    /\ talk[c].thread
    /\ talk[c].at \in Over
    /\ TalkOnly(c, [talk[c] EXCEPT !.thread = FALSE])

-----------------------------------------------------------------------------
(* load_regions, with one region of the trip.                              *)

LoadRegions ==
    /\ tripRegion = "submitted"
    /\ IF TakeFails THEN tripRegion' = "none" /\ UNCHANGED kakao
                    ELSE tripRegion' = "asked" /\ kakao' = Taken
    /\ UNCHANGED <<talk, regionOf>>

RegionsLoaded ==
    /\ tripRegion = "asked"
    /\ tripRegion' \in {"known", "none"}
    /\ UNCHANGED <<talk, kakao, regionOf>>

\* A canceled load_regions ends.  Whether it could still send its request makes
\* no difference to a job that asks for nothing more.
RegionsStopped ==
    /\ tripRegion = "canceled"
    /\ tripRegion' = "none"
    /\ UNCHANGED <<talk, kakao, regionOf>>

-----------------------------------------------------------------------------
SessionInit ==
    /\ talk = [c \in Talks |-> Silent]
    /\ kakao = [used |-> 0, sent |-> 0, cache |-> {}]
    /\ regionOf = [s \in Spots |-> "unasked"]
    /\ tripRegion = "off"

TalkStep(c, replies) ==
    \/ Enter(c)
    \/ Reply(c, replies)
    \/ ChatFails(c)
    \/ ReadPhotos(c)
    \/ StartSearch(c)
    \/ SearchAnswers(c)
    \/ SimilarFails(c)
    \/ KakaoUnsent(c)
    \/ KakaoSent(c)
    \/ KakaoAnswers(c)
    \/ KakaoFails(c)
    \/ Decide(c)
    \/ RegionUnsent(c)
    \/ RegionSent(c)
    \/ RegionAnswers(c)
    \/ CancelArrives(c)
    \/ SlotReleased(c)
    \/ ThreadEnds(c)

RegionsStep == LoadRegions \/ RegionsLoaded \/ RegionsStopped

=============================================================================
