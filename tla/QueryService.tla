---------------------------- MODULE QueryService ----------------------------
(***************************************************************************)
(* One query of the synchronous HTTP API: QueryService._run                *)
(* (app/api/services/query_service.py), parse and search                   *)
(* (app/search/pipeline.py), the windows of app/search/times.py and the    *)
(* output checks of app/search/prompts.py.                                 *)
(*                                                                         *)
(* Time counts in units of which the limits of SearchOptions are           *)
(* multiples.  It passes only while a call is under way, and a call that   *)
(* is due may still win against its timeout.  Scores are integers, at most *)
(* One.  Waiting for the GPU gate belongs to the call.                     *)
(***************************************************************************)
EXTENDS QueryDates, Sorting, Sequences, SequencesExt

CONSTANTS
    Attachments,    \* ids of the photos in the vector store
    Queries,        \* the requests
    Outputs,        \* what the model may write for parse
    Scores, MinScore, RatioNum, RatioDen,
    QuestionK,
    ParseLimit, RetrievalLimit, AnswerLimit, RequestLimit,
    ReleaseLimit    \* for giving back a GPU slot

ASSUME QueryAssumption ==
    /\ Attachments \subseteq Nat /\ IsFiniteSet(Attachments)
    /\ Scores \subseteq Nat /\ IsFiniteSet(Scores)
    /\ MinScore \in Nat /\ RatioNum \in 1 .. RatioDen /\ RatioDen \in Nat
    /\ QuestionK \in 1 .. 5
    /\ {ParseLimit, RetrievalLimit, AnswerLimit, RequestLimit, ReleaseLimit} \subseteq Nat \ {0}

\* The defaults of SearchOptions, which the service uses, leave this much of
\* the limit of a request.
ASSUME LimitsAssumption ==
    /\ ParseLimit + ReleaseLimit < RequestLimit
    /\ RetrievalLimit + AnswerLimit + ReleaseLimit <= RequestLimit

VARIABLES
    query,
    answering      \* where _run is, its time, and what it returns

queryVars == <<query, answering>>

IsSearch == query.kind = "search"
Limit == IF query.intent = "SEARCH" THEN query.limit ELSE QuestionK

-----------------------------------------------------------------------------
(* Time words                                                              *)

NoTime == -1
TimeWindows ==
    [morning |-> <<6, 11>>, forenoon |-> <<6, 12>>, lunch |-> <<11, 14>>,
     afternoon |-> <<14, 18>>, evening |-> <<18, 22>>, night |-> <<22, 6>>]

\* _contains: a window that ends before it starts goes over midnight.
InWindow(window, hour) ==
    IF window[1] < window[2] THEN window[1] <= hour /\ hour < window[2]
    ELSE hour >= window[1] \/ hour < window[2]

InTimeWindows(hour) == hour # NoTime /\ \E word \in query.words : InWindow(TimeWindows[word], hour)

Candidates ==
    {p \in DOMAIN query.candidates : query.words = {} \/ InTimeWindows(query.candidates[p])}

\* has_visual_query: "none" also stands for content that is the query itself
\* or has time words only.
HasVisualQuery == query.visual = "content"

\* What SearchRequest and ParseRequest accept, with a reference date that is not
\* near the bounds of the calendar.
IsRequest(q) ==
    \/ /\ q.kind = "parse"
       /\ q.today.year \in 1900 .. LastYear - 1
       /\ q.today.month \in 1 .. 12
       /\ q.today.day \in 1 .. DaysInMonth(q.today.year, q.today.month)
    \/ /\ q.kind = "search"
       /\ q.intent \in {"SEARCH", "QUESTION"}
       /\ q.words \subseteq DOMAIN TimeWindows
       /\ DOMAIN q.candidates \subseteq Nat /\ IsFiniteSet(DOMAIN q.candidates)
       /\ \A p \in DOMAIN q.candidates : q.candidates[p] \in 0 .. 23 \cup {NoTime}
       /\ q.limit \in 1 .. 50

\* RelativeDate and the dates of ParseOutput.
IsOutput(output) ==
    /\ output.from \in Int /\ output.to \in Int
    /\ output.relative.unit \in {"none", "day", "week", "weekday", "month", "year", "season"}
    /\ output.relative.offset \in Int
    /\ output.relative.weekday \in 0 .. 6 \cup {Absent}
    /\ output.relative.season \in DOMAIN SeasonStart \cup {"none"}

ASSUME InputAssumption ==
    /\ \A q \in Queries : IsRequest(q)
    /\ \A output \in Outputs : IsOutput(output)

First(seq, n) == SubSeq(seq, 1, Min({n, Len(seq)}))
\* order_by_taken_at
InTimeOrder(photos) ==
    LET hour == query.candidates
        earlier(p, q) == hour[p] < hour[q] \/ (hour[p] = hour[q] /\ p < q)
    IN  SortedBy(photos, {pq \in photos \X photos : earlier(pq[1], pq[2])})

-----------------------------------------------------------------------------
(* Hits of the vector store are pairs of a photo and a score.              *)

BestScore(hits, p) == Max({hit[2] : hit \in {h \in hits : h[1] = p}})
Strays(hits) == {hit \in hits : hit[1] \notin Candidates}

HitPhotos(hits) == {hit[1] : hit \in hits}

\* Photos with their best scores, by score and id.
Ranking(hits, photos) ==
    LET better(p, q) == \/ BestScore(hits, p) > BestScore(hits, q)
                        \/ BestScore(hits, p) = BestScore(hits, q) /\ p < q
    IN  SortedBy(photos, {pq \in photos \X photos : better(pq[1], pq[2])})

Cutoff_MinOnly(hits) ==
    Ranking(hits, {p \in HitPhotos(hits) : BestScore(hits, p) >= MinScore})

\* apply_cutoff on each photo once.
Cutoff(hits) ==
    LET top == Max({hit[2] : hit \in hits})
    IN  Ranking(hits, {p \in HitPhotos(hits) :
                         /\ BestScore(hits, p) >= MinScore
                         /\ BestScore(hits, p) * RatioDen >= top * RatioNum})

-----------------------------------------------------------------------------
(* The request                                                             *)

Running == "RUNNING"
NoOutput == [relative |-> [unit |-> "none"], from |-> NoDate, to |-> NoDate]

QueryInit ==
    /\ query \in Queries
    /\ answering = [pc |-> "start", stage |-> "", now |-> 0, since |-> 0, hits |-> {}, selected |-> <<>>,
                    urls |-> 0, output |-> NoOutput, dates |-> NoDates, parsed |-> FALSE,
                    answer |-> "", outcome |-> Running]

Reached(pc) == answering.pc = pc /\ UNCHANGED query
Proceed(next) == answering' = next

\* The exception handlers of _run.
Raises(code) == Proceed([answering EXCEPT !.pc = "ended", !.outcome = code])

\* model_validate and _validate_result.
ResultIsValid(attachments) ==
    /\ ToSet(attachments) \subseteq DOMAIN query.candidates
    /\ Cardinality(ToSet(attachments)) = Len(attachments)
    /\ Len(attachments) <= Limit

Responds(attachments, answer) ==
    IF ResultIsValid(attachments)
    THEN Proceed([answering EXCEPT !.pc = "ended", !.outcome = "OK",
                                   !.selected = attachments, !.answer = answer])
    ELSE Raises("INTERNAL_ERROR")

NoEvidence == IF query.intent = "QUESTION" THEN "NO_EVIDENCE" ELSE ""

StartSearch ==
    /\ Reached("start") /\ IsSearch
    /\ IF Candidates = {} THEN Responds(<<>>, NoEvidence)
       ELSE IF query.words # {} /\ query.intent = "SEARCH" /\ ~HasVisualQuery
       THEN Responds(First(InTimeOrder(Candidates), Limit), "")
       ELSE Proceed([answering EXCEPT !.pc = "encode"])

\* The embedding server is unavailable, or it is too slow for its client.
Encode ==
    /\ Reached("encode")
    /\ \/ Proceed([answering EXCEPT !.pc = "search"])
       \/ Raises("MODEL_NOT_READY")
       \/ Raises("TIMEOUT")

\* Qdrant returns any hits up to the limit, or it is unavailable, or it is
\* too slow for its client.
SearchVectors ==
    /\ Reached("search")
    /\ \/ \E k \in 0 .. Limit : \E hits \in kSubset(k, Attachments \X Scores) :
            LET selected == First(Cutoff(hits), Limit)
                found == [answering EXCEPT !.hits = hits, !.selected = selected]
            IN  IF Strays(hits) # {}
                THEN Proceed([answering EXCEPT !.hits = hits, !.pc = "ended",
                                               !.outcome = "INTERNAL_ERROR"])
                ELSE IF query.intent = "SEARCH" \/ selected = <<>>
                THEN Proceed([found EXCEPT !.pc = "ranked"])
                ELSE Proceed([found EXCEPT !.pc = "answer", !.since = answering.now])
       \/ Raises("MODEL_NOT_READY")
       \/ Raises("TIMEOUT")

\* No await comes between the hits and this response.
RespondRanked == Reached("ranked") /\ Responds(answering.selected, NoEvidence)

ResolveImage ==
    /\ Reached("answer") /\ answering.urls < Len(answering.selected)
    /\ \/ Proceed([answering EXCEPT !.urls = @ + 1])
       \/ Responds(answering.selected, "VLM_UNAVAILABLE")

\* The chat about the evidence, and parse_answer.
Answer ==
    /\ Reached("answer") /\ answering.urls = Len(answering.selected)
    /\ \E answer \in {"text", "NO_EVIDENCE", "VLM_UNAVAILABLE", "TIMEOUT"} :
            Responds(answering.selected, answer)

StartParse ==
    /\ Reached("start") /\ ~IsSearch
    /\ Proceed([answering EXCEPT !.pc = "parse"])

Fallback == Proceed([answering EXCEPT !.pc = "ended", !.outcome = "OK"])

\* ParseResponse refuses a range in the wrong order.
ParsesOutput(output) ==
    LET dates == DateRange(output, query.today)
    IN  IF NoDate \notin {dates[1], dates[2]} /\ dates[1] > dates[2]
        THEN Raises("INTERNAL_ERROR")
        ELSE Proceed([answering EXCEPT !.pc = "ended", !.outcome = "OK", !.parsed = TRUE,
                                       !.output = output, !.dates = dates])

\* The model's output, an output of no valid form, or no server.
Parse ==
    /\ Reached("parse")
    /\ \/ \E output \in Outputs : ParsesOutput(output)
       \/ Fallback

-----------------------------------------------------------------------------
(* Timeouts                                                                *)

StageLimit(pc) ==
    CASE pc = "parse" -> ParseLimit
      [] pc \in {"encode", "search"} -> RetrievalLimit
      [] pc = "answer" -> AnswerLimit

InStage == answering.pc \in {"parse", "encode", "search", "answer"}
Waiting == InStage \/ answering.pc = "unwind"
StageDue == InStage /\ answering.now - answering.since >= StageLimit(answering.pc)
RequestDue == Waiting /\ answering.now >= RequestLimit

\* A chat or an embedding that is canceled gives its GPU slot back first.
HoldsSlot ==
    \/ answering.stage \in {"parse", "encode"}
    \/ answering.stage = "answer" /\ answering.urls = Len(answering.selected)

PassTime ==
    /\ Waiting /\ ~StageDue /\ ~RequestDue
    /\ answering.pc = "unwind" => HoldsSlot /\ answering.now - answering.since < ReleaseLimit
    /\ Proceed([answering EXCEPT !.now = @ + 1])
    /\ UNCHANGED query

\* The timeout of a stage cancels the call that is under way.
StageTimeout ==
    /\ StageDue /\ UNCHANGED query
    /\ Proceed([answering EXCEPT !.pc = "unwind", !.stage = answering.pc,
                                 !.since = answering.now])

StageFails_Raised ==
    /\ Reached("unwind")
    /\ Raises("TIMEOUT")

\* Then only the timeout of the retrieval fails the request.
StageFails ==
    /\ Reached("unwind")
    /\ CASE answering.stage = "parse" -> Fallback
         [] answering.stage \in {"encode", "search"} -> Raises("TIMEOUT")
         [] answering.stage = "answer" -> Responds(answering.selected, "TIMEOUT")

\* The limit of the whole request also strikes while a slot is given back.
RequestTimeout ==
    /\ RequestDue /\ UNCHANGED query
    /\ Raises("TIMEOUT")

\* The server cancels the request.
AbortQuery ==
    /\ Waiting /\ UNCHANGED query
    /\ Raises("CANCELED")

QueryNext ==
    \/ StartSearch \/ Encode \/ SearchVectors \/ RespondRanked \/ ResolveImage \/ Answer
    \/ StartParse \/ Parse
    \/ PassTime \/ StageTimeout \/ StageFails \/ RequestTimeout \/ AbortQuery

QuerySpec == QueryInit /\ [][QueryNext]_queryVars

-----------------------------------------------------------------------------
(* Properties                                                              *)

\* _run and search: whatever the generation server does, a query is answered.
\* parse falls back, and a search whose photos are found returns them even if
\* the answer is late; only if giving back the GPU slot of a late answer takes
\* its limit as well does the limit of the request take the photos away.  A
\* query fails in the retrieval alone, and with an internal error only when
\* the vector store ignores the filter on candidates.
OnlyRetrievalFails ==
    answering.outcome \in {"MODEL_NOT_READY", "TIMEOUT", "INTERNAL_ERROR"} =>
        /\ IsSearch
        /\ \/ answering.selected = <<>>
           \/ /\ answering.stage = "answer" /\ answering.outcome = "TIMEOUT"
              /\ answering.now - answering.since >= ReleaseLimit
        /\ answering.outcome = "INTERNAL_ERROR" => Strays(answering.hits) # {}

\* The hours that a word names, counted on from the first one.
Hours(word) ==
    LET start == TimeWindows[word][1]
        length == (TimeWindows[word][2] - start) % 24
    IN  {(start + i) % 24 : i \in 0 .. length - 1}

\* search: the photos returned, which are also the only ones the model sees,
\* are candidates at a time that the query names, and the best of the hits: in
\* order, none under the cutoff, and none left out but under the cutoff or
\* behind the limit.
BestEvidence ==
    LET selected == answering.selected
        hits == answering.hits
        score(p) == BestScore(hits, p)
        high(p) == /\ score(p) >= MinScore
                   /\ \A hit \in hits : score(p) * RatioDen >= hit[2] * RatioNum
    IN  selected # <<>> =>
        /\ Len(selected) <= Limit /\ answering.urls <= Len(selected)
        /\ \A p \in ToSet(selected) :
              query.words = {} \/ \E word \in query.words : query.candidates[p] \in Hours(word)
        /\ hits # {} =>
              /\ \A i \in DOMAIN selected : high(selected[i])
              /\ \A i, j \in DOMAIN selected : i < j =>
                    /\ selected[i] # selected[j]
                    /\ score(selected[i]) >= score(selected[j])
              /\ \A hit \in hits : hit[1] \notin ToSet(selected) =>
                    \/ ~high(hit[1])
                    \/ Len(selected) = Limit /\ hit[2] <= score(Last(selected))

\* resolve_relative_date and _date_range: the dates of a parsed query are in
\* order and not in the future.  For a relative expression they are exactly
\* the days up to today that it means, and they are missing only if there are
\* none, it says too little, or it leaves the calendar.
DatesAreRight ==
    answering.parsed =>
        LET today == Ordinal(query.today.year, query.today.month, query.today.day)
            from == answering.dates[1]
            to == answering.dates[2]
            expr == answering.output.relative
            means(date) == Means(expr, query.today, date)
        IN  /\ from <= today /\ to <= today
            /\ from # NoDate /\ to # NoDate => from <= to
            /\ expr.unit # "none" =>
                 IF from # NoDate
                 THEN /\ means(from) /\ ~means(from - 1)
                      /\ means(to) /\ (to = today \/ ~means(to + 1))
                 ELSE \/ Incomplete(expr)
                      \/ \A date \in today - 900 .. today : ~means(date)
=============================================================================
