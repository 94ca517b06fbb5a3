------------------------------ MODULE StoryJob ------------------------------
(***************************************************************************)
(* One story job in its child process: app/story/handler.py, pipeline.py   *)
(* and selection.py.  The photos of each place are filtered and selected,  *)
(* the generation server writes a draft about the selected ones, and the   *)
(* draft is checked before it becomes the result.                          *)
(*                                                                         *)
(* A check_cancel or report that finds the job canceled ends it; the call  *)
(* after a check belongs to the same step, as a cancel between the two is  *)
(* not seen before the next check either.  Similarities are integers with  *)
(* One for a photo and itself, hashes a relation of photos.                *)
(***************************************************************************)
EXTENDS Sorting, Sequences, FiniteSetsExt, SequencesExt

CONSTANTS
    Photos,     \* attachment ids
    Chunk,      \* photos that are decoded at once
    DedupeZ,    \* STORY_DEDUPE_Z
    Stories     \* the requests, with what the photos and their vectors are

ASSUME StoryAssumption ==
    /\ Photos \subseteq Nat
    /\ Chunk \in Nat \ {0}
    /\ DedupeZ \in Nat

\* What StoryMessage and validate_request accept, and what the photos of a
\* request are: their similarities are made symmetric.
IsStory(r) ==
    /\ r.budget \in Nat
    /\ r.taken \in [Photos -> Int]
    /\ r.sim \in [Photos -> [Photos -> Int]]
    /\ \A p, q \in Photos : r.sim[p][q] = r.sim[q][p]
    /\ r.places \in Seq(SUBSET Photos)
    /\ r.valid =>
         /\ r.places # <<>>
         /\ \A k \in DOMAIN r.places : IsFiniteSet(r.places[k]) /\ r.places[k] # {}
         /\ \A k, m \in DOMAIN r.places : k # m => r.places[k] \cap r.places[m] = {}

ASSUME StoriesAssumption == \A r \in Stories : IsStory(r)

VARIABLES
    request,
    story,             \* where the handler is and what it holds
    cancelRequested

storyVars == <<request, story, cancelRequested>>

Places == DOMAIN request.places

\* The order by time, then by id.
Before(p, q) ==
    request.taken[p] < request.taken[q] \/ (request.taken[p] = request.taken[q] /\ p < q)
InOrder(S) == SortedBy(S, {pq \in S \X S : Before(pq[1], pq[2])})

-----------------------------------------------------------------------------
(* selection.py                                                            *)

\* One step of filter_candidates: blurred photos and those whose hash is
\* close to one that is retained fall out.
Retain(retained, p) ==
    IF p \notin request.sharp \/ \E q \in retained : {p, q} \in request.close
    THEN retained ELSE retained \cup {p}

Allocate_FloorOnly(counts, budget) ==
    LET capacity == SumFunction([i \in DOMAIN counts |-> counts[i] - 1])
        remaining == Min({budget, capacity + Len(counts)}) - Len(counts)
    IN  [i \in DOMAIN counts |->
            IF remaining = 0 THEN 1 ELSE 1 + (remaining * (counts[i] - 1)) \div capacity]

\* One photo for each place, the others of the budget in proportion to the
\* photos left, the largest remainders first.
Allocate(counts, budget) ==
    LET spare(i) == counts[i] - 1
        total == SumFunction([i \in DOMAIN counts |-> spare(i)])
        remaining == Min({budget, total + Len(counts)}) - Len(counts)
        share(i) == (remaining * spare(i)) \div total
        remainder(i) == (remaining * spare(i)) % total
        rest == remaining - SumFunction([i \in DOMAIN counts |-> share(i)])
        rank(i) == Cardinality({j \in DOMAIN counts :
                        \/ remainder(j) > remainder(i)
                        \/ remainder(j) = remainder(i) /\ j < i})
    IN  [i \in DOMAIN counts |->
            IF remaining = 0 THEN 1
            ELSE 1 + share(i) + IF rank(i) < rest THEN 1 ELSE 0]

\* similarity >= mean + DedupeZ * deviation over all pairs of one place,
\* without division and root: with n pairs, both sides times n.
TooSimilar(groups, p, q) ==
    LET pairs == {ab \in Photos \X Photos :
                    ab[1] < ab[2] /\ \E k \in DOMAIN groups : {ab[1], ab[2]} \subseteq groups[k]}
        n == Cardinality(pairs)
        sum == SumFunction([ab \in pairs |-> request.sim[ab[1]][ab[2]]])
        squares == SumFunction([ab \in pairs |-> request.sim[ab[1]][ab[2]] * request.sim[ab[1]][ab[2]]])
        above == n * request.sim[p][q] - sum
    IN  above >= 0 /\ above * above >= DedupeZ * DedupeZ * (n * squares - sum * sum)

\* The similarity to the mean of the group orders its photos.
Score(group, p) == SumFunction([q \in group |-> request.sim[p][q]])

Choose(groups, k, count) ==
    LET group == groups[k]
        better(p, q) == \/ Score(group, p) > Score(group, q)
                        \/ Score(group, p) = Score(group, q) /\ Before(p, q)
        Take(chosen, p) ==
            IF \/ Cardinality(chosen) = count
               \/ \E q \in chosen : TooSimilar(groups, p, q)
            THEN chosen ELSE chosen \cup {p}
    IN  FoldLeft(Take, {}, SortedBy(group, {pq \in group \X group : better(pq[1], pq[2])}))

Selection(groups, budget) ==
    LET count == Allocate([k \in DOMAIN groups |-> Cardinality(groups[k])], budget)
    IN  InOrder(UNION {Choose(groups, k, count[k]) : k \in DOMAIN groups})

-----------------------------------------------------------------------------
(* finalize                                                                *)

\* Drafts that the generation server may return: the photos of the blocks in
\* any order, one twice, one missing, a strange one, or no JSON of the schema.
NoSchema == <<>>
Drafts(selected) ==
    {NoSchema, selected, Reverse(selected), Append(selected, selected[1]), Tail(selected)}
    \cup {Append(Tail(selected), p) : p \in Photos \ Range(selected)}

Acceptable_Subset(draft, selected) ==
    /\ draft # NoSchema
    /\ Cardinality(Range(draft)) = Len(draft)
    /\ Range(draft) \subseteq Range(selected)
    /\ \A k \in Places : \E p \in request.places[k] : p \in Range(draft)

Acceptable(draft, selected) ==
    /\ draft # NoSchema
    /\ Cardinality(Range(draft)) = Len(draft)
    /\ Range(draft) = Range(selected)
    /\ \A k \in Places : \E p \in request.places[k] : p \in Range(draft)

-----------------------------------------------------------------------------
(* The job                                                                 *)

None == "NONE"
NewStory == [pc |-> "validate", place |-> 1, left |-> <<>>, kept |-> <<>>, selected |-> <<>>,
             urls |-> 0, draft |-> NoSchema, blocks |-> <<>>, outcome |-> None]

StoryInit ==
    /\ request \in Stories
    /\ story = NewStory
    /\ cancelRequested = FALSE

Ended(outcome) == [story EXCEPT !.pc = "ended", !.outcome = outcome, !.left = <<>>, !.draft = NoSchema]
End(outcome) == story' = Ended(outcome) /\ UNCHANGED <<request, cancelRequested>>
At(pc) == story.pc = pc
GoOn(next) == story' = next /\ UNCHANGED <<request, cancelRequested>>

\* A cancel request that the store holds from now on.
CancelStory ==
    /\ story.pc # "ended" /\ ~cancelRequested
    /\ cancelRequested' = TRUE
    /\ UNCHANGED <<request, story>>

\* check_cancel, a refused report or cancelled() in the thread.
SeeCancel ==
    /\ story.pc \in {"open", "start", "filter", "filtered", "selected", "drafted", "verified"}
    /\ At("start") => Len(request.places) <= request.budget
    /\ cancelRequested
    /\ End("CANCELED")

ValidateStory ==
    /\ At("validate")
    /\ IF request.valid THEN GoOn([story EXCEPT !.pc = "open"]) ELSE End("INVALID_REQUEST")

\* The clients of the generation server, Qdrant and S3.
OpenClients ==
    /\ At("open") /\ ~cancelRequested
    /\ \/ GoOn([story EXCEPT !.pc = "start"])
       \/ End("INTERNAL_ERROR")

StartSelecting ==
    /\ At("start")
    /\ IF Len(request.places) > request.budget THEN End("INVALID_REQUEST")
       ELSE /\ ~cancelRequested
            /\ GoOn([story EXCEPT !.pc = "filter", !.left = InOrder(request.places[1]),
                                  !.kept = [k \in Places |-> {}]])

\* The photos of a place are through; the place must keep one of them.
NextPlace(kept) ==
    LET k == story.place
    IN  IF kept[k] = {} THEN End("INVALID_REQUEST")
        ELSE IF k = Len(request.places)
        THEN GoOn([story EXCEPT !.kept = kept, !.left = <<>>, !.pc = "filtered"])
        ELSE GoOn([story EXCEPT !.kept = kept, !.left = InOrder(request.places[k + 1]),
                                !.place = k + 1])

\* Another chunk of the place's photos in the thread of run_sync.
FilterChunk ==
    /\ At("filter") /\ ~cancelRequested
    /\ \/ End("DOWNLOAD_FAILED")
       \/ End("DECODE_FAILED")
       \/ LET size == Min({Chunk, Len(story.left)})
              rest == SubSeq(story.left, size + 1, Len(story.left))
              kept == [story.kept EXCEPT
                         ![story.place] = FoldLeft(Retain, @, SubSeq(story.left, 1, size))]
          IN  IF rest = <<>> THEN NextPlace(kept)
              ELSE GoOn([story EXCEPT !.kept = kept, !.left = rest])

FetchVectors ==
    /\ At("filtered") /\ ~cancelRequested
    /\ \/ GoOn([story EXCEPT !.pc = "fetched"])
       \/ End("TIMEOUT")
       \/ End("MODEL_NOT_READY")

\* unit_vectors, then select; a missing vector ends the job also when it is
\* canceled by now.
SelectPhotos ==
    /\ At("fetched")
    /\ IF \E k \in Places : ~(story.kept[k] \subseteq request.vectors)
       THEN End("MODEL_NOT_READY")
       ELSE GoOn([story EXCEPT !.pc = "selected",
                               !.selected = Selection(story.kept, request.budget)])

ResolveUrl ==
    /\ At("selected") /\ ~cancelRequested
    /\ story.urls < Len(story.selected)
    /\ \/ GoOn([story EXCEPT !.urls = @ + 1])
       \/ End("VLM_UNAVAILABLE")

WriteStory ==
    /\ At("selected") /\ ~cancelRequested
    /\ story.urls = Len(story.selected)
    /\ \/ \E draft \in Drafts(story.selected) :
            GoOn([story EXCEPT !.pc = "drafted", !.draft = draft])
       \/ End("VLM_UNAVAILABLE")
       \/ End("TIMEOUT")

\* finalize: the blocks by the time of their photos.
VerifyStory ==
    /\ At("drafted") /\ ~cancelRequested
    /\ IF Acceptable(story.draft, story.selected)
       THEN GoOn([story EXCEPT !.pc = "verified", !.draft = NoSchema,
                               !.blocks = InOrder(Range(story.draft))])
       ELSE End("INTERNAL_ERROR")

CompleteStory == At("verified") /\ ~cancelRequested /\ End("COMPLETED")

StoryNext ==
    \/ CancelStory \/ SeeCancel
    \/ ValidateStory \/ OpenClients \/ StartSelecting \/ FilterChunk
    \/ FetchVectors \/ SelectPhotos \/ ResolveUrl \/ WriteStory
    \/ VerifyStory \/ CompleteStory

StorySpec == StoryInit /\ [][StoryNext]_storyVars

-----------------------------------------------------------------------------
(* Properties                                                              *)

Chosen(k) == story.kept[k] \cap Range(story.selected)
LooksLikeChosen(k, p) == \E q \in Chosen(k) : TooSimilar(story.kept, p, q)
Spare(k) == {p \in story.kept[k] \ Chosen(k) : ~LooksLikeChosen(k, p)}

\* select and allocate: every place is in the story.  Its photos are scenes
\* of their own, and their number is its proportional share of the budget, up
\* to rounding, unless all its other photos look like one of them.  Unless
\* scenes run out, the budget is used up.
SelectionIsFair ==
    story.selected # <<>> =>
        LET count(k) == Cardinality(story.kept[k])
            photos == SumFunction([k \in Places |-> count(k)])
            total == photos - Len(request.places)
            remaining == Min({request.budget, photos}) - Len(request.places)
            extra(k) == Cardinality(Chosen(k)) - 1
        IN  /\ Len(story.selected) <= request.budget
            /\ \A k \in Places :
                /\ extra(k) >= 0
                /\ \A p, q \in Chosen(k) : p # q => ~TooSimilar(story.kept, p, q)
                /\ extra(k) = 0 \/ (extra(k) - 1) * total < remaining * (count(k) - 1)
                /\ Spare(k) = {} \/ (extra(k) + 1) * total > remaining * (count(k) - 1)
            /\ (\A k \in Places : story.kept[k] = Chosen(k) \cup Spare(k))
                    => Len(story.selected) = Min({request.budget, photos})

\* finalize and filter_candidates: a completed story has one block for each
\* selected photo, ordered by time, with sharp photos only, no two of a place
\* with hashes close to each other, and every place of the request in it.
StoryIsWhole ==
    story.outcome = "COMPLETED" =>
        /\ Range(story.blocks) = Range(story.selected)
        /\ Range(story.blocks) \subseteq request.sharp
        /\ \A i, j \in DOMAIN story.blocks : i < j => Before(story.blocks[i], story.blocks[j])
        /\ \A k \in Places :
            LET told == request.places[k] \cap Range(story.blocks)
            IN  told # {} /\ \A p, q \in told : {p, q} \in request.close => p = q
=============================================================================
