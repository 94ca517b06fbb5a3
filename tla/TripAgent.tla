----------------------------- MODULE TripAgent -----------------------------
(***************************************************************************)
(* The sorting agent (app/pipeline/agent): the graph of run_agent over the *)
(* state of TripView.  What the model answers is free; what the code       *)
(* makes of the answers is not.  Waiting, failures and cancellation of the *)
(* calls are in PipelineRun.                                               *)
(***************************************************************************)
EXTENDS PhotoRules

CONSTANTS
    Candidates,     \* candidate_ids of the place searches
    InRegion,       \* those in one of the trip's regions
    SpotOf,         \* their coordinates
    MaxRounds,      \* MAX_ROUNDS
    MaxGroups       \* bound on the groups of one merge answer

ASSUME AgentAssumption ==
    /\ InRegion \subseteq Candidates
    /\ SpotOf \in [Candidates -> Int]
    /\ MaxRounds \in Nat \ {0} /\ MaxGroups \in Nat

VARIABLES
    node,           \* the node of the graph to run next, or "off", "end"
    round, stage, proposals, changed,      \* _State of the graph
    newPlaces,      \* candidates of n1, n2, ...
    merged          \* the folder that a folder was merged into

agentVars == <<node, round, stage, proposals, changed, newPlaces, merged>>

NewPlaceIds(np) == {Place("n", k) : k \in 1 .. Len(np)}
Extend(f, x, y) == [z \in DOMAIN f \cup {x} |-> IF z = x THEN y ELSE f[z]]

\* canon follows merged to its end.
Follow(m, y) == IF y \in DOMAIN m THEN m[y] ELSE y
CanonIn(m, x) ==
    LET at[n \in 0 .. Cardinality(DOMAIN m)] == IF n = 0 THEN x ELSE Follow(m, at[n - 1])
    IN  at[Cardinality(DOMAIN m)]
Canon(x) == CanonIn(merged, x)

\* The agent looks only at photos of the trip's days.
TripPhotos == {i \in Ids : InPeriod(photos, i)}
PlaceOf(i) == IF Placed(photos, i) THEN Canon(photos[i].place) ELSE NoPlace
Places == {PlaceOf(i) : i \in TripPhotos} \ {NoPlace}
Targets == {i \in TripPhotos : ~Placed(photos, i) /\ i \in Unlocated(photos)}

\* assign: the coordinates of the most similar GPS photo of the folder, else
\* those of the new place.
Assign(ph, np, i, x) ==
    LET folder == Canon(x)
        members == {j \in TripPhotos : Placed(ph, j) /\ Canon(ph[j].place) = folder}
        anchors == Exif(ph, members)
    IN  IF anchors # {} THEN Put(ph, i, folder, ph[MostSimilar(i, anchors)].coord)
        ELSE IF folder \in NewPlaceIds(np) THEN Put(ph, i, folder, SpotOf[np[folder[2]]])
        ELSE Raise(ph, i)

\* add_new_place: a candidate that already has a place is not added again.
NewPlaceOf(np, c) ==
    IF \E k \in 1 .. Len(np) : np[k] = c
    THEN Canon(Place("n", CHOOSE k \in 1 .. Len(np) : np[k] = c))
    ELSE Place("n", Len(np) + 1)
AddNewPlace(np, c) == IF \E k \in 1 .. Len(np) : np[k] = c THEN np ELSE Append(np, c)

-----------------------------------------------------------------------------
\* run_agent has nothing to do without targets and without two folders.
Start ==
    /\ node = "off"
    /\ node' = IF Targets = {} /\ Cardinality(Places) < 2 THEN "end" ELSE "select"
    /\ UNCHANGED <<photos, round, stage, proposals, changed, newPlaces, merged>>

Select ==
    /\ node = "select"
    /\ round' = round + 1 /\ proposals' = <<>> /\ changed' = 0
    /\ node' = IF Targets # {} THEN "estimate"
               ELSE IF stage = "loop" THEN "merge" ELSE "finish"
    /\ UNCHANGED <<photos, stage, newPlaces, merged>>

\* What the model may decide for a photo: some place id, that of a merged
\* or an unknown folder included, some candidate, or nothing.
Low == <<"low">>
Decisions ==
    {Low} \cup {<<"existing", x>> : x \in Places \cup DOMAIN merged \cup {NoPlace}}
          \cup {<<"new", c>> : c \in Candidates}

\* The checks of model.estimate; all that is not "high" is Low here.
Proposal(d) ==
    IF d = Low THEN Low
    ELSE IF d[1] = "existing"
    THEN IF Canon(d[2]) \in Places THEN <<"existing", Canon(d[2])>> ELSE Low
    ELSE IF d[2] \in InRegion THEN d ELSE Low

Estimate ==
    /\ node = "estimate"
    /\ \E decision \in [Targets -> Decisions] :
         proposals' = [i \in Targets |-> Proposal(decision[i])]
    /\ node' = "aggregate"
    /\ UNCHANGED <<photos, round, stage, changed, newPlaces, merged>>

\* One accepted proposal is applied.
Applied(was, i) ==
    LET d == proposals[i]
        np == IF d[1] = "new" THEN AddNewPlace(was.np, d[2]) ELSE was.np
        x == IF d[1] = "new" THEN NewPlaceOf(was.np, d[2]) ELSE d[2]
    IN  [ph |-> Assign(was.ph, np, i, x), np |-> np]

\* The accepted proposals are applied in the order of the photos.
Accept(accepted) ==
    LET order == SortedBy(accepted, {ij \in accepted \X accepted : ij[1] < ij[2]})
    IN  FoldLeft(Applied, [ph |-> photos, np |-> newPlaces], order)

AfterAggregate(n) ==
    IF stage = "loop"
    THEN IF n > 0 /\ round < MaxRounds THEN "select" ELSE "merge"
    ELSE "finish"

Aggregate ==
    /\ node = "aggregate"
    /\ \E accepted \in SUBSET {i \in DOMAIN proposals : proposals[i] # Low} :
         /\ LET after == Accept(accepted) IN photos' = after.ph /\ newPlaces' = after.np
         /\ changed' = Cardinality(accepted)
         /\ node' = AfterAggregate(Cardinality(accepted))
    /\ UNCHANGED <<round, stage, proposals, merged>>

\* merge of graph.py: each group goes into the folder of its first one.
MergeInto(was, first, x) ==
    LET into == CanonIn(was, first)
    IN  IF x = into THEN was ELSE Extend(was, x, into)

MergeGroup(m, group) ==
    LET ids == [k \in 1 .. Len(group) |-> CanonIn(m, group[k])]
    IN  FoldLeft(LAMBDA was, x : MergeInto(was, ids[1], x), m, Tail(ids))

MergeAll(groups) == FoldLeft(MergeGroup, merged, groups)

\* model.merge lets through groups of two or more folders that exist.
Groups == {g \in UNION {[1 .. n -> Places] : n \in 2 .. 3} : IsInjective(g)}

Merge ==
    /\ node = "merge"
    /\ \E n \in 0 .. MaxGroups : \E groups \in [1 .. n -> Groups] : merged' = MergeAll(groups)
    /\ stage' = "final" /\ node' = "select"
    /\ UNCHANGED <<photos, round, proposals, changed, newPlaces>>

\* Numbers of the folders that are left: old ones first, then the new ones.
FolderRank(x) ==
    LET Sooner(a, b) == \/ a[1] = "p" /\ b[1] = "n"
                        \/ a[1] = b[1] /\ a[2] <= b[2]
    IN  Cardinality({y \in Places : Sooner(y, x)})

Finish ==
    /\ node = "finish"
    /\ photos' = [i \in Ids |->
            IF i \in TripPhotos /\ Placed(photos, i)
            THEN [photos[i] EXCEPT !.place = Place("p", FolderRank(PlaceOf(i)))]
            ELSE photos[i]]
    /\ node' = "end"
    /\ newPlaces' = <<>> /\ merged' = <<>> /\ proposals' = <<>>
    /\ UNCHANGED <<round, stage, changed>>

AgentInit ==
    /\ node = "off" /\ round = 0 /\ stage = "loop" /\ proposals = <<>> /\ changed = 0
    /\ newPlaces = <<>> /\ merged = <<>>

AgentStep == Start \/ Select \/ Estimate \/ Aggregate \/ Merge \/ Finish

Release_Never(ph) == ph

\* release_unshowable_new_places: a folder without GPS photo and without a
\* photo to show is dissolved.
Release(ph) ==
    LET hidden == {i \in Ids : /\ Placed(ph, i)
                               /\ \A j \in InFolder(ph, ph[i].place) :
                                    ph[j].origin # "EXIF" /\ ph[j].issue # NoIssue}
    IN  [i \in Ids |-> IF i \in hidden
                       THEN [ph[i] EXCEPT !.place = NoPlace, !.coord = None, !.origin = "UNKNOWN"]
                       ELSE ph[i]]
=============================================================================
