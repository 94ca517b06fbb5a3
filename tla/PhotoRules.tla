---------------------------- MODULE PhotoRules ----------------------------
(***************************************************************************)
(* The steps of the photo pipeline that follow rules (app/pipeline/steps): *)
(* CLOCK, LOCATING, CLUSTERING, the assignment by rules, and FILTERING.    *)
(* Each is a state function that gives the photos after the step.          *)
(*                                                                         *)
(* Photos are numbered by their attachment ids.  Times are integers with   *)
(* Day units a day, coordinates are points of a road, and similarities of  *)
(* embeddings and distances of hashes are relations of the input: only     *)
(* their order and the thresholds matter.                                  *)
(***************************************************************************)
EXTENDS Sorting, Sequences, FiniteSetsExt, SequencesExt

CONSTANTS
    N,              \* number of photos
    None,           \* a missing time, coordinate, device or original
    Day, LastDay,   \* length of a day; the trip lasts from day 0 to LastDay
    ClockMinSim, ClockMinPairs, ClockTolerance,
    InheritMinSim,
    Eps, MinSamples,
    MaxGap          \* interpolate_max_gap_min

ASSUME RulesAssumption ==
    /\ N \in Nat \ {0} /\ None \notin Int /\ Day \in Nat \ {0} /\ LastDay \in Nat
    /\ ClockMinPairs \in Nat \ {0} /\ ClockTolerance \in Nat /\ 2 * ClockTolerance < Day
    /\ Eps \in Nat \ {0} /\ MinSamples \in Nat \ {0} /\ MaxGap \in Nat

VARIABLES
    source,     \* what the request says of each photo: gps, time, device
    sim,        \* similarity of the embeddings of two photos
    photos      \* PhotoState of each photo

NoPlace == <<>>
NoIssue == "NONE"
Ids == 1 .. N
InOrder == [i \in Ids |-> i]     \* by id
HasGps(i) == source[i].gps # None
HasTime(i) == source[i].time # None

Place(kind, k) == <<kind, k>>       \* "p" of CLUSTERING, "n" of the agent
Placed(ph, i) == ph[i].place # NoPlace
InFolder(ph, f) == {i \in Ids : ph[i].place = f}
Exif(ph, S) == {i \in S : ph[i].origin = "EXIF"}

\* The most similar member of S, the smallest id first.
MostSimilar(i, S) == CHOOSE j \in S : \A k \in S :
    sim[i][k] < sim[i][j] \/ (sim[i][k] = sim[i][j] /\ j <= k)

InPeriod(ph, i) == ph[i].taken = None \/ ph[i].taken \div Day \in 0 .. LastDay

PhotoState(src) ==
    [i \in Ids |-> [taken |-> None, status |-> "PENDING", coord |-> src[i].gps,
                    origin |-> IF src[i].gps # None THEN "EXIF" ELSE "UNKNOWN",
                    place |-> NoPlace, issue |-> NoIssue, dup |-> None]]

-----------------------------------------------------------------------------
(* CLOCK *)

\* The photos whose own GPS vouches for their time, and their devices.
ClockAnchors == {i \in Ids : HasGps(i) /\ HasTime(i)}
ReferenceDevices == {source[i].device : i \in ClockAnchors} \ {None}

Trusted(i) == HasTime(i) /\ (HasGps(i) \/ source[i].device \in ReferenceDevices)
ClockTargets(d) == {i \in Ids : HasTime(i) /\ ~Trusted(i) /\ source[i].device = d}
TargetDevices == {source[i].device : i \in {j \in Ids : HasTime(j) /\ ~Trusted(j)}} \ {None}

\* The one element of S that is more similar to i than all others, or None.
BestOf(i, S) ==
    LET best == {j \in S : \A k \in S \ {j} : sim[i][k] < sim[i][j]}
    IN  IF best = {} THEN None ELSE CHOOSE j \in best : TRUE

\* Pairs that are each other's only best one, and the time between them.
PairOffsets(targets) ==
    LET pairs == {p \in targets \X ClockAnchors :
                    /\ sim[p[1]][p[2]] >= ClockMinSim
                    /\ BestOf(p[1], ClockAnchors) = p[2]
                    /\ BestOf(p[2], targets) = p[1]}
    IN  {<<p[1], source[p[2]].time - source[p[1]].time>> : p \in pairs}

Days(offset) == (offset + Day \div 2) \div Day
HalfDay(offset) == 2 * (offset - Days(offset) * Day) \in {Day, -Day}

TwiceMedian(S) ==
    LET Less(p, q) == p[2] < q[2] \/ (p[2] = q[2] /\ p[1] < q[1])
        s == SortedBy(S, {pq \in S \X S : Less(pq[1], pq[2])})
        m == Len(s)
    IN  s[(m + 1) \div 2][2] + s[(m + 2) \div 2][2]

\* The days that enough pairs agree on; only a single such number is used.
ConsistentDays(offsets) ==
    LET clear == {p \in offsets : ~HalfDay(p[2])}
        Group(d) == {p \in clear : Days(p[2]) = d}
        Agreeing(d) == {p \in Group(d) :
            LET off == 2 * p[2] - TwiceMedian(Group(d))
            IN  off <= 2 * ClockTolerance /\ -off <= 2 * ClockTolerance}
        candidates == {d \in {Days(p[2]) : p \in clear} :
                         Cardinality(Agreeing(d)) >= ClockMinPairs}
    IN  IF Cardinality(candidates) = 1
        THEN {[days |-> d, pairs |-> Cardinality(Agreeing(d))] : d \in candidates}
        ELSE {}

ClockOffsets == [d \in TargetDevices |-> ConsistentDays(PairOffsets(ClockTargets(d)))]

CorrectClocks ==
    [i \in Ids |->
        LET d == source[i].device
            found == IF d \in TargetDevices THEN ClockOffsets[d] ELSE {}
        IN  IF Trusted(i)
            THEN [photos[i] EXCEPT !.taken = source[i].time, !.status = "ORIGINAL"]
            ELSE IF HasTime(i) /\ found # {}
            THEN LET days == (CHOOSE o \in found : TRUE).days
                 IN  [photos[i] EXCEPT
                        !.taken = source[i].time + days * Day,
                        !.status = IF days = 0 THEN "ORIGINAL" ELSE "CORRECTED"]
            ELSE [photos[i] EXCEPT !.taken = None, !.status = "UNKNOWN"]]

-----------------------------------------------------------------------------
(* LOCATING *)

LocatePhotos_AnyAnchor ==
    LET anchors == {i \in Ids : HasGps(i)}
    IN  [i \in Ids |->
            IF ~InPeriod(photos, i)
            THEN [photos[i] EXCEPT !.issue = "UNCLEAR_LOCATION"]
            ELSE IF i \in anchors THEN photos[i]
            ELSE IF anchors = {} \/ sim[i][MostSimilar(i, anchors)] < InheritMinSim
            THEN [photos[i] EXCEPT !.issue = "UNCLEAR_LOCATION"]
            ELSE [photos[i] EXCEPT !.coord = source[MostSimilar(i, anchors)].gps,
                                   !.origin = "INFERRED"]]

\* Photos outside the period are set aside, also as anchors; a photo without
\* GPS inherits the coordinates of the most similar anchor, if it is
\* similar enough.
LocatePhotos ==
    LET anchors == {i \in Ids : HasGps(i) /\ InPeriod(photos, i)}
    IN  [i \in Ids |->
            IF ~InPeriod(photos, i)
            THEN [photos[i] EXCEPT !.issue = "UNCLEAR_LOCATION"]
            ELSE IF i \in anchors THEN photos[i]
            ELSE IF anchors = {} \/ sim[i][MostSimilar(i, anchors)] < InheritMinSim
            THEN [photos[i] EXCEPT !.issue = "UNCLEAR_LOCATION"]
            ELSE [photos[i] EXCEPT !.coord = source[MostSimilar(i, anchors)].gps,
                                   !.origin = "INFERRED"]]

-----------------------------------------------------------------------------
(* CLUSTERING *)

\* DBSCAN on a road: neighbouring core photos are in one cluster, and so is
\* every photo near a core photo; the cluster met first takes it.
DbscanClusters(S) ==
    LET Near(i, j) == photos[i].coord - photos[j].coord \in -Eps .. Eps
        core == {i \in S : Cardinality({j \in S : Near(i, j)}) >= MinSamples}
        Before(i, j) == photos[i].coord <= photos[j].coord
        Linked(i, j) == \A k \in core : Before(i, k) /\ ~Before(j, k) =>
                            \E l \in core : ~Before(l, k) /\ Near(k, l)
        Connected(i, j) == IF Before(i, j) THEN Linked(i, j) ELSE Linked(j, i)
        cores == {{j \in core : Connected(i, j)} : i \in core}
        Met(i) == {C \in cores : \E j \in C : Near(i, j)}
    IN  {{i \in S : C \in Met(i) /\ \A D \in Met(i) : Min(C) <= Min(D)} : C \in cores}

\* Clusters are numbered in the order of their first photos; the others are
\* noise.
ClusterPhotos ==
    LET candidates == {i \in Ids : photos[i].issue = NoIssue}
        clusters == DbscanClusters(candidates)
        Rank(C) == Cardinality({D \in clusters : Min(D) <= Min(C)})
    IN  [i \in Ids |->
            IF i \notin candidates THEN photos[i]
            ELSE IF i \in UNION clusters
            THEN [photos[i] EXCEPT
                    !.place = Place("p", Rank(CHOOSE C \in clusters : i \in C))]
            ELSE [photos[i] EXCEPT !.issue = "UNCLEAR_LOCATION"]]

-----------------------------------------------------------------------------
(* The assignment by rules after CLUSTERING *)

\* Without place, GPS and reason to be outside the trip.
Unlocated(ph) == {i \in Ids : /\ ph[i].issue = "UNCLEAR_LOCATION"
                              /\ ~HasGps(i) /\ InPeriod(ph, i)}

\* A photo goes into a folder, at some coordinates.
Put(ph, i, folder, at) ==
    [ph EXCEPT ![i] = [@ EXCEPT !.place = folder, !.coord = at, !.origin = "INFERRED",
                                !.issue = NoIssue]]

\* The issue of a photo for which a step raises PipelineError.
Raise(ph, i) == [ph EXCEPT ![i].issue = "RAISED"]
Raised(ph) == \E i \in Ids : ph[i].issue = "RAISED"

\* _place of assigning.py: the photo takes the coordinates of the most
\* similar GPS photo of the folder.
PutInto(ph, i, folder) ==
    LET anchors == Exif(ph, InFolder(ph, folder))
    IN  IF anchors = {} THEN Raise(ph, i)
        ELSE Put(ph, i, folder, ph[MostSimilar(i, anchors)].coord)

\* The folder of the photos taken just before and just after photo i.
BetweenTwo(ph, i) ==
    LET t == ph[i].taken
        track == {j \in Ids : Placed(ph, j) /\ ph[j].taken # None}
        Later(j, k) == ph[j].taken > ph[k].taken \/ (ph[j].taken = ph[k].taken /\ j > k)
        upto == {j \in track : ph[j].taken <= t}
        from == {j \in track : ph[j].taken >= t}
        last == CHOOSE j \in upto : \A k \in upto \ {j} : Later(j, k)
        first == CHOOSE j \in from : \A k \in from \ {j} : Later(k, j)
    IN  IF /\ t # None /\ upto # {} /\ from # {}
           /\ ph[last].place = ph[first].place
           /\ t - ph[last].taken <= MaxGap /\ ph[first].taken - t <= MaxGap
        THEN {ph[last].place} ELSE {}

\* The folders of the photos that look like photo i.
LookAlikes(ph, i) ==
    {ph[j].place : j \in {k \in Ids \ {i} : Placed(ph, k) /\ sim[i][k] >= InheritMinSim}}

\* The turn of photo i, when the ones before it have made `was' of ph.
InterpolateTurn(ph, was, i) ==
    IF i \in Unlocated(ph) /\ BetweenTwo(ph, i) # {}
    THEN PutInto(was, i, CHOOSE f \in BetweenTwo(ph, i) : TRUE)
    ELSE was
InterpolatePass(ph) == FoldLeft(LAMBDA was, i : InterpolateTurn(ph, was, i), ph, InOrder)

\* Photos placed by this pass count at once for those that follow.
LookAlikeTurn(was, i) ==
    IF i \in Unlocated(was) /\ Cardinality(LookAlikes(was, i)) = 1
    THEN PutInto(was, i, CHOOSE f \in LookAlikes(was, i) : TRUE)
    ELSE was
LookAlikePass(ph) == FoldLeft(LookAlikeTurn, ph, InOrder)

\* One turn of the loop of assign_unlocated.
AssignRound(ph) == LookAlikePass(InterpolatePass(ph))

-----------------------------------------------------------------------------
(* FILTERING *)

\* Photos without time come last, ties go by id.
Earlier(ph, i, j) ==
    \/ ph[i].taken # None /\ ph[j].taken = None
    \/ ph[i].taken # None /\ ph[j].taken # None /\ ph[i].taken < ph[j].taken
    \/ ph[i].taken = ph[j].taken /\ i < j

FilterRejects(ph) == \E i \in Ids :
    \/ (ph[i].place = NoPlace) # (ph[i].issue # NoIssue)
    \/ ph[i].status = "PENDING" \/ (ph[i].status = "UNKNOWN") # (ph[i].taken = None)

\* In each folder, and among the photos without one: a blurred photo is
\* BLURRY, a photo like an earlier retained one is its duplicate.
FilterPhotos(ph, blurry, alike) ==
    LET order == SortedBy(Ids, {ij \in Ids \X Ids : Earlier(ph, ij[1], ij[2])})
        Like(i, S) == {j \in S : ph[j].place = ph[i].place /\ {i, j} \in alike}
        Keep(kept, i) == IF i \notin blurry /\ Like(i, kept) = {} THEN kept \cup {i} ELSE kept
        retained == FoldLeft(Keep, {}, order)
        First(S) == CHOOSE j \in S : \A k \in S \ {j} : Earlier(ph, j, k)
        Issue(i) == IF i \in blurry THEN "BLURRY"
                    ELSE IF i \notin retained THEN "DUPLICATED"
                    ELSE IF Placed(ph, i) THEN NoIssue ELSE "UNCLEAR_LOCATION"
    IN  [i \in Ids |-> [ph[i] EXCEPT
            !.issue = Issue(i),
            !.dup = IF Issue(i) = "DUPLICATED" THEN First(Like(i, retained)) ELSE None]]
=============================================================================
