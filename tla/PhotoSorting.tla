---------------------------- MODULE PhotoSorting ----------------------------
(***************************************************************************)
(* The photo pipeline from CLOCK to FINALIZING: the order of run_pipeline  *)
(* (app/pipeline/run.py), the rules of PhotoRules, the agent of TripAgent, *)
(* the measured qualities as an input of FILTERING, and the assembly of    *)
(* the result by finalize_photos.                                          *)
(***************************************************************************)
EXTENDS TripAgent

CONSTANTS
    Inputs,     \* the requests, embeddings and settings to look at
    Hashes      \* the sets of pairs of photos with near hashes

Optional == Int \cup {None}
IsInput(in) ==
    /\ in.source \in [Ids -> [gps : Optional, time : Optional, device : Optional]]
    /\ in.sim \in [Ids -> [Ids -> Int]]
    /\ in.agent \in BOOLEAN

ASSUME InputsAssumption == \A in \in Inputs : IsInput(in)

VARIABLES
    phase,      \* the step that comes next, or "done", "failed"
    agentOn     \* ctx.agent is not None

vars == <<source, sim, photos, phase, agentOn, agentVars>>

Then(p) == phase' = p
Rest == UNCHANGED <<source, sim, agentOn>>

Clock ==
    /\ phase = "clock" /\ Then("locate")
    /\ photos' = CorrectClocks
    /\ Rest /\ UNCHANGED agentVars

Locate ==
    /\ phase = "locate" /\ Then("cluster")
    /\ photos' = LocatePhotos
    /\ Rest /\ UNCHANGED agentVars

Cluster ==
    /\ phase = "cluster" /\ Then("assign")
    /\ photos' = ClusterPhotos
    /\ Rest /\ UNCHANGED agentVars

AssignLoop_Once(ph) ==
    IF Raised(ph) THEN "failed" ELSE IF agentOn THEN "agent" ELSE "filter"

\* The loop of assign_unlocated runs until a turn changes nothing.
AssignLoop(ph) ==
    IF Raised(ph) THEN "failed"
    ELSE IF ph # photos THEN "assign"
    ELSE IF agentOn THEN "agent" ELSE "filter"

Assigning ==
    /\ phase = "assign"
    /\ photos' = AssignRound(photos)
    /\ Then(AssignLoop(photos'))
    /\ Rest /\ UNCHANGED agentVars

Agent ==
    /\ phase = "agent" /\ AgentStep
    /\ Then(IF Raised(photos') THEN "failed" ELSE IF node' = "end" THEN "filter" ELSE "agent")
    /\ Rest

Filter ==
    /\ phase = "filter"
    /\ IF FilterRejects(photos) THEN Then("failed") /\ UNCHANGED photos
       ELSE /\ \E blurry \in SUBSET Ids, alike \in Hashes :
                 photos' = FilterPhotos(photos, blurry, alike)
            /\ Then(IF agentOn THEN "release" ELSE "finalize")
    /\ Rest /\ UNCHANGED agentVars

ReleaseFolders ==
    /\ phase = "release" /\ Then("finalize")
    /\ photos' = Release(photos)
    /\ Rest /\ UNCHANGED agentVars

\* The checks of finalize_photos and of ProcessResult; select_representative
\* needs a photo to show in every folder.
Invalid(i) ==
    LET p == photos[i] IN
    \/ p.status = "PENDING" \/ (p.status = "UNKNOWN") # (p.taken = None)
    \/ IF p.issue = "UNCLEAR_LOCATION" THEN Placed(photos, i)
       ELSE IF ~Placed(photos, i) THEN p.issue = NoIssue
       ELSE p.coord = None \/ p.origin = "UNKNOWN"
    \/ p.issue # "DUPLICATED" /\ p.dup # None
    \/ p.issue = "DUPLICATED" /\
         \/ p.dup \notin Ids
         \/ photos[p.dup].issue # (IF Placed(photos, i) THEN NoIssue ELSE "UNCLEAR_LOCATION")
         \/ photos[p.dup].place # p.place
UsedFolders == {photos[i].place : i \in {j \in Ids : Placed(photos, j)}}
Shown(f) == {i \in InFolder(photos, f) : photos[i].issue = NoIssue}

Finalize ==
    /\ phase = "finalize"
    /\ Then(IF (\E i \in Ids : Invalid(i)) \/ (\E f \in UsedFolders : Shown(f) = {})
             THEN "failed" ELSE "done")
    /\ UNCHANGED photos
    /\ Rest /\ UNCHANGED agentVars

\* The result is returned, or PipelineError raised.
Ended == phase \in {"done", "failed"} /\ UNCHANGED vars

Init ==
    /\ \E in \in Inputs : source = in.source /\ sim = in.sim /\ agentOn = in.agent
    /\ photos = PhotoState(source)
    /\ phase = "clock"
    /\ AgentInit

Next ==
    \/ Clock \/ Locate \/ Cluster \/ Assigning \/ Agent \/ Filter
    \/ ReleaseFolders \/ Finalize \/ Ended

Spec == Init /\ [][Next]_vars

-----------------------------------------------------------------------------
(* Properties *)

HasExif(f) == Exif(photos, InFolder(photos, f)) # {}

\* finalizing.py:81-82 documents one reason to fail: nothing but blurred
\* photos in a folder.  No raise of the later steps is ever reached by what
\* the earlier ones leave, whatever the model answers; and a folder that the
\* agent made of blurred photos is no reason either.
FailsOnlyForBlurredFolder ==
    phase = "failed" =>
        \E f \in UsedFolders :
            HasExif(f) /\ \A i \in InFolder(photos, f) : photos[i].issue = "BLURRY"

Together(i, j) == Placed(photos, i) /\ Placed(photos, j) /\ PlaceOf(i) = PlaceOf(j)

\* locate_photos, _place and assign: a photo in a folder whose coordinates were
\* inferred has those of a GPS photo of the folder or of a new place of it,
\* also after merges in either direction.
InferredFromFolder ==
    phase \in {"assign", "agent"} =>
        \A i \in Ids : Placed(photos, i) /\ photos[i].origin = "INFERRED" =>
            \/ \E j \in Ids : /\ Together(i, j) /\ photos[j].origin = "EXIF"
                              /\ photos[j].coord = photos[i].coord
            \/ \E k \in 1 .. Len(newPlaces) : /\ Canon(Place("n", k)) = PlaceOf(i)
                                              /\ SpotOf[newPlaces[k]] = photos[i].coord

\* assign_unlocated: when its loop has ended, neither rule places another
\* photo.
RulesSettled ==
    (phase = "agent" /\ node = "off") \/ (phase = "filter" /\ ~agentOn) =>
        \A i \in Unlocated(photos) :
            BetweenTwo(photos, i) = {} /\ Cardinality(LookAlikes(photos, i)) # 1

=============================================================================
