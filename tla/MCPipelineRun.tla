---------------------------- MODULE MCPipelineRun ----------------------------
(***************************************************************************)
(* Instances of PipelineRun for TLC.                                       *)
(***************************************************************************)
EXTENDS PipelineRun

CONSTANTS c1, c2, near, far, q1

TwoHits == q1 :> {near}

\* What the model may say: nothing, a search only, many photos and a new
\* place, a new place outside of the trip.
FourReplies ==
    {<<>>,
     <<KakaoCall(q1)>>,
     <<ReadCall(3), ReadCall(1), KakaoCall(q1), DecideNew(near, "high")>>,
     <<SimilarCall, PublicCall(far), DecideNew(far, "high")>>}

OneReply == {<<SimilarCall, DecideExisting("high")>>}

AllReplies == FourReplies \cup OneReply

\* All that earlier batches may have left, also while something goes wrong with
\* all or no metrics, a job without stored vectors and a job with the agent
\* around which two things go wrong, and a job in which the model may say
\* anything.
MCInputs ==
    [stored : SUBSET Photos, measured : SUBSET Photos, reuse : {TRUE}, agent : {FALSE},
     replies : {{}}, faults : {0}]
    \cup [stored : SUBSET Photos, measured : {{}, Photos}, reuse : {TRUE}, agent : {FALSE},
          replies : {{}}, faults : {1}]
    \cup [stored : {{}}, measured : {{}}, reuse : {FALSE}, agent : {FALSE},
          replies : {{}}, faults : {2}]
    \cup [stored : {Photos}, measured : {Photos}, reuse : {TRUE}, agent : {TRUE},
          replies : {OneReply}, faults : {2}]
    \cup [stored : {Photos}, measured : {Photos}, reuse : {TRUE}, agent : {TRUE},
          replies : {FourReplies}, faults : {0}]
=============================================================================
