--------------------------- MODULE MCPhotoSorting ---------------------------
(***************************************************************************)
(* Instances of PhotoSorting for TLC: four photos.  Photo 1 has GPS; photo *)
(* 2 has it at the same folder, at another one, outside the trip's days or *)
(* without a time; photos 3 and 4 have none, and times that are right,     *)
(* missing, or a day off on a device without a reference.                  *)
(***************************************************************************)
EXTENDS PhotoSorting

CONSTANTS c1, c2, c3

Photo(gps, time, device) == [gps |-> gps, time |-> time, device |-> device]
Trip(third, fourth) ==
    {<<Photo(1, 2, 1), second, p, q>> :
        second \in {Photo(2, 6, 1), Photo(5, 6, None), Photo(5, 25, 1), Photo(5, None, None)},
        p \in third, q \in fourth}

\* Levels: 2 is enough to inherit a place, 1 to pair clocks.
Sim(a, b, c, d, e) ==
    [i \in Ids |-> [j \in Ids |->
        CASE i = j -> 3 [] {i, j} = {1, 2} -> 0 [] {i, j} = {1, 3} -> a [] {i, j} = {2, 3} -> b
          [] {i, j} = {1, 4} -> c [] {i, j} = {2, 4} -> d [] {i, j} = {3, 4} -> e]]

SpotsOfCandidates == [c \in Candidates |-> IF c = c1 THEN 20 ELSE 30]

Input(sources, sims, agent) ==
    {[source |-> s, sim |-> m, agent |-> agent] : s \in sources, m \in sims}

\* Photo 2 inherits the place of 1, photo 3 looks like 2 and goes where it is,
\* and then photo 4 is taken between 1 and 3.
Chain == {<<Photo(1, 2, 1), Photo(None, None, None), Photo(None, t, 1), Photo(None, 3, 1)>> :
            t \in {4, 5}}
ChainSim == [i \in Ids |-> [j \in Ids |->
                IF i = j THEN 3 ELSE IF {i, j} \in {{1, 2}, {2, 3}} THEN 2 ELSE 0]]

\* The rules with times and similarities of all kinds, and the agent with
\* one or two photos that the rules cannot place.
MCInputs ==
    Input(Trip({Photo(None, 3, 1), Photo(None, 13, 2), Photo(None, None, 2)},
               {Photo(None, 5, 1), Photo(None, 15, 2), Photo(None, 4, None)}),
          {Sim(a, b, c, d, e) : a \in {0, 1, 2}, b \in {0, 2}, c \in {0, 2}, d \in {0, 1}, e \in {0, 2}},
          FALSE)
    \cup Input(Trip({Photo(None, 13, None)}, {Photo(None, 15, 2)}),
               {Sim(a, 0, 0, 0, 0) : a \in {0, 2}}, TRUE)
    \cup Input(Chain, {ChainSim}, FALSE)

MCHashes == {{}, {{1, 2}, {2, 4}}, {{3, 4}, {1, 3}}}
=============================================================================
