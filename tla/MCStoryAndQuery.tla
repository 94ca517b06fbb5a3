-------------------------- MODULE MCStoryAndQuery --------------------------
(***************************************************************************)
(* Instances of StoryJob and QueryService for TLC.  The two share nothing: *)
(* a behaviour is that of one story job or of one query.                   *)
(***************************************************************************)
EXTENDS StoryJob, QueryService

-----------------------------------------------------------------------------
(* Stories of six photos in two or three places, taken in the reverse      *)
(* order of their ids.  Embeddings are unit vectors at 0, 60 or 120        *)
(* degrees, so that similarities are halves.  In some stories the earliest *)
(* of three photos of a place hides the others; in those with a blurred    *)
(* photo there are enough scenes to use a budget up.                       *)

Cosine(degrees) == CASE degrees = 0 -> 2 [] degrees = 60 -> 1 [] degrees = 120 -> -1
AbsDiff(a, b) == IF a < b THEN b - a ELSE a - b

Story(places, budget, angle, sharp, vectors, valid) ==
    [places |-> places, budget |-> budget, sharp |-> sharp, vectors |-> vectors, valid |-> valid,
     close |-> IF 2 \in sharp THEN {{1, 3}, {2, 3}} ELSE {},
     taken |-> [p \in Photos |-> 9 - p],
     sim |-> [p \in Photos |-> [q \in Photos |-> Cosine(60 * AbsDiff(angle[p], angle[q]))]]]

TwoPlaces == <<{1, 2, 3, 4}, {5, 6}>>
ThreePlaces == <<{1, 2, 3}, {4, 5}, {6}>>
Upright == [p \in Photos |-> 0]
Angles == {angle \in [Photos -> 0 .. 2] :
             angle[1] = 0 /\ angle[6] \in {angle[4], angle[5]} /\ (angle[3] = angle[2] => angle[5] = angle[4])}

MCStories ==
    {Story(places, budget, angle, sharp, Photos, TRUE) :
        places \in {TwoPlaces, ThreePlaces}, budget \in {3, 4, 9}, angle \in Angles,
        sharp \in {Photos, Photos \ {2}}}
    \cup {Story(TwoPlaces, 1, Upright, Photos, Photos, TRUE),
          Story(TwoPlaces, 3, Upright, {1, 2}, Photos, TRUE),
          Story(TwoPlaces, 3, Upright, Photos, Photos \ {4}, TRUE),
          Story(TwoPlaces, 3, Upright, Photos, Photos, FALSE)}

-----------------------------------------------------------------------------
(* Searches of three candidates, with the times of day of two of them      *)
(* around the bounds of windows, and one photo that is no candidate.       *)
(* Parsing on days around the ends of months, years and seasons.           *)

Hour(third) == [p \in 1 .. 3 |-> IF p = 1 THEN 5 ELSE IF p = 2 THEN 11 ELSE third]
Search(intent, words, hour, visual, limit) ==
    [kind |-> "search", intent |-> intent, words |-> words, candidates |-> Hour(hour),
     visual |-> visual, limit |-> limit]
Date(y, m, d) == [year |-> y, month |-> m, day |-> d]
ParseOn(today) == [kind |-> "parse", today |-> today]

MCQueries ==
    {Search("QUESTION", words, hour, "content", 2) : words \in {{}, {"night"}}, hour \in {NoTime, 22}}
    \cup {Search("SEARCH", words, hour, visual, limit) :
            words \in {{}, {"morning"}, {"night", "lunch"}}, hour \in {NoTime, 21},
            visual \in {"content", "none"}, limit \in {1, 3}}
    \cup {ParseOn(Date(2024, 2, 29)), ParseOn(Date(2025, 11, 30)), ParseOn(Date(2025, 12, 1)),
          ParseOn(Date(2025, 12, 31)), ParseOn(Date(2026, 1, 1)), ParseOn(Date(2026, 3, 2))}

Relative(unit, offset, weekday, season) ==
    [unit |-> unit, offset |-> offset, weekday |-> weekday, season |-> season]
Written(relative, from, to) == [relative |-> relative, from |-> from, to |-> to]
NotRelative == Relative("none", Absent, Absent, "none")
Offsets == {-120000, -13, -1, 0, 1, Absent}
Seasons == {"SPRING", "SUMMER", "FALL", "WINTER", "none"}
SomeDates == {NoDate, BadDate, Ordinal(2025, 11, 30), Ordinal(2026, 1, 1), Ordinal(2031, 5, 5)}

MCOutputs ==
    {Written(Relative(unit, offset, Absent, "none"), NoDate, NoDate) :
        unit \in {"day", "month", "year"}, offset \in Offsets}
    \cup {Written(Relative("week", offset, weekday, "none"), NoDate, NoDate) :
            offset \in Offsets, weekday \in {0, 3, 6, Absent}}
    \cup {Written(Relative("weekday", Absent, weekday, "none"), NoDate, NoDate) :
            weekday \in 0 .. 6 \cup {Absent}}
    \cup {Written(Relative("season", offset, Absent, season), NoDate, NoDate) :
            offset \in {-120000, -1, 0, Absent}, season \in Seasons}
    \cup {Written(NotRelative, from, to) : from, to \in SomeDates}

-----------------------------------------------------------------------------
NoQuery == [kind |-> "none"]
NoStory == [places |-> <<>>]

Init ==
    \/ StoryInit /\ query = NoQuery /\ answering = [pc |-> "off", parsed |-> FALSE, outcome |-> "",
                                                    selected |-> <<>>]
    \/ QueryInit /\ request = NoStory /\ story = [pc |-> "ended", selected |-> <<>>, outcome |-> None]
                 /\ cancelRequested = FALSE

Next ==
    \/ StoryNext /\ UNCHANGED queryVars
    \/ QueryNext /\ UNCHANGED storyVars

Spec == Init /\ [][Next]_<<storyVars, queryVars>>
=============================================================================
