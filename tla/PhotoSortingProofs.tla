------------------------- MODULE PhotoSortingProofs -------------------------
(***************************************************************************)
(* Theorems about the sorting of photos (PhotoRules, TripAgent,            *)
(* PhotoSorting), for any number of photos, times, coordinates and         *)
(* similarities, all thresholds, and any answers of the model.             *)
(***************************************************************************)
EXTENDS PhotoSorting, Lemmas

-----------------------------------------------------------------------------
(* The invariant.                                                          *)

OldFolders == {Place("p", k) : k \in Nat}
NewFolders == {Place("n", k) : k \in Nat}
Folders == OldFolders \cup NewFolders

PhotoType ==
    [taken : Optional, status : {"PENDING", "ORIGINAL", "CORRECTED", "UNKNOWN"},
     coord : Optional, origin : {"EXIF", "INFERRED", "UNKNOWN"}, place : Folders \cup {NoPlace},
     issue : {NoIssue, "UNCLEAR_LOCATION", "BLURRY", "DUPLICATED", "RAISED"},
     dup : Ids \cup {None}]
PhotosType == [Ids -> PhotoType]

\* Some of the folders F merged into others.
Forests(F) == UNION {[D -> F] : D \in SUBSET F}

Phases == {"clock", "locate", "cluster", "assign", "agent", "filter", "release", "finalize",
           "done", "failed"}
Nodes == {"off", "select", "estimate", "aggregate", "merge", "finish", "end"}

\* The input in the state.
InputOK == IsInput([source |-> source, sim |-> sim, agent |-> agentOn])

SortingTypeOK ==
    /\ InputOK
    /\ photos \in PhotosType /\ phase \in Phases /\ node \in Nodes
    /\ newPlaces \in Seq(Candidates) /\ merged \in Forests(Folders)

\* CLOCK has judged every time.
Timed(ph) == \A i \in Ids :
    ph[i].status # "PENDING" /\ (ph[i].status = "UNKNOWN" <=> ph[i].taken = None)

\* GPS photos are those with GPS in the request, and keep its coordinates.
Sourced(ph) == \A i \in Ids :
    /\ ph[i].origin = "EXIF" <=> HasGps(i)
    /\ HasGps(i) => ph[i].coord = source[i].gps

\* LOCATING has put all others aside; a photo has the coordinates of one that
\* has them from its GPS.
Located(ph) == \A i \in Ids :
    /\ ph[i].place = NoPlace /\ ph[i].issue \in {NoIssue, "UNCLEAR_LOCATION"}
    /\ ph[i].issue = NoIssue =>
         /\ InPeriod(ph, i) /\ ph[i].origin # "UNKNOWN"
         /\ \E j \in Ids : /\ ph[j].issue = NoIssue /\ ph[j].origin = "EXIF"
                           /\ ph[j].coord = ph[i].coord

\* A photo is in a folder, at some coordinates, or its location is unclear.
Sorted_(ph) == \A i \in Ids :
    /\ ph[i].issue \in {NoIssue, "UNCLEAR_LOCATION"}
    /\ Placed(ph, i) <=> ph[i].issue = NoIssue
    /\ Placed(ph, i) => /\ InPeriod(ph, i) /\ ph[i].coord # None
                        /\ ph[i].origin # "UNKNOWN"

\* Every folder has a GPS photo, with the coordinates of any photo that
\* inferred them.
GpsInFolders(ph) == \A i \in Ids : Placed(ph, i) =>
    /\ ph[i].place \in OldFolders
    /\ \E j \in Exif(ph, InFolder(ph, ph[i].place)) :
         ph[i].origin = "INFERRED" => ph[j].coord = ph[i].coord

Assigned(ph) == Timed(ph) /\ Sourced(ph) /\ Sorted_(ph)

\* Folders once the agent has added new places and merged some.
Known(np) == OldFolders \cup NewPlaceIds(np)
PlacedIn(ph, m) == {CanonIn(m, ph[i].place) : i \in {j \in Ids : Placed(ph, j)}}
ExifIn(ph, m, x) == {j \in Ids : /\ Placed(ph, j) /\ ph[j].origin = "EXIF"
                                 /\ CanonIn(m, ph[j].place) = x}

\* Merged folders lead to one that has photos and was not merged itself.
MergedWell(ph, np, m) ==
    /\ m \in Forests(Known(np)) /\ IsFiniteSet(DOMAIN m)
    /\ \A x \in Known(np) : CanonIn(m, x) \in Known(np) \ DOMAIN m
    /\ \A x \in DOMAIN m : CanonIn(m, x) \in PlacedIn(ph, m)

\* A folder has a GPS photo or is a new place, and a photo has the coordinates
\* of the one or the other.
FoldersAreReal(ph, np, m) == \A i \in Ids : Placed(ph, i) =>
    LET x == CanonIn(m, ph[i].place) IN
    /\ ph[i].place \in Known(np)
    /\ x \in NewPlaceIds(np) \/ ExifIn(ph, m, x) # {}
    /\ ph[i].origin = "INFERRED" =>
         \/ \E j \in ExifIn(ph, m, x) : ph[j].coord = ph[i].coord
         \/ \E k \in 1 .. Len(np) : /\ CanonIn(m, Place("n", k)) = x
                                    /\ SpotOf[np[k]] = ph[i].coord

AgentGood(ph, np, m) == MergedWell(ph, np, m) /\ FoldersAreReal(ph, np, m)

\* What the checks of the answers let through.
Proposed(props) ==
    /\ DOMAIN props = Targets
    /\ \A i \in Targets : \/ props[i] = Low
                          \/ \E x \in Places : props[i] = <<"existing", x>>
                          \/ \E c \in InRegion : props[i] = <<"new", c>>

\* FILTERING has judged every photo.
Filtered(ph) ==
    /\ Timed(ph)
    /\ \A i \in Ids :
        /\ ph[i].issue \in {NoIssue, "UNCLEAR_LOCATION", "BLURRY", "DUPLICATED"}
        /\ Placed(ph, i) => ph[i].coord # None /\ ph[i].origin # "UNKNOWN"
        /\ ph[i].issue = "UNCLEAR_LOCATION" => ~Placed(ph, i)
        /\ ph[i].issue = NoIssue => Placed(ph, i)
        /\ IF ph[i].issue = "DUPLICATED"
           THEN /\ ph[i].dup \in Ids /\ ph[ph[i].dup].place = ph[i].place
                /\ ph[ph[i].dup].issue = IF Placed(ph, i) THEN NoIssue ELSE "UNCLEAR_LOCATION"
           ELSE ph[i].dup = None

\* A folder without a photo to show has blurred ones only.
BlurredOrShown(ph) == \A i \in Ids : Placed(ph, i) =>
    \/ \E j \in InFolder(ph, ph[i].place) : ph[j].issue = NoIssue
    \/ \A j \in InFolder(ph, ph[i].place) : ph[j].issue = "BLURRY"

\* A folder has a photo to show or one with GPS.
GpsOrShown(ph) == \A i \in Ids : Placed(ph, i) =>
    \E j \in InFolder(ph, ph[i].place) : ph[j].issue = NoIssue \/ ph[j].origin = "EXIF"

\* What each step finds.
StepFinds ==
    /\ phase = "clock" => photos = PhotoState(source)
    /\ phase = "locate" => /\ Timed(photos) /\ Sourced(photos)
                           /\ \A i \in Ids : photos[i].place = NoPlace /\ photos[i].issue = NoIssue
    /\ phase = "cluster" => Timed(photos) /\ Sourced(photos) /\ Located(photos)
    /\ phase = "assign" => Assigned(photos) /\ GpsInFolders(photos)
    /\ phase = "agent" => /\ agentOn /\ Assigned(photos)
                          /\ AgentGood(photos, newPlaces, merged)
                          /\ node = "aggregate" => Proposed(proposals)
    /\ phase = "filter" => Assigned(photos) /\ (~agentOn => GpsInFolders(photos))
    /\ phase = "release" => Filtered(photos) /\ BlurredOrShown(photos) /\ agentOn
    /\ phase = "finalize" => Filtered(photos) /\ BlurredOrShown(photos) /\ GpsOrShown(photos)

\* The agent has not begun.
AgentIdle ==
    /\ phase \in {"clock", "locate", "cluster", "assign"} => node = "off"
    /\ node = "off" => newPlaces = <<>> /\ merged = <<>>

SortingInv == SortingTypeOK /\ AgentIdle /\ StepFinds /\ FailsOnlyForBlurredFolder

-----------------------------------------------------------------------------
(* Photos in folders.                                                      *)

LEMMA IdsAre == N \in Nat \ {0} /\ None \notin Int /\ Ids \subseteq Nat /\ IsFiniteSet(Ids)
  <1>1. N \in Nat \ {0} /\ None \notin Int
    BY RulesAssumption
  <1>2. 1 \in Int /\ N \in Int
    BY <1>1
  <1> QED
    BY <1>1, <1>2, FS_Interval DEF Ids

\* The input, part by part.
LEMMA InputIs ==
    ASSUME InputOK
    PROVE  /\ \A i \in Ids : /\ source[i].gps \in Optional /\ source[i].time \in Optional
                             /\ source[i].device \in Optional
           /\ \A i, j \in Ids : sim[i][j] \in Int
           /\ agentOn \in BOOLEAN
  BY DEF InputOK, IsInput

\* The most similar of some photos is one of them.
LEMMA MostSimilarIs ==
    ASSUME InputOK, NEW i \in Ids, NEW S \in SUBSET Ids, S # {}
    PROVE  MostSimilar(i, S) \in S
  <1> DEFINE R == {jk \in S \X S : sim[i][jk[1]] < sim[i][jk[2]]
                                    \/ (sim[i][jk[1]] = sim[i][jk[2]] /\ jk[2] < jk[1])}
  <1>1. \A j \in S : sim[i][j] \in Int /\ j \in Nat
    BY InputIs, IdsAre
  <1>2. \A j, k \in S : <<j, k>> \in R <=> \/ sim[i][j] < sim[i][k]
                                          \/ (sim[i][j] = sim[i][k] /\ k < j)
    OBVIOUS
  <1> HIDE DEF R
  <1>3. OrdersStrictly(R, S)
    BY <1>1, <1>2 DEF OrdersStrictly
  <1>4. IsFiniteSet(S)
    BY IdsAre, FS_Subset
  <1>5. PICK j \in S : \A k \in S \ {j} : <<k, j>> \in R
    BY <1>3, <1>4, LastExists
  <1>6. ASSUME NEW k \in S
        PROVE  sim[i][k] < sim[i][j] \/ (sim[i][k] = sim[i][j] /\ j <= k)
    <2>1. CASE k = j
      BY <1>1, <2>1
    <2>2. CASE k # j
      <3>1. <<k, j>> \in R
        BY <1>5, <2>2
      <3>2. \/ sim[i][k] < sim[i][j]
            \/ (sim[i][k] = sim[i][j] /\ j < k)
        BY <1>2, <3>1
      <3>3. j \in Nat /\ k \in Nat
        BY <1>1
      <3> QED
        BY <3>2, <3>3
    <2> QED
      BY <2>1, <2>2
  <1> QED
    BY <1>6 DEF MostSimilar

\* A photo that is put into a folder; the others stay as they are.
LEMMA PutIs ==
    ASSUME NEW ph \in PhotosType, NEW i \in Ids, NEW folder \in Folders, NEW at \in Optional
    PROVE  /\ Put(ph, i, folder, at) \in PhotosType
           /\ \A j \in Ids \ {i} : Put(ph, i, folder, at)[j] = ph[j]
           /\ Put(ph, i, folder, at)[i].taken = ph[i].taken
           /\ Put(ph, i, folder, at)[i].status = ph[i].status
           /\ Put(ph, i, folder, at)[i].place = folder
           /\ Put(ph, i, folder, at)[i].coord = at
           /\ Put(ph, i, folder, at)[i].origin = "INFERRED"
           /\ Put(ph, i, folder, at)[i].issue = NoIssue
  BY DEF Put, PhotosType, PhotoType, NoIssue

LEMMA RaiseIs ==
    ASSUME NEW ph \in PhotosType, NEW i \in Ids
    PROVE  /\ Raise(ph, i) \in PhotosType
           /\ \A j \in Ids \ {i} : Raise(ph, i)[j] = ph[j]
           /\ Raise(ph, i)[i].issue = "RAISED"
  BY DEF Raise, PhotosType, PhotoType

\* assigning.py, _place: only the photo itself changes, and its location is
\* not unclear any more.
LEMMA PutIntoIs ==
    ASSUME InputOK, NEW ph \in PhotosType, NEW i \in Ids, NEW folder \in Folders
    PROVE  /\ PutInto(ph, i, folder) \in PhotosType
           /\ \A j \in Ids \ {i} : PutInto(ph, i, folder)[j] = ph[j]
           /\ PutInto(ph, i, folder)[i].issue \in {NoIssue, "RAISED"}
           /\ Exif(ph, InFolder(ph, folder)) # {} =>
                \E k \in Exif(ph, InFolder(ph, folder)) :
                    PutInto(ph, i, folder) = Put(ph, i, folder, ph[k].coord)
  <1> DEFINE anchors == Exif(ph, InFolder(ph, folder))
  <1>1. CASE anchors = {}
    <2>1. PutInto(ph, i, folder) = Raise(ph, i)
      BY <1>1 DEF PutInto
    <2> QED
      BY <1>1, <2>1, RaiseIs
  <1>2. CASE anchors # {}
    <2>1. anchors \in SUBSET Ids
      BY DEF Exif, InFolder
    <2> DEFINE k == MostSimilar(i, anchors)
    <2>2. k \in anchors
      BY <1>2, <2>1, MostSimilarIs
    <2>3. ph[k].coord \in Optional
      BY <2>1, <2>2 DEF PhotosType, PhotoType
    <2>4. PutInto(ph, i, folder) = Put(ph, i, folder, ph[k].coord)
      BY <1>2 DEF PutInto
    <2> HIDE DEF k, anchors
    <2> QED
      BY <2>2, <2>3, <2>4, PutIs DEF anchors
  <1> QED
    BY <1>1, <1>2

-----------------------------------------------------------------------------
(* The passes of the rules.                                                *)

\* Photos are in folders.
LEMMA PlacedIs ==
    ASSUME NEW ph \in PhotosType, NEW j \in Ids
    PROVE  Placed(ph, j) <=> ph[j].place \in Folders
  <1>1. ph[j].place \in Folders \cup {NoPlace}
    BY DEF PhotosType, PhotoType
  <1>2. NoPlace \notin Folders
    BY DEF NoPlace, Folders, OldFolders, NewFolders, Place
  <1> QED
    BY <1>1, <1>2 DEF Placed

\* The folder between two photos is one that has photos.
LEMMA BetweenTwoIs ==
    ASSUME NEW ph \in PhotosType, NEW i \in Ids, NEW f \in BetweenTwo(ph, i)
    PROVE  \E j \in Ids : Placed(ph, j) /\ ph[j].place = f
  <1> DEFINE t == ph[i].taken
             track == {j \in Ids : Placed(ph, j) /\ ph[j].taken # None}
             Later(j, k) == ph[j].taken > ph[k].taken \/ (ph[j].taken = ph[k].taken /\ j > k)
             upto == {j \in track : ph[j].taken <= t}
             last == CHOOSE j \in upto : \A k \in upto \ {j} : Later(j, k)
             R == {kj \in upto \X upto : Later(kj[2], kj[1])}
  <1>1. upto # {} /\ f = ph[last].place
    BY DEF BetweenTwo
  <1>2. \A j \in upto : j \in Ids /\ j \in Nat /\ Placed(ph, j) /\ ph[j].taken \in Int
    BY IdsAre DEF PhotosType, PhotoType, Optional
  <1>3. \A j, k \in upto : <<k, j>> \in R <=> Later(j, k)
    OBVIOUS
  <1>4. OrdersStrictly(R, upto)
    <2>1. \A j, k \in upto : <<k, j>> \in R <=>
            ph[j].taken > ph[k].taken \/ (ph[j].taken = ph[k].taken /\ j > k)
      BY <1>3
    <2> HIDE DEF R, upto
    <2> QED
      BY <1>2, <2>1 DEF OrdersStrictly
  <1>5. IsFiniteSet(upto)
    BY IdsAre, FS_Subset
  <1>6. \E j \in upto : \A k \in upto \ {j} : <<k, j>> \in R
    <2> HIDE DEF upto, R
    <2> QED
      BY <1>1, <1>4, <1>5, LastExists
  <1>7. last \in upto
    <2>1. \E j \in upto : \A k \in upto \ {j} : Later(j, k)
      BY <1>3, <1>6
    <2> HIDE DEF upto, Later
    <2> QED
      BY <2>1
  <1> HIDE DEF last
  <1> QED
    BY <1>1, <1>2, <1>7

\* What a photo's turn does to `was', with the folder that the rule chose.
Turn(was, now, i) ==
    /\ now \in PhotosType
    /\ \A j \in Ids \ {i} : now[j] = was[j]
    /\ \/ now = was
       \/ now[i].issue \in {NoIssue, "RAISED"}

LEMMA InterpolateTurnIs ==
    ASSUME InputOK, NEW ph \in PhotosType, NEW was \in PhotosType, NEW i \in Ids
    PROVE  /\ Turn(was, InterpolateTurn(ph, was, i), i)
           /\ i \in Unlocated(ph) /\ BetweenTwo(ph, i) # {} =>
                InterpolateTurn(ph, was, i)[i].issue \in {NoIssue, "RAISED"}
  <1> DEFINE f == CHOOSE f \in BetweenTwo(ph, i) : TRUE
  <1>1. CASE i \in Unlocated(ph) /\ BetweenTwo(ph, i) # {}
    <2>1. f \in BetweenTwo(ph, i)
      BY <1>1
    <2>2. f \in Folders
      BY <2>1, BetweenTwoIs, PlacedIs
    <2>3. InterpolateTurn(ph, was, i) = PutInto(was, i, f)
      BY <1>1 DEF InterpolateTurn
    <2> HIDE DEF f
    <2> QED
      BY <2>2, <2>3, PutIntoIs DEF Turn
  <1>2. CASE ~(i \in Unlocated(ph) /\ BetweenTwo(ph, i) # {})
    BY <1>2 DEF InterpolateTurn, Turn
  <1> QED
    BY <1>1, <1>2

\* The folder that a look-alike photo is in.
LEMMA LookAlikesAre ==
    ASSUME NEW ph \in PhotosType, NEW i \in Ids, NEW f \in LookAlikes(ph, i)
    PROVE  \E j \in Ids : Placed(ph, j) /\ ph[j].place = f
  BY DEF LookAlikes

LEMMA OneIsSome ==
    ASSUME NEW S, Cardinality(S) = 1 PROVE S # {}
  BY FS_EmptySet

LEMMA LookAlikeTurnIs ==
    ASSUME InputOK, NEW was \in PhotosType, NEW i \in Ids
    PROVE  /\ Turn(was, LookAlikeTurn(was, i), i)
           /\ i \in Unlocated(was) /\ Cardinality(LookAlikes(was, i)) = 1 =>
                LookAlikeTurn(was, i)[i].issue \in {NoIssue, "RAISED"}
  <1> DEFINE f == CHOOSE f \in LookAlikes(was, i) : TRUE
  <1>1. CASE i \in Unlocated(was) /\ Cardinality(LookAlikes(was, i)) = 1
    <2>1. f \in LookAlikes(was, i)
      BY <1>1, OneIsSome
    <2>2. f \in Folders
      BY <2>1, LookAlikesAre, PlacedIs
    <2>3. LookAlikeTurn(was, i) = PutInto(was, i, f)
      BY <1>1 DEF LookAlikeTurn
    <2> HIDE DEF f
    <2> QED
      BY <2>2, <2>3, PutIntoIs DEF Turn
  <1>2. CASE ~(i \in Unlocated(was) /\ Cardinality(LookAlikes(was, i)) = 1)
    BY <1>2 DEF LookAlikeTurn, Turn
  <1> QED
    BY <1>1, <1>2

LEMMA InOrderIs ==
    InOrder \in Seq(Ids) /\ Len(InOrder) = N /\ \A i \in Ids : InOrder[i] = i
  BY IdsAre DEF InOrder, Ids

\* The first pass goes through the photos in order.
LEMMA InterpolateSteps ==
    ASSUME InputOK, NEW ph \in PhotosType
    PROVE  \E acc \in [0 .. N -> PhotosType] :
              /\ acc[0] = ph /\ acc[N] = InterpolatePass(ph)
              /\ \A n \in 1 .. N : acc[n] = InterpolateTurn(ph, acc[n - 1], n)
  <1> DEFINE Acc == PhotosType
  <1> DEFINE seq == InOrder
  <1> DEFINE base == ph
  <1> DEFINE step == [ax \in Acc \X Ids |-> InterpolateTurn(ph, ax[1], ax[2])]
  <1> DEFINE Eq(f) == f = [s \in SUBSET DOMAIN seq |-> IF s = {} THEN base
                             ELSE InterpolateTurn(ph, f[s \ {Max(s)}], seq[Max(s)])]
  <1>1. InterpolatePass(ph) = (CHOOSE f : Eq(f))[DOMAIN seq]
    BY DEF InterpolatePass, FoldLeft, MapThenFoldSet
  <1>2. step \in [Acc \X Ids -> Acc]
    BY InterpolateTurnIs DEF Turn
  <1>3. \A a \in Acc, x \in Ids : step[<<a, x>>] = InterpolateTurn(ph, a, x)
    OBVIOUS
  <1>4. seq \in Seq(Ids) /\ \A k \in DOMAIN seq : seq[k] \in Ids
    BY InOrderIs
  <1>4a. Len(seq) = N /\ \A n \in 1 .. N : seq[n] = n
    BY InOrderIs DEF Ids
  <1>5. base \in Acc
    OBVIOUS
  <1> HIDE DEF Acc, seq, base, step
  <1>6. PICK fold \in [SUBSET DOMAIN seq -> Acc] : FoldsLeft(fold, seq, base, step)
    BY <1>2, <1>4, <1>5, FoldLeftExists
  <1>7. \A s \in SUBSET DOMAIN seq :
            /\ s # {} => Max(s) \in s
            /\ fold[s] = IF s = {} THEN base ELSE step[<<fold[s \ {Max(s)}], seq[Max(s)]>>]
    BY <1>6 DEF FoldsLeft
  <1>8. Eq(fold)
    <2>1. \A s \in SUBSET DOMAIN seq : fold[s] = IF s = {} THEN base
                                     ELSE InterpolateTurn(ph, fold[s \ {Max(s)}], seq[Max(s)])
      <3> TAKE s \in SUBSET DOMAIN seq
      <3>1. s # {} => fold[s \ {Max(s)}] \in Acc /\ seq[Max(s)] \in Ids
        BY <1>4, <1>6, <1>7
      <3> QED
        BY <1>3, <1>7, <3>1
    <2> QED
      BY <2>1
  <1> DEFINE iter == CHOOSE f : Eq(f)
  <1>9. Eq(iter)
    <2> HIDE DEF Eq
    <2> QED
      BY <1>8
  <1>10. InterpolatePass(ph) = iter[DOMAIN seq]
    BY <1>1
  <1> HIDE DEF iter
  <1>11. \A s \in SUBSET DOMAIN seq : iter[s] = IF s = {} THEN base
                                     ELSE InterpolateTurn(ph, iter[s \ {Max(s)}], seq[Max(s)])
    <2> TAKE s \in SUBSET DOMAIN seq
    <2> DEFINE val(f, t) == IF t = {} THEN base ELSE InterpolateTurn(ph, f[t \ {Max(t)}], seq[Max(t)])
    <2>1. iter = [t \in SUBSET DOMAIN seq |-> val(iter, t)]
      BY <1>9
    <2> HIDE DEF val
    <2>2. iter[s] = val(iter, s)
      BY <2>1
    <2> QED
      BY <2>2 DEF val
  <1>12. FollowsIn(Acc, iter, seq, step)
    <2>1. ASSUME NEW s \in SUBSET DOMAIN seq, s # {}, iter[s \ {Max(s)}] \in Acc
          PROVE  iter[s] = step[<<iter[s \ {Max(s)}], seq[Max(s)]>>]
      <3>1. seq[Max(s)] \in Ids
        BY <1>4, <1>7, <2>1
      <3> QED
        BY <1>3, <1>11, <2>1, <3>1
    <2> QED
      BY <2>1 DEF FollowsIn
  <1>13. iter[{}] = base
    BY <1>11
  <1>14. PICK acc \in [0 .. Len(seq) -> Acc] : StepsLeft(acc, iter, seq, base, step)
    BY <1>2, <1>4, <1>5, <1>12, <1>13, FoldLeftSteps
  <1>15. Len(seq) \in Nat /\ DOMAIN seq = 1 .. Len(seq)
    BY <1>4
  <1>16. ASSUME NEW n \in 1 .. Len(seq)
         PROVE  acc[n] = InterpolateTurn(ph, acc[n - 1], seq[n])
    <2>1. acc[n - 1] \in Acc /\ seq[n] \in Ids
      BY <1>4, <1>14, <1>15
    <2>2. acc[n] = step[<<acc[n - 1], seq[n]>>]
      BY <1>14 DEF StepsLeft
    <2> QED
      BY <1>3, <2>1, <2>2
  <1>17. acc[0] = base /\ acc[Len(seq)] = InterpolatePass(ph)
    BY <1>10, <1>14 DEF StepsLeft
  <1> HIDE DEF Eq
  <1> QED
    BY <1>14, <1>16, <1>17, <1>4a DEF Acc, seq, base

\* And so does the second.
LEMMA LookAlikeSteps ==
    ASSUME InputOK, NEW ph \in PhotosType
    PROVE  \E acc \in [0 .. N -> PhotosType] :
              /\ acc[0] = ph /\ acc[N] = LookAlikePass(ph)
              /\ \A n \in 1 .. N : acc[n] = LookAlikeTurn(acc[n - 1], n)
  <1> DEFINE Acc == PhotosType
  <1> DEFINE seq == InOrder
  <1> DEFINE base == ph
  <1> DEFINE step == [ax \in Acc \X Ids |-> LookAlikeTurn(ax[1], ax[2])]
  <1> DEFINE Eq(f) == f = [s \in SUBSET DOMAIN seq |-> IF s = {} THEN base
                             ELSE LookAlikeTurn(f[s \ {Max(s)}], seq[Max(s)])]
  <1>1. LookAlikePass(ph) = (CHOOSE f : Eq(f))[DOMAIN seq]
    BY DEF LookAlikePass, FoldLeft, MapThenFoldSet
  <1>2. step \in [Acc \X Ids -> Acc]
    BY LookAlikeTurnIs DEF Turn
  <1>3. \A a \in Acc, x \in Ids : step[<<a, x>>] = LookAlikeTurn(a, x)
    OBVIOUS
  <1>4. seq \in Seq(Ids) /\ \A k \in DOMAIN seq : seq[k] \in Ids
    BY InOrderIs
  <1>4a. Len(seq) = N /\ \A n \in 1 .. N : seq[n] = n
    BY InOrderIs DEF Ids
  <1>5. base \in Acc
    OBVIOUS
  <1> HIDE DEF Acc, seq, base, step
  <1>6. PICK fold \in [SUBSET DOMAIN seq -> Acc] : FoldsLeft(fold, seq, base, step)
    BY <1>2, <1>4, <1>5, FoldLeftExists
  <1>7. \A s \in SUBSET DOMAIN seq :
            /\ s # {} => Max(s) \in s
            /\ fold[s] = IF s = {} THEN base ELSE step[<<fold[s \ {Max(s)}], seq[Max(s)]>>]
    BY <1>6 DEF FoldsLeft
  <1>8. Eq(fold)
    <2>1. \A s \in SUBSET DOMAIN seq : fold[s] = IF s = {} THEN base
                                     ELSE LookAlikeTurn(fold[s \ {Max(s)}], seq[Max(s)])
      <3> TAKE s \in SUBSET DOMAIN seq
      <3>1. s # {} => fold[s \ {Max(s)}] \in Acc /\ seq[Max(s)] \in Ids
        BY <1>4, <1>6, <1>7
      <3> QED
        BY <1>3, <1>7, <3>1
    <2> QED
      BY <2>1
  <1> DEFINE iter == CHOOSE f : Eq(f)
  <1>9. Eq(iter)
    <2> HIDE DEF Eq
    <2> QED
      BY <1>8
  <1>10. LookAlikePass(ph) = iter[DOMAIN seq]
    BY <1>1
  <1> HIDE DEF iter
  <1>11. \A s \in SUBSET DOMAIN seq : iter[s] = IF s = {} THEN base
                                     ELSE LookAlikeTurn(iter[s \ {Max(s)}], seq[Max(s)])
    <2> TAKE s \in SUBSET DOMAIN seq
    <2> DEFINE val(f, t) == IF t = {} THEN base ELSE LookAlikeTurn(f[t \ {Max(t)}], seq[Max(t)])
    <2>1. iter = [t \in SUBSET DOMAIN seq |-> val(iter, t)]
      BY <1>9
    <2> HIDE DEF val
    <2>2. iter[s] = val(iter, s)
      BY <2>1
    <2> QED
      BY <2>2 DEF val
  <1>12. FollowsIn(Acc, iter, seq, step)
    <2>1. ASSUME NEW s \in SUBSET DOMAIN seq, s # {}, iter[s \ {Max(s)}] \in Acc
          PROVE  iter[s] = step[<<iter[s \ {Max(s)}], seq[Max(s)]>>]
      <3>1. seq[Max(s)] \in Ids
        BY <1>4, <1>7, <2>1
      <3> QED
        BY <1>3, <1>11, <2>1, <3>1
    <2> QED
      BY <2>1 DEF FollowsIn
  <1>13. iter[{}] = base
    BY <1>11
  <1>14. PICK acc \in [0 .. Len(seq) -> Acc] : StepsLeft(acc, iter, seq, base, step)
    BY <1>2, <1>4, <1>5, <1>12, <1>13, FoldLeftSteps
  <1>15. Len(seq) \in Nat /\ DOMAIN seq = 1 .. Len(seq)
    BY <1>4
  <1>16. ASSUME NEW n \in 1 .. Len(seq)
         PROVE  acc[n] = LookAlikeTurn(acc[n - 1], seq[n])
    <2>1. acc[n - 1] \in Acc /\ seq[n] \in Ids
      BY <1>4, <1>14, <1>15
    <2>2. acc[n] = step[<<acc[n - 1], seq[n]>>]
      BY <1>14 DEF StepsLeft
    <2> QED
      BY <1>3, <2>1, <2>2
  <1>17. acc[0] = base /\ acc[Len(seq)] = LookAlikePass(ph)
    BY <1>10, <1>14 DEF StepsLeft
  <1> HIDE DEF Eq
  <1> QED
    BY <1>14, <1>16, <1>17, <1>4a DEF Acc, seq, base

\* Turns of the photos in order: each finds its own photo as it was at first,
\* and leaves it as it is in the end.
LEMMA TurnsApart ==
    ASSUME NEW acc \in [0 .. N -> PhotosType],
           \A n \in 1 .. N : Turn(acc[n - 1], acc[n], n)
    PROVE  \A i \in Ids : acc[i - 1][i] = acc[0][i] /\ acc[N][i] = acc[i][i]
  <1> TAKE i \in Ids
  <1>1. N \in Nat /\ i \in 1 .. N
    BY IdsAre DEF Ids
  <1>2. \A n \in 1 .. N : n # i => acc[n][i] = acc[n - 1][i]
    BY <1>1 DEF Turn, Ids
  <1>3. acc[i - 1][i] = acc[0][i]
    <2> DEFINE Holding == {n \in 0 .. i - 1 : acc[n][i] = acc[0][i]}
    <2>1. 0 \in Holding
      BY <1>1
    <2>2. \A n \in 1 .. i - 1 : n - 1 \in Holding => n \in Holding
      <3> TAKE n \in 1 .. i - 1
      <3> HAVE n - 1 \in Holding
      <3>1. n \in 1 .. N /\ n # i
        BY <1>1
      <3> QED
        BY <1>1, <1>2, <3>1
    <2>3. i - 1 \in Nat
      BY <1>1
    <2> HIDE DEF Holding
    <2>4. \A n \in 0 .. i - 1 : n \in Holding
      BY <2>1, <2>2, <2>3, UpTo
    <2>5. i - 1 \in Holding
      BY <2>3, <2>4
    <2> QED
      BY <2>5 DEF Holding
  <1>4. acc[N][i] = acc[i][i]
    <2> DEFINE Holding == {n \in 0 .. N : n < i \/ acc[n][i] = acc[i][i]}
    <2>1. 0 \in Holding
      BY <1>1
    <2>2. \A n \in 1 .. N : n - 1 \in Holding => n \in Holding
      <3> TAKE n \in 1 .. N
      <3> HAVE n - 1 \in Holding
      <3>1. CASE n < i \/ n = i
        BY <1>1, <3>1
      <3>2. CASE n > i
        <4>1. acc[n - 1][i] = acc[i][i]
          BY <1>1, <3>2
        <4> QED
          BY <1>1, <1>2, <3>2, <4>1
      <3> QED
        BY <1>1, <3>1, <3>2
    <2> HIDE DEF Holding
    <2>3. \A n \in 0 .. N : n \in Holding
      BY <1>1, <2>1, <2>2, UpTo
    <2>4. N \in Holding
      BY <1>1, <2>3
    <2> QED
      BY <1>1, <2>4 DEF Holding
  <1> QED
    BY <1>3, <1>4

\* A round that changes nothing had nothing to do.
LEMMA RoundSettles ==
    ASSUME InputOK, NEW ph \in PhotosType, AssignRound(ph) = ph
    PROVE  \A i \in Unlocated(ph) :
              BetweenTwo(ph, i) = {} /\ Cardinality(LookAlikes(ph, i)) # 1
  <1> DEFINE mid == InterpolatePass(ph)
  <1>1. N \in Nat /\ Ids = 1 .. N
    BY IdsAre DEF Ids
  <1>2. PICK a \in [0 .. N -> PhotosType] :
          /\ a[0] = ph /\ a[N] = mid
          /\ \A n \in 1 .. N : a[n] = InterpolateTurn(ph, a[n - 1], n)
    BY InterpolateSteps
  <1>3. \A n \in 0 .. N : a[n] \in PhotosType
    BY <1>2
  <1>4. mid \in PhotosType
    BY <1>1, <1>2, <1>3
  <1> HIDE DEF mid
  <1>5. PICK b \in [0 .. N -> PhotosType] :
          /\ b[0] = mid /\ b[N] = LookAlikePass(mid)
          /\ \A n \in 1 .. N : b[n] = LookAlikeTurn(b[n - 1], n)
    BY <1>4, LookAlikeSteps
  <1>6. b[N] = ph
    BY <1>5 DEF AssignRound, mid
  <1>7. \A n \in 1 .. N : n - 1 \in 0 .. N /\ n \in 0 .. N /\ n \in Ids
    BY <1>1
  <1>8. \A n \in 1 .. N : Turn(a[n - 1], a[n], n) /\ Turn(b[n - 1], b[n], n)
    BY <1>2, <1>3, <1>5, <1>7, InterpolateTurnIs, LookAlikeTurnIs
  <1>9. \A i \in Ids : /\ a[i - 1][i] = ph[i] /\ mid[i] = a[i][i]
                       /\ b[i - 1][i] = mid[i] /\ ph[i] = b[i][i]
    BY <1>2, <1>5, <1>6, <1>8, TurnsApart
  <1>10. \A i \in Unlocated(ph) : i \in 1 .. N /\ ph[i].issue = "UNCLEAR_LOCATION"
    BY <1>1 DEF Unlocated
  <1>11. ASSUME NEW i \in Unlocated(ph) PROVE BetweenTwo(ph, i) = {}
    <2>1. SUFFICES ASSUME BetweenTwo(ph, i) # {} PROVE FALSE
      OBVIOUS
    <2>2. i \in Ids /\ i \in 1 .. N /\ a[i - 1] \in PhotosType
      BY <1>3, <1>7, <1>10
    <2>3. a[i][i].issue \in {NoIssue, "RAISED"}
      BY <1>2, <2>1, <2>2, InterpolateTurnIs
    <2>4. b[i] = b[i - 1] \/ b[i][i].issue \in {NoIssue, "RAISED"}
      BY <1>8, <2>2 DEF Turn
    <2>5. ph[i].issue \in {NoIssue, "RAISED"}
      BY <1>9, <2>2, <2>3, <2>4
    <2> QED
      BY <1>10, <2>5 DEF NoIssue
  <1>12. mid = ph
    <2> DEFINE Holding == {n \in 0 .. N : a[n] = ph}
    <2>1. 0 \in Holding
      BY <1>1, <1>2
    <2>2. \A n \in 1 .. N : n - 1 \in Holding => n \in Holding
      BY <1>2, <1>7, <1>11 DEF InterpolateTurn
    <2> HIDE DEF Holding
    <2>3. \A n \in 0 .. N : n \in Holding
      BY <1>1, <2>1, <2>2, UpTo
    <2>4. N \in Holding
      BY <1>1, <2>3
    <2> QED
      BY <1>2, <2>4 DEF Holding
  <1>13. ASSUME NEW n \in 1 .. N, b[n - 1] = ph, n \in Unlocated(ph)
         PROVE  Cardinality(LookAlikes(ph, n)) # 1
    <2>1. SUFFICES ASSUME Cardinality(LookAlikes(ph, n)) = 1 PROVE FALSE
      OBVIOUS
    <2>2. b[n][n].issue \in {NoIssue, "RAISED"}
      BY <1>5, <1>7, <1>13, <2>1, LookAlikeTurnIs
    <2>3. ph[n].issue \in {NoIssue, "RAISED"}
      BY <1>7, <1>9, <2>2
    <2> QED
      BY <1>10, <1>13, <2>3 DEF NoIssue
  <1>14. \A n \in 0 .. N : b[n] = ph
    <2> DEFINE Holding == {n \in 0 .. N : b[n] = ph}
    <2>1. 0 \in Holding
      BY <1>1, <1>5, <1>12
    <2>2. \A n \in 1 .. N : n - 1 \in Holding => n \in Holding
      BY <1>5, <1>7, <1>13 DEF LookAlikeTurn
    <2> HIDE DEF Holding
    <2>3. \A n \in 0 .. N : n \in Holding
      BY <1>1, <2>1, <2>2, UpTo
    <2> QED
      BY <2>3 DEF Holding
  <1> QED
    BY <1>7, <1>10, <1>11, <1>13, <1>14

\* A photo without GPS is put into a folder that has photos: the folder has one
\* with GPS, so the photo has its coordinates, and nothing is raised.
LEMMA PutIntoKeeps ==
    ASSUME InputOK, NEW was \in PhotosType, Assigned(was), GpsInFolders(was),
           NEW i \in Ids, ~HasGps(i), ~Placed(was, i), InPeriod(was, i),
           NEW j \in Ids, Placed(was, j)
    PROVE  LET now == PutInto(was, i, was[j].place)
           IN  Assigned(now) /\ GpsInFolders(now)
  <1> DEFINE folder == was[j].place
  <1> DEFINE now == PutInto(was, i, folder)
  <1>1. folder \in Folders /\ folder \in OldFolders /\ Exif(was, InFolder(was, folder)) # {}
    BY PlacedIs DEF GpsInFolders
  <1>2. PICK k \in Exif(was, InFolder(was, folder)) : now = Put(was, i, folder, was[k].coord)
    BY <1>1, PutIntoIs
  <1>3. k \in Ids /\ was[k].origin = "EXIF" /\ was[k].place = folder
    BY <1>2 DEF Exif, InFolder
  <1>4. was[k].coord \in Optional /\ was[k].coord # None /\ k # i
    BY <1>3, InputIs DEF Assigned, Sourced, HasGps
  <1>5. /\ now \in PhotosType
        /\ \A m \in Ids \ {i} : now[m] = was[m]
        /\ now[i].taken = was[i].taken /\ now[i].status = was[i].status
        /\ now[i].place = folder /\ now[i].coord = was[k].coord
        /\ now[i].origin = "INFERRED" /\ now[i].issue = NoIssue
    <2> HIDE DEF folder, now
    <2> QED
      BY <1>1, <1>2, <1>4, PutIs
  <1> HIDE DEF now, folder
  <1>6. Timed(now)
    BY <1>5 DEF Assigned, Timed
  <1>7. Sourced(now)
    BY <1>5 DEF Assigned, Sourced
  <1>8. Sorted_(now)
    <2>1. \A m \in Ids : Placed(now, m) <=> m = i \/ Placed(was, m)
      <3>1. Placed(now, i)
        BY <1>1, <1>5, PlacedIs
      <3> QED
        BY <1>5, <3>1 DEF Placed
    <2>2. \A m \in Ids : now[m].taken = was[m].taken
      BY <1>5
    <2>3. \A m \in Ids : InPeriod(now, m) <=> InPeriod(was, m)
      BY <2>2 DEF InPeriod
    <2> QED
      BY <1>4, <1>5, <2>1, <2>3 DEF Assigned, Sorted_, NoIssue
  <1>9. GpsInFolders(now)
    <2>1. ASSUME NEW m \in Ids, Placed(now, m), m # i
          PROVE  /\ now[m].place \in OldFolders
                 /\ \E l \in Exif(now, InFolder(now, now[m].place)) :
                      now[m].origin = "INFERRED" => now[l].coord = now[m].coord
      <3>1. now[m] = was[m] /\ Placed(was, m)
        BY <1>5, <2>1 DEF Placed
      <3>2. PICK l \in Exif(was, InFolder(was, was[m].place)) :
              was[m].origin = "INFERRED" => was[l].coord = was[m].coord
        BY <3>1 DEF GpsInFolders
      <3>3. l \in Ids /\ was[l].origin = "EXIF" /\ was[l].place = was[m].place
        BY <3>2 DEF Exif, InFolder
      <3>4. l # i
        BY <3>3 DEF Assigned, Sourced
      <3>5. now[l] = was[l]
        BY <1>5, <3>3, <3>4
      <3>6. l \in Exif(now, InFolder(now, now[m].place))
        BY <3>1, <3>3, <3>5 DEF Exif, InFolder
      <3>7. now[m].place \in OldFolders
        BY <3>1 DEF GpsInFolders
      <3> QED
        BY <3>1, <3>2, <3>5, <3>6, <3>7
    <2>2. /\ now[i].place \in OldFolders
          /\ \E l \in Exif(now, InFolder(now, now[i].place)) :
               now[i].origin = "INFERRED" => now[l].coord = now[i].coord
      <3>1. now[k] = was[k]
        BY <1>3, <1>4, <1>5
      <3>2. k \in Exif(now, InFolder(now, now[i].place))
        BY <1>3, <1>5, <3>1 DEF Exif, InFolder
      <3> QED
        BY <1>1, <1>5, <3>1, <3>2
    <2> QED
      BY <2>1, <2>2 DEF GpsInFolders
  <1> QED
    BY <1>6, <1>7, <1>8, <1>9 DEF Assigned, now, folder

\* A photo with an unclear location is in no folder.
LEMMA UnlocatedIs ==
    ASSUME NEW ph \in PhotosType, Sorted_(ph), NEW i \in Unlocated(ph)
    PROVE  i \in Ids /\ ~HasGps(i) /\ ~Placed(ph, i) /\ InPeriod(ph, i)
  BY DEF Unlocated, Sorted_, NoIssue

\* The first pass raises nothing and keeps the folders.
LEMMA InterpolateKeeps ==
    ASSUME InputOK, NEW ph \in PhotosType, Assigned(ph), GpsInFolders(ph)
    PROVE  LET mid == InterpolatePass(ph)
           IN  mid \in PhotosType /\ Assigned(mid) /\ GpsInFolders(mid)
  <1>1. N \in Nat /\ Ids = 1 .. N
    BY IdsAre DEF Ids
  <1>2. PICK a \in [0 .. N -> PhotosType] :
          /\ a[0] = ph /\ a[N] = InterpolatePass(ph)
          /\ \A n \in 1 .. N : a[n] = InterpolateTurn(ph, a[n - 1], n)
    BY InterpolateSteps
  <1>3. \A n \in 0 .. N : a[n] \in PhotosType
    BY <1>2
  <1>4. \A n \in 1 .. N : n - 1 \in 0 .. N /\ n \in 0 .. N /\ n \in Ids
    BY <1>1
  <1>5. \A n \in 1 .. N : Turn(a[n - 1], a[n], n)
    BY <1>2, <1>3, <1>4, InterpolateTurnIs
  <1>6. \A n \in 1 .. N : a[n - 1][n] = ph[n]
    BY <1>1, <1>2, <1>5, TurnsApart
  <1> DEFINE Keeps(was) == /\ Assigned(was) /\ GpsInFolders(was)
                           /\ \A j \in Ids : Placed(ph, j) => was[j] = ph[j]
  <1>7. ASSUME NEW n \in 1 .. N, Keeps(a[n - 1]) PROVE Keeps(a[n])
    <2> DEFINE was == a[n - 1]
    <2>1. n \in Ids /\ was \in PhotosType
      BY <1>3, <1>4
    <2>2. CASE n \in Unlocated(ph) /\ BetweenTwo(ph, n) # {}
      <3> DEFINE f == CHOOSE f \in BetweenTwo(ph, n) : TRUE
      <3>1. f \in BetweenTwo(ph, n) /\ a[n] = PutInto(was, n, f)
        BY <1>2, <2>2 DEF InterpolateTurn
      <3> HIDE DEF f
      <3>2. PICK j \in Ids : Placed(ph, j) /\ ph[j].place = f
        BY <2>1, <3>1, BetweenTwoIs
      <3>3. was[j] = ph[j] /\ Placed(was, j) /\ was[j].place = f
        BY <1>7, <3>2 DEF Placed
      <3>4. ~HasGps(n) /\ ~Placed(ph, n) /\ InPeriod(ph, n)
        BY <2>2, UnlocatedIs DEF Assigned
      <3>5. ~Placed(was, n) /\ InPeriod(was, n)
        BY <1>6, <3>4 DEF Placed, InPeriod
      <3>6. Assigned(a[n]) /\ GpsInFolders(a[n])
        <4> HIDE DEF was
        <4>1. Assigned(was) /\ GpsInFolders(was)
          BY <1>7 DEF was
        <4> QED
          BY <2>1, <3>1, <3>3, <3>4, <3>5, <4>1, PutIntoKeeps
      <3>7. \A k \in Ids : Placed(ph, k) => a[n][k] = ph[k]
        BY <1>5, <1>7, <3>4 DEF Turn
      <3> QED
        BY <3>6, <3>7
    <2>3. CASE ~(n \in Unlocated(ph) /\ BetweenTwo(ph, n) # {})
      BY <1>2, <1>7, <2>3 DEF InterpolateTurn
    <2> QED
      BY <2>2, <2>3
  <1>8. Keeps(a[0])
    BY <1>2
  <1> HIDE DEF Keeps
  <1> DEFINE Holding == {n \in 0 .. N : Keeps(a[n])}
  <1>9. 0 \in Holding /\ \A n \in 1 .. N : n - 1 \in Holding => n \in Holding
    BY <1>1, <1>7, <1>8
  <1> HIDE DEF Holding
  <1>10. \A n \in 0 .. N : n \in Holding
    BY <1>1, <1>9, UpTo
  <1>11. N \in Holding /\ N \in 0 .. N
    BY <1>1, <1>10
  <1> QED
    BY <1>2, <1>3, <1>11 DEF Holding, Keeps

\* And so does the second.
LEMMA LookAlikeKeeps ==
    ASSUME InputOK, NEW ph \in PhotosType, Assigned(ph), GpsInFolders(ph)
    PROVE  LET now == LookAlikePass(ph)
           IN  now \in PhotosType /\ Assigned(now) /\ GpsInFolders(now)
  <1>1. N \in Nat /\ Ids = 1 .. N
    BY IdsAre DEF Ids
  <1>2. PICK a \in [0 .. N -> PhotosType] :
          /\ a[0] = ph /\ a[N] = LookAlikePass(ph)
          /\ \A n \in 1 .. N : a[n] = LookAlikeTurn(a[n - 1], n)
    BY LookAlikeSteps
  <1>3. \A n \in 0 .. N : a[n] \in PhotosType
    BY <1>2
  <1> DEFINE Keeps(was) == Assigned(was) /\ GpsInFolders(was)
  <1>4. ASSUME NEW n \in 1 .. N, Keeps(a[n - 1]) PROVE Keeps(a[n])
    <2> DEFINE was == a[n - 1]
    <2>1. n \in Ids /\ was \in PhotosType
      BY <1>1, <1>3
    <2>2. CASE n \in Unlocated(was) /\ Cardinality(LookAlikes(was, n)) = 1
      <3> DEFINE f == CHOOSE f \in LookAlikes(was, n) : TRUE
      <3>1. f \in LookAlikes(was, n) /\ a[n] = PutInto(was, n, f)
        BY <1>2, <2>2, OneIsSome DEF LookAlikeTurn
      <3> HIDE DEF f
      <3>2. PICK j \in Ids : Placed(was, j) /\ was[j].place = f
        BY <2>1, <3>1, LookAlikesAre
      <3> HIDE DEF was
      <3>3. Assigned(was) /\ GpsInFolders(was)
        BY <1>4 DEF was
      <3>4. ~HasGps(n) /\ ~Placed(was, n) /\ InPeriod(was, n)
        BY <2>1, <2>2, <3>3, UnlocatedIs DEF Assigned
      <3> QED
        BY <2>1, <3>1, <3>2, <3>3, <3>4, PutIntoKeeps
    <2>3. CASE ~(n \in Unlocated(was) /\ Cardinality(LookAlikes(was, n)) = 1)
      BY <1>2, <1>4, <2>3 DEF LookAlikeTurn
    <2> QED
      BY <2>2, <2>3
  <1>5. Keeps(a[0])
    BY <1>2
  <1> HIDE DEF Keeps
  <1> DEFINE Holding == {n \in 0 .. N : Keeps(a[n])}
  <1>6. 0 \in Holding /\ \A n \in 1 .. N : n - 1 \in Holding => n \in Holding
    BY <1>1, <1>4, <1>5
  <1> HIDE DEF Holding
  <1>7. \A n \in 0 .. N : n \in Holding
    BY <1>1, <1>6, UpTo
  <1>8. N \in Holding /\ N \in 0 .. N
    BY <1>1, <1>7
  <1> QED
    BY <1>2, <1>3, <1>8 DEF Holding, Keeps

\* So does the whole round.
LEMMA RoundKeeps ==
    ASSUME InputOK, NEW ph \in PhotosType, Assigned(ph), GpsInFolders(ph)
    PROVE  LET now == AssignRound(ph)
           IN  now \in PhotosType /\ Assigned(now) /\ GpsInFolders(now)
  BY InterpolateKeeps, LookAlikeKeeps DEF AssignRound

LEMMA NothingRaised ==
    ASSUME NEW ph, Sorted_(ph) PROVE ~Raised(ph)
  BY DEF Sorted_, Raised, NoIssue

-----------------------------------------------------------------------------
(* The steps before the assignment.                                        *)

\* The difference of two clocks is a number of days.
LEMMA DaysAre ==
    ASSUME InputOK, NEW targets \in SUBSET {i \in Ids : HasTime(i)},
           NEW o \in ConsistentDays(PairOffsets(targets))
    PROVE  o.days \in Int
  <1> DEFINE S == PairOffsets(targets)
  <1>1. \E p \in S : o.days = Days(p[2])
    <2> DEFINE clear == {p \in S : ~HalfDay(p[2])}
               Group(d) == {p \in clear : Days(p[2]) = d}
               Agreeing(d) == {p \in Group(d) :
                  LET off == 2 * p[2] - TwiceMedian(Group(d))
                  IN  off <= 2 * ClockTolerance /\ -off <= 2 * ClockTolerance}
               candidates == {d \in {Days(p[2]) : p \in clear} :
                                Cardinality(Agreeing(d)) >= ClockMinPairs}
    <2>1. ConsistentDays(S) = IF Cardinality(candidates) = 1
            THEN {[days |-> d, pairs |-> Cardinality(Agreeing(d))] : d \in candidates} ELSE {}
      BY DEF ConsistentDays
    <2> HIDE DEF Agreeing, S
    <2>2. \E d \in candidates : o = [days |-> d, pairs |-> Cardinality(Agreeing(d))]
      BY <2>1 DEF S
    <2> QED
      BY <2>2
  <1>2. \A p \in S : p[2] \in Int
    <2>1. \A i, j \in Ids : HasTime(i) /\ HasTime(j) => source[j].time - source[i].time \in Int
      BY InputIs DEF HasTime, Optional
    <2>2. \A j \in ClockAnchors : j \in Ids /\ HasTime(j)
      BY DEF ClockAnchors
    <2> QED
      BY <2>1, <2>2 DEF PairOffsets
  <1> HIDE DEF S
  <1>3. \A n \in Int : Days(n) \in Int
    BY RulesAssumption DEF Days
  <1> QED
    BY <1>1, <1>2, <1>3

\* CLOCK judges every time, and changes nothing else.
LEMMA ClockSettles ==
    ASSUME InputOK, photos = PhotoState(source)
    PROVE  LET now == CorrectClocks
           IN  /\ now \in PhotosType /\ Timed(now) /\ Sourced(now)
               /\ \A i \in Ids : now[i].place = NoPlace /\ now[i].issue = NoIssue
  <1> DEFINE now == CorrectClocks
  <1>1. ASSUME NEW i \in Ids
        PROVE  \E t \in Optional, s \in {"ORIGINAL", "CORRECTED", "UNKNOWN"} :
                  /\ now[i] = [photos[i] EXCEPT !.taken = t, !.status = s]
                  /\ s = "UNKNOWN" <=> t = None
    <2> DEFINE d == source[i].device
    <2> DEFINE found == IF d \in TargetDevices THEN ClockOffsets[d] ELSE {}
    <2> DEFINE days == (CHOOSE o \in found : TRUE).days
    <2>1. now[i] = IF Trusted(i)
                   THEN [photos[i] EXCEPT !.taken = source[i].time, !.status = "ORIGINAL"]
                   ELSE IF HasTime(i) /\ found # {}
                   THEN [photos[i] EXCEPT
                          !.taken = source[i].time + days * Day,
                          !.status = IF days = 0 THEN "ORIGINAL" ELSE "CORRECTED"]
                   ELSE [photos[i] EXCEPT !.taken = None, !.status = "UNKNOWN"]
      BY DEF CorrectClocks
    <2>2. CASE Trusted(i)
      <3>1. source[i].time \in Optional /\ source[i].time # None
        BY <2>2, InputIs DEF Trusted, HasTime
      <3> QED
        BY <2>1, <2>2, <3>1
    <2>3. CASE ~Trusted(i) /\ HasTime(i) /\ found # {}
      <3>1. d \in TargetDevices /\ found = ConsistentDays(PairOffsets(ClockTargets(d)))
        BY <2>3 DEF ClockOffsets
      <3>2. ClockTargets(d) \in SUBSET {j \in Ids : HasTime(j)}
        BY DEF ClockTargets
      <3>3. (CHOOSE o \in found : TRUE) \in found
        BY <2>3
      <3>4. days \in Int
        <4> HIDE DEF d
        <4> QED
          BY <3>1, <3>2, <3>3, DaysAre
      <3>5. source[i].time \in Int
        BY <2>3, InputIs DEF HasTime, Optional
      <3>6. Day \in Int /\ None \notin Int
        BY RulesAssumption
      <3> DEFINE t == source[i].time + days * Day
      <3> DEFINE s == IF days = 0 THEN "ORIGINAL" ELSE "CORRECTED"
      <3>7. t \in Int
        <4> HIDE DEF days
        <4> QED
          BY <3>4, <3>5, <3>6
      <3>8. now[i] = [photos[i] EXCEPT !.taken = t, !.status = s]
        BY <2>1, <2>3
      <3>9. s \in {"ORIGINAL", "CORRECTED"}
        OBVIOUS
      <3> HIDE DEF t, s, now
      <3>10. t \in Optional /\ t # None
        BY <3>6, <3>7 DEF Optional
      <3> QED
        BY <3>8, <3>9, <3>10
    <2>4. CASE ~Trusted(i) /\ ~(HasTime(i) /\ found # {})
      <3>1. now[i] = [photos[i] EXCEPT !.taken = None, !.status = "UNKNOWN"]
        BY <2>1, <2>4
      <3> HIDE DEF now
      <3> QED
        BY <3>1 DEF Optional
    <2> HIDE DEF found, now
    <2> QED
      BY <2>2, <2>3, <2>4
  <1>2. ASSUME NEW i \in Ids
        PROVE  photos[i] = [taken |-> None, status |-> "PENDING", coord |-> source[i].gps,
                    origin |-> IF source[i].gps # None THEN "EXIF" ELSE "UNKNOWN",
                    place |-> NoPlace, issue |-> NoIssue, dup |-> None]
    BY DEF PhotoState
  <1>3. now = [i \in Ids |-> now[i]]
    BY DEF CorrectClocks
  <1> HIDE DEF now
  <1>4. ASSUME NEW i \in Ids
        PROVE  /\ now[i] \in PhotoType
               /\ now[i].status # "PENDING" /\ (now[i].status = "UNKNOWN" <=> now[i].taken = None)
               /\ now[i].origin = "EXIF" <=> HasGps(i)
               /\ now[i].coord = source[i].gps
               /\ now[i].place = NoPlace /\ now[i].issue = NoIssue
    <2>1. PICK t \in Optional, s \in {"ORIGINAL", "CORRECTED", "UNKNOWN"} :
                  /\ now[i] = [photos[i] EXCEPT !.taken = t, !.status = s]
                  /\ s = "UNKNOWN" <=> t = None
      BY <1>1
    <2>2. source[i].gps \in Optional
      BY InputIs
    <2> DEFINE o == IF source[i].gps # None THEN "EXIF" ELSE "UNKNOWN"
    <2> DEFINE r == photos[i]
    <2>3. r = [taken |-> None, status |-> "PENDING", coord |-> source[i].gps,
               origin |-> o, place |-> NoPlace, issue |-> NoIssue, dup |-> None]
      BY <1>2
    <2>4. o \in {"EXIF", "UNKNOWN"} /\ (o = "EXIF" <=> HasGps(i))
      BY DEF HasGps
    <2>5. now[i] = [r EXCEPT !.taken = t, !.status = s]
      BY <2>1
    <2> HIDE DEF o, r
    <2>6. /\ r \in PhotoType /\ r.coord = source[i].gps /\ r.origin = o
          /\ r.place = NoPlace /\ r.issue = NoIssue
      BY <2>2, <2>3, <2>4 DEF PhotoType, NoIssue, Optional
    <2>7. /\ now[i] \in PhotoType /\ now[i].taken = t /\ now[i].status = s
          /\ now[i].coord = r.coord /\ now[i].origin = r.origin
          /\ now[i].place = r.place /\ now[i].issue = r.issue
      BY <2>5, <2>6 DEF PhotoType
    <2> QED
      BY <2>1, <2>4, <2>6, <2>7
  <1>5. now \in PhotosType
    BY <1>3, <1>4 DEF PhotosType
  <1> QED
    BY <1>4, <1>5 DEF Timed, Sourced, now

\* LOCATING puts a photo aside, leaves it as it is, or gives it the coordinates
\* of a GPS photo of the trip's days.
LEMMA LocatingSettles ==
    ASSUME InputOK, photos \in PhotosType, Timed(photos), Sourced(photos),
           \A i \in Ids : photos[i].place = NoPlace /\ photos[i].issue = NoIssue
    PROVE  LET now == LocatePhotos
           IN  now \in PhotosType /\ Timed(now) /\ Sourced(now) /\ Located(now)
  <1> DEFINE now == LocatePhotos
  <1> DEFINE anchors == {i \in Ids : HasGps(i) /\ InPeriod(photos, i)}
  <1> DEFINE Aside(i) == now[i] = [photos[i] EXCEPT !.issue = "UNCLEAR_LOCATION"]
  <1> DEFINE Inherits(i, j) == now[i] = [photos[i] EXCEPT !.coord = source[j].gps,
                                                          !.origin = "INFERRED"]
  <1>1. anchors \in SUBSET Ids
    OBVIOUS
  <1>2. ASSUME NEW i \in Ids
        PROVE  \/ i \notin anchors /\ Aside(i)
               \/ i \in anchors /\ now[i] = photos[i]
               \/ i \notin anchors /\ InPeriod(photos, i) /\ \E j \in anchors : Inherits(i, j)
    <2> DEFINE j == MostSimilar(i, anchors)
    <2>1. anchors # {} => j \in anchors
      BY <1>1, MostSimilarIs
    <2>2. now[i] = IF ~InPeriod(photos, i)
                   THEN [photos[i] EXCEPT !.issue = "UNCLEAR_LOCATION"]
                   ELSE IF i \in anchors THEN photos[i]
                   ELSE IF anchors = {} \/ sim[i][j] < InheritMinSim
                   THEN [photos[i] EXCEPT !.issue = "UNCLEAR_LOCATION"]
                   ELSE [photos[i] EXCEPT !.coord = source[j].gps, !.origin = "INFERRED"]
      BY DEF LocatePhotos
    <2>3. ~InPeriod(photos, i) => i \notin anchors
      OBVIOUS
    <2> HIDE DEF now, j, anchors
    <2>4. CASE ~InPeriod(photos, i)
      BY <2>2, <2>3, <2>4
    <2>5. CASE InPeriod(photos, i) /\ i \in anchors
      BY <2>2, <2>5
    <2>6. CASE InPeriod(photos, i) /\ i \notin anchors
      <3>1. CASE anchors = {} \/ sim[i][j] < InheritMinSim
        BY <2>2, <2>6, <3>1
      <3>2. CASE ~(anchors = {} \/ sim[i][j] < InheritMinSim)
        <4>1. Inherits(i, j) /\ j \in anchors
          BY <2>1, <2>2, <2>6, <3>2
        <4> QED
          BY <2>6, <4>1
      <3> QED
        BY <3>1, <3>2
    <2> QED
      BY <2>4, <2>5, <2>6
  <1>3. now = [i \in Ids |-> now[i]]
    BY DEF LocatePhotos
  <1>4. \A i \in anchors : i \in Ids /\ HasGps(i) /\ InPeriod(photos, i)
    OBVIOUS
  <1>5. \A i \in Ids : InPeriod(photos, i) /\ HasGps(i) => i \in anchors
    OBVIOUS
  <1> HIDE DEF now, anchors
  <1>6. ASSUME NEW i \in Ids
        PROVE  /\ now[i] \in PhotoType
               /\ now[i].taken = photos[i].taken /\ now[i].status = photos[i].status
               /\ now[i].place = NoPlace
               /\ now[i].issue \in {NoIssue, "UNCLEAR_LOCATION"}
               /\ now[i].origin = "EXIF" <=> HasGps(i)
               /\ HasGps(i) => now[i].coord = source[i].gps
               /\ i \in anchors => now[i] = photos[i] /\ now[i].issue = NoIssue
               /\ now[i].issue = NoIssue =>
                    \E j \in anchors : now[i].coord = source[j].gps
               /\ now[i].issue = NoIssue => InPeriod(photos, i) /\ now[i].origin # "UNKNOWN"
    <2>1. /\ photos[i] \in PhotoType /\ photos[i].place = NoPlace /\ photos[i].issue = NoIssue
          /\ photos[i].origin = "EXIF" <=> HasGps(i)
          /\ HasGps(i) => photos[i].coord = source[i].gps
      BY DEF PhotosType, Sourced
    <2> DEFINE r == photos[i]
    <2> HIDE DEF r
    <2>2. CASE i \notin anchors /\ Aside(i)
      BY <2>1, <2>2 DEF PhotoType, NoIssue
    <2>3. CASE i \in anchors /\ now[i] = photos[i]
      BY <1>4, <2>1, <2>3
    <2>4. CASE i \notin anchors /\ InPeriod(photos, i) /\ \E j \in anchors : Inherits(i, j)
      <3>1. PICK j \in anchors : Inherits(i, j)
        BY <2>4
      <3>2. source[j].gps \in Optional /\ ~HasGps(i)
        BY <1>4, <1>5, <2>4, InputIs
      <3>3. /\ now[i] \in PhotoType
            /\ now[i].taken = photos[i].taken /\ now[i].status = photos[i].status
            /\ now[i].place = photos[i].place /\ now[i].issue = photos[i].issue
            /\ now[i].origin = "INFERRED" /\ now[i].coord = source[j].gps
        BY <2>1, <3>1, <3>2 DEF PhotoType
      <3> QED
        BY <2>1, <2>4, <3>2, <3>3
    <2> QED
      BY <1>2, <2>2, <2>3, <2>4
  <1>7. now \in PhotosType
    BY <1>3, <1>6 DEF PhotosType
  <1>8. Timed(now)
    BY <1>6 DEF Timed
  <1>9. Sourced(now)
    BY <1>6 DEF Sourced
  <1>10. Located(now)
    <2>1. ASSUME NEW i \in Ids, now[i].issue = NoIssue
          PROVE  /\ InPeriod(now, i) /\ now[i].origin # "UNKNOWN"
                 /\ \E j \in Ids : /\ now[j].issue = NoIssue /\ now[j].origin = "EXIF"
                                   /\ now[j].coord = now[i].coord
      <3>1. PICK j \in anchors : now[i].coord = source[j].gps
        BY <1>6, <2>1
      <3>2. j \in Ids /\ now[j].issue = NoIssue /\ now[j].origin = "EXIF"
            /\ now[j].coord = source[j].gps
        BY <1>4, <1>6
      <3>3. InPeriod(now, i)
        BY <1>6, <2>1 DEF InPeriod
      <3> QED
        BY <1>6, <2>1, <3>1, <3>2, <3>3
    <2> QED
      BY <1>6, <2>1 DEF Located
  <1> QED
    BY <1>7, <1>8, <1>9, <1>10 DEF now

\* A cluster is a set of the photos, and takes all photos of a place or none.
LEMMA ClustersAre ==
    ASSUME NEW S
    PROVE  /\ DbscanClusters(S) \subseteq SUBSET S
           /\ \A C \in DbscanClusters(S), i, j \in S :
                photos[i].coord = photos[j].coord => (i \in C <=> j \in C)
  <1> DEFINE Near(i, j) == photos[i].coord - photos[j].coord \in -Eps .. Eps
             core == {i \in S : Cardinality({j \in S : Near(i, j)}) >= MinSamples}
             Before(i, j) == photos[i].coord <= photos[j].coord
             Linked(i, j) == \A k \in core : Before(i, k) /\ ~Before(j, k) =>
                                 \E l \in core : ~Before(l, k) /\ Near(k, l)
             Connected(i, j) == IF Before(i, j) THEN Linked(i, j) ELSE Linked(j, i)
             cores == {{j \in core : Connected(i, j)} : i \in core}
             Met(i) == {C \in cores : \E j \in C : Near(i, j)}
             Cluster_(C) == {i \in S : C \in Met(i) /\ \A D \in Met(i) : Min(C) <= Min(D)}
  <1>1. DbscanClusters(S) = {Cluster_(C) : C \in cores}
    BY DEF DbscanClusters
  <1>2. ASSUME NEW i \in S, NEW j \in S, photos[i].coord = photos[j].coord
        PROVE  Met(i) = Met(j)
    <2> HIDE DEF cores
    <2> QED
      BY <1>2
  <1> HIDE DEF Met, cores
  <1> QED
    BY <1>1, <1>2

\* The photos of a cluster are in its folder, in the one of a GPS photo at the
\* coordinates that each has; noise is put aside.
LEMMA ClusteringSettles ==
    ASSUME InputOK, photos \in PhotosType, Timed(photos), Sourced(photos), Located(photos)
    PROVE  LET now == ClusterPhotos
           IN  now \in PhotosType /\ Assigned(now) /\ GpsInFolders(now)
  <1> DEFINE now == ClusterPhotos
             candidates == {i \in Ids : photos[i].issue = NoIssue}
             clusters == DbscanClusters(candidates)
             Rank(C) == Cardinality({D \in clusters : Min(D) <= Min(C)})
             Of(i) == CHOOSE C \in clusters : i \in C
             folder == [i \in Ids |-> Place("p", Rank(Of(i)))]
  <1>1. ASSUME NEW i \in Ids PROVE folder[i] \in OldFolders
    <2>1. IsFiniteSet(SUBSET candidates)
      BY IdsAre, FS_Subset, FS_SUBSET
    <2>2. {D \in clusters : Min(D) <= Min(Of(i))} \subseteq SUBSET candidates
      BY ClustersAre
    <2>3. IsFiniteSet({D \in clusters : Min(D) <= Min(Of(i))})
      BY <2>1, <2>2, FS_Subset
    <2>4. Rank(Of(i)) \in Nat
      BY <2>3, FS_CardinalityType
    <2> HIDE DEF Rank, Of
    <2> QED
      BY <2>4 DEF OldFolders
  <1>2. ASSUME NEW i \in candidates, NEW j \in candidates, photos[i].coord = photos[j].coord
        PROVE  /\ i \in UNION clusters <=> j \in UNION clusters
               /\ folder[i] = folder[j]
    <2>1. \A C \in clusters : i \in C <=> j \in C
      BY <1>2, ClustersAre
    <2> HIDE DEF clusters
    <2>2. Of(i) = Of(j)
      BY <2>1
    <2> QED
      BY <2>1, <2>2
  <1>3. ASSUME NEW i \in Ids
        PROVE  now[i] = IF i \notin candidates THEN photos[i]
                        ELSE IF i \in UNION clusters
                        THEN [photos[i] EXCEPT !.place = folder[i]]
                        ELSE [photos[i] EXCEPT !.issue = "UNCLEAR_LOCATION"]
    BY DEF ClusterPhotos
  <1>4. now = [i \in Ids |-> now[i]]
    BY DEF ClusterPhotos
  <1>5. \A i \in Ids : i \in candidates <=> photos[i].issue = NoIssue
    OBVIOUS
  <1>6. candidates \subseteq Ids
    OBVIOUS
  <1> HIDE DEF now, folder, clusters, candidates
  <1> DEFINE In(i) == i \in candidates /\ i \in UNION clusters
  <1>7. ASSUME NEW i \in Ids
        PROVE  /\ now[i] \in PhotoType
               /\ now[i].taken = photos[i].taken /\ now[i].status = photos[i].status
               /\ now[i].coord = photos[i].coord /\ now[i].origin = photos[i].origin
               /\ now[i].issue = IF In(i) THEN NoIssue ELSE "UNCLEAR_LOCATION"
               /\ now[i].place = IF In(i) THEN folder[i] ELSE NoPlace
    <2>1. /\ photos[i] \in PhotoType /\ photos[i].place = NoPlace
          /\ photos[i].issue \in {NoIssue, "UNCLEAR_LOCATION"}
      BY DEF PhotosType, Located
    <2>2. folder[i] \in Folders
      BY <1>1 DEF Folders
    <2>3. CASE i \notin candidates
      BY <1>3, <1>5, <2>1, <2>3
    <2>4. CASE In(i)
      <3>1. now[i] = [photos[i] EXCEPT !.place = folder[i]] /\ photos[i].issue = NoIssue
        BY <1>3, <1>5, <2>4
      <3> QED
        BY <2>1, <2>2, <2>4, <3>1 DEF PhotoType
    <2>5. CASE i \in candidates /\ ~In(i)
      <3>1. now[i] = [photos[i] EXCEPT !.issue = "UNCLEAR_LOCATION"]
        BY <1>3, <2>5
      <3> QED
        BY <2>1, <2>5, <3>1 DEF PhotoType
    <2> QED
      BY <2>3, <2>4, <2>5
  <1>8. ASSUME NEW i \in Ids, In(i)
        PROVE  /\ InPeriod(now, i) /\ now[i].coord # None /\ now[i].origin # "UNKNOWN"
               /\ now[i].place \in OldFolders
               /\ \E j \in Exif(now, InFolder(now, now[i].place)) : now[j].coord = now[i].coord
    <2>1. photos[i].issue = NoIssue
      BY <1>5, <1>8
    <2>2. InPeriod(photos, i) /\ photos[i].origin # "UNKNOWN"
      BY <2>1 DEF Located
    <2>3. PICK j \in Ids : /\ photos[j].issue = NoIssue /\ photos[j].origin = "EXIF"
                           /\ photos[j].coord = photos[i].coord
      BY <2>1 DEF Located
    <2>4. j \in candidates /\ i \in candidates
      BY <1>5, <2>1, <2>3
    <2>5. In(j) /\ folder[j] = folder[i]
      BY <1>2, <1>8, <2>3, <2>4
    <2>6. j \in Exif(now, InFolder(now, now[i].place)) /\ now[j].coord = now[i].coord
      BY <1>7, <1>8, <2>3, <2>5 DEF Exif, InFolder
    <2>7. photos[i].coord # None
      BY <2>3 DEF Sourced, HasGps
    <2>8. InPeriod(now, i)
      BY <1>7, <2>2 DEF InPeriod
    <2> QED
      BY <1>1, <1>7, <1>8, <2>2, <2>6, <2>7, <2>8
  <1>9. \A i \in Ids : Placed(now, i) <=> In(i)
    <2>1. \A i \in Ids : In(i) => now[i].place \in Folders
      BY <1>1, <1>7 DEF Folders
    <2>2. now \in PhotosType
      BY <1>4, <1>7 DEF PhotosType
    <2> QED
      BY <1>7, <2>1, <2>2, PlacedIs DEF Placed
  <1>10. now \in PhotosType
    BY <1>4, <1>7 DEF PhotosType
  <1>11. Timed(now)
    BY <1>7 DEF Timed
  <1>12. Sourced(now)
    BY <1>7 DEF Sourced
  <1>13. Sorted_(now)
    BY <1>7, <1>8, <1>9 DEF Sorted_, NoIssue
  <1>14. GpsInFolders(now)
    BY <1>8, <1>9 DEF GpsInFolders
  <1> QED
    BY <1>10, <1>11, <1>12, <1>13, <1>14 DEF Assigned, now

-----------------------------------------------------------------------------
(* Merged folders.                                                         *)

\* The folders on the way from one to the end of its merges.
Leads(m, x, n, f) == f = [k \in 0 .. n |-> IF k = 0 THEN x ELSE Follow(m, f[k - 1])]

LEMMA WayExists ==
    ASSUME NEW n \in Nat, NEW m, NEW x
    PROVE  \E f : Leads(m, x, n, f)
  <1> DEFINE Holding == {k \in 0 .. n : \E f : Leads(m, x, k, f)}
  <1>1. 0 \in Holding
    <2> DEFINE f == [k \in 0 .. 0 |-> x]
    <2>1. f = [k \in 0 .. 0 |-> IF k = 0 THEN x ELSE Follow(m, f[k - 1])]
      OBVIOUS
    <2> HIDE DEF f
    <2>2. Leads(m, x, 0, f)
      BY <2>1 DEF Leads
    <2> QED
      BY <2>2
  <1>2. ASSUME NEW k \in 1 .. n, k - 1 \in Holding PROVE k \in Holding
    <2>1. PICK f : Leads(m, x, k - 1, f)
      BY <1>2
    <2> DEFINE next == Follow(m, f[k - 1])
    <2> DEFINE g == [l \in 0 .. k |-> IF l = k THEN next ELSE f[l]]
    <2>2. ASSUME NEW l \in 0 .. k
          PROVE  g[l] = IF l = 0 THEN x ELSE Follow(m, g[l - 1])
      <3>1. CASE l = k
        <4>1. g[l] = next /\ g[l - 1] = f[k - 1] /\ l # 0
          BY <3>1
        <4> QED
          BY <4>1
      <3>2. CASE l # k
        <4>1. l \in 0 .. k - 1 /\ g[l] = f[l]
          BY <3>2
        <4>2. l # 0 => g[l - 1] = f[l - 1]
          BY <3>2
        <4>3. f[l] = IF l = 0 THEN x ELSE Follow(m, f[l - 1])
          BY <2>1, <4>1 DEF Leads
        <4> QED
          BY <4>1, <4>2, <4>3
      <3> QED
        BY <3>1, <3>2
    <2>3. g = [l \in 0 .. k |-> g[l]]
      OBVIOUS
    <2> HIDE DEF g
    <2>4. Leads(m, x, k, g)
      BY <2>2, <2>3 DEF Leads
    <2> QED
      BY <2>4
  <1> HIDE DEF Holding
  <1>3. \A k \in 1 .. n : k - 1 \in Holding => k \in Holding
    BY <1>2
  <1>4. \A k \in 0 .. n : k \in Holding
    BY <1>1, <1>3, UpTo
  <1> QED
    BY <1>4 DEF Holding

\* The end of the merges, and the way to it.
LEMMA CanonIs ==
    ASSUME NEW m, IsFiniteSet(DOMAIN m), NEW x
    PROVE  \E way : /\ way[0] = x /\ CanonIn(m, x) = way[Cardinality(DOMAIN m)]
                    /\ \A k \in 1 .. Cardinality(DOMAIN m) : way[k] = Follow(m, way[k - 1])
  <1> DEFINE n == Cardinality(DOMAIN m)
  <1>1. n \in Nat
    BY FS_CardinalityType
  <1> DEFINE way == CHOOSE f : Leads(m, x, n, f)
  <1>2. Leads(m, x, n, way)
    <2> HIDE DEF n
    <2> QED
      BY <1>1, WayExists
  <1>3. CanonIn(m, x) = way[n]
    BY DEF CanonIn, Leads
  <1> HIDE DEF way
  <1>4. way[0] = x /\ \A k \in 1 .. n : way[k] = Follow(m, way[k - 1])
    <2> HIDE DEF n
    <2>1. \A k \in 0 .. n : way[k] = IF k = 0 THEN x ELSE Follow(m, way[k - 1])
      BY <1>2 DEF Leads
    <2> QED
      BY <1>1, <2>1
  <1> QED
    BY <1>3, <1>4

\* A folder that was not merged is its own end.
LEMMA CanonOfRoot ==
    ASSUME NEW m, IsFiniteSet(DOMAIN m), NEW x, x \notin DOMAIN m
    PROVE  CanonIn(m, x) = x
  <1> DEFINE n == Cardinality(DOMAIN m)
  <1>1. n \in Nat
    BY FS_CardinalityType
  <1>2. PICK way : /\ way[0] = x /\ CanonIn(m, x) = way[n]
                   /\ \A k \in 1 .. n : way[k] = Follow(m, way[k - 1])
    BY CanonIs
  <1> HIDE DEF n
  <1> DEFINE Holding == {k \in 0 .. n : way[k] = x}
  <1>3. 0 \in Holding /\ \A k \in 1 .. n : k - 1 \in Holding => k \in Holding
    BY <1>1, <1>2 DEF Follow
  <1> HIDE DEF Holding
  <1>4. \A k \in 0 .. n : k \in Holding
    BY <1>1, <1>3, UpTo
  <1>5. n \in Holding
    BY <1>1, <1>4
  <1> QED
    BY <1>2, <1>5 DEF Holding

\* After one more merge, what ended there ends where it was merged into.
LEMMA CanonOfExtended ==
    ASSUME NEW m, IsFiniteSet(DOMAIN m), NEW x, x \notin DOMAIN m,
           NEW a, a \notin DOMAIN m, a # x,
           NEW y, CanonIn(m, y) \notin DOMAIN m
    PROVE  CanonIn(Extend(m, x, a), y) = IF CanonIn(m, y) = x THEN a ELSE CanonIn(m, y)
  <1> DEFINE n == Cardinality(DOMAIN m)
  <1> DEFINE now == Extend(m, x, a)
  <1>1. /\ DOMAIN now = DOMAIN m \cup {x}
        /\ now[x] = a /\ \A z \in DOMAIN m : now[z] = m[z]
    BY DEF Extend
  <1> HIDE DEF now
  <1>2. n \in Nat /\ IsFiniteSet(DOMAIN now) /\ Cardinality(DOMAIN now) = n + 1
    BY <1>1, FS_CardinalityType, FS_AddElement
  <1>3. PICK old : /\ old[0] = y /\ CanonIn(m, y) = old[n]
                   /\ \A k \in 1 .. n : old[k] = Follow(m, old[k - 1])
    BY CanonIs
  <1>4. PICK new : /\ new[0] = y /\ CanonIn(now, y) = new[n + 1]
                   /\ \A k \in 1 .. n + 1 : new[k] = Follow(now, new[k - 1])
    BY <1>2, CanonIs
  <1> HIDE DEF n
  <1>5. /\ Follow(m, x) = x /\ Follow(now, x) = a /\ Follow(now, a) = a
        /\ \A z : z # x => Follow(now, z) = Follow(m, z)
    BY <1>1 DEF Follow
  <1> DEFINE Holding == {k \in 0 .. n : new[k] = old[k] \/ (old[k] = x /\ new[k] = a)}
  <1>6. 0 \in Holding
    BY <1>2, <1>3, <1>4
  <1>7. \A k \in 1 .. n : k - 1 \in Holding => k \in Holding
    <2> TAKE k \in 1 .. n
    <2> HAVE k - 1 \in Holding
    <2>1. old[k] = Follow(m, old[k - 1]) /\ new[k] = Follow(now, new[k - 1])
      BY <1>2, <1>3, <1>4
    <2> QED
      BY <1>5, <2>1
  <1> HIDE DEF Holding
  <1>8. \A k \in 0 .. n : k \in Holding
    BY <1>2, <1>6, <1>7, UpTo
  <1>9. new[n] = old[n] \/ (old[n] = x /\ new[n] = a)
    <2>1. n \in Holding
      BY <1>2, <1>8
    <2> QED
      BY <2>1 DEF Holding
  <1>10. new[n + 1] = Follow(now, new[n])
    <2>1. n + 1 \in 1 .. n + 1 /\ (n + 1) - 1 = n
      BY <1>2
    <2>2. new[n + 1] = Follow(now, new[(n + 1) - 1])
      BY <1>4, <2>1
    <2> QED
      BY <2>1, <2>2
  <1>11. old[n] \notin DOMAIN m
    BY <1>3
  <1>12. old[n] # x => Follow(now, old[n]) = old[n]
    BY <1>1, <1>11 DEF Follow
  <1> QED
    BY <1>3, <1>4, <1>5, <1>9, <1>10, <1>12 DEF now

LEMMA ForestIs ==
    ASSUME NEW F, NEW m
    PROVE  m \in Forests(F) <=> DOMAIN m \in SUBSET F /\ m \in [DOMAIN m -> F]
  BY DEF Forests

\* The merges after `old', of folders P that have photos and were not merged.
Coarsenings(old, F, P) ==
    {now \in Forests(F) :
        /\ IsFiniteSet(DOMAIN now) /\ DOMAIN now \subseteq DOMAIN old \cup P
        /\ \A y \in F : /\ CanonIn(now, y) \in F \ DOMAIN now
                        /\ CanonIn(now, y) = CanonIn(now, CanonIn(old, y))
        /\ \A y \in P : CanonIn(now, y) \in P}

\* Those on the way of one group, after `m': each goes into the first one.
Joinings(old, F, P, m, first) ==
    {was \in Coarsenings(old, F, P) :
        first \notin DOMAIN was /\ \A z \in DOMAIN was \ DOMAIN m : was[z] = first}

\* What `old' has to be.
Ordered(old, F, P) ==
    P \in SUBSET F /\ DOMAIN old \subseteq F /\ \A y \in F : CanonIn(old, y) \in F

\* One folder is merged into the first of its group, or has been already.
LEMMA IntoKeeps ==
    ASSUME NEW F, NEW P, NEW old, Ordered(old, F, P), NEW m,
           NEW first \in P \ DOMAIN m, NEW x \in P \ DOMAIN m,
           NEW was \in Joinings(old, F, P, m, first)
    PROVE  MergeInto(was, first, x) \in Joinings(old, F, P, m, first)
  <1> DEFINE now == MergeInto(was, first, x)
  <1>1. /\ was \in Forests(F) /\ IsFiniteSet(DOMAIN was) /\ DOMAIN was \subseteq DOMAIN old \cup P
        /\ \A y \in F : /\ CanonIn(was, y) \in F \ DOMAIN was
                        /\ CanonIn(was, y) = CanonIn(was, CanonIn(old, y))
        /\ \A y \in P : CanonIn(was, y) \in P
        /\ first \notin DOMAIN was /\ \A z \in DOMAIN was \ DOMAIN m : was[z] = first
    BY DEF Joinings, Coarsenings
  <1>2. /\ first \in F /\ x \in F /\ P \subseteq F
        /\ DOMAIN old \subseteq F /\ \A y \in F : CanonIn(old, y) \in F
    BY DEF Ordered
  <1>3. DOMAIN was \in SUBSET F /\ was \in [DOMAIN was -> F]
    BY <1>1, ForestIs
  <1>4. CanonIn(was, first) = first
    BY <1>1, CanonOfRoot
  <1>5. now = IF x = first THEN was ELSE Extend(was, x, first)
    BY <1>4 DEF MergeInto
  <1> HIDE DEF now
  <1>6. CASE x = first
    BY <1>5, <1>6 DEF now
  <1>7. CASE x # first /\ x \in DOMAIN was
    <2>1. was[x] = first
      BY <1>1, <1>7
    <2>2. Extend(was, x, first) = was
      BY <1>3, <1>7, <2>1 DEF Extend
    <2> QED
      BY <1>5, <1>7, <2>2 DEF now
  <1>8. CASE x # first /\ x \notin DOMAIN was
    <2>1. now = [z \in DOMAIN was \cup {x} |-> IF z = x THEN first ELSE was[z]]
      BY <1>5, <1>8 DEF Extend
    <2>2. /\ DOMAIN now = DOMAIN was \cup {x} /\ now[x] = first
          /\ \A z \in DOMAIN was : now[z] = was[z]
      BY <1>8, <2>1
    <2>3. now \in Forests(F)
      <3>1. now \in [DOMAIN was \cup {x} -> F]
        BY <1>2, <1>3, <2>1
      <3> QED
        BY <1>2, <1>3, <2>2, <3>1, ForestIs
    <2>4. IsFiniteSet(DOMAIN now) /\ DOMAIN now \subseteq DOMAIN old \cup P
      BY <1>1, <2>2, FS_AddElement
    <2>5. \A y \in F : CanonIn(now, y) = IF CanonIn(was, y) = x THEN first ELSE CanonIn(was, y)
      BY <1>1, <1>5, <1>8, CanonOfExtended
    <2>6. ASSUME NEW y \in F
          PROVE  /\ CanonIn(now, y) \in F \ DOMAIN now
                 /\ CanonIn(now, y) = CanonIn(now, CanonIn(old, y))
      <3>1. CanonIn(now, y) \in F \ DOMAIN now
        BY <1>1, <1>2, <1>8, <2>2, <2>5
      <3>2. CanonIn(now, y) = CanonIn(now, CanonIn(old, y))
        BY <1>1, <1>2, <2>5
      <3> QED
        BY <3>1, <3>2
    <2>7. \A y \in P : CanonIn(now, y) \in P
      BY <1>1, <1>2, <2>5
    <2>8. first \notin DOMAIN now /\ \A z \in DOMAIN now \ DOMAIN m : now[z] = first
      BY <1>1, <1>8, <2>2
    <2> QED
      BY <2>3, <2>4, <2>6, <2>7, <2>8 DEF Joinings, Coarsenings, now
  <1> QED
    BY <1>6, <1>7, <1>8

\* The folders of a group, where earlier groups have taken them.
Ends(m, group) == [k \in 1 .. Len(group) |-> CanonIn(m, group[k])]

LEMMA EndsAre ==
    ASSUME NEW F, NEW P, NEW old, Ordered(old, F, P), NEW m \in Coarsenings(old, F, P),
           NEW group \in Seq(P), group # <<>>
    PROVE  /\ Ends(m, group)[1] \in P \ DOMAIN m
           /\ Tail(Ends(m, group)) \in Seq(P \ DOMAIN m)
           /\ \A k \in DOMAIN Tail(Ends(m, group)) : Tail(Ends(m, group))[k] \in P \ DOMAIN m
           /\ m \in Joinings(old, F, P, m, Ends(m, group)[1])
  <1> DEFINE ids == Ends(m, group)
  <1>1. \A y \in P : CanonIn(m, y) \in P \ DOMAIN m
    BY DEF Coarsenings, Ordered
  <1>2. Len(group) \in Nat \ {0} /\ \A k \in 1 .. Len(group) : group[k] \in P
    OBVIOUS
  <1>3. ids \in [1 .. Len(group) -> P \ DOMAIN m]
    BY <1>1, <1>2 DEF Ends
  <1> HIDE DEF ids
  <1>4. ids \in Seq(P \ DOMAIN m) /\ Len(ids) = Len(group) /\ ids # <<>>
    BY <1>2, <1>3
  <1>5. Tail(ids) \in Seq(P \ DOMAIN m)
    BY <1>4
  <1>6. \A k \in DOMAIN Tail(ids) : Tail(ids)[k] \in P \ DOMAIN m
    BY <1>5
  <1>7. ids[1] \in P \ DOMAIN m
    BY <1>2, <1>3
  <1>8. m \in Joinings(old, F, P, m, ids[1])
    BY <1>7 DEF Joinings
  <1> QED
    BY <1>5, <1>6, <1>7, <1>8 DEF ids

\* A group is merged one by one.
LEMMA IntoSteps ==
    ASSUME NEW F, NEW P, NEW old, Ordered(old, F, P), NEW m \in Coarsenings(old, F, P),
           NEW group \in Seq(P), group # <<>>
    PROVE  \E acc \in [0 .. Len(Tail(Ends(m, group))) -> Joinings(old, F, P, m, Ends(m, group)[1])] :
              /\ acc[0] = m /\ acc[Len(Tail(Ends(m, group)))] = MergeGroup(m, group)
              /\ \A n \in 1 .. Len(Tail(Ends(m, group))) :
                   acc[n] = MergeInto(acc[n - 1], Ends(m, group)[1], Tail(Ends(m, group))[n])
  <1> DEFINE Acc == Joinings(old, F, P, m, Ends(m, group)[1])
  <1> DEFINE seq == Tail(Ends(m, group))
  <1> DEFINE base == m
  <1> DEFINE step == [ax \in Acc \X (P \ DOMAIN m) |-> MergeInto(ax[1], Ends(m, group)[1], ax[2])]
  <1> DEFINE Eq(f) == f = [s \in SUBSET DOMAIN seq |-> IF s = {} THEN base
                             ELSE MergeInto(f[s \ {Max(s)}], Ends(m, group)[1], seq[Max(s)])]
  <1>1. MergeGroup(m, group) = (CHOOSE f : Eq(f))[DOMAIN seq]
    BY DEF MergeGroup, Ends, FoldLeft, MapThenFoldSet
  <1>2. step \in [Acc \X (P \ DOMAIN m) -> Acc]
    <2> DEFINE first == Ends(m, group)[1]
    <2>1. first \in P \ DOMAIN m
      BY EndsAre
    <2> HIDE DEF first
    <2>2. \A a \in Joinings(old, F, P, m, first), x \in P \ DOMAIN m :
            MergeInto(a, first, x) \in Joinings(old, F, P, m, first)
      BY <2>1, IntoKeeps
    <2> QED
      BY <2>2 DEF first
  <1>3. \A a \in Acc, x \in (P \ DOMAIN m) : step[<<a, x>>] = MergeInto(a, Ends(m, group)[1], x)
    OBVIOUS
  <1>4. seq \in Seq((P \ DOMAIN m)) /\ \A k \in DOMAIN seq : seq[k] \in (P \ DOMAIN m)
    BY EndsAre
  <1>5. base \in Acc
    BY EndsAre
  <1> HIDE DEF Acc, seq, base, step
  <1>6. PICK fold \in [SUBSET DOMAIN seq -> Acc] : FoldsLeft(fold, seq, base, step)
    BY <1>2, <1>4, <1>5, FoldLeftExists
  <1>7. \A s \in SUBSET DOMAIN seq :
            /\ s # {} => Max(s) \in s
            /\ fold[s] = IF s = {} THEN base ELSE step[<<fold[s \ {Max(s)}], seq[Max(s)]>>]
    BY <1>6 DEF FoldsLeft
  <1>8. Eq(fold)
    <2>1. \A s \in SUBSET DOMAIN seq : fold[s] = IF s = {} THEN base
                                     ELSE MergeInto(fold[s \ {Max(s)}], Ends(m, group)[1], seq[Max(s)])
      <3> TAKE s \in SUBSET DOMAIN seq
      <3>1. s # {} => fold[s \ {Max(s)}] \in Acc /\ seq[Max(s)] \in (P \ DOMAIN m)
        BY <1>4, <1>6, <1>7
      <3> QED
        BY <1>3, <1>7, <3>1
    <2> QED
      BY <2>1
  <1> DEFINE iter == CHOOSE f : Eq(f)
  <1>9. Eq(iter)
    <2> HIDE DEF Eq
    <2> QED
      BY <1>8
  <1>10. MergeGroup(m, group) = iter[DOMAIN seq]
    BY <1>1
  <1> HIDE DEF iter
  <1>11. \A s \in SUBSET DOMAIN seq : iter[s] = IF s = {} THEN base
                                     ELSE MergeInto(iter[s \ {Max(s)}], Ends(m, group)[1], seq[Max(s)])
    <2> TAKE s \in SUBSET DOMAIN seq
    <2> DEFINE val(f, t) == IF t = {} THEN base ELSE MergeInto(f[t \ {Max(t)}], Ends(m, group)[1], seq[Max(t)])
    <2>1. iter = [t \in SUBSET DOMAIN seq |-> val(iter, t)]
      BY <1>9
    <2> HIDE DEF val
    <2>2. iter[s] = val(iter, s)
      BY <2>1
    <2> QED
      BY <2>2 DEF val
  <1>12. FollowsIn(Acc, iter, seq, step)
    <2>1. ASSUME NEW s \in SUBSET DOMAIN seq, s # {}, iter[s \ {Max(s)}] \in Acc
          PROVE  iter[s] = step[<<iter[s \ {Max(s)}], seq[Max(s)]>>]
      <3>1. seq[Max(s)] \in (P \ DOMAIN m)
        BY <1>4, <1>7, <2>1
      <3> QED
        BY <1>3, <1>11, <2>1, <3>1
    <2> QED
      BY <2>1 DEF FollowsIn
  <1>13. iter[{}] = base
    BY <1>11
  <1>14. PICK acc \in [0 .. Len(seq) -> Acc] : StepsLeft(acc, iter, seq, base, step)
    BY <1>2, <1>4, <1>5, <1>12, <1>13, FoldLeftSteps
  <1>15. Len(seq) \in Nat /\ DOMAIN seq = 1 .. Len(seq)
    BY <1>4
  <1>16. ASSUME NEW n \in 1 .. Len(seq)
         PROVE  acc[n] = MergeInto(acc[n - 1], Ends(m, group)[1], seq[n])
    <2>1. acc[n - 1] \in Acc /\ seq[n] \in (P \ DOMAIN m)
      BY <1>4, <1>14, <1>15
    <2>2. acc[n] = step[<<acc[n - 1], seq[n]>>]
      BY <1>14 DEF StepsLeft
    <2> QED
      BY <1>3, <2>1, <2>2
  <1>17. acc[0] = base /\ acc[Len(seq)] = MergeGroup(m, group)
    BY <1>10, <1>14 DEF StepsLeft
  <1> HIDE DEF Eq
  <1> QED
    BY <1>14, <1>16, <1>17 DEF Acc, seq, base

LEMMA GroupKeeps ==
    ASSUME NEW F, NEW P, NEW old, Ordered(old, F, P), NEW m \in Coarsenings(old, F, P),
           NEW group \in Seq(P), group # <<>>
    PROVE  MergeGroup(m, group) \in Coarsenings(old, F, P)
  <1> DEFINE seq == Tail(Ends(m, group))
  <1>1. Len(seq) \in Nat
    BY EndsAre
  <1>2. \E acc \in [0 .. Len(seq) -> Joinings(old, F, P, m, Ends(m, group)[1])] :
          acc[Len(seq)] = MergeGroup(m, group)
    BY IntoSteps
  <1> HIDE DEF seq
  <1>3. MergeGroup(m, group) \in Joinings(old, F, P, m, Ends(m, group)[1])
    BY <1>1, <1>2
  <1> QED
    BY <1>3 DEF Joinings

\* And one group after the other.
GroupsOf(P) == Seq(P) \ {<<>>}

LEMMA MergeSteps ==
    ASSUME NEW F, NEW P, Ordered(merged, F, P), merged \in Coarsenings(merged, F, P),
           NEW groups \in Seq(GroupsOf(P))
    PROVE  \E acc \in [0 .. Len(groups) -> Coarsenings(merged, F, P)] :
              /\ acc[0] = merged /\ acc[Len(groups)] = MergeAll(groups)
              /\ \A n \in 1 .. Len(groups) : acc[n] = MergeGroup(acc[n - 1], groups[n])
  <1> DEFINE Acc == Coarsenings(merged, F, P)
  <1> DEFINE seq == groups
  <1> DEFINE base == merged
  <1> DEFINE step == [ax \in Acc \X GroupsOf(P) |-> MergeGroup(ax[1], ax[2])]
  <1> DEFINE Eq(f) == f = [s \in SUBSET DOMAIN seq |-> IF s = {} THEN base
                             ELSE MergeGroup(f[s \ {Max(s)}], seq[Max(s)])]
  <1>1. MergeAll(groups) = (CHOOSE f : Eq(f))[DOMAIN seq]
    BY DEF MergeAll, FoldLeft, MapThenFoldSet
  <1>2. step \in [Acc \X GroupsOf(P) -> Acc]
    BY GroupKeeps DEF GroupsOf
  <1>3. \A a \in Acc, x \in GroupsOf(P) : step[<<a, x>>] = MergeGroup(a, x)
    OBVIOUS
  <1>4. seq \in Seq(GroupsOf(P)) /\ \A k \in DOMAIN seq : seq[k] \in GroupsOf(P)
    OBVIOUS
  <1>5. base \in Acc
    OBVIOUS
  <1> HIDE DEF Acc, seq, base, step
  <1>6. PICK fold \in [SUBSET DOMAIN seq -> Acc] : FoldsLeft(fold, seq, base, step)
    BY <1>2, <1>4, <1>5, FoldLeftExists
  <1>7. \A s \in SUBSET DOMAIN seq :
            /\ s # {} => Max(s) \in s
            /\ fold[s] = IF s = {} THEN base ELSE step[<<fold[s \ {Max(s)}], seq[Max(s)]>>]
    BY <1>6 DEF FoldsLeft
  <1>8. Eq(fold)
    <2>1. \A s \in SUBSET DOMAIN seq : fold[s] = IF s = {} THEN base
                                     ELSE MergeGroup(fold[s \ {Max(s)}], seq[Max(s)])
      <3> TAKE s \in SUBSET DOMAIN seq
      <3>1. s # {} => fold[s \ {Max(s)}] \in Acc /\ seq[Max(s)] \in GroupsOf(P)
        BY <1>4, <1>6, <1>7
      <3> QED
        BY <1>3, <1>7, <3>1
    <2> QED
      BY <2>1
  <1> DEFINE iter == CHOOSE f : Eq(f)
  <1>9. Eq(iter)
    <2> HIDE DEF Eq
    <2> QED
      BY <1>8
  <1>10. MergeAll(groups) = iter[DOMAIN seq]
    BY <1>1
  <1> HIDE DEF iter
  <1>11. \A s \in SUBSET DOMAIN seq : iter[s] = IF s = {} THEN base
                                     ELSE MergeGroup(iter[s \ {Max(s)}], seq[Max(s)])
    <2> TAKE s \in SUBSET DOMAIN seq
    <2> DEFINE val(f, t) == IF t = {} THEN base ELSE MergeGroup(f[t \ {Max(t)}], seq[Max(t)])
    <2>1. iter = [t \in SUBSET DOMAIN seq |-> val(iter, t)]
      BY <1>9
    <2> HIDE DEF val
    <2>2. iter[s] = val(iter, s)
      BY <2>1
    <2> QED
      BY <2>2 DEF val
  <1>12. FollowsIn(Acc, iter, seq, step)
    <2>1. ASSUME NEW s \in SUBSET DOMAIN seq, s # {}, iter[s \ {Max(s)}] \in Acc
          PROVE  iter[s] = step[<<iter[s \ {Max(s)}], seq[Max(s)]>>]
      <3>1. seq[Max(s)] \in GroupsOf(P)
        BY <1>4, <1>7, <2>1
      <3> QED
        BY <1>3, <1>11, <2>1, <3>1
    <2> QED
      BY <2>1 DEF FollowsIn
  <1>13. iter[{}] = base
    BY <1>11
  <1>14. PICK acc \in [0 .. Len(seq) -> Acc] : StepsLeft(acc, iter, seq, base, step)
    BY <1>2, <1>4, <1>5, <1>12, <1>13, FoldLeftSteps
  <1>15. Len(seq) \in Nat /\ DOMAIN seq = 1 .. Len(seq)
    BY <1>4
  <1>16. ASSUME NEW n \in 1 .. Len(seq)
         PROVE  acc[n] = MergeGroup(acc[n - 1], seq[n])
    <2>1. acc[n - 1] \in Acc /\ seq[n] \in GroupsOf(P)
      BY <1>4, <1>14, <1>15
    <2>2. acc[n] = step[<<acc[n - 1], seq[n]>>]
      BY <1>14 DEF StepsLeft
    <2> QED
      BY <1>3, <2>1, <2>2
  <1>17. acc[0] = base /\ acc[Len(seq)] = MergeAll(groups)
    BY <1>10, <1>14 DEF StepsLeft
  <1> HIDE DEF Eq
  <1> QED
    BY <1>14, <1>16, <1>17 DEF Acc, seq, base

LEMMA AllKeep ==
    ASSUME NEW F, NEW P, Ordered(merged, F, P), merged \in Coarsenings(merged, F, P),
           NEW groups \in Seq(GroupsOf(P))
    PROVE  MergeAll(groups) \in Coarsenings(merged, F, P)
  <1>1. Len(groups) \in Nat
    OBVIOUS
  <1>2. \E acc \in [0 .. Len(groups) -> Coarsenings(merged, F, P)] :
          acc[Len(groups)] = MergeAll(groups)
    BY MergeSteps
  <1> QED
    BY <1>1, <1>2

\* Folders are old ones or new ones.
LEMMA KnownAre ==
    ASSUME NEW np \in Seq(Candidates)
    PROVE  Known(np) \subseteq Folders /\ NoPlace \notin Known(np)
  <1>1. Len(np) \in Nat
    OBVIOUS
  <1>2. NewPlaceIds(np) \subseteq NewFolders
    BY <1>1 DEF NewPlaceIds, NewFolders
  <1>3. NoPlace \notin Folders
    BY DEF NoPlace, Folders, OldFolders, NewFolders, Place
  <1> QED
    BY <1>2, <1>3 DEF Known, Folders

\* The agent's folders are those that photos are in.
LEMMA PlacesAre ==
    ASSUME Sorted_(photos), newPlaces \in Seq(Candidates), AgentGood(photos, newPlaces, merged)
    PROVE  /\ Places = PlacedIn(photos, merged)
           /\ Places \subseteq Known(newPlaces) \ DOMAIN merged
           /\ \A i \in Ids : Placed(photos, i) =>
                PlaceOf(i) = CanonIn(merged, photos[i].place) /\ PlaceOf(i) \in Places
  <1>1. \A i \in Ids : Placed(photos, i) =>
          /\ i \in TripPhotos /\ PlaceOf(i) = CanonIn(merged, photos[i].place)
          /\ PlaceOf(i) \in Known(newPlaces) \ DOMAIN merged /\ PlaceOf(i) # NoPlace
    <2> TAKE i \in Ids
    <2> HAVE Placed(photos, i)
    <2>1. i \in TripPhotos
      BY DEF Sorted_, TripPhotos
    <2>2. PlaceOf(i) = CanonIn(merged, photos[i].place)
      BY DEF PlaceOf, Canon
    <2>3. photos[i].place \in Known(newPlaces)
      BY DEF AgentGood, FoldersAreReal
    <2>4. PlaceOf(i) \in Known(newPlaces) \ DOMAIN merged
      BY <2>2, <2>3 DEF AgentGood, MergedWell
    <2> QED
      BY <2>1, <2>2, <2>4, KnownAre
  <1>2. \A i \in Ids : ~Placed(photos, i) => PlaceOf(i) = NoPlace
    BY DEF PlaceOf
  <1>3. TripPhotos \subseteq Ids
    BY DEF TripPhotos
  <1>4. Places = PlacedIn(photos, merged)
    BY <1>1, <1>2, <1>3 DEF Places, PlacedIn
  <1> QED
    BY <1>1, <1>2, <1>3, <1>4 DEF Places

\* graph.py, merge: photos stay in folders that have photos; the folders that
\* were a new place or had a GPS photo still are or have.
LEMMA MergesSettle ==
    ASSUME Sorted_(photos), newPlaces \in Seq(Candidates), merged \in Forests(Folders),
           AgentGood(photos, newPlaces, merged),
           NEW n \in Nat, NEW groups \in [1 .. n -> Groups]
    PROVE  MergeAll(groups) \in Forests(Folders) /\ AgentGood(photos, newPlaces, MergeAll(groups))
  <1> DEFINE F == Known(newPlaces)
             P == Places
             now == MergeAll(groups)
  <1>1. P = PlacedIn(photos, merged) /\ P \subseteq F \ DOMAIN merged /\ F \subseteq Folders
    BY PlacesAre, KnownAre
  <1>2. /\ merged \in Forests(F) /\ IsFiniteSet(DOMAIN merged)
        /\ \A x \in F : CanonIn(merged, x) \in F \ DOMAIN merged
        /\ \A x \in DOMAIN merged : CanonIn(merged, x) \in P
    BY <1>1 DEF AgentGood, MergedWell
  <1>3. /\ \A i \in Ids : Placed(photos, i) =>
             photos[i].place \in F /\ CanonIn(merged, photos[i].place) \in P
        /\ \A x \in P : \E i \in Ids :
             Placed(photos, i) /\ x = CanonIn(merged, photos[i].place)
    BY <1>1 DEF PlacedIn, AgentGood, FoldersAreReal
  <1>4. \A i \in Ids : Placed(photos, i) =>
          LET x == CanonIn(merged, photos[i].place) IN
            /\ x \in NewPlaceIds(newPlaces) \/ ExifIn(photos, merged, x) # {}
            /\ photos[i].origin = "INFERRED" =>
                 \/ \E j \in ExifIn(photos, merged, x) : photos[j].coord = photos[i].coord
                 \/ \E k \in 1 .. Len(newPlaces) :
                      /\ CanonIn(merged, Place("n", k)) = x
                      /\ SpotOf[newPlaces[k]] = photos[i].coord
    BY DEF AgentGood, FoldersAreReal
  <1>5. \A k \in 1 .. Len(newPlaces) : Place("n", k) \in F
    BY DEF Known, NewPlaceIds
  <1>6. groups \in Seq(GroupsOf(P))
    <2>1. \A g \in Groups : g \in GroupsOf(P)
      <3> TAKE g \in Groups
      <3>1. PICK k \in 2 .. 3 : g \in [1 .. k -> P]
        BY DEF Groups
      <3>2. g \in Seq(P) /\ Len(g) = k /\ k # 0
        BY <3>1
      <3>3. g # <<>>
        BY <3>2
      <3> QED
        BY <3>2, <3>3 DEF GroupsOf
    <2> HIDE DEF P
    <2> QED
      BY <2>1
  <1> HIDE DEF F, P, now
  <1>7. Ordered(merged, F, P)
    BY <1>1, <1>2, ForestIs DEF Ordered
  <1>8. merged \in Coarsenings(merged, F, P)
    <2>1. \A x : x \notin DOMAIN merged => CanonIn(merged, x) = x
      BY <1>2, CanonOfRoot
    <2> QED
      BY <1>1, <1>2, <2>1 DEF Coarsenings
  <1>9. now \in Coarsenings(merged, F, P)
    BY <1>6, <1>7, <1>8, AllKeep DEF now
  <1>10. /\ now \in Forests(F) /\ IsFiniteSet(DOMAIN now) /\ DOMAIN now \subseteq DOMAIN merged \cup P
         /\ \A y \in F : /\ CanonIn(now, y) \in F \ DOMAIN now
                         /\ CanonIn(now, y) = CanonIn(now, CanonIn(merged, y))
         /\ \A y \in P : CanonIn(now, y) \in P
    BY <1>9 DEF Coarsenings
  <1>11. \A x \in DOMAIN merged : x \in F
    BY <1>2, ForestIs
  <1>12. MergedWell(photos, newPlaces, now)
    <2>1. ASSUME NEW x \in DOMAIN now PROVE CanonIn(now, x) \in PlacedIn(photos, now)
      <3>1. \E y \in P : CanonIn(now, x) = CanonIn(now, y)
        <4>1. CASE x \in DOMAIN merged
          BY <1>2, <1>10, <1>11, <4>1
        <4>2. CASE x \in P
          BY <4>2
        <4> QED
          BY <1>10, <4>1, <4>2
      <3>2. PICK i \in Ids : /\ Placed(photos, i)
                             /\ CanonIn(now, x) = CanonIn(now, CanonIn(merged, photos[i].place))
        BY <1>3, <3>1
      <3>3. CanonIn(now, x) = CanonIn(now, photos[i].place)
        BY <1>3, <1>10, <3>2
      <3> QED
        BY <3>2, <3>3 DEF PlacedIn
    <2> QED
      BY <1>10, <2>1 DEF MergedWell, F
  <1>13. ASSUME NEW i \in Ids, Placed(photos, i)
         PROVE  LET x == CanonIn(now, photos[i].place) IN
                /\ photos[i].place \in F
                /\ x \in NewPlaceIds(newPlaces) \/ ExifIn(photos, now, x) # {}
                /\ photos[i].origin = "INFERRED" =>
                     \/ \E j \in ExifIn(photos, now, x) : photos[j].coord = photos[i].coord
                     \/ \E k \in 1 .. Len(newPlaces) :
                          /\ CanonIn(now, Place("n", k)) = x
                          /\ SpotOf[newPlaces[k]] = photos[i].coord
    <2> DEFINE old == CanonIn(merged, photos[i].place)
               x == CanonIn(now, photos[i].place)
    <2>1. photos[i].place \in F /\ old \in P /\ x = CanonIn(now, old) /\ x \in P
      BY <1>3, <1>10, <1>13
    <2> HIDE DEF x, old
    <2>2. \A y \in P : \A j \in ExifIn(photos, merged, y) : j \in ExifIn(photos, now, CanonIn(now, y))
      BY <1>3, <1>10 DEF ExifIn
    <2>3. x \in NewPlaceIds(newPlaces) \/ ExifIn(photos, now, x) # {}
      <3>1. PICK l \in Ids : Placed(photos, l) /\ x = CanonIn(merged, photos[l].place)
        BY <1>3, <2>1
      <3>2. CanonIn(now, x) = x
        BY <1>1, <1>10, <2>1, CanonOfRoot DEF x
      <3> QED
        BY <1>4, <2>1, <2>2, <3>1, <3>2
    <2>4. CASE \E j \in ExifIn(photos, merged, old) : photos[j].coord = photos[i].coord
      BY <2>1, <2>2, <2>3, <2>4 DEF x
    <2>5. CASE \E k \in 1 .. Len(newPlaces) :
                  /\ CanonIn(merged, Place("n", k)) = old
                  /\ SpotOf[newPlaces[k]] = photos[i].coord
      <3>1. PICK k \in 1 .. Len(newPlaces) : /\ CanonIn(merged, Place("n", k)) = old
                                             /\ SpotOf[newPlaces[k]] = photos[i].coord
        BY <2>5
      <3>2. CanonIn(now, Place("n", k)) = x
        BY <1>5, <1>10, <2>1, <3>1
      <3> QED
        BY <2>1, <2>3, <3>1, <3>2 DEF x
    <2>6. \/ photos[i].origin # "INFERRED"
          \/ \E j \in ExifIn(photos, merged, old) : photos[j].coord = photos[i].coord
          \/ \E k \in 1 .. Len(newPlaces) : /\ CanonIn(merged, Place("n", k)) = old
                                            /\ SpotOf[newPlaces[k]] = photos[i].coord
      BY <1>4, <1>13 DEF old
    <2> QED
      BY <2>1, <2>3, <2>4, <2>5, <2>6 DEF x
  <1>14. FoldersAreReal(photos, newPlaces, now)
    BY <1>13 DEF FoldersAreReal, F
  <1>15. now \in Forests(Folders)
    <2>1. DOMAIN now \in SUBSET F /\ now \in [DOMAIN now -> F]
      BY <1>10, ForestIs
    <2>2. DOMAIN now \in SUBSET Folders /\ now \in [DOMAIN now -> Folders]
      BY <1>1, <2>1
    <2> QED
      BY <2>2, ForestIs
  <1> QED
    BY <1>12, <1>14, <1>15 DEF AgentGood, now

-----------------------------------------------------------------------------
(* The proposals of the model.                                             *)

\* The agent works on photos in folders.
AgentState ==
    /\ InputOK /\ photos \in PhotosType /\ newPlaces \in Seq(Candidates)
    /\ merged \in Forests(Folders)
    /\ Assigned(photos) /\ AgentGood(photos, newPlaces, merged)

\* trip.py, assign: a photo goes into a folder that has a GPS photo or is a new
\* place, and has its coordinates; nothing is raised.
LEMMA AssignKeeps ==
    ASSUME InputOK, IsFiniteSet(DOMAIN merged),
           NEW ph \in PhotosType, NEW np \in Seq(Candidates),
           \A j \in Ids : ph[j].taken = photos[j].taken,
           Assigned(ph), FoldersAreReal(ph, np, merged),
           NEW i \in Ids, ~HasGps(i), InPeriod(ph, i),
           NEW x, Canon(x) \in Known(np) \ DOMAIN merged,
           Canon(x) \in NewPlaceIds(np) \/ ExifIn(ph, merged, Canon(x)) # {}
    PROVE  LET now == Assign(ph, np, i, x)
           IN  /\ now \in PhotosType /\ Assigned(now) /\ FoldersAreReal(now, np, merged)
               /\ \A j \in Ids : now[j].taken = ph[j].taken
               /\ \A j \in Ids \ {i} : now[j] = ph[j]
  <1> DEFINE now == Assign(ph, np, i, x)
             folder == Canon(x)
             anchors == ExifIn(ph, merged, folder)
  <1>1. folder \in Folders /\ folder \in Known(np) \ DOMAIN merged
    BY KnownAre
  <1>2. CanonIn(merged, folder) = folder
    BY CanonOfRoot
  <1>3. \A j \in anchors : /\ j \in Ids /\ ph[j].origin = "EXIF" /\ Placed(ph, j) /\ j # i
                           /\ ph[j].coord \in Optional /\ ph[j].coord # None
                           /\ CanonIn(merged, ph[j].place) = folder
    BY InputIs DEF ExifIn, Assigned, Sourced, HasGps
  <1>4. Exif(ph, {j \in TripPhotos : Placed(ph, j) /\ Canon(ph[j].place) = folder}) = anchors
    <2>1. \A j \in Ids : Placed(ph, j) => j \in TripPhotos
      BY DEF Assigned, Sorted_, InPeriod, TripPhotos
    <2>2. TripPhotos \subseteq Ids
      BY DEF TripPhotos
    <2> HIDE DEF folder
    <2> QED
      BY <2>1, <2>2 DEF Exif, ExifIn, Canon
  <1>5. \E at \in Optional \ {None} :
          /\ now = Put(ph, i, folder, at)
          /\ \/ \E j \in anchors : ph[j].coord = at
             \/ /\ folder \in NewPlaceIds(np)
                /\ \E k \in 1 .. Len(np) : folder = Place("n", k) /\ SpotOf[np[k]] = at
    <2>1. now = IF anchors # {} THEN Put(ph, i, folder, ph[MostSimilar(i, anchors)].coord)
                ELSE IF folder \in NewPlaceIds(np)
                THEN Put(ph, i, folder, SpotOf[np[folder[2]]])
                ELSE Raise(ph, i)
      BY <1>4 DEF Assign
    <2> HIDE DEF now, folder
    <2>2. CASE anchors # {}
      <3>1. anchors \in SUBSET Ids
        BY DEF ExifIn
      <3>2. MostSimilar(i, anchors) \in anchors
        BY <2>2, <3>1, MostSimilarIs
      <3> HIDE DEF anchors
      <3> QED
        BY <1>3, <2>1, <2>2, <3>2
    <2>3. CASE anchors = {}
      <3>1. PICK k \in 1 .. Len(np) : folder = Place("n", k)
        BY <2>3 DEF NewPlaceIds, folder
      <3>2. folder[2] = k
        BY <3>1 DEF Place
      <3>3. np[k] \in Candidates
        OBVIOUS
      <3>4. SpotOf[np[k]] \in Int
        BY <3>3, AgentAssumption
      <3>5. SpotOf[np[k]] \in Optional \ {None}
        BY <3>4, RulesAssumption DEF Optional
      <3>6. folder \in NewPlaceIds(np)
        BY <3>1 DEF NewPlaceIds
      <3> QED
        BY <2>1, <2>3, <3>1, <3>2, <3>5, <3>6
    <2> QED
      BY <2>2, <2>3
  <1> HIDE DEF now, anchors
  <1>6. PICK at \in Optional \ {None} :
          /\ now = Put(ph, i, folder, at)
          /\ \/ \E j \in anchors : ph[j].coord = at
             \/ /\ folder \in NewPlaceIds(np)
                /\ \E k \in 1 .. Len(np) : folder = Place("n", k) /\ SpotOf[np[k]] = at
    BY <1>5
  <1> HIDE DEF folder
  <1>7. /\ now \in PhotosType
        /\ \A j \in Ids \ {i} : now[j] = ph[j]
        /\ now[i].taken = ph[i].taken /\ now[i].status = ph[i].status
        /\ now[i].place = folder /\ now[i].coord = at
        /\ now[i].origin = "INFERRED" /\ now[i].issue = NoIssue
    BY <1>1, <1>6, PutIs
  <1>8. \A j \in Ids : now[j].taken = ph[j].taken
    BY <1>7
  <1>9. Timed(now) /\ Sourced(now)
    BY <1>7 DEF Assigned, Timed, Sourced
  <1>10. \A j \in Ids : Placed(now, j) <=> j = i \/ Placed(ph, j)
    <2>1. Placed(now, i)
      BY <1>1, <1>7, PlacedIs
    <2> QED
      BY <1>7, <2>1 DEF Placed
  <1>11. Sorted_(now)
    <2>1. \A j \in Ids : InPeriod(now, j) <=> InPeriod(ph, j)
      BY <1>8 DEF InPeriod
    <2> QED
      BY <1>6, <1>7, <1>10, <2>1 DEF Assigned, Sorted_, NoIssue
  <1>12. \A y : \A j \in ExifIn(ph, merged, y) : j \in ExifIn(now, merged, y) /\ now[j] = ph[j]
    <2>1. \A j \in Ids : ph[j].origin = "EXIF" => j # i
      BY DEF Assigned, Sourced
    <2> QED
      BY <1>7, <1>10, <2>1 DEF ExifIn
  <1>13. FoldersAreReal(now, np, merged)
    <2>1. ASSUME NEW j \in Ids, j # i, Placed(now, j)
          PROVE  LET y == CanonIn(merged, now[j].place) IN
                 /\ now[j].place \in Known(np)
                 /\ y \in NewPlaceIds(np) \/ ExifIn(now, merged, y) # {}
                 /\ now[j].origin = "INFERRED" =>
                      \/ \E l \in ExifIn(now, merged, y) : now[l].coord = now[j].coord
                      \/ \E k \in 1 .. Len(np) : /\ CanonIn(merged, Place("n", k)) = y
                                                 /\ SpotOf[np[k]] = now[j].coord
      <3>1. now[j] = ph[j] /\ Placed(ph, j)
        BY <1>7, <1>10, <2>1
      <3>2. LET y == CanonIn(merged, ph[j].place) IN
                 /\ ph[j].place \in Known(np)
                 /\ y \in NewPlaceIds(np) \/ ExifIn(ph, merged, y) # {}
                 /\ ph[j].origin = "INFERRED" =>
                      \/ \E l \in ExifIn(ph, merged, y) : ph[l].coord = ph[j].coord
                      \/ \E k \in 1 .. Len(np) : /\ CanonIn(merged, Place("n", k)) = y
                                                 /\ SpotOf[np[k]] = ph[j].coord
        BY <3>1 DEF FoldersAreReal
      <3> QED
        BY <1>12, <3>1, <3>2
    <2>2. /\ now[i].place \in Known(np)
          /\ folder \in NewPlaceIds(np) \/ ExifIn(now, merged, folder) # {}
          /\ \/ \E l \in ExifIn(now, merged, folder) : now[l].coord = now[i].coord
             \/ \E k \in 1 .. Len(np) : /\ CanonIn(merged, Place("n", k)) = folder
                                        /\ SpotOf[np[k]] = now[i].coord
      <3>1. CASE \E j \in anchors : ph[j].coord = at
        BY <1>1, <1>7, <1>12, <3>1 DEF anchors
      <3>2. CASE /\ folder \in NewPlaceIds(np)
                 /\ \E k \in 1 .. Len(np) : folder = Place("n", k) /\ SpotOf[np[k]] = at
        BY <1>1, <1>2, <1>7, <3>2
      <3> QED
        BY <1>6, <3>1, <3>2
    <2> QED
      BY <1>2, <1>7, <2>1, <2>2 DEF FoldersAreReal
  <1> QED
    BY <1>7, <1>8, <1>9, <1>11, <1>13 DEF Assigned, now

\* The photos and new places on the way: only photos that the agent was asked
\* about have changed.
Growths ==
    {was \in [ph : PhotosType, np : Seq(Candidates)] :
        /\ Assigned(was.ph) /\ AgentGood(was.ph, was.np, merged)
        /\ \A i \in Ids : /\ was.ph[i].taken = photos[i].taken
                          /\ i \notin Targets => was.ph[i] = photos[i]
        /\ Len(newPlaces) <= Len(was.np)}

\* The photos in folders are not asked about.
LEMMA TargetsAre ==
    ASSUME AgentState
    PROVE  \A i \in Targets : /\ i \in Ids /\ ~HasGps(i) /\ InPeriod(photos, i)
                              /\ ~Placed(photos, i)
  BY DEF Targets, TripPhotos, Unlocated

\* Folders that photos were in are still new places, or have the GPS photos.
LEMMA PlacesStay ==
    ASSUME AgentState, NEW was \in Growths, NEW x \in PlacedIn(photos, merged)
    PROVE  /\ x \in PlacedIn(was.ph, merged)
           /\ x \in Known(was.np) \ DOMAIN merged
           /\ x \in NewPlaceIds(was.np) \/ ExifIn(was.ph, merged, x) # {}
  <1>1. PICK i \in Ids : Placed(photos, i) /\ x = CanonIn(merged, photos[i].place)
    BY DEF PlacedIn
  <1>2. i \notin Targets
    BY <1>1, TargetsAre
  <1>3. was.ph[i] = photos[i] /\ Placed(was.ph, i)
    BY <1>1, <1>2 DEF Growths, Placed
  <1>4. AgentGood(was.ph, was.np, merged)
    BY DEF Growths
  <1>5. /\ was.ph[i].place \in Known(was.np)
        /\ x \in NewPlaceIds(was.np) \/ ExifIn(was.ph, merged, x) # {}
    BY <1>1, <1>3, <1>4 DEF AgentGood, FoldersAreReal
  <1>6. x \in Known(was.np) \ DOMAIN merged
    BY <1>1, <1>3, <1>4, <1>5 DEF AgentGood, MergedWell
  <1> QED
    BY <1>1, <1>3, <1>5, <1>6 DEF PlacedIn

\* One more new place.
LEMMA OneMorePlace ==
    ASSUME AgentState, NEW was \in Growths, NEW c \in Candidates
    PROVE  LET np == AddNewPlace(was.np, c)
               x == NewPlaceOf(was.np, c)
           IN  /\ np \in Seq(Candidates) /\ Len(was.np) <= Len(np)
               /\ AgentGood(was.ph, np, merged)
               /\ Canon(x) \in Known(np) \ DOMAIN merged
               /\ Canon(x) \in NewPlaceIds(np) \/ ExifIn(was.ph, merged, Canon(x)) # {}
  <1> DEFINE old == was.np
             np == AddNewPlace(old, c)
             x == NewPlaceOf(old, c)
  <1>1. /\ old \in Seq(Candidates) /\ Len(old) \in Nat
        /\ AgentGood(was.ph, old, merged)
    BY DEF Growths
  <1>2. MergedWell(was.ph, old, merged) /\ FoldersAreReal(was.ph, old, merged)
    BY <1>1 DEF AgentGood
  <1>3. IsFiniteSet(DOMAIN merged) /\ \A y \in DOMAIN merged : y \in Known(old)
    BY <1>2, ForestIs DEF MergedWell
  <1>4. CASE \E k \in 1 .. Len(old) : old[k] = c
    <2> DEFINE k == CHOOSE k \in 1 .. Len(old) : old[k] = c
    <2>1. k \in 1 .. Len(old) /\ np = old /\ x = Canon(Place("n", k))
      BY <1>4 DEF AddNewPlace, NewPlaceOf
    <2> HIDE DEF k
    <2>2. Place("n", k) \in NewPlaceIds(old) /\ Place("n", k) \in Known(old)
      BY <2>1 DEF NewPlaceIds, Known
    <2>3. x \in Known(old) \ DOMAIN merged
      BY <1>2, <2>1, <2>2 DEF MergedWell, Canon
    <2>4. Canon(x) = x
      BY <1>3, <2>3, CanonOfRoot DEF Canon
    <2>5. x \in NewPlaceIds(old) \/ ExifIn(was.ph, merged, x) # {}
      <3>1. CASE Place("n", k) \notin DOMAIN merged
        BY <1>3, <2>1, <2>2, <3>1, CanonOfRoot DEF Canon
      <3>2. CASE Place("n", k) \in DOMAIN merged
        <4>1. x \in PlacedIn(photos, merged)
          BY <2>1, <3>2 DEF AgentState, AgentGood, MergedWell, Canon
        <4> QED
          BY <4>1, PlacesStay
      <3> QED
        BY <3>1, <3>2
    <2> HIDE DEF np, x
    <2> QED
      BY <1>1, <2>1, <2>3, <2>4, <2>5 DEF np, x
  <1>5. CASE ~ \E k \in 1 .. Len(old) : old[k] = c
    <2>1. np = Append(old, c) /\ x = Place("n", Len(old) + 1)
      BY <1>5 DEF AddNewPlace, NewPlaceOf
    <2> HIDE DEF np, x
    <2>2. /\ np \in Seq(Candidates) /\ Len(np) = Len(old) + 1
          /\ \A k \in 1 .. Len(old) : k \in 1 .. Len(np) /\ np[k] = old[k]
      BY <1>1, <2>1
    <2>3. NewPlaceIds(np) = NewPlaceIds(old) \cup {x}
      <3>1. \A k : k \in 1 .. Len(np) <=> k \in 1 .. Len(old) \/ k = Len(old) + 1
        BY <1>1, <2>2
      <3> QED
        BY <2>1, <3>1 DEF NewPlaceIds
    <2>4. Known(np) = Known(old) \cup {x}
      BY <2>3 DEF Known
    <2>5. x \notin Known(old)
      <3>1. \A k \in 1 .. Len(old) : x # Place("n", k)
        BY <1>1, <2>1 DEF Place
      <3>2. \A k \in Nat : x # Place("p", k)
        BY <2>1 DEF Place
      <3> QED
        BY <3>1, <3>2 DEF Known, NewPlaceIds, OldFolders
    <2>6. Canon(x) = x /\ x \notin DOMAIN merged
      BY <1>3, <2>5, CanonOfRoot DEF Canon
    <2>7. MergedWell(was.ph, np, merged)
      <3>1. merged \in Forests(Known(np))
        <4>1. DOMAIN merged \in SUBSET Known(old) /\ merged \in [DOMAIN merged -> Known(old)]
          BY <1>2, ForestIs DEF MergedWell
        <4>2. DOMAIN merged \in SUBSET Known(np) /\ merged \in [DOMAIN merged -> Known(np)]
          BY <2>4, <4>1
        <4> QED
          BY <4>2, ForestIs
      <3> QED
        BY <1>2, <2>4, <2>6, <3>1 DEF MergedWell, Canon
    <2>8. FoldersAreReal(was.ph, np, merged)
      <3>1. ASSUME NEW i \in Ids, Placed(was.ph, i)
            PROVE  LET y == CanonIn(merged, was.ph[i].place) IN
                   /\ was.ph[i].place \in Known(np)
                   /\ y \in NewPlaceIds(np) \/ ExifIn(was.ph, merged, y) # {}
                   /\ was.ph[i].origin = "INFERRED" =>
                        \/ \E j \in ExifIn(was.ph, merged, y) : was.ph[j].coord = was.ph[i].coord
                        \/ \E k \in 1 .. Len(np) : /\ CanonIn(merged, Place("n", k)) = y
                                                   /\ SpotOf[np[k]] = was.ph[i].coord
        <4>1. LET y == CanonIn(merged, was.ph[i].place) IN
                   /\ was.ph[i].place \in Known(old)
                   /\ y \in NewPlaceIds(old) \/ ExifIn(was.ph, merged, y) # {}
                   /\ was.ph[i].origin = "INFERRED" =>
                        \/ \E j \in ExifIn(was.ph, merged, y) : was.ph[j].coord = was.ph[i].coord
                        \/ \E k \in 1 .. Len(old) : /\ CanonIn(merged, Place("n", k)) = y
                                                    /\ SpotOf[old[k]] = was.ph[i].coord
          BY <1>2, <3>1 DEF FoldersAreReal
        <4> QED
          BY <2>2, <2>3, <2>4, <4>1
      <3> QED
        BY <3>1 DEF FoldersAreReal
    <2> QED
      BY <1>1, <2>2, <2>3, <2>4, <2>6, <2>7, <2>8 DEF np, x, AgentGood
  <1> QED
    BY <1>4, <1>5

\* A proposal for a photo is applied.
LEMMA AppliedKeeps ==
    ASSUME AgentState, Proposed(proposals), NEW was \in Growths,
           NEW i \in {j \in DOMAIN proposals : proposals[j] # Low}
    PROVE  Applied(was, i) \in Growths
  <1> DEFINE d == proposals[i]
             np == IF d[1] = "new" THEN AddNewPlace(was.np, d[2]) ELSE was.np
             x == IF d[1] = "new" THEN NewPlaceOf(was.np, d[2]) ELSE d[2]
             now == Assign(was.ph, np, i, x)
  <1>1. /\ i \in Targets
        /\ \/ \E y \in Places : d = <<"existing", y>>
           \/ \E c \in InRegion : d = <<"new", c>>
    BY DEF Proposed
  <1>2. i \in Ids /\ ~HasGps(i) /\ InPeriod(photos, i)
    BY <1>1, TargetsAre
  <1>3. /\ was.ph \in PhotosType /\ was.np \in Seq(Candidates) /\ Assigned(was.ph)
        /\ AgentGood(was.ph, was.np, merged) /\ Len(newPlaces) <= Len(was.np)
        /\ \A j \in Ids : /\ was.ph[j].taken = photos[j].taken
                          /\ j \notin Targets => was.ph[j] = photos[j]
    BY DEF Growths
  <1>4. /\ np \in Seq(Candidates) /\ Len(was.np) <= Len(np)
        /\ AgentGood(was.ph, np, merged)
        /\ Canon(x) \in Known(np) \ DOMAIN merged
        /\ Canon(x) \in NewPlaceIds(np) \/ ExifIn(was.ph, merged, Canon(x)) # {}
    <2>1. CASE \E y \in Places : d = <<"existing", y>>
      <3>1. PICK y \in Places : d = <<"existing", y>>
        BY <2>1
      <3>2. np = was.np /\ x = y
        BY <3>1
      <3>3. y \in PlacedIn(photos, merged) /\ IsFiniteSet(DOMAIN merged)
        BY PlacesAre DEF AgentState, Assigned, AgentGood, MergedWell
      <3>4. /\ y \in Known(was.np) \ DOMAIN merged
            /\ y \in NewPlaceIds(was.np) \/ ExifIn(was.ph, merged, y) # {}
        BY <3>3, PlacesStay
      <3>5. Canon(y) = y
        BY <3>3, <3>4, CanonOfRoot DEF Canon
      <3>6. Len(was.np) \in Nat
        BY <1>3
      <3> HIDE DEF np, x
      <3> QED
        BY <1>3, <3>2, <3>4, <3>5, <3>6
    <2>2. CASE \E c \in InRegion : d = <<"new", c>>
      <3>1. PICK c \in InRegion : d = <<"new", c>>
        BY <2>2
      <3>2. c \in Candidates /\ np = AddNewPlace(was.np, c) /\ x = NewPlaceOf(was.np, c)
        BY <3>1, AgentAssumption
      <3> HIDE DEF np, x
      <3> QED
        BY <3>2, OneMorePlace
    <2> QED
      BY <1>1, <2>1, <2>2
  <1>5. Applied(was, i) = [ph |-> now, np |-> np]
    BY DEF Applied
  <1> HIDE DEF np, x
  <1>6. InPeriod(was.ph, i)
    BY <1>2, <1>3 DEF InPeriod
  <1>7. IsFiniteSet(DOMAIN merged) /\ FoldersAreReal(was.ph, np, merged)
    BY <1>4 DEF AgentGood, MergedWell
  <1>8. /\ now \in PhotosType /\ Assigned(now) /\ FoldersAreReal(now, np, merged)
        /\ \A j \in Ids : now[j].taken = was.ph[j].taken
        /\ \A j \in Ids \ {i} : now[j] = was.ph[j]
    BY <1>2, <1>3, <1>4, <1>6, <1>7, AssignKeeps DEF AgentState
  <1> HIDE DEF now
  <1>9. \A j \in Ids : now[j].taken = photos[j].taken /\ (j \notin Targets => now[j] = photos[j])
    BY <1>1, <1>3, <1>8
  <1>10. MergedWell(now, np, merged)
    <2>1. PlacedIn(photos, merged) \subseteq PlacedIn(now, merged)
      BY <1>9, TargetsAre DEF PlacedIn, Placed
    <2> QED
      BY <1>4, <2>1 DEF AgentState, AgentGood, MergedWell
  <1>11. Len(newPlaces) <= Len(np)
    BY <1>3, <1>4 DEF AgentState
  <1>12. now \in PhotosType /\ np \in Seq(Candidates)
    BY <1>4, <1>8
  <1>13. [ph |-> now, np |-> np] \in Growths
    BY <1>8, <1>9, <1>10, <1>11, <1>12 DEF Growths, AgentGood
  <1> QED
    BY <1>5, <1>13

\* The accepted proposals in the order of the photos.
OrderOf(S) == SortedBy(S, {ij \in S \X S : ij[1] < ij[2]})

LEMMA OrderIs ==
    ASSUME NEW S \in SUBSET Ids
    PROVE  OrderOf(S) \in Seq(S) /\ \A k \in DOMAIN OrderOf(S) : OrderOf(S)[k] \in S
  <1> DEFINE R == {ij \in S \X S : ij[1] < ij[2]}
  <1>1. S \subseteq Nat /\ IsFiniteSet(S)
    BY IdsAre, FS_Subset
  <1>2. OrdersStrictly(R, S)
    BY <1>1 DEF OrdersStrictly
  <1> HIDE DEF R
  <1>3. SortedBy(S, R) \in Seq(S)
    BY <1>1, <1>2, Sorted
  <1>4. OrderOf(S) \in Seq(S)
    BY <1>3 DEF OrderOf, R
  <1> QED
    BY <1>4

LEMMA GrowthBegins ==
    ASSUME AgentState
    PROVE  [ph |-> photos, np |-> newPlaces] \in Growths
  BY DEF AgentState, Growths

LEMMA AcceptedAre ==
    ASSUME AgentState, Proposed(proposals),
           NEW accepted \in SUBSET {i \in DOMAIN proposals : proposals[i] # Low}
    PROVE  accepted \in SUBSET Ids
  BY TargetsAre DEF Proposed

\* They are applied one by one.
LEMMA AcceptSteps ==
    ASSUME AgentState, Proposed(proposals),
           NEW accepted \in SUBSET {i \in DOMAIN proposals : proposals[i] # Low}
    PROVE  \E acc \in [0 .. Len(OrderOf(accepted)) -> Growths] :
              /\ acc[0] = [ph |-> photos, np |-> newPlaces] /\ acc[Len(OrderOf(accepted))] = Accept(accepted)
              /\ \A n \in 1 .. Len(OrderOf(accepted)) : acc[n] = Applied(acc[n - 1], OrderOf(accepted)[n])
  <1> DEFINE Acc == Growths
  <1> DEFINE seq == OrderOf(accepted)
  <1> DEFINE base == [ph |-> photos, np |-> newPlaces]
  <1> DEFINE step == [ax \in Acc \X accepted |-> Applied(ax[1], ax[2])]
  <1> DEFINE Eq(f) == f = [s \in SUBSET DOMAIN seq |-> IF s = {} THEN base
                             ELSE Applied(f[s \ {Max(s)}], seq[Max(s)])]
  <1>1. Accept(accepted) = (CHOOSE f : Eq(f))[DOMAIN seq]
    BY DEF Accept, OrderOf, FoldLeft, MapThenFoldSet
  <1>2. step \in [Acc \X accepted -> Acc]
    BY AppliedKeeps
  <1>3. \A a \in Acc, x \in accepted : step[<<a, x>>] = Applied(a, x)
    OBVIOUS
  <1>4. seq \in Seq(accepted) /\ \A k \in DOMAIN seq : seq[k] \in accepted
    BY AcceptedAre, OrderIs
  <1>5. base \in Acc
    BY GrowthBegins
  <1> HIDE DEF Acc, seq, base, step
  <1>6. PICK fold \in [SUBSET DOMAIN seq -> Acc] : FoldsLeft(fold, seq, base, step)
    BY <1>2, <1>4, <1>5, FoldLeftExists
  <1>7. \A s \in SUBSET DOMAIN seq :
            /\ s # {} => Max(s) \in s
            /\ fold[s] = IF s = {} THEN base ELSE step[<<fold[s \ {Max(s)}], seq[Max(s)]>>]
    BY <1>6 DEF FoldsLeft
  <1>8. Eq(fold)
    <2>1. \A s \in SUBSET DOMAIN seq : fold[s] = IF s = {} THEN base
                                     ELSE Applied(fold[s \ {Max(s)}], seq[Max(s)])
      <3> TAKE s \in SUBSET DOMAIN seq
      <3>1. s # {} => fold[s \ {Max(s)}] \in Acc /\ seq[Max(s)] \in accepted
        BY <1>4, <1>6, <1>7
      <3> QED
        BY <1>3, <1>7, <3>1
    <2> QED
      BY <2>1
  <1> DEFINE iter == CHOOSE f : Eq(f)
  <1>9. Eq(iter)
    <2> HIDE DEF Eq
    <2> QED
      BY <1>8
  <1>10. Accept(accepted) = iter[DOMAIN seq]
    BY <1>1
  <1> HIDE DEF iter
  <1>11. \A s \in SUBSET DOMAIN seq : iter[s] = IF s = {} THEN base
                                     ELSE Applied(iter[s \ {Max(s)}], seq[Max(s)])
    <2> TAKE s \in SUBSET DOMAIN seq
    <2> DEFINE val(f, t) == IF t = {} THEN base ELSE Applied(f[t \ {Max(t)}], seq[Max(t)])
    <2>1. iter = [t \in SUBSET DOMAIN seq |-> val(iter, t)]
      BY <1>9
    <2> HIDE DEF val
    <2>2. iter[s] = val(iter, s)
      BY <2>1
    <2> QED
      BY <2>2 DEF val
  <1>12. FollowsIn(Acc, iter, seq, step)
    <2>1. ASSUME NEW s \in SUBSET DOMAIN seq, s # {}, iter[s \ {Max(s)}] \in Acc
          PROVE  iter[s] = step[<<iter[s \ {Max(s)}], seq[Max(s)]>>]
      <3>1. seq[Max(s)] \in accepted
        BY <1>4, <1>7, <2>1
      <3> QED
        BY <1>3, <1>11, <2>1, <3>1
    <2> QED
      BY <2>1 DEF FollowsIn
  <1>13. iter[{}] = base
    BY <1>11
  <1>14. PICK acc \in [0 .. Len(seq) -> Acc] : StepsLeft(acc, iter, seq, base, step)
    BY <1>2, <1>4, <1>5, <1>12, <1>13, FoldLeftSteps
  <1>15. Len(seq) \in Nat /\ DOMAIN seq = 1 .. Len(seq)
    BY <1>4
  <1>16. ASSUME NEW n \in 1 .. Len(seq)
         PROVE  acc[n] = Applied(acc[n - 1], seq[n])
    <2>1. acc[n - 1] \in Acc /\ seq[n] \in accepted
      BY <1>4, <1>14, <1>15
    <2>2. acc[n] = step[<<acc[n - 1], seq[n]>>]
      BY <1>14 DEF StepsLeft
    <2> QED
      BY <1>3, <2>1, <2>2
  <1>17. acc[0] = base /\ acc[Len(seq)] = Accept(accepted)
    BY <1>10, <1>14 DEF StepsLeft
  <1> HIDE DEF Eq
  <1> QED
    BY <1>14, <1>16, <1>17 DEF Acc, seq, base

\* graph.py, aggregate: whatever is accepted, each photo ends in a real folder.
LEMMA AcceptsSettle ==
    ASSUME AgentState, Proposed(proposals),
           NEW accepted \in SUBSET {i \in DOMAIN proposals : proposals[i] # Low}
    PROVE  Accept(accepted) \in Growths
  <1> DEFINE seq == OrderOf(accepted)
  <1>1. Len(seq) \in Nat
    BY AcceptedAre, OrderIs
  <1>2. \E acc \in [0 .. Len(seq) -> Growths] : acc[Len(seq)] = Accept(accepted)
    BY AcceptSteps
  <1> HIDE DEF seq
  <1> QED
    BY <1>1, <1>2

-----------------------------------------------------------------------------
(* Filtering.                                                              *)

\* The photos in the order of their times.
TimeOrder(ph) == SortedBy(Ids, {ij \in Ids \X Ids : Earlier(ph, ij[1], ij[2])})

LEMMA EarlierOrders ==
    ASSUME NEW ph \in PhotosType
    PROVE  OrdersStrictly({ij \in Ids \X Ids : Earlier(ph, ij[1], ij[2])}, Ids)
  <1> DEFINE R == {ij \in Ids \X Ids : Earlier(ph, ij[1], ij[2])}
  <1>1. \A i, j \in Ids : <<i, j>> \in R <=> Earlier(ph, i, j)
    OBVIOUS
  <1>2. \A i \in Ids : ph[i].taken \in Optional /\ i \in Nat
    BY IdsAre DEF PhotosType, PhotoType
  <1>3. \A i \in Ids : ph[i].taken = None \/ (ph[i].taken \in Int /\ ph[i].taken # None)
    BY <1>2, IdsAre DEF Optional
  <1> HIDE DEF R
  <1>4. \A i \in Ids : ~Earlier(ph, i, i)
    BY <1>2, <1>3 DEF Earlier
  <1>5. \A i, j \in Ids : i # j => Earlier(ph, i, j) \/ Earlier(ph, j, i)
    BY <1>2, <1>3 DEF Earlier
  <1>6. \A i, j, k \in Ids : Earlier(ph, i, j) /\ Earlier(ph, j, k) => Earlier(ph, i, k)
    <2> TAKE i, j, k \in Ids
    <2> HAVE Earlier(ph, i, j) /\ Earlier(ph, j, k)
    <2>1. i \in Nat /\ j \in Nat /\ k \in Nat
      BY <1>2
    <2>2. CASE ph[i].taken = None
      BY <2>1, <2>2 DEF Earlier
    <2>3. CASE ph[i].taken # None /\ ph[k].taken = None
      BY <2>3 DEF Earlier
    <2>4. CASE ph[i].taken # None /\ ph[k].taken # None
      <3>1. ph[i].taken \in Int /\ ph[j].taken \in Int /\ ph[k].taken \in Int
        BY <1>3, <2>4 DEF Earlier
      <3> QED
        BY <1>3, <2>1, <2>4, <3>1 DEF Earlier
    <2> QED
      BY <2>2, <2>3, <2>4
  <1> HIDE DEF R
  <1>7. OrdersStrictly(R, Ids)
    BY <1>1, <1>4, <1>5, <1>6 DEF OrdersStrictly
  <1> QED
    BY <1>7 DEF R

LEMMA TimeOrderIs ==
    ASSUME NEW ph \in PhotosType
    PROVE  /\ TimeOrder(ph) \in Seq(Ids)
           /\ \A k \in DOMAIN TimeOrder(ph) : TimeOrder(ph)[k] \in Ids
           /\ \A i \in Ids : \E k \in 1 .. Len(TimeOrder(ph)) : TimeOrder(ph)[k] = i
  <1> DEFINE R == {ij \in Ids \X Ids : Earlier(ph, ij[1], ij[2])}
  <1>1. OrdersStrictly(R, Ids) /\ IsFiniteSet(Ids)
    BY EarlierOrders, IdsAre
  <1> HIDE DEF R
  <1>2. /\ SortedBy(Ids, R) \in Seq(Ids)
        /\ \A i \in Ids : \E k \in 1 .. Len(SortedBy(Ids, R)) : SortedBy(Ids, R)[k] = i
    BY <1>1, Sorted
  <1>3. TimeOrder(ph) = SortedBy(Ids, R)
    BY DEF TimeOrder, R
  <1> QED
    BY <1>2, <1>3

\* The first photo of some is one of them.
LEMMA FirstIsOne ==
    ASSUME NEW ph \in PhotosType, NEW S \in SUBSET Ids, S # {}
    PROVE  (CHOOSE j \in S : \A k \in S \ {j} : Earlier(ph, j, k)) \in S
  <1> DEFINE R == {ij \in Ids \X Ids : Earlier(ph, ij[1], ij[2])}
  <1>1. OrdersStrictly(R, Ids)
    BY EarlierOrders
  <1>2. \A i, j \in Ids : <<i, j>> \in R <=> Earlier(ph, i, j)
    OBVIOUS
  <1> HIDE DEF R
  <1>3. OrdersStrictly(R, S)
    BY <1>1 DEF OrdersStrictly
  <1>4. \E j \in S : \A k \in S \ {j} : <<j, k>> \in R
    BY <1>3, IdsAre, FS_Subset, FirstExists
  <1> QED
    BY <1>2, <1>4

\* The photos of S in the folder of a photo that look like it.
LikeOf(ph, alike, i, S) == {j \in S : ph[j].place = ph[i].place /\ {i, j} \in alike}

\* A photo is retained if it is sharp and unlike the retained ones.
KeepTurn(ph, blurry, alike, kept, i) ==
    IF i \notin blurry /\ LikeOf(ph, alike, i, kept) = {} THEN kept \cup {i} ELSE kept

Retained(ph, blurry, alike) ==
    FoldLeft(LAMBDA kept, i : KeepTurn(ph, blurry, alike, kept, i), {}, TimeOrder(ph))

\* The photos are retained in order.
KeptInTurn(ph, blurry, alike, acc) ==
    /\ acc \in [0 .. Len(TimeOrder(ph)) -> SUBSET Ids]
    /\ acc[0] = {} /\ acc[Len(TimeOrder(ph))] = Retained(ph, blurry, alike)
    /\ \A n \in 1 .. Len(TimeOrder(ph)) :
         acc[n] = KeepTurn(ph, blurry, alike, acc[n - 1], TimeOrder(ph)[n])

LEMMA KeepSteps ==
    ASSUME NEW ph \in PhotosType, NEW blurry, NEW alike
    PROVE  \E acc : KeptInTurn(ph, blurry, alike, acc)
  <1> DEFINE Acc == SUBSET Ids
  <1> DEFINE seq == TimeOrder(ph)
  <1> DEFINE base == {}
  <1> DEFINE step == [ax \in Acc \X Ids |-> KeepTurn(ph, blurry, alike, ax[1], ax[2])]
  <1> DEFINE Eq(f) == f = [s \in SUBSET DOMAIN seq |-> IF s = {} THEN base
                             ELSE KeepTurn(ph, blurry, alike, f[s \ {Max(s)}], seq[Max(s)])]
  <1>1. Retained(ph, blurry, alike) = (CHOOSE f : Eq(f))[DOMAIN seq]
    BY DEF Retained, FoldLeft, MapThenFoldSet
  <1>2. step \in [Acc \X Ids -> Acc]
    BY DEF KeepTurn
  <1>3. \A a \in Acc, x \in Ids : step[<<a, x>>] = KeepTurn(ph, blurry, alike, a, x)
    OBVIOUS
  <1>4. seq \in Seq(Ids) /\ \A k \in DOMAIN seq : seq[k] \in Ids
    BY TimeOrderIs
  <1>5. base \in Acc
    OBVIOUS
  <1> HIDE DEF Acc, seq, base, step
  <1>6. PICK fold \in [SUBSET DOMAIN seq -> Acc] : FoldsLeft(fold, seq, base, step)
    BY <1>2, <1>4, <1>5, FoldLeftExists
  <1>7. \A s \in SUBSET DOMAIN seq :
            /\ s # {} => Max(s) \in s
            /\ fold[s] = IF s = {} THEN base ELSE step[<<fold[s \ {Max(s)}], seq[Max(s)]>>]
    BY <1>6 DEF FoldsLeft
  <1>8. Eq(fold)
    <2>1. \A s \in SUBSET DOMAIN seq : fold[s] = IF s = {} THEN base
                                     ELSE KeepTurn(ph, blurry, alike, fold[s \ {Max(s)}], seq[Max(s)])
      <3> TAKE s \in SUBSET DOMAIN seq
      <3>1. s # {} => fold[s \ {Max(s)}] \in Acc /\ seq[Max(s)] \in Ids
        BY <1>4, <1>6, <1>7
      <3> QED
        BY <1>3, <1>7, <3>1
    <2> QED
      BY <2>1
  <1> DEFINE iter == CHOOSE f : Eq(f)
  <1>9. Eq(iter)
    <2> HIDE DEF Eq
    <2> QED
      BY <1>8
  <1>10. Retained(ph, blurry, alike) = iter[DOMAIN seq]
    BY <1>1
  <1> HIDE DEF iter
  <1>11. \A s \in SUBSET DOMAIN seq : iter[s] = IF s = {} THEN base
                                     ELSE KeepTurn(ph, blurry, alike, iter[s \ {Max(s)}], seq[Max(s)])
    <2> TAKE s \in SUBSET DOMAIN seq
    <2> DEFINE val(f, t) == IF t = {} THEN base ELSE KeepTurn(ph, blurry, alike, f[t \ {Max(t)}], seq[Max(t)])
    <2>1. iter = [t \in SUBSET DOMAIN seq |-> val(iter, t)]
      BY <1>9
    <2> HIDE DEF val
    <2>2. iter[s] = val(iter, s)
      BY <2>1
    <2> QED
      BY <2>2 DEF val
  <1>12. FollowsIn(Acc, iter, seq, step)
    <2>1. ASSUME NEW s \in SUBSET DOMAIN seq, s # {}, iter[s \ {Max(s)}] \in Acc
          PROVE  iter[s] = step[<<iter[s \ {Max(s)}], seq[Max(s)]>>]
      <3>1. seq[Max(s)] \in Ids
        BY <1>4, <1>7, <2>1
      <3> QED
        BY <1>3, <1>11, <2>1, <3>1
    <2> QED
      BY <2>1 DEF FollowsIn
  <1>13. iter[{}] = base
    BY <1>11
  <1>14. PICK acc \in [0 .. Len(seq) -> Acc] : StepsLeft(acc, iter, seq, base, step)
    BY <1>2, <1>4, <1>5, <1>12, <1>13, FoldLeftSteps
  <1>15. Len(seq) \in Nat /\ DOMAIN seq = 1 .. Len(seq)
    BY <1>4
  <1>16. ASSUME NEW n \in 1 .. Len(seq)
         PROVE  acc[n] = KeepTurn(ph, blurry, alike, acc[n - 1], seq[n])
    <2>1. acc[n - 1] \in Acc /\ seq[n] \in Ids
      BY <1>4, <1>14, <1>15
    <2>2. acc[n] = step[<<acc[n - 1], seq[n]>>]
      BY <1>14 DEF StepsLeft
    <2> QED
      BY <1>3, <2>1, <2>2
  <1>17. acc[0] = base /\ acc[Len(seq)] = Retained(ph, blurry, alike)
    BY <1>10, <1>14 DEF StepsLeft
  <1> HIDE DEF Eq
  <1> QED
    BY <1>14, <1>16, <1>17 DEF Acc, seq, base, KeptInTurn

\* A retained photo is sharp; a sharp one that is not looks like one that is.
LEMMA RetainedAre ==
    ASSUME NEW ph \in PhotosType, NEW blurry, NEW alike
    PROVE  /\ Retained(ph, blurry, alike) \in SUBSET Ids
           /\ \A i \in Retained(ph, blurry, alike) : i \notin blurry
           /\ \A i \in Ids : i \notin blurry /\ i \notin Retained(ph, blurry, alike) =>
                LikeOf(ph, alike, i, Retained(ph, blurry, alike)) # {}
  <1> DEFINE order == TimeOrder(ph)
             n == Len(order)
             retained == Retained(ph, blurry, alike)
  <1>1. /\ n \in Nat
        /\ \A k \in 1 .. n : order[k] \in Ids
        /\ \A i \in Ids : \E k \in 1 .. n : order[k] = i
    BY TimeOrderIs
  <1>2. PICK acc : KeptInTurn(ph, blurry, alike, acc)
    BY KeepSteps
  <1>3. /\ acc \in [0 .. n -> SUBSET Ids] /\ acc[0] = {} /\ acc[n] = retained
        /\ \A k \in 1 .. n : acc[k] = KeepTurn(ph, blurry, alike, acc[k - 1], order[k])
    BY <1>2 DEF KeptInTurn
  <1> HIDE DEF order, n, retained
  <1>4. \A k \in 0 .. n : \A i \in acc[k] : i \notin blurry
    <2> DEFINE Holding == {k \in 0 .. n : \A i \in acc[k] : i \notin blurry}
    <2>1. 0 \in Holding
      BY <1>1, <1>3
    <2>2. \A k \in 1 .. n : k - 1 \in Holding => k \in Holding
      <3> TAKE k \in 1 .. n
      <3> HAVE k - 1 \in Holding
      <3>1. acc[k] = acc[k - 1] \/ (order[k] \notin blurry /\ acc[k] = acc[k - 1] \cup {order[k]})
        BY <1>3 DEF KeepTurn
      <3> QED
        BY <1>1, <3>1
    <2> HIDE DEF Holding
    <2>3. \A k \in 0 .. n : k \in Holding
      BY <1>1, <2>1, <2>2, UpTo
    <2> QED
      BY <2>3 DEF Holding
  <1>5. ASSUME NEW m \in 0 .. n PROVE acc[m] \subseteq retained
    <2> DEFINE Holding == {k \in 0 .. n : k < m \/ acc[m] \subseteq acc[k]}
    <2>1. 0 \in Holding
      BY <1>1
    <2>2. \A k \in 1 .. n : k - 1 \in Holding => k \in Holding
      <3> TAKE k \in 1 .. n
      <3> HAVE k - 1 \in Holding
      <3>1. acc[k - 1] \subseteq acc[k]
        BY <1>3 DEF KeepTurn
      <3>2. k < m \/ k = m \/ ~(k - 1 < m)
        BY <1>1
      <3> QED
        BY <1>1, <3>1, <3>2
    <2> HIDE DEF Holding
    <2>3. \A k \in 0 .. n : k \in Holding
      BY <1>1, <2>1, <2>2, UpTo
    <2>4. n \in Holding
      BY <1>1, <2>3
    <2> QED
      BY <1>1, <1>3, <2>4 DEF Holding
  <1>6. ASSUME NEW i \in Ids, i \notin blurry, i \notin retained
        PROVE  LikeOf(ph, alike, i, retained) # {}
    <2>1. PICK k \in 1 .. n : order[k] = i
      BY <1>1
    <2>2. k - 1 \in 0 .. n /\ k \in 0 .. n
      BY <1>1
    <2>3. i \notin acc[k] /\ acc[k - 1] \subseteq retained
      BY <1>5, <1>6, <2>2
    <2>4. LikeOf(ph, alike, i, acc[k - 1]) # {}
      BY <1>3, <1>6, <2>1, <2>3 DEF KeepTurn
    <2> QED
      BY <2>3, <2>4 DEF LikeOf
  <1>7. retained \in SUBSET Ids /\ \A i \in retained : i \notin blurry
    <2>1. n \in 0 .. n
      BY <1>1
    <2> QED
      BY <1>3, <1>4, <2>1
  <1> QED
    BY <1>6, <1>7 DEF retained

\* FILTERING judges every photo: the original of a duplicate is in its folder,
\* and a folder of photos that are not all blurred has one to show.
LEMMA FilteringSettles ==
    ASSUME NEW ph \in PhotosType, Assigned(ph), NEW blurry, NEW alike
    PROVE  LET now == FilterPhotos(ph, blurry, alike)
           IN  /\ now \in PhotosType /\ Filtered(now) /\ BlurredOrShown(now)
               /\ \A i \in Ids : now[i].place = ph[i].place /\ now[i].origin = ph[i].origin
  <1> DEFINE now == FilterPhotos(ph, blurry, alike)
             retained == Retained(ph, blurry, alike)
             Like(i) == LikeOf(ph, alike, i, retained)
             First(S) == CHOOSE j \in S : \A k \in S \ {j} : Earlier(ph, j, k)
             Issue(i) == IF i \in blurry THEN "BLURRY"
                         ELSE IF i \notin retained THEN "DUPLICATED"
                         ELSE IF Placed(ph, i) THEN NoIssue ELSE "UNCLEAR_LOCATION"
             Dup(i) == IF Issue(i) = "DUPLICATED" THEN First(Like(i)) ELSE None
  <1>1. now = [i \in Ids |-> [ph[i] EXCEPT !.issue = Issue(i), !.dup = Dup(i)]]
    BY DEF FilterPhotos, Retained, TimeOrder, KeepTurn, LikeOf
  <1> HIDE DEF now, First
  <1>2. /\ retained \in SUBSET Ids /\ \A i \in retained : i \notin blurry
        /\ \A i \in Ids : i \notin blurry /\ i \notin retained => Like(i) # {}
    BY RetainedAre
  <1> HIDE DEF retained
  <1>3. ASSUME NEW i \in Ids, i \notin blurry, i \notin retained
        PROVE  /\ First(Like(i)) \in retained /\ First(Like(i)) \in Ids
               /\ ph[First(Like(i))].place = ph[i].place
    <2>1. Like(i) \in SUBSET Ids /\ Like(i) # {}
      BY <1>2, <1>3 DEF LikeOf
    <2>2. First(Like(i)) \in Like(i)
      BY <2>1, FirstIsOne DEF First
    <2> QED
      BY <1>2, <2>2 DEF LikeOf
  <1>4. ASSUME NEW i \in Ids
        PROVE  /\ Issue(i) \in {NoIssue, "UNCLEAR_LOCATION", "BLURRY", "DUPLICATED"}
               /\ Dup(i) \in Ids \cup {None}
               /\ Issue(i) = "BLURRY" <=> i \in blurry
               /\ Issue(i) = "DUPLICATED" <=> i \notin blurry /\ i \notin retained
               /\ Issue(i) = NoIssue <=> i \in retained /\ Placed(ph, i)
               /\ Issue(i) = "UNCLEAR_LOCATION" <=> i \in retained /\ ~Placed(ph, i)
    <2>1. /\ Issue(i) \in {NoIssue, "UNCLEAR_LOCATION", "BLURRY", "DUPLICATED"}
          /\ Issue(i) = "BLURRY" <=> i \in blurry
          /\ Issue(i) = "DUPLICATED" <=> i \notin blurry /\ i \notin retained
          /\ Issue(i) = NoIssue <=> i \in retained /\ Placed(ph, i)
          /\ Issue(i) = "UNCLEAR_LOCATION" <=> i \in retained /\ ~Placed(ph, i)
      BY <1>2 DEF NoIssue
    <2> HIDE DEF Issue
    <2> QED
      BY <1>3, <2>1
  <1> HIDE DEF Issue, Like
  <1>5. ASSUME NEW i \in Ids
        PROVE  /\ now[i] \in PhotoType
               /\ now[i].issue = Issue(i) /\ now[i].dup = Dup(i)
               /\ now[i].taken = ph[i].taken /\ now[i].status = ph[i].status
               /\ now[i].coord = ph[i].coord /\ now[i].origin = ph[i].origin
               /\ now[i].place = ph[i].place
    <2> DEFINE r == ph[i]
    <2>1. r \in PhotoType
      BY DEF PhotosType
    <2>2. now[i] = [r EXCEPT !.issue = Issue(i), !.dup = Dup(i)]
      BY <1>1
    <2> HIDE DEF r, Dup
    <2> QED
      BY <1>4, <2>1, <2>2 DEF PhotoType, r
  <1>6. now \in PhotosType
    BY <1>1, <1>5 DEF PhotosType
  <1>7. \A i \in Ids : Placed(now, i) <=> Placed(ph, i)
    BY <1>5 DEF Placed
  <1>8. ASSUME NEW i \in Ids, Issue(i) = "DUPLICATED"
        PROVE  /\ now[i].dup \in Ids /\ now[now[i].dup].place = now[i].place
               /\ now[now[i].dup].issue = IF Placed(now, i) THEN NoIssue ELSE "UNCLEAR_LOCATION"
    <2> DEFINE j == First(Like(i))
    <2>1. /\ j \in retained /\ j \in Ids /\ ph[j].place = ph[i].place
      BY <1>3, <1>4, <1>8
    <2>2. now[i].dup = j
      BY <1>5, <1>8
    <2> HIDE DEF j
    <2>3. Placed(ph, j) <=> Placed(ph, i)
      BY <2>1 DEF Placed
    <2> QED
      BY <1>4, <1>5, <1>7, <2>1, <2>2, <2>3
  <1>9. Filtered(now)
    <2>1. Timed(now)
      BY <1>5 DEF Assigned, Timed
    <2>2. ASSUME NEW i \in Ids
          PROVE  /\ now[i].issue \in {NoIssue, "UNCLEAR_LOCATION", "BLURRY", "DUPLICATED"}
                 /\ Placed(now, i) => now[i].coord # None /\ now[i].origin # "UNKNOWN"
                 /\ now[i].issue = "UNCLEAR_LOCATION" => ~Placed(now, i)
                 /\ now[i].issue = NoIssue => Placed(now, i)
                 /\ now[i].issue # "DUPLICATED" => now[i].dup = None
      BY <1>4, <1>5, <1>7 DEF Assigned, Sorted_
    <2> QED
      BY <1>5, <1>8, <2>1, <2>2 DEF Filtered
  <1>10. BlurredOrShown(now)
    <2>1. ASSUME NEW i \in Ids, Placed(now, i),
                 NEW j \in InFolder(now, now[i].place), now[j].issue # "BLURRY"
          PROVE  \E k \in InFolder(now, now[i].place) : now[k].issue = NoIssue
      <3>1. j \in Ids /\ now[j].place = now[i].place /\ Placed(now, j)
        BY <2>1 DEF InFolder, Placed
      <3>2. CASE now[j].issue = "DUPLICATED"
        BY <1>5, <1>8, <3>1, <3>2 DEF InFolder
      <3>3. CASE now[j].issue # "DUPLICATED"
        BY <1>4, <1>5, <1>7, <2>1, <3>1, <3>3
      <3> QED
        BY <3>2, <3>3
    <2> QED
      BY <2>1 DEF BlurredOrShown
  <1> QED
    BY <1>5, <1>6, <1>9, <1>10 DEF now

\* Without the agent, every folder has a GPS photo.
LEMMA GpsStays ==
    ASSUME NEW ph, NEW now, GpsInFolders(ph),
           \A i \in Ids : now[i].place = ph[i].place /\ now[i].origin = ph[i].origin
    PROVE  GpsOrShown(now)
  <1>1. ASSUME NEW i \in Ids, Placed(now, i)
        PROVE  \E j \in InFolder(now, now[i].place) : now[j].origin = "EXIF"
    <2>1. PICK j \in Exif(ph, InFolder(ph, ph[i].place)) : TRUE
      BY <1>1 DEF GpsInFolders, Placed
    <2> QED
      BY <2>1 DEF Exif, InFolder
  <1> QED
    BY <1>1 DEF GpsOrShown

\* graph.py, release_unshowable_new_places: folders stay or go as a whole, and
\* only blurred photos go.
LEMMA ReleaseSettles ==
    ASSUME NEW ph \in PhotosType, Filtered(ph), BlurredOrShown(ph)
    PROVE  LET now == Release(ph)
           IN  now \in PhotosType /\ Filtered(now) /\ BlurredOrShown(now) /\ GpsOrShown(now)
  <1> DEFINE now == Release(ph)
             Hidden(i) == /\ Placed(ph, i)
                          /\ \A j \in InFolder(ph, ph[i].place) :
                               ph[j].origin # "EXIF" /\ ph[j].issue # NoIssue
  <1>1. /\ now = [i \in Ids |-> now[i]]
        /\ \A i \in Ids : now[i] = IF Hidden(i)
                THEN [ph[i] EXCEPT !.place = NoPlace, !.coord = None, !.origin = "UNKNOWN"]
                ELSE ph[i]
    BY DEF Release
  <1> HIDE DEF now
  <1>2. \A i, j \in Ids : ph[i].place = ph[j].place => (Hidden(i) <=> Hidden(j))
    BY DEF Placed
  <1>3. \A i \in Ids : Hidden(i) => ph[i].issue = "BLURRY"
    <2> TAKE i \in Ids
    <2> HAVE Hidden(i)
    <2>1. i \in InFolder(ph, ph[i].place)
      BY DEF InFolder
    <2> QED
      BY <2>1 DEF BlurredOrShown
  <1>4. \A i \in Ids : Hidden(i) => Placed(ph, i)
    OBVIOUS
  <1>5. \A i \in Ids : Placed(ph, i) /\ ~Hidden(i) =>
          \E j \in InFolder(ph, ph[i].place) : ph[j].origin = "EXIF" \/ ph[j].issue = NoIssue
    OBVIOUS
  <1> HIDE DEF Hidden
  <1>6. ASSUME NEW i \in Ids
        PROVE  /\ now[i] \in PhotoType
               /\ now[i].issue = ph[i].issue /\ now[i].dup = ph[i].dup
               /\ now[i].taken = ph[i].taken /\ now[i].status = ph[i].status
               /\ ~Hidden(i) => now[i] = ph[i]
               /\ Hidden(i) => now[i].place = NoPlace
    <2>1. ph[i] \in PhotoType
      BY DEF PhotosType
    <2> QED
      BY <1>1, <2>1 DEF PhotoType, Optional
  <1>7. now \in PhotosType
    BY <1>1, <1>6 DEF PhotosType
  <1>8. \A i \in Ids : Placed(now, i) <=> Placed(ph, i) /\ ~Hidden(i)
    BY <1>6 DEF Placed
  <1>9. Filtered(now)
    <2>1. Timed(now)
      BY <1>6 DEF Filtered, Timed
    <2>2. ASSUME NEW i \in Ids
          PROVE  /\ now[i].issue \in {NoIssue, "UNCLEAR_LOCATION", "BLURRY", "DUPLICATED"}
                 /\ Placed(now, i) => now[i].coord # None /\ now[i].origin # "UNKNOWN"
                 /\ now[i].issue = "UNCLEAR_LOCATION" => ~Placed(now, i)
                 /\ now[i].issue = NoIssue => Placed(now, i)
                 /\ now[i].issue # "DUPLICATED" => now[i].dup = None
      BY <1>3, <1>6, <1>8 DEF Filtered, NoIssue
    <2>3. ASSUME NEW i \in Ids, now[i].issue = "DUPLICATED"
          PROVE  /\ now[i].dup \in Ids /\ now[now[i].dup].place = now[i].place
                 /\ now[now[i].dup].issue = IF Placed(now, i) THEN NoIssue ELSE "UNCLEAR_LOCATION"
      <3>1. /\ ph[i].dup \in Ids /\ ph[ph[i].dup].place = ph[i].place
            /\ ph[ph[i].dup].issue = IF Placed(ph, i) THEN NoIssue ELSE "UNCLEAR_LOCATION"
            /\ ~Hidden(i)
        BY <1>3, <1>6, <2>3 DEF Filtered
      <3>2. ~Hidden(ph[i].dup)
        BY <1>2, <3>1
      <3> QED
        BY <1>6, <1>8, <3>1, <3>2
    <2> QED
      BY <2>1, <2>2, <2>3 DEF Filtered
  <1>10. ASSUME NEW i \in Ids, Placed(now, i)
         PROVE  /\ Placed(ph, i) /\ now[i].place = ph[i].place
                /\ \A j : j \in InFolder(now, now[i].place) <=> j \in InFolder(ph, ph[i].place)
                /\ \A j \in InFolder(now, now[i].place) : now[j] = ph[j]
    <2>1. Placed(ph, i) /\ ~Hidden(i) /\ now[i] = ph[i]
      BY <1>6, <1>8, <1>10
    <2>2. ph[i].place # NoPlace
      BY <2>1 DEF Placed
    <2>3. \A j \in Ids : ph[j].place = ph[i].place => ~Hidden(j)
      BY <1>2, <2>1
    <2> QED
      BY <1>6, <2>1, <2>2, <2>3 DEF InFolder
  <1>11. BlurredOrShown(now)
    BY <1>10 DEF BlurredOrShown
  <1>12. GpsOrShown(now)
    BY <1>5, <1>8, <1>10 DEF GpsOrShown
  <1> QED
    BY <1>7, <1>9, <1>11, <1>12 DEF now

\* finalize_photos has one reason to fail.
LEMMA FinalizeFails ==
    ASSUME photos \in PhotosType, Filtered(photos), BlurredOrShown(photos), GpsOrShown(photos)
    PROVE  /\ \A i \in Ids : ~Invalid(i)
           /\ (\E f \in UsedFolders : Shown(f) = {}) =>
                \E f \in UsedFolders :
                    HasExif(f) /\ \A i \in InFolder(photos, f) : photos[i].issue = "BLURRY"
  <1>1. ASSUME NEW i \in Ids PROVE ~Invalid(i)
    <2>1. /\ photos[i].status # "PENDING"
          /\ photos[i].status = "UNKNOWN" <=> photos[i].taken = None
      BY DEF Filtered, Timed
    <2>2. /\ Placed(photos, i) => photos[i].coord # None /\ photos[i].origin # "UNKNOWN"
          /\ photos[i].issue = "UNCLEAR_LOCATION" => ~Placed(photos, i)
          /\ photos[i].issue = NoIssue => Placed(photos, i)
      BY DEF Filtered
    <2>3. IF photos[i].issue = "DUPLICATED"
          THEN /\ photos[i].dup \in Ids /\ photos[photos[i].dup].place = photos[i].place
               /\ photos[photos[i].dup].issue =
                    IF Placed(photos, i) THEN NoIssue ELSE "UNCLEAR_LOCATION"
          ELSE photos[i].dup = None
      BY DEF Filtered
    <2> QED
      BY <2>1, <2>2, <2>3 DEF Invalid
  <1>2. ASSUME NEW f \in UsedFolders, Shown(f) = {}
        PROVE  HasExif(f) /\ \A i \in InFolder(photos, f) : photos[i].issue = "BLURRY"
    <2>1. PICK i \in Ids : Placed(photos, i) /\ photos[i].place = f
      BY DEF UsedFolders
    <2>2. \A j \in InFolder(photos, f) : photos[j].issue # NoIssue
      BY <1>2 DEF Shown
    <2> QED
      BY <2>1, <2>2 DEF BlurredOrShown, GpsOrShown, HasExif, Exif
  <1> QED
    BY <1>1, <1>2

-----------------------------------------------------------------------------
(* The agent's steps.                                                      *)

\* The agent's folders are finitely many.
LEMMA PlacesFinite == IsFiniteSet(Places)
  <1> DEFINE at == [i \in TripPhotos |-> PlaceOf(i)]
             all == {PlaceOf(i) : i \in TripPhotos}
  <1>1. IsFiniteSet(TripPhotos)
    BY IdsAre, FS_Subset DEF TripPhotos
  <1>2. at \in Surjection(TripPhotos, all)
    <2>1. at \in [TripPhotos -> all]
      OBVIOUS
    <2>2. \A x \in all : \E i \in TripPhotos : at[i] = x
      OBVIOUS
    <2> HIDE DEF at, all
    <2> QED
      BY <2>1, <2>2 DEF Surjection
  <1>3. IsFiniteSet(all)
    <2> HIDE DEF at, all
    <2> QED
      BY <1>1, <1>2, FS_Surjection
  <1> QED
    BY <1>3, FS_Subset DEF Places

\* model.estimate lets through folders that have photos and candidates of the
\* trip's regions.
LEMMA EstimatesSettle ==
    ASSUME NEW decision \in [Targets -> Decisions]
    PROVE  Proposed([i \in Targets |-> Proposal(decision[i])])
  <1>1. ASSUME NEW d \in Decisions
        PROVE  \/ Proposal(d) = Low
               \/ \E x \in Places : Proposal(d) = <<"existing", x>>
               \/ \E c \in InRegion : Proposal(d) = <<"new", c>>
    <2>1. CASE d = Low
      BY <2>1 DEF Proposal
    <2>2. CASE \E x : d = <<"existing", x>>
      BY <2>2 DEF Proposal
    <2>3. CASE \E c \in Candidates : d = <<"new", c>>
      <3>1. PICK c \in Candidates : d = <<"new", c>>
        BY <2>3
      <3>2. d[1] = "new" /\ d[2] = c
        BY <3>1
      <3> QED
        BY <3>1, <3>2 DEF Proposal
    <2> QED
      BY <2>1, <2>2, <2>3 DEF Decisions
  <1> QED
    BY <1>1 DEF Proposed

\* Finish numbers the folders; photos stay in one.
LEMMA FinishSettles ==
    ASSUME InputOK, photos \in PhotosType, Assigned(photos), Finish
    PROVE  photos' \in PhotosType /\ Assigned(photos')
  <1> DEFINE In(i) == i \in TripPhotos /\ Placed(photos, i)
             folder == [i \in Ids |-> Place("p", FolderRank(PlaceOf(i)))]
  <1>1. \A i \in Ids : folder[i] \in Folders
    <2> TAKE i \in Ids
    <2> DEFINE x == PlaceOf(i)
               before == {y \in Places : \/ y[1] = "p" /\ x[1] = "n"
                                         \/ y[1] = x[1] /\ y[2] <= x[2]}
    <2>1. IsFiniteSet(before)
      BY PlacesFinite, FS_Subset
    <2>2. FolderRank(x) = Cardinality(before)
      BY DEF FolderRank
    <2>3. FolderRank(x) \in Nat
      BY <2>1, <2>2, FS_CardinalityType
    <2> HIDE DEF x
    <2>4. Place("p", FolderRank(x)) \in Folders
      BY <2>3 DEF Folders, OldFolders
    <2> QED
      BY <2>4 DEF x
  <1>2. /\ photos' = [i \in Ids |-> photos'[i]]
        /\ \A i \in Ids : photos'[i] = IF In(i) THEN [photos[i] EXCEPT !.place = folder[i]]
                                       ELSE photos[i]
    BY DEF Finish
  <1>3. \A i \in Ids : In(i) <=> Placed(photos, i)
    BY DEF TripPhotos, Assigned, Sorted_
  <1> HIDE DEF folder, In
  <1>4. ASSUME NEW i \in Ids
        PROVE  /\ photos'[i] \in PhotoType
               /\ photos'[i].taken = photos[i].taken /\ photos'[i].status = photos[i].status
               /\ photos'[i].coord = photos[i].coord /\ photos'[i].origin = photos[i].origin
               /\ photos'[i].issue = photos[i].issue
               /\ photos'[i].place = IF In(i) THEN folder[i] ELSE photos[i].place
    <2> DEFINE r == photos[i]
    <2>1. r \in PhotoType
      BY DEF PhotosType
    <2>2. folder[i] \in Folders
      BY <1>1
    <2>3. photos'[i] = IF In(i) THEN [r EXCEPT !.place = folder[i]] ELSE r
      BY <1>2
    <2> HIDE DEF r
    <2>4. CASE In(i)
      BY <2>1, <2>2, <2>3, <2>4 DEF PhotoType, r
    <2>5. CASE ~In(i)
      BY <2>1, <2>3, <2>5 DEF r
    <2> QED
      BY <2>4, <2>5
  <1>5. photos' \in PhotosType
    BY <1>2, <1>4 DEF PhotosType
  <1>6. \A i \in Ids : Placed(photos', i) <=> Placed(photos, i)
    <2>1. NoPlace \notin Folders
      BY DEF NoPlace, Folders, OldFolders, NewFolders, Place
    <2> QED
      BY <1>1, <1>3, <1>4, <2>1 DEF Placed
  <1>7. \A i \in Ids : InPeriod(photos', i) <=> InPeriod(photos, i)
    BY <1>4 DEF InPeriod
  <1>8. Timed(photos') /\ Sourced(photos')
    BY <1>4 DEF Assigned, Timed, Sourced
  <1>9. Sorted_(photos')
    BY <1>4, <1>6, <1>7 DEF Assigned, Sorted_
  <1> QED
    BY <1>5, <1>8, <1>9 DEF Assigned

\* No folder is merged at first.
LEMMA NothingMerged == <<>> \in Forests(Folders) /\ <<>> \in Seq(Candidates)
  <1>1. <<>> \in [{} -> Folders]
    OBVIOUS
  <1>2. <<>> \in Forests(Folders)
    BY <1>1 DEF Forests
  <1>3. <<>> \in Seq(Candidates)
    OBVIOUS
  <1> QED
    BY <1>2, <1>3

\* Whatever the model answers, the photos stay in folders.
LEMMA AgentSteps ==
    ASSUME AgentState, node = "aggregate" => Proposed(proposals),
           UNCHANGED source, AgentStep
    PROVE  /\ photos' \in PhotosType /\ newPlaces' \in Seq(Candidates)
           /\ merged' \in Forests(Folders)
           /\ Assigned(photos') /\ node' \in Nodes \ {"off"}
           /\ node' # "end" => AgentGood(photos', newPlaces', merged')
           /\ node' = "aggregate" => Proposed(proposals)'
  <1>1. CASE Start
    BY <1>1 DEF Start, AgentState, Nodes
  <1>2. CASE Select
    BY <1>2 DEF Select, AgentState, Nodes
  <1>3. CASE Estimate
    <2>1. PICK decision \in [Targets -> Decisions] :
            proposals' = [i \in Targets |-> Proposal(decision[i])]
      BY <1>3 DEF Estimate
    <2>2. Proposed(proposals')
      BY <2>1, EstimatesSettle
    <2>3. UNCHANGED <<photos, newPlaces, merged, source>> /\ node' = "aggregate"
      BY <1>3 DEF Estimate
    <2>4. Targets' = Targets
      BY <2>3 DEF Targets, TripPhotos, InPeriod, Placed, Unlocated, HasGps
    <2>5. Places' = Places
      BY <2>3 DEF Places, TripPhotos, InPeriod, PlaceOf, Placed, Canon
    <2>6. Proposed(proposals)'
      BY <2>2, <2>4, <2>5 DEF Proposed
    <2> QED
      BY <2>3, <2>6 DEF AgentState, Nodes
  <1>4. CASE Aggregate
    <2>1. Proposed(proposals) /\ merged' = merged
      BY <1>4 DEF Aggregate
    <2>2. PICK accepted \in SUBSET {i \in DOMAIN proposals : proposals[i] # Low} :
            /\ photos' = Accept(accepted).ph /\ newPlaces' = Accept(accepted).np
            /\ node' = AfterAggregate(Cardinality(accepted))
      BY <1>4 DEF Aggregate
    <2>3. Accept(accepted) \in Growths
      BY <2>1, AcceptsSettle
    <2>4. node' \in {"select", "merge", "finish"}
      BY <2>2 DEF AfterAggregate
    <2> QED
      BY <2>1, <2>2, <2>3, <2>4 DEF Growths, AgentState, Nodes
  <1>5. CASE Merge
    <2>1. /\ node' = "select" /\ UNCHANGED <<photos, newPlaces>>
          /\ \E n \in 0 .. MaxGroups : \E groups \in [1 .. n -> Groups] :
               merged' = MergeAll(groups)
      BY <1>5 DEF Merge
    <2>2. PICK n \in 0 .. MaxGroups : \E groups \in [1 .. n -> Groups] :
               merged' = MergeAll(groups)
      BY <2>1
    <2>3. PICK groups \in [1 .. n -> Groups] : merged' = MergeAll(groups)
      BY <2>2
    <2>4. n \in Nat
      BY AgentAssumption
    <2>5. MergeAll(groups) \in Forests(Folders) /\ AgentGood(photos, newPlaces, MergeAll(groups))
      BY <2>4, MergesSettle DEF AgentState, Assigned
    <2> QED
      BY <2>1, <2>3, <2>5 DEF AgentState, Nodes
  <1>6. CASE Finish
    <2>1. photos' \in PhotosType /\ Assigned(photos')
      BY <1>6, FinishSettles DEF AgentState
    <2>2. node' = "end" /\ newPlaces' = <<>> /\ merged' = <<>>
      BY <1>6 DEF Finish
    <2> QED
      BY <2>1, <2>2, NothingMerged DEF Nodes
  <1> QED
    BY <1>1, <1>2, <1>3, <1>4, <1>5, <1>6 DEF AgentStep

-----------------------------------------------------------------------------
(* The invariant holds.                                                    *)

\* The input does not change.
LEMMA SameInput ==
    ASSUME UNCHANGED <<source, sim, agentOn>>
    PROVE  /\ InputOK' <=> InputOK
           /\ Timed(photos)' <=> Timed(photos')
           /\ Sourced(photos)' <=> Sourced(photos')
           /\ Located(photos)' <=> Located(photos')
           /\ Sorted_(photos)' <=> Sorted_(photos')
           /\ Assigned(photos)' <=> Assigned(photos')
           /\ GpsInFolders(photos)' <=> GpsInFolders(photos')
           /\ AgentGood(photos, newPlaces, merged)' <=> AgentGood(photos', newPlaces', merged')
           /\ Filtered(photos)' <=> Filtered(photos')
           /\ BlurredOrShown(photos)' <=> BlurredOrShown(photos')
           /\ GpsOrShown(photos)' <=> GpsOrShown(photos')
  <1>1. \A i \in Ids : HasGps(i)' <=> HasGps(i)
    BY DEF HasGps
  <1>2. InputOK' <=> InputOK
    BY DEF InputOK
  <1>3. Sourced(photos)' <=> Sourced(photos')
    BY <1>1 DEF Sourced
  <1>4. Assigned(photos)' <=> Assigned(photos')
    BY <1>3 DEF Assigned
  <1>5. Timed(photos)' <=> Timed(photos')
    BY DEF Timed
  <1>6. Located(photos)' <=> Located(photos')
    BY DEF Located
  <1>7. Sorted_(photos)' <=> Sorted_(photos')
    BY DEF Sorted_
  <1>8. GpsInFolders(photos)' <=> GpsInFolders(photos')
    BY DEF GpsInFolders
  <1>9. AgentGood(photos, newPlaces, merged)' <=> AgentGood(photos', newPlaces', merged')
    BY DEF AgentGood
  <1>10. Filtered(photos)' <=> Filtered(photos')
    BY DEF Filtered
  <1>11. BlurredOrShown(photos)' <=> BlurredOrShown(photos')
    BY DEF BlurredOrShown
  <1>12. GpsOrShown(photos)' <=> GpsOrShown(photos')
    BY DEF GpsOrShown
  <1> QED
    BY <1>2, <1>3, <1>4, <1>5, <1>6, <1>7, <1>8, <1>9, <1>10, <1>11, <1>12

LEMMA SortingBegins == Init => SortingInv
  <1> SUFFICES ASSUME Init PROVE SortingInv
    OBVIOUS
  <1>1. PICK in \in Inputs : source = in.source /\ sim = in.sim /\ agentOn = in.agent
    BY DEF Init
  <1>2. IsInput(in)
    BY InputsAssumption
  <1>3. InputOK
    BY <1>1, <1>2 DEF InputOK, IsInput
  <1>4. photos = PhotoState(source) /\ phase = "clock" /\ AgentInit
    BY DEF Init
  <1>5. photos \in PhotosType
    <2>1. ASSUME NEW i \in Ids PROVE photos[i] \in PhotoType
      <3> DEFINE o == IF source[i].gps # None THEN "EXIF" ELSE "UNKNOWN"
      <3>1. photos[i] = [taken |-> None, status |-> "PENDING", coord |-> source[i].gps,
                         origin |-> o, place |-> NoPlace, issue |-> NoIssue, dup |-> None]
        BY <1>4 DEF PhotoState
      <3>2. o \in {"EXIF", "UNKNOWN"} /\ source[i].gps \in Optional
        BY <1>3, InputIs
      <3> HIDE DEF o
      <3> QED
        BY <3>1, <3>2 DEF PhotoType, NoIssue, Optional
    <2> QED
      BY <1>4, <2>1 DEF PhotosType, PhotoState
  <1>6. SortingTypeOK
    BY <1>3, <1>4, <1>5, NothingMerged DEF SortingTypeOK, Phases, Nodes, AgentInit
  <1>7. AgentIdle
    BY <1>4 DEF AgentIdle, AgentInit
  <1>8. StepFinds
    BY <1>4 DEF StepFinds
  <1>9. FailsOnlyForBlurredFolder
    BY <1>4 DEF FailsOnlyForBlurredFolder
  <1> QED
    BY <1>6, <1>7, <1>8, <1>9 DEF SortingInv

\* A step before the assignment keeps the invariant if the photos are as the
\* next one finds them.
LEMMA EarlySteps ==
    ASSUME SortingInv, UNCHANGED <<source, sim, agentOn, agentVars>>, photos' \in PhotosType,
           \/ phase = "clock" /\ phase' = "locate"
           \/ phase = "locate" /\ phase' = "cluster"
           \/ phase = "cluster" /\ phase' = "assign",
           StepFinds'
    PROVE  SortingInv'
  <1>1. SortingTypeOK'
    BY SameInput DEF SortingInv, SortingTypeOK, Phases, agentVars
  <1>2. AgentIdle'
    BY DEF SortingInv, AgentIdle, agentVars
  <1>3. FailsOnlyForBlurredFolder'
    BY DEF FailsOnlyForBlurredFolder
  <1> QED
    BY <1>1, <1>2, <1>3 DEF SortingInv

LEMMA ClockKeeps == SortingInv /\ Clock => SortingInv'
  <1> SUFFICES ASSUME SortingInv, Clock PROVE SortingInv'
    OBVIOUS
  <1>1. /\ UNCHANGED <<source, sim, agentOn, agentVars>> /\ photos' = CorrectClocks
        /\ phase = "clock" /\ phase' = "locate"
    BY DEF Clock, Then, Rest
  <1>2. InputOK /\ photos = PhotoState(source)
    BY <1>1 DEF SortingInv, SortingTypeOK, StepFinds
  <1>3. /\ photos' \in PhotosType /\ Timed(photos') /\ Sourced(photos')
        /\ \A i \in Ids : photos'[i].place = NoPlace /\ photos'[i].issue = NoIssue
    BY <1>1, <1>2, ClockSettles
  <1>4. StepFinds'
    BY <1>1, <1>3, SameInput DEF StepFinds
  <1> QED
    BY <1>1, <1>3, <1>4, EarlySteps

LEMMA LocateKeeps == SortingInv /\ Locate => SortingInv'
  <1> SUFFICES ASSUME SortingInv, Locate PROVE SortingInv'
    OBVIOUS
  <1>1. /\ UNCHANGED <<source, sim, agentOn, agentVars>> /\ photos' = LocatePhotos
        /\ phase = "locate" /\ phase' = "cluster"
    BY DEF Locate, Then, Rest
  <1>2. /\ InputOK /\ photos \in PhotosType /\ Timed(photos) /\ Sourced(photos)
        /\ \A i \in Ids : photos[i].place = NoPlace /\ photos[i].issue = NoIssue
    BY <1>1 DEF SortingInv, SortingTypeOK, StepFinds
  <1>3. photos' \in PhotosType /\ Timed(photos') /\ Sourced(photos') /\ Located(photos')
    BY <1>1, <1>2, LocatingSettles
  <1>4. StepFinds'
    BY <1>1, <1>3, SameInput DEF StepFinds
  <1> QED
    BY <1>1, <1>3, <1>4, EarlySteps

LEMMA ClusterKeeps == SortingInv /\ Cluster => SortingInv'
  <1> SUFFICES ASSUME SortingInv, Cluster PROVE SortingInv'
    OBVIOUS
  <1>1. /\ UNCHANGED <<source, sim, agentOn, agentVars>> /\ photos' = ClusterPhotos
        /\ phase = "cluster" /\ phase' = "assign"
    BY DEF Cluster, Then, Rest
  <1>2. InputOK /\ photos \in PhotosType /\ Timed(photos) /\ Sourced(photos) /\ Located(photos)
    BY <1>1 DEF SortingInv, SortingTypeOK, StepFinds
  <1>3. photos' \in PhotosType /\ Assigned(photos') /\ GpsInFolders(photos')
    BY <1>1, <1>2, ClusteringSettles
  <1>4. StepFinds'
    BY <1>1, <1>3, SameInput DEF StepFinds
  <1> QED
    BY <1>1, <1>3, <1>4, EarlySteps

\* Folders with GPS photos are real ones while none is merged.
LEMMA RealAtFirst ==
    ASSUME NEW ph, GpsInFolders(ph)
    PROVE  AgentGood(ph, <<>>, <<>>)
  <1>1. Known(<<>>) = OldFolders
    BY DEF Known, NewPlaceIds
  <1>2. IsFiniteSet(DOMAIN <<>>) /\ DOMAIN <<>> = {}
    BY FS_EmptySet
  <1>3. \A x : CanonIn(<<>>, x) = x
    BY <1>2, CanonOfRoot
  <1>4. MergedWell(ph, <<>>, <<>>)
    <2>1. <<>> \in [{} -> OldFolders]
      OBVIOUS
    <2>2. <<>> \in Forests(OldFolders)
      BY <2>1 DEF Forests
    <2> QED
      BY <1>1, <1>2, <1>3, <2>2 DEF MergedWell
  <1>5. FoldersAreReal(ph, <<>>, <<>>)
    <2>1. ASSUME NEW i \in Ids, Placed(ph, i)
          PROVE  /\ ph[i].place \in OldFolders
                 /\ \E j \in ExifIn(ph, <<>>, ph[i].place) :
                      ph[i].origin = "INFERRED" => ph[j].coord = ph[i].coord
      <3>1. PICK j \in Exif(ph, InFolder(ph, ph[i].place)) :
              ph[i].origin = "INFERRED" => ph[j].coord = ph[i].coord
        BY <2>1 DEF GpsInFolders
      <3>2. j \in ExifIn(ph, <<>>, ph[i].place)
        BY <1>3, <2>1, <3>1 DEF Exif, InFolder, ExifIn, Placed
      <3> QED
        BY <2>1, <3>1, <3>2 DEF GpsInFolders
    <2> QED
      BY <1>1, <1>3, <2>1 DEF FoldersAreReal
  <1> QED
    BY <1>4, <1>5 DEF AgentGood

LEMMA AssigningKeeps == SortingInv /\ Assigning => SortingInv'
  <1> SUFFICES ASSUME SortingInv, Assigning PROVE SortingInv'
    OBVIOUS
  <1>1. /\ UNCHANGED <<source, sim, agentOn, agentVars>> /\ photos' = AssignRound(photos)
        /\ phase = "assign" /\ phase' = AssignLoop(photos')
    BY DEF Assigning, Then, Rest
  <1>2. /\ InputOK /\ photos \in PhotosType /\ Assigned(photos) /\ GpsInFolders(photos)
        /\ node = "off" /\ newPlaces = <<>> /\ merged = <<>> /\ agentOn \in BOOLEAN
    BY <1>1, InputIs DEF SortingInv, SortingTypeOK, StepFinds, AgentIdle
  <1>3. photos' \in PhotosType /\ Assigned(photos') /\ GpsInFolders(photos')
    BY <1>1, <1>2, RoundKeeps
  <1>4. \/ phase' = "assign"
        \/ phase' = "agent" /\ agentOn
        \/ phase' = "filter" /\ ~agentOn
    BY <1>1, <1>3, NothingRaised DEF AssignLoop, Assigned
  <1>5. AgentGood(photos', newPlaces', merged')
    <2>1. newPlaces' = <<>> /\ merged' = <<>>
      BY <1>1, <1>2 DEF agentVars
    <2> QED
      BY <1>3, <2>1, RealAtFirst
  <1>6. SortingTypeOK'
    BY <1>1, <1>3, <1>4, SameInput DEF SortingInv, SortingTypeOK, Phases, agentVars
  <1>7. AgentIdle'
    BY <1>1, <1>2 DEF AgentIdle, agentVars
  <1>8. StepFinds'
    <2>1. /\ Assigned(photos)' /\ GpsInFolders(photos)' /\ (agentOn' <=> agentOn)
          /\ AgentGood(photos, newPlaces, merged)' /\ node' = "off"
      BY <1>1, <1>2, <1>3, <1>5, SameInput DEF agentVars
    <2> QED
      BY <1>4, <2>1 DEF StepFinds
  <1>9. FailsOnlyForBlurredFolder'
    BY <1>4 DEF FailsOnlyForBlurredFolder
  <1> QED
    BY <1>6, <1>7, <1>8, <1>9 DEF SortingInv

LEMMA AgentKeeps == SortingInv /\ Agent => SortingInv'
  <1> SUFFICES ASSUME SortingInv, Agent PROVE SortingInv'
    OBVIOUS
  <1>1. /\ UNCHANGED <<source, sim, agentOn>> /\ phase = "agent" /\ AgentStep
        /\ phase' = IF Raised(photos') THEN "failed"
                    ELSE IF node' = "end" THEN "filter" ELSE "agent"
    BY DEF Agent, Then, Rest
  <1>2. AgentState /\ agentOn /\ (node = "aggregate" => Proposed(proposals))
    BY <1>1 DEF SortingInv, SortingTypeOK, StepFinds, AgentState
  <1>3. /\ photos' \in PhotosType /\ newPlaces' \in Seq(Candidates)
        /\ merged' \in Forests(Folders)
        /\ Assigned(photos') /\ node' \in Nodes \ {"off"}
        /\ node' # "end" => AgentGood(photos', newPlaces', merged')
        /\ node' = "aggregate" => Proposed(proposals)'
    BY <1>1, <1>2, AgentSteps
  <1>4. phase' = IF node' = "end" THEN "filter" ELSE "agent"
    BY <1>1, <1>3, NothingRaised DEF Assigned
  <1>5. SortingTypeOK'
    BY <1>1, <1>3, <1>4, SameInput DEF SortingInv, SortingTypeOK, Phases
  <1>6. AgentIdle'
    BY <1>3, <1>4 DEF AgentIdle
  <1>7. StepFinds'
    <2>1. /\ Assigned(photos)' /\ agentOn'
          /\ node' # "end" => AgentGood(photos, newPlaces, merged)'
      BY <1>1, <1>2, <1>3, SameInput
    <2> QED
      BY <1>3, <1>4, <2>1 DEF StepFinds
  <1>8. FailsOnlyForBlurredFolder'
    BY <1>4 DEF FailsOnlyForBlurredFolder
  <1> QED
    BY <1>5, <1>6, <1>7, <1>8 DEF SortingInv

LEMMA FilterKeeps == SortingInv /\ Filter => SortingInv'
  <1> SUFFICES ASSUME SortingInv, Filter PROVE SortingInv'
    OBVIOUS
  <1>1. UNCHANGED <<source, sim, agentOn, agentVars>> /\ phase = "filter"
    BY DEF Filter, Rest
  <1>2. /\ InputOK /\ photos \in PhotosType /\ Assigned(photos) /\ agentOn \in BOOLEAN
        /\ ~agentOn => GpsInFolders(photos)
    BY <1>1, InputIs DEF SortingInv, SortingTypeOK, StepFinds
  <1>3. ~FilterRejects(photos)
    <2>1. \A i \in Ids : /\ (photos[i].place = NoPlace) <=> (photos[i].issue # NoIssue)
                         /\ photos[i].status # "PENDING"
                         /\ (photos[i].status = "UNKNOWN") <=> (photos[i].taken = None)
      BY <1>2 DEF Assigned, Sorted_, Timed, Placed
    <2> QED
      BY <2>1 DEF FilterRejects
  <1>4. PICK blurry \in SUBSET Ids, alike \in Hashes :
          photos' = FilterPhotos(photos, blurry, alike)
    BY <1>3 DEF Filter
  <1>5. phase' = IF agentOn THEN "release" ELSE "finalize"
    BY <1>3 DEF Filter, Then
  <1>6. /\ photos' \in PhotosType /\ Filtered(photos') /\ BlurredOrShown(photos')
        /\ \A i \in Ids : photos'[i].place = photos[i].place /\ photos'[i].origin = photos[i].origin
    BY <1>2, <1>4, FilteringSettles
  <1>7. ~agentOn => GpsOrShown(photos')
    BY <1>2, <1>6, GpsStays
  <1>8. SortingTypeOK'
    BY <1>1, <1>5, <1>6, SameInput DEF SortingInv, SortingTypeOK, Phases, agentVars
  <1>9. AgentIdle'
    BY <1>1, <1>5 DEF SortingInv, AgentIdle, agentVars
  <1>10. StepFinds'
    <2>1. /\ Filtered(photos)' /\ BlurredOrShown(photos)' /\ (agentOn' <=> agentOn)
          /\ ~agentOn => GpsOrShown(photos)'
      BY <1>1, <1>2, <1>6, <1>7, SameInput
    <2> QED
      BY <1>2, <1>5, <2>1 DEF StepFinds
  <1>11. FailsOnlyForBlurredFolder'
    BY <1>5 DEF FailsOnlyForBlurredFolder
  <1> QED
    BY <1>8, <1>9, <1>10, <1>11 DEF SortingInv

LEMMA ReleaseKeeps == SortingInv /\ ReleaseFolders => SortingInv'
  <1> SUFFICES ASSUME SortingInv, ReleaseFolders PROVE SortingInv'
    OBVIOUS
  <1>1. /\ UNCHANGED <<source, sim, agentOn, agentVars>> /\ phase = "release"
        /\ phase' = "finalize" /\ photos' = Release(photos)
    BY DEF ReleaseFolders, Rest, Then
  <1>2. photos \in PhotosType /\ Filtered(photos) /\ BlurredOrShown(photos)
    BY <1>1 DEF SortingInv, SortingTypeOK, StepFinds
  <1>3. /\ photos' \in PhotosType /\ Filtered(photos') /\ BlurredOrShown(photos')
        /\ GpsOrShown(photos')
    BY <1>1, <1>2, ReleaseSettles
  <1>4. SortingTypeOK'
    BY <1>1, <1>3, SameInput DEF SortingInv, SortingTypeOK, Phases, agentVars
  <1>5. AgentIdle'
    BY <1>1 DEF SortingInv, AgentIdle, agentVars
  <1>6. StepFinds'
    BY <1>1, <1>3, SameInput DEF StepFinds
  <1>7. FailsOnlyForBlurredFolder'
    BY <1>1 DEF FailsOnlyForBlurredFolder
  <1> QED
    BY <1>4, <1>5, <1>6, <1>7 DEF SortingInv

LEMMA FinalizeKeeps == SortingInv /\ Finalize => SortingInv'
  <1> SUFFICES ASSUME SortingInv, Finalize PROVE SortingInv'
    OBVIOUS
  <1>1. /\ UNCHANGED <<source, sim, photos, agentOn, agentVars>> /\ phase = "finalize"
        /\ phase' = IF (\E i \in Ids : Invalid(i)) \/ (\E f \in UsedFolders : Shown(f) = {})
                    THEN "failed" ELSE "done"
    BY DEF Finalize, Rest, Then
  <1>2. /\ photos \in PhotosType /\ Filtered(photos) /\ BlurredOrShown(photos)
        /\ GpsOrShown(photos)
    BY <1>1 DEF SortingInv, SortingTypeOK, StepFinds
  <1>3. phase' = "failed" =>
            \E f \in UsedFolders :
                HasExif(f) /\ \A i \in InFolder(photos, f) : photos[i].issue = "BLURRY"
    BY <1>1, <1>2, FinalizeFails
  <1>4. phase' \in {"failed", "done"}
    BY <1>1
  <1>5. FailsOnlyForBlurredFolder'
    BY <1>1, <1>3 DEF FailsOnlyForBlurredFolder, UsedFolders, HasExif, InFolder, Placed, Exif
  <1>6. SortingTypeOK'
    BY <1>1, <1>4, SameInput DEF SortingInv, SortingTypeOK, Phases, agentVars
  <1>7. AgentIdle'
    BY <1>1, <1>4 DEF SortingInv, AgentIdle, agentVars
  <1>8. StepFinds'
    BY <1>4 DEF StepFinds
  <1> QED
    BY <1>5, <1>6, <1>7, <1>8 DEF SortingInv

LEMMA NothingChanges == SortingInv /\ UNCHANGED vars => SortingInv'
  <1> SUFFICES ASSUME SortingInv, UNCHANGED vars PROVE SortingInv'
    OBVIOUS
  <1>1. UNCHANGED <<source, sim, photos, phase, agentOn, agentVars>>
    BY DEF vars
  <1>2. SortingTypeOK'
    BY <1>1, SameInput DEF SortingInv, SortingTypeOK, agentVars
  <1>3. AgentIdle'
    BY <1>1 DEF SortingInv, AgentIdle, agentVars
  <1>4. FailsOnlyForBlurredFolder'
    BY <1>1 DEF SortingInv, FailsOnlyForBlurredFolder, UsedFolders, HasExif, InFolder, Placed, Exif
  <1>5. StepFinds'
    <2>1. photos' = photos /\ newPlaces' = newPlaces /\ merged' = merged
      BY <1>1 DEF agentVars
    <2>2. node' = "aggregate" /\ phase' = "agent" => Proposed(proposals)'
      <3>1. Targets' = Targets /\ Places' = Places
        BY <1>1 DEF Targets, Places, TripPhotos, InPeriod, Placed, Unlocated, HasGps, PlaceOf,
                    Canon, agentVars
      <3> QED
        BY <1>1, <3>1 DEF SortingInv, StepFinds, Proposed, agentVars
    <2> QED
      BY <1>1, <2>1, <2>2, SameInput DEF SortingInv, StepFinds
  <1> QED
    BY <1>2, <1>3, <1>4, <1>5 DEF SortingInv

LEMMA SortingKeeps == SortingInv /\ [Next]_vars => SortingInv'
  <1> SUFFICES ASSUME SortingInv, [Next]_vars PROVE SortingInv'
    OBVIOUS
  <1>1. CASE Clock
    BY <1>1, ClockKeeps
  <1>2. CASE Locate
    BY <1>2, LocateKeeps
  <1>3. CASE Cluster
    BY <1>3, ClusterKeeps
  <1>4. CASE Assigning
    BY <1>4, AssigningKeeps
  <1>5. CASE Agent
    BY <1>5, AgentKeeps
  <1>6. CASE Filter
    BY <1>6, FilterKeeps
  <1>7. CASE ReleaseFolders
    BY <1>7, ReleaseKeeps
  <1>8. CASE Finalize
    BY <1>8, FinalizeKeeps
  <1>9. CASE Ended \/ UNCHANGED vars
    BY <1>9, NothingChanges DEF Ended
  <1> QED
    BY <1>1, <1>2, <1>3, <1>4, <1>5, <1>6, <1>7, <1>8, <1>9 DEF Next

\* run_pipeline: each step finds the photos as the steps before it, the
\* rules as well as the agent, are to leave them, whatever the model answers.
THEOREM SortingInvariant == Spec => []SortingInv
  <1> QED
    BY SortingBegins, SortingKeeps, PTL DEF Spec

\* finalize_photos, and every check on the way to it: the pipeline raises an
\* error for no other photos than those of a folder with GPS that are all
\* blurred.
THEOREM FailsOnlyIfBlurred == Spec => []FailsOnlyForBlurredFolder
  <1>1. SortingInv => FailsOnlyForBlurredFolder
    BY DEF SortingInv
  <1> QED
    BY <1>1, SortingInvariant, PTL

-----------------------------------------------------------------------------
(* Where the coordinates of a photo come from.                             *)

LEMMA InferredThere ==
    ASSUME SortingInv PROVE InferredFromFolder
  <1> SUFFICES ASSUME phase \in {"assign", "agent"},
                      NEW i \in Ids, Placed(photos, i), photos[i].origin = "INFERRED"
               PROVE  \/ \E j \in Ids : /\ Together(i, j) /\ photos[j].origin = "EXIF"
                                        /\ photos[j].coord = photos[i].coord
                      \/ \E k \in 1 .. Len(newPlaces) :
                            /\ Canon(Place("n", k)) = PlaceOf(i)
                            /\ SpotOf[newPlaces[k]] = photos[i].coord
    BY DEF InferredFromFolder
  <1>1. AgentGood(photos, newPlaces, merged)
    <2>1. CASE phase = "assign"
      <3>1. GpsInFolders(photos) /\ newPlaces = <<>> /\ merged = <<>>
        BY <2>1 DEF SortingInv, StepFinds, AgentIdle
      <3> QED
        BY <3>1, RealAtFirst
    <2>2. CASE phase = "agent"
      BY <2>2 DEF SortingInv, StepFinds
    <2> QED
      BY <2>1, <2>2
  <1> DEFINE x == CanonIn(merged, photos[i].place)
  <1>2. PlaceOf(i) = x
    BY DEF PlaceOf, Canon
  <1>3. \/ \E j \in ExifIn(photos, merged, x) : photos[j].coord = photos[i].coord
        \/ \E k \in 1 .. Len(newPlaces) : /\ CanonIn(merged, Place("n", k)) = x
                                          /\ SpotOf[newPlaces[k]] = photos[i].coord
    BY <1>1 DEF AgentGood, FoldersAreReal
  <1>4. ASSUME NEW j \in ExifIn(photos, merged, x)
        PROVE  j \in Ids /\ Together(i, j) /\ photos[j].origin = "EXIF"
    BY <1>2 DEF ExifIn, Together, PlaceOf, Canon
  <1> HIDE DEF x
  <1> QED
    BY <1>2, <1>3, <1>4 DEF Canon

\* locate_photos, _place of assign_unlocated, assign and merge of the agent's
\* view: inferred coordinates are those of a GPS photo of the folder or of a
\* new place that became it.
THEOREM InferredInFolder == Spec => []InferredFromFolder
  <1> QED
    BY SortingInvariant, InferredThere, PTL

-----------------------------------------------------------------------------
(* The loop of the rules.                                                  *)

Settled(ph) == \A i \in Unlocated(ph) :
    BetweenTwo(ph, i) = {} /\ Cardinality(LookAlikes(ph, i)) # 1

LEMMA SameRules ==
    ASSUME UNCHANGED <<source, sim>>
    PROVE  Settled(photos)' <=> Settled(photos')
  <1>1. Unlocated(photos)' = Unlocated(photos')
    BY DEF Unlocated, HasGps, InPeriod
  <1>2. \A i \in Ids : BetweenTwo(photos, i)' = BetweenTwo(photos', i)
    BY DEF BetweenTwo, Placed
  <1>3. \A i \in Ids : LookAlikes(photos, i)' = LookAlikes(photos', i)
    BY DEF LookAlikes, Placed
  <1> QED
    BY <1>1, <1>2, <1>3 DEF Settled, Unlocated

LEMMA RulesStaySettled ==
    ASSUME SortingInv, RulesSettled, [Next]_vars PROVE RulesSettled'
  <1> DEFINE Over == (phase = "agent" /\ node = "off") \/ (phase = "filter" /\ ~agentOn)
  <1>0. RulesSettled <=> (Over => Settled(photos))
    BY DEF RulesSettled, Settled
  <1>1. RulesSettled' <=> (Over' => Settled(photos)')
    BY DEF RulesSettled, Settled
  <1>2. CASE Assigning
    <2>1. /\ UNCHANGED <<source, sim>> /\ photos' = AssignRound(photos)
          /\ phase' = AssignLoop(photos')
      BY <1>2 DEF Assigning, Rest, Then
    <2>2. InputOK /\ photos \in PhotosType
      BY DEF SortingInv, SortingTypeOK
    <2>3. Over' => AssignRound(photos) = photos
      BY <2>1 DEF AssignLoop
    <2>4. Over' => Settled(photos)
      BY <2>2, <2>3, RoundSettles DEF Settled
    <2> QED
      BY <1>1, <2>1, <2>3, <2>4, SameRules
  <1>3. CASE Agent
    <2>1. AgentState /\ agentOn /\ (node = "aggregate" => Proposed(proposals))
      BY <1>3 DEF Agent, SortingInv, SortingTypeOK, StepFinds, AgentState
    <2>2. UNCHANGED <<source, agentOn>> /\ AgentStep
      BY <1>3 DEF Agent, Rest
    <2>3. node' # "off"
      BY <2>1, <2>2, AgentSteps
    <2> QED
      BY <1>1, <2>1, <2>2, <2>3
  <1>4. CASE Clock \/ Locate \/ Cluster \/ Filter \/ ReleaseFolders \/ Finalize
    <2>1. phase' \notin {"agent", "filter"}
      BY <1>4 DEF Clock, Locate, Cluster, Filter, ReleaseFolders, Finalize, Then
    <2> QED
      BY <1>1, <2>1
  <1>5. CASE Ended \/ UNCHANGED vars
    <2>1. UNCHANGED <<source, sim, photos, phase, agentOn, node>>
      BY <1>5 DEF Ended, vars, agentVars
    <2> QED
      BY <1>0, <1>1, <2>1, SameRules
  <1> QED
    BY <1>2, <1>3, <1>4, <1>5 DEF Next

\* assign_unlocated: a turn of its loop that changed nothing has left no photo
\* that either rule would place.
THEOREM RulesAreSettled == Spec => []RulesSettled
  <1>1. Init => RulesSettled
    BY DEF Init, RulesSettled
  <1>2. SortingInv /\ RulesSettled /\ [Next]_vars => RulesSettled'
    BY RulesStaySettled
  <1> QED
    BY <1>1, <1>2, SortingInvariant, PTL DEF Spec
=============================================================================
