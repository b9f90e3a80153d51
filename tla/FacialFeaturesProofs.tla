------------------------ MODULE FacialFeaturesProofs ------------------------
(***************************************************************************)
(* For all photographs and any number of calls: the descriptors are those  *)
(* of the last keypoints, a structure filled once has one for each,        *)
(* matches never point behind the keypoints, and extraction implements     *)
(* FeatureStore.  What holds of the detector holds here too.               *)
(***************************************************************************)
EXTENDS FacialFeatures, FaceDetectionProofs

(* While keypoints are selected, the rows collected so far stand for the   *)
(* descriptors of the structure that is being filled.                      *)
Rows(o) == IF step = "select" /\ o = owner THEN facial ELSE features[o].descriptors

(* A structure that no extraction has filled yet holds what is being       *)
(* selected, or nothing; after the first one it is exact until the next    *)
(* starts to append.                                                       *)
Exact(o) ==
  filled[o] = 0 \/ (filled[o] = 1 /\ ~(step = "select" /\ o = owner))
    => Rows(o) = features[o].keypoints

IInv ==
  /\ TypeOK
  /\ \A o \in Owners : IsTail(Rows(o), features[o].keypoints)
  /\ \A o \in Owners : Exact(o)
  /\ \A o \in Owners :
       filled[o] = 0 /\ ~(step = "select" /\ o = owner)
         => features[o].keypoints = << >> /\ features[o].descriptors = << >>
  /\ \A o \in Owners : Len(features[o].descriptors) <= Len(features[o].keypoints)
  /\ matches = << >> \/ \E m, n \in Nat : matches \in [1..m -> 1..n]
  /\ MatchesStayInRange

(* What ExtractFacialFeatures knows of the detector it called, and of the  *)
(* keypoints it looks at and has picked.                                   *)
Picked(kp) ==
  /\ kp.image = photo /\ kp.view = view
  /\ Contains(Stored(Detected[photo][1]), kp.at)

DetectorInv ==
  /\ DetectionInv
  /\ step # "idle" => asked.eyes = FALSE /\ ~NoPixels(photo) /\ stage # "idle"
  /\ step \in {"extract", "select"} => stage = "done" /\ Len(faces) > 0

PickedInv ==
  step = "select" =>
    /\ \A k \in 1..Len(all) : all[k].image = photo /\ all[k].view = view
    /\ \A k \in 1..Len(facial) : Picked(facial[k])
-----------------------------------------------------------------------------
(* Facts about lists without elements. *)
LEMMA EmptyLength == Len(<< >>) = 0
OBVIOUS

(* No rows describe no keypoints. *)
LEMMA EmptyTail ==
  ASSUME NEW S, NEW kps \in Seq(S)
  PROVE  IsTail(<< >>, kps)
BY DEF IsTail

(* A keypoint and its row are appended together. *)
LEMMA TailGrows ==
  ASSUME NEW S, NEW rows \in Seq(S), NEW kps \in Seq(S), NEW x \in S, IsTail(rows, kps)
  PROVE  IsTail(Append(rows, x), Append(kps, x))
<1> DEFINE r == Append(rows, x)  p == Append(kps, x)
<1>1. /\ Len(r) = Len(rows) + 1 /\ r[Len(rows) + 1] = x
      /\ \A j \in 1..Len(rows) : r[j] = rows[j]
  OBVIOUS
<1>2. /\ Len(p) = Len(kps) + 1 /\ p[Len(kps) + 1] = x
      /\ \A j \in 1..Len(kps) : p[j] = kps[j]
  OBVIOUS
<1>3. Len(rows) \in Nat /\ Len(kps) \in Nat
  OBVIOUS
<1> HIDE DEF r, p
<1>4. Len(rows) <= Len(kps) /\ Len(r) <= Len(p)
  BY <1>1, <1>2, <1>3 DEF IsTail
<1>5. ASSUME NEW j \in 1..Len(r)
      PROVE  r[j] = p[Len(p) - Len(r) + j]
  <2>0. Len(p) - Len(r) + j = Len(kps) - Len(rows) + j
    BY <1>1, <1>2, <1>3
  <2>1. CASE j = Len(rows) + 1
    <3>1. Len(kps) - Len(rows) + j = Len(kps) + 1
      BY <1>3, <2>1
    <3> QED BY <1>1, <1>2, <2>0, <2>1, <3>1
  <2>2. CASE j \in 1..Len(rows)
    <3>1. rows[j] = kps[Len(kps) - Len(rows) + j]
      BY <2>2 DEF IsTail
    <3>2. Len(kps) - Len(rows) + j \in 1..Len(kps)
      BY <1>3, <1>4, <2>2
    <3>3. r[j] = rows[j] /\ p[Len(kps) - Len(rows) + j] = kps[Len(kps) - Len(rows) + j]
      BY <1>1, <1>2, <2>2, <3>2
    <3> QED BY <2>0, <3>1, <3>3
  <2> QED BY <1>1, <1>3, <2>1, <2>2
<1>6. IsTail(r, p)
  BY <1>4, <1>5 DEF IsTail
<1> QED BY <1>6 DEF r, p
-----------------------------------------------------------------------------
(* What the structures hold is well typed.                                 *)
LEMMA FeatureTypes ==
  ASSUME TypeOK, NEW o \in Owners
  PROVE  /\ features[o].keypoints \in Seq(Keypoint) /\ features[o].descriptors \in Seq(Keypoint)
         /\ Len(features[o].keypoints) \in Nat /\ Len(features[o].descriptors) \in Nat
         /\ features[o].keypointsSize = Len(features[o].keypoints)
         /\ features[o].descriptorsHeight = Len(features[o].descriptors)
         /\ filled[o] \in Nat
<1>1. features[o] \in Features /\ filled[o] \in Nat
  BY DEF TypeOK
<1> QED BY <1>1 DEF TypeOK, Features

(* An empty structure is one. *)
LEMMA EmptyFeatures == NoFeatures \in Features
BY DEF NoFeatures, Features

(* The structures are empty at first. *)
LEMMA Initial == Init => IInv
<1> SUFFICES ASSUME Init PROVE IInv
  OBVIOUS
<1>1. \A o \in Owners : /\ features[o] = NoFeatures /\ filled[o] = 0
                        /\ features[o].keypoints = << >> /\ features[o].descriptors = << >>
  BY DEF Init, NoFeatures
<1>2. TypeOK
  <2>1. DetectionTypeOK
    BY DetectionStarts DEF Init, DetectionInv
  <2> QED BY <2>1, EmptyFeatures, FacialFeaturesOK DEF Init, TypeOK, NoFeatures, Owners, Views
<1>3. \A o \in Owners : Rows(o) = << >>
  BY <1>1 DEF Rows, Init
<1>4. \A o \in Owners : IsTail(Rows(o), features[o].keypoints)
  BY <1>1, <1>3 DEF IsTail
<1> QED BY <1>1, <1>2, <1>3, <1>4 DEF IInv, Exact, MatchesStayInRange, Init
-----------------------------------------------------------------------------
(* Steps that change none of the structures.                               *)
LEMMA Untouched ==
  ASSUME IInv, TypeOK', UNCHANGED <<features, filled, matches>>, step # "select",
         \A o \in Owners : Rows(o)' = Rows(o) \/ Rows(o)' = << >>,
         \A o \in Owners : Exact(o)'
  PROVE  IInv'
<1>1. ASSUME NEW o \in Owners PROVE IsTail(Rows(o), features[o].keypoints)'
  <2>1. features[o].keypoints \in Seq(Keypoint)
    BY FeatureTypes DEF IInv
  <2>2. IsTail(Rows(o), features[o].keypoints) /\ IsTail(<< >>, features[o].keypoints)
    BY <2>1, EmptyTail DEF IInv
  <2>3. features'[o].keypoints = features[o].keypoints
    OBVIOUS
  <2>4. IsTail(Rows(o)', features'[o].keypoints)
    BY <2>2, <2>3
  <2> QED BY <2>4
<1> QED BY <1>1 DEF IInv, MatchesStayInRange

(* One lemma per step: a call leaves the structures alone. *)
LEMMA CallStep ==
  ASSUME IInv, NEW o \in Owners, NEW img \in Images, NEW crop \in BOOLEAN, Call(o, img, crop),
         DetectionTypeOK'
  PROVE  IInv'
<1>1. TypeOK'
  <2>1. UNCHANGED <<features, filled, all, i, facial>> /\ calls' \in 0..MaxCalls
    BY FacialFeaturesOK DEF IInv, TypeOK, Call, locals
  <2>2. step' \in {"idle", "detect", "extract", "select"} /\ owner' \in Owners /\ view' \in Views
    BY DEF IInv, TypeOK, Call, args, Views
  <2> QED BY <2>1, <2>2 DEF IInv, TypeOK
<1>2. /\ UNCHANGED <<features, filled, matches, facial>> /\ step = "idle" /\ step' # "select"
  BY DEF Call, locals
<1> QED BY <1>1, <1>2, Untouched DEF IInv, Rows, Exact

(* So does another caller of the detector. *)
LEMMA CallDetectorStep ==
  ASSUME IInv, NEW img \in Images, NEW eyes \in BOOLEAN, NEW smile \in BOOLEAN,
         CallDetector(img, eyes, smile), DetectionTypeOK'
  PROVE  IInv'
<1>1. TypeOK'
  BY FacialFeaturesOK DEF IInv, TypeOK, CallDetector, args, locals
<1>2. /\ UNCHANGED <<features, filled, matches, facial>> /\ step = "idle" /\ step' # "select"
  BY DEF CallDetector, locals
<1> QED BY <1>1, <1>2, Untouched DEF IInv, Rows, Exact

(* So does the detector. *)
LEMMA DetectStep ==
  ASSUME IInv, Detect \/ LeaveDetector, DetectionTypeOK'
  PROVE  IInv'
<1>1. UNCHANGED <<features, filled, step, owner, view, all, i, facial, matches, calls>>
  BY DEF Detect, LeaveDetector, args, locals
<1>2. TypeOK'
  BY <1>1 DEF IInv, TypeOK
<1>3. \A o \in Owners : Rows(o)' = Rows(o) /\ Exact(o)' = Exact(o)
  BY <1>1 DEF Rows, Exact
<1>4. \A o \in Owners : IsTail(Rows(o)', features'[o].keypoints)
  BY <1>1, <1>3 DEF IInv
<1> QED BY <1>1, <1>2, <1>3, <1>4 DEF IInv, MatchesStayInRange

(* Leave, and what it does to variables that are not its caller's. *)
LEMMA LeaveStep ==
  ASSUME IInv, Leave, step # "select", UNCHANGED <<features, filled, matches, calls>>, DetectionTypeOK'
  PROVE  IInv'
<1>1. step' = "idle" /\ owner' \in Owners /\ view' \in Views /\ all' = << >> /\ i' = 1 /\ facial' = << >>
  BY DEF Leave, Owners, Views
<1>2. TypeOK'
  BY <1>1, EmptyLength DEF IInv, TypeOK
<1> QED BY <1>1, <1>2, Untouched DEF IInv, Rows, Exact

(* So does the decision whether there are faces. *)
LEMMA HaveStep == ASSUME IInv, HaveFaces, DetectionTypeOK' PROVE IInv'
<1>1. UNCHANGED <<features, filled, matches, calls>> /\ step = "detect"
  BY DEF HaveFaces
<1>2. CASE Leave
  BY <1>1, <1>2, LeaveStep
<1>3. CASE step' = "extract" /\ UNCHANGED <<args, locals>>
  <2>1. TypeOK'
    BY <1>1, <1>3 DEF IInv, TypeOK, args, locals
  <2> QED BY <1>1, <1>3, <2>1, Untouched DEF IInv, args, locals, Rows, Exact
<1> QED BY <1>2, <1>3 DEF HaveFaces

(* Selection starts without rows. *)
LEMMA ExtractStep == ASSUME IInv, ExtractFeatures, DetectionTypeOK' PROVE IInv'
<1>1. UNCHANGED <<features, filled, matches, calls>> /\ step = "extract"
  BY DEF ExtractFeatures
<1>2. CASE Leave
  BY <1>1, <1>2, LeaveStep
<1>3. CASE \E found \in Found[view][photo] :
             /\ all' = [j \in 1..Len(found) |-> [image |-> photo, view |-> view, at |-> found[j]]]
             /\ i' = 1 /\ facial' = << >> /\ step' = "select" /\ UNCHANGED args
  <2>1. PICK found \in Found[view][photo] :
           /\ all' = [j \in 1..Len(found) |-> [image |-> photo, view |-> view, at |-> found[j]]]
           /\ i' = 1 /\ facial' = << >> /\ step' = "select" /\ owner' = owner /\ view' = view
    BY <1>3 DEF args
  <2>2. found \in Seq(Points) /\ photo \in Images /\ view \in Views
    BY FacialFeaturesOK DEF IInv, TypeOK, DetectionTypeOK
  <2>3. all' \in Seq(Keypoint)
    BY <2>1, <2>2 DEF Keypoint
  <2>4. TypeOK'
    BY <1>1, <2>1, <2>3 DEF IInv, TypeOK
  <2>5. ASSUME NEW o \in Owners
        PROVE  (Rows(o)' = Rows(o) \/ Rows(o)' = << >>) /\ Exact(o)'
    <3>1. CASE o # owner
      BY <1>1, <2>1, <3>1 DEF Rows, Exact, IInv
    <3>2. CASE o = owner
      <4>1. Rows(o)' = << >>
        BY <1>1, <2>1, <3>2 DEF Rows
      <4>2. filled[o] = 0 => features[o].keypoints = << >>
        BY <1>1 DEF IInv
      <4> QED BY <1>1, <2>1, <3>2, <4>1, <4>2 DEF Exact
    <3> QED BY <3>1, <3>2
  <2> QED BY <1>1, <2>4, <2>5, Untouched
<1> QED BY <1>2, <1>3 DEF ExtractFeatures
-----------------------------------------------------------------------------
(* Steps that change the structure of one owner only.                      *)
LEMMA GrownFeatures ==
  ASSUME NEW f \in Features, NEW x \in Keypoint, NEW g,
         g = [f EXCEPT !.keypoints = Append(f.keypoints, x),
                       !.keypointsSize = f.keypointsSize + 1]
  PROVE  /\ g \in Features /\ g.keypoints = Append(f.keypoints, x)
         /\ g.keypointsSize = f.keypointsSize + 1
         /\ g.descriptors = f.descriptors /\ g.descriptorsHeight = f.descriptorsHeight
<1>1. f.keypoints \in Seq(Keypoint) /\ f.keypointsSize \in Nat
  BY DEF Features
<1>2. Append(f.keypoints, x) \in Seq(Keypoint) /\ f.keypointsSize + 1 \in Nat
  BY <1>1
<1>3. g = [keypoints |-> Append(f.keypoints, x), keypointsSize |-> f.keypointsSize + 1,
           descriptors |-> f.descriptors, descriptorsHeight |-> f.descriptorsHeight]
  BY DEF Features
<1> QED BY <1>2, <1>3 DEF Features

(* A keypoint is appended with its row, or neither of them. *)
LEMMA SelectStep == ASSUME IInv, SelectKeypoint, DetectionTypeOK' PROVE IInv'
<1> DEFINE x == all[i]
           f == features[owner]
<1>1. /\ UNCHANGED <<filled, step, owner, view, all, matches, calls>>
      /\ step = "select" /\ i' = i + 1 /\ owner \in Owners
      /\ features \in [Owners -> Features] /\ facial \in Seq(Keypoint)
      /\ x \in Keypoint /\ i' \in 1..(Len(all) + 1) /\ f \in Features
  BY DEF SelectKeypoint, args, IInv, TypeOK
<1>2. CASE UNCHANGED <<features, facial>>
  <2>1. TypeOK'
    BY <1>1, <1>2 DEF IInv, TypeOK
  <2>2. \A o \in Owners : Rows(o)' = Rows(o) /\ Exact(o)' = Exact(o)
    BY <1>1, <1>2 DEF Rows, Exact
  <2>3. \A o \in Owners : IsTail(Rows(o)', features'[o].keypoints)
    BY <1>2, <2>2 DEF IInv
  <2> QED BY <1>1, <1>2, <2>1, <2>2, <2>3 DEF IInv, MatchesStayInRange
<1>3. CASE /\ features' = [features EXCEPT ![owner].keypoints = Append(@, x),
                                          ![owner].keypointsSize = @ + 1]
           /\ facial' = Append(facial, x)
  <2>1. features' = [features EXCEPT ![owner] = [f EXCEPT !.keypoints = Append(f.keypoints, x),
                                                         !.keypointsSize = f.keypointsSize + 1]]
    BY <1>3
  <2> DEFINE g == [f EXCEPT !.keypoints = Append(f.keypoints, x),
                           !.keypointsSize = f.keypointsSize + 1]
  <2>a. /\ g \in Features /\ g.keypoints = Append(f.keypoints, x)
        /\ g.keypointsSize = f.keypointsSize + 1
        /\ g.descriptors = f.descriptors /\ g.descriptorsHeight = f.descriptorsHeight
    <3> HIDE DEF f, x
    <3>1. f \in Features /\ x \in Keypoint
      BY <1>1
    <3> QED BY <3>1, GrownFeatures
  <2>b. features' = [features EXCEPT ![owner] = g]
    BY <2>1
  <2> HIDE DEF g
  <2>2. /\ features'[owner].keypoints = Append(f.keypoints, x)
        /\ features'[owner].keypointsSize = f.keypointsSize + 1
        /\ features'[owner].descriptors = f.descriptors
        /\ features'[owner].descriptorsHeight = f.descriptorsHeight
        /\ \A o \in Owners \ {owner} : features'[o] = features[o]
        /\ features'[owner] \in Features
    BY <1>1, <2>a, <2>b
  <2>3. /\ Append(f.keypoints, x) \in Seq(Keypoint)
        /\ Len(Append(f.keypoints, x)) = Len(f.keypoints) + 1
        /\ f.keypointsSize = Len(f.keypoints)
    BY <1>1, FeatureTypes DEF IInv
  <2>4. TypeOK'
    <3>1. features' \in [Owners -> Features] /\ facial' \in Seq(Keypoint)
      <4> HIDE DEF x, f
      <4>1. facial' \in Seq(Keypoint)
        BY <1>1, <1>3
      <4>2. features' \in [Owners -> Features]
        BY <1>1, <2>a, <2>b
      <4> QED BY <4>1, <4>2
    <3>2. \A o \in Owners : /\ features'[o].keypointsSize = Len(features'[o].keypoints)
                            /\ features'[o].descriptorsHeight = Len(features'[o].descriptors)
      BY <2>2, <2>3, <1>1 DEF IInv, TypeOK
    <3> QED BY <1>1, <3>1, <3>2 DEF IInv, TypeOK
  <2>5. ASSUME NEW o \in Owners
        PROVE  /\ IsTail(Rows(o), features[o].keypoints)' /\ Exact(o)'
               /\ Len(features'[o].descriptors) <= Len(features'[o].keypoints)
               /\ Len(features[o].keypoints) <= Len(features'[o].keypoints)
    <3>1. CASE o # owner
      <4>1. features'[o] = features[o] /\ Rows(o)' = Rows(o) /\ Exact(o)' = Exact(o)
        BY <1>1, <2>2, <3>1 DEF Rows, Exact
      <4>2. Len(features[o].keypoints) \in Nat
        BY FeatureTypes DEF IInv
      <4> QED BY <4>1, <4>2 DEF IInv, IsTail
    <3>2. CASE o = owner
      <4>1. Rows(o) = facial /\ Rows(o)' = Append(facial, x)
        BY <1>1, <1>3, <3>2 DEF Rows
      <4>2. f.keypoints \in Seq(Keypoint) /\ IsTail(facial, f.keypoints)
        BY <1>1, <3>2, <4>1, FeatureTypes DEF IInv
      <4>3. IsTail(Append(facial, x), Append(f.keypoints, x))
        BY <1>1, <4>2, TailGrows
      <4>4. IsTail(Rows(o)', features'[o].keypoints)
        BY <2>2, <3>2, <4>1, <4>3
      <4>5. Exact(o)'
        BY <1>1, <2>2, <3>2, <4>1 DEF IInv, Exact
      <4>6. /\ Len(f.descriptors) <= Len(f.keypoints)
            /\ Len(f.descriptors) \in Nat /\ Len(f.keypoints) \in Nat
        BY <1>1, FeatureTypes DEF IInv
      <4>7. Len(features'[o].descriptors) = Len(f.descriptors)
            /\ Len(features'[o].keypoints) = Len(f.keypoints) + 1
        BY <2>2, <2>3, <3>2
      <4>8. features[o] = f
        BY <3>2
      <4>9. Len(features'[o].descriptors) <= Len(features'[o].keypoints)
        <5> HIDE DEF f
        <5> QED BY <4>6, <4>7
      <4>10. Len(features[o].keypoints) <= Len(features'[o].keypoints)
        <5> HIDE DEF f
        <5> QED BY <4>6, <4>7, <4>8
      <4> QED BY <4>4, <4>5, <4>9, <4>10
    <3> QED BY <3>1, <3>2
  <2>6. MatchesStayInRange'
    <3> SUFFICES ASSUME NEW q \in 1..Len(matches)
                 PROVE /\ q <= Len(features'["query"].keypoints)
                       /\ matches[q] <= Len(features'["train"].keypoints)
      BY <1>1 DEF MatchesStayInRange
    <3>1. /\ q <= Len(features["query"].keypoints)
          /\ matches[q] <= Len(features["train"].keypoints) /\ q \in Nat /\ matches[q] \in Nat
      BY DEF IInv, MatchesStayInRange
    <3>2. \A o \in Owners : Len(features[o].keypoints) \in Nat /\ Len(features'[o].keypoints) \in Nat
      BY <1>1, <2>2, <2>3, FeatureTypes DEF IInv
    <3> QED BY <2>5, <3>1, <3>2 DEF Owners
  <2> QED BY <1>1, <2>2, <2>4, <2>5, <2>6 DEF IInv
<1> QED BY <1>2, <1>3 DEF SelectKeypoint

(* The rows collected become the descriptors. *)
LEMMA SetStep == ASSUME IInv, SetDescriptors, DetectionTypeOK' PROVE IInv'
<1> DEFINE f == features[owner]
           g == [f EXCEPT !.descriptors = facial, !.descriptorsHeight = Len(facial)]
<1>1. /\ UNCHANGED <<matches, calls>>
      /\ step = "select" /\ step' = "idle" /\ owner \in Owners
      /\ owner' \in Owners /\ view' \in Views /\ all' = << >> /\ i' = 1 /\ facial' = << >>
      /\ features \in [Owners -> Features] /\ facial \in Seq(Keypoint) /\ f \in Features
      /\ filled \in [Owners -> Nat] /\ filled' = [filled EXCEPT ![owner] = @ + 1]
  BY DEF SetDescriptors, Leave, Owners, Views, IInv, TypeOK
<1>2. features' = [features EXCEPT ![owner] = g]
  BY DEF SetDescriptors
<1>3. /\ g \in Features
      /\ g.keypoints = f.keypoints /\ g.keypointsSize = f.keypointsSize
      /\ g.descriptors = facial /\ g.descriptorsHeight = Len(facial)
  <2>1. f \in Features /\ facial \in Seq(Keypoint)
    BY <1>1
  <2> DEFINE h == Len(facial)
  <2>2. h \in Nat
    BY <1>1
  <2> HIDE DEF f, h
  <2>3. g = [f EXCEPT !.descriptors = facial, !.descriptorsHeight = h]
    BY DEF h
  <2> HIDE DEF g
  <2>4. g = [keypoints |-> f.keypoints, keypointsSize |-> f.keypointsSize,
             descriptors |-> facial, descriptorsHeight |-> h]
    BY <2>1, <2>3 DEF Features
  <2>5. f.keypoints \in Seq(Keypoint) /\ f.keypointsSize \in Nat
    BY <2>1 DEF Features
  <2>6. g \in Features
    BY <2>1, <2>2, <2>4, <2>5 DEF Features
  <2> QED BY <2>4, <2>6 DEF h
<1> HIDE DEF g
<1>5. /\ features'[owner] = g /\ features' \in [Owners -> Features]
      /\ \A o \in Owners \ {owner} : features'[o] = features[o] /\ filled'[o] = filled[o]
      /\ filled'[owner] = filled[owner] + 1 /\ filled' \in [Owners -> Nat]
      /\ filled[owner] \in Nat
  BY <1>1, <1>2, <1>3
<1>6. TypeOK'
  <2>1. \A o \in Owners : /\ features'[o].keypointsSize = Len(features'[o].keypoints)
                          /\ features'[o].descriptorsHeight = Len(features'[o].descriptors)
    BY <1>1, <1>3, <1>5 DEF IInv, TypeOK
  <2> QED BY <1>1, <1>5, <2>1, EmptyLength DEF IInv, TypeOK
<1>7. ASSUME NEW o \in Owners
      PROVE  /\ IsTail(Rows(o)', features'[o].keypoints) /\ Exact(o)'
             /\ Len(features'[o].descriptors) <= Len(features'[o].keypoints)
             /\ features'[o].keypoints = features[o].keypoints
             /\ filled'[o] = 0 => o # owner /\ filled[o] = 0
  <2>1. CASE o # owner
    <3>1. features'[o] = features[o] /\ Rows(o)' = Rows(o) /\ Exact(o)' = Exact(o)
          /\ filled'[o] = filled[o]
      BY <1>1, <1>5, <2>1 DEF Rows, Exact
    <3> QED BY <2>1, <3>1 DEF IInv
  <2>2. CASE o = owner
    <3>1. Rows(o) = facial /\ Rows(o)' = facial /\ features'[o].keypoints = features[o].keypoints
          /\ features'[o].descriptors = facial
      BY <1>1, <1>3, <1>5, <2>2 DEF Rows
    <3>2. IsTail(facial, features[o].keypoints) /\ Exact(o)
      BY <3>1 DEF IInv
    <3>3. Exact(o)'
      BY <1>1, <1>5, <2>2, <3>1, <3>2 DEF Exact
    <3>4. Len(facial) <= Len(features[o].keypoints)
      BY <3>2 DEF IsTail
    <3>5. filled'[o] # 0
      BY <1>5, <2>2
    <3> QED BY <3>1, <3>2, <3>3, <3>4, <3>5
  <2> QED BY <2>1, <2>2
<1>8. MatchesStayInRange'
  <2>1. /\ features'["query"].keypoints = features["query"].keypoints
        /\ features'["train"].keypoints = features["train"].keypoints
    BY <1>7 DEF Owners
  <2> QED BY <1>1, <2>1 DEF IInv, MatchesStayInRange
<1>9. \A o \in Owners :
        filled'[o] = 0 /\ ~(step' = "select" /\ o = owner')
          => features'[o].keypoints = << >> /\ features'[o].descriptors = << >>
  <2> SUFFICES ASSUME NEW o \in Owners, filled'[o] = 0
               PROVE  features'[o].keypoints = << >> /\ features'[o].descriptors = << >>
    OBVIOUS
  <2>1. o # owner /\ filled[o] = 0
    BY <1>7
  <2>2. features'[o] = features[o]
    BY <1>5, <2>1
  <2> QED BY <2>1, <2>2 DEF IInv
<1> QED BY <1>1, <1>6, <1>7, <1>8, <1>9 DEF IInv

(* A new structure is empty. *)
LEMMA NewStep == ASSUME IInv, NEW o \in Owners, NewFeatures(o), DetectionTypeOK' PROVE IInv'
<1>1. /\ UNCHANGED <<step, owner, view, all, i, facial, calls>> /\ step = "idle"
      /\ matches' = << >> /\ features' = [features EXCEPT ![o] = NoFeatures]
      /\ filled' = [filled EXCEPT ![o] = 0]
      /\ features \in [Owners -> Features] /\ filled \in [Owners -> Nat]
  BY DEF NewFeatures, args, locals, IInv, TypeOK
<1>2. /\ features' \in [Owners -> Features] /\ features'[o] = NoFeatures
      /\ \A p \in Owners \ {o} : features'[p] = features[p] /\ filled'[p] = filled[p]
      /\ filled' \in [Owners -> Nat]
  BY <1>1, EmptyFeatures
<1>3. /\ NoFeatures.keypoints = << >> /\ NoFeatures.descriptors = << >>
      /\ NoFeatures.keypointsSize = 0 /\ NoFeatures.descriptorsHeight = 0
  BY DEF NoFeatures
<1>4. TypeOK'
  <2>1. \A p \in Owners : /\ features'[p].keypointsSize = Len(features'[p].keypoints)
                          /\ features'[p].descriptorsHeight = Len(features'[p].descriptors)
    <3> SUFFICES ASSUME NEW p \in Owners
                 PROVE  /\ features'[p].keypointsSize = Len(features'[p].keypoints)
                        /\ features'[p].descriptorsHeight = Len(features'[p].descriptors)
      OBVIOUS
    <3>1. CASE p # o
      BY <1>2, <3>1 DEF IInv, TypeOK
    <3>2. CASE p = o
      BY <1>2, <1>3, <3>2, EmptyLength
    <3> QED BY <3>1, <3>2
  <2> QED BY <1>1, <1>2, <2>1 DEF IInv, TypeOK
<1>5. ASSUME NEW p \in Owners
      PROVE  /\ IsTail(Rows(p)', features'[p].keypoints) /\ Exact(p)'
             /\ Len(features'[p].descriptors) <= Len(features'[p].keypoints)
             /\ \/ features'[p].keypoints = << >> /\ features'[p].descriptors = << >>
                \/ features'[p] = features[p] /\ filled'[p] = filled[p]
  <2>1. CASE p # o
    <3>1. features'[p] = features[p] /\ Rows(p)' = Rows(p) /\ Exact(p)' = Exact(p)
          /\ filled'[p] = filled[p]
      BY <1>1, <1>2, <2>1 DEF Rows, Exact
    <3> QED BY <3>1 DEF IInv
  <2>2. CASE p = o
    <3>1. Rows(p)' = << >> /\ features'[p].keypoints = << >> /\ features'[p].descriptors = << >>
      BY <1>1, <1>2, <1>3, <2>2 DEF Rows
    <3> QED BY <3>1 DEF Exact, IsTail
  <2> QED BY <2>1, <2>2
<1> QED BY <1>1, <1>4, <1>5 DEF IInv, MatchesStayInRange

(* Matches are rows, and rows are no more than keypoints. *)
LEMMA MatchStep == ASSUME IInv, Match, DetectionTypeOK' PROVE IInv'
<1> DEFINE m == features["query"].descriptorsHeight
           n == features["train"].descriptorsHeight
<1>1. UNCHANGED <<features, filled, step, owner, view, all, i, facial, calls>>
  BY DEF Match, args, locals
<1>2. /\ m \in Nat /\ n \in Nat
      /\ m <= Len(features["query"].keypoints) /\ n <= Len(features["train"].keypoints)
      /\ Len(features["query"].keypoints) \in Nat /\ Len(features["train"].keypoints) \in Nat
  BY FeatureTypes DEF IInv, Owners
<1>3. matches' = << >> \/ matches' = matches \/ matches' \in [1..m -> 1..n]
  BY DEF Match
<1> HIDE DEF m, n
<1>4. MatchesStayInRange'
  BY <1>1, <1>2, <1>3 DEF IInv, MatchesStayInRange
<1>5. TypeOK'
  BY <1>1 DEF IInv, TypeOK
<1>6. \A o \in Owners : Rows(o)' = Rows(o) /\ Exact(o)' = Exact(o)
  BY <1>1 DEF Rows, Exact
<1>7. matches' = << >> \/ \E a, b \in Nat : matches' \in [1..a -> 1..b]
  BY <1>2, <1>3 DEF IInv
<1>8. \A o \in Owners : IsTail(Rows(o)', features'[o].keypoints)
  BY <1>1, <1>6 DEF IInv
<1> QED BY <1>1, <1>4, <1>5, <1>6, <1>7, <1>8 DEF IInv
-----------------------------------------------------------------------------
(* Detection within extraction, and for the other caller. *)
LEMMA DetectingStep ==
  ASSUME DetectionInv, Detecting
  PROVE  /\ DetectionInv' /\ stage \in {"box", "eyes", "smile"}
         /\ stage' # "idle" /\ UNCHANGED <<photo, asked>>
<1>1. DetectionInv'
  BY StoresBox, DetectsEyes, DetectsSmile DEF Detecting
<1>2. NextFace # "idle" /\ AfterEyes # "idle"
  BY DEF NextFace, AfterEyes
<1> QED BY <1>1, <1>2 DEF Detecting, StoreBox, DetectEyes, DetectSmile, GoTo

(* What extraction knows of the detector it called. *)
LEMMA DetectorInductive ==
  ASSUME DetectorInv, [Next]_vars
  PROVE  DetectorInv'
<1> USE DEF DetectorInv
<1>1. ASSUME UNCHANGED <<step, detection>>
      PROVE  DetectorInv'
  BY <1>1, DetectionKept DEF detection, NoPixels
<1>2. ASSUME NEW o \in Owners, NEW img \in Images, NEW crop \in BOOLEAN, Call(o, img, crop)
      PROVE  DetectorInv'
  <2>1. CASE NoPixels(img)
    BY <1>1, <1>2, <2>1 DEF Call
  <2>2. CASE ~NoPixels(img)
    <3>1. step' = "detect" /\ DetectFaces(img, FALSE, FALSE)
      BY <1>2, <2>2 DEF Call
    <3>2. DetectionInv'
      BY <3>1, DetectsFaces
    <3>3. asked'.eyes = FALSE /\ photo' = img /\ stage' # "idle"
      BY <2>2, <3>1 DEF DetectFaces
    <3> QED BY <2>2, <3>1, <3>2, <3>3 DEF NoPixels
  <2> QED BY <2>1, <2>2
<1>3. ASSUME NEW img \in Images, NEW eyes \in BOOLEAN, NEW smile \in BOOLEAN,
             CallDetector(img, eyes, smile)
      PROVE  DetectorInv'
  BY <1>3, DetectsFaces DEF CallDetector
<1>4. ASSUME Detect
      PROVE  DetectorInv'
  BY <1>4, DetectingStep DEF Detect, NoPixels
<1>5. ASSUME LeaveDetector \/ Leave
      PROVE  DetectorInv'
  BY <1>5, Returns DEF LeaveDetector, Leave
<1>6. ASSUME HaveFaces
      PROVE  DetectorInv'
  <2>1. CASE Leave
    BY <1>5, <2>1
  <2>2. CASE step' = "extract" /\ Len(faces) > 0 /\ UNCHANGED detection
    <3>1. stage = "done" /\ step = "detect"
      BY <1>6 DEF HaveFaces
    <3> QED BY <2>2, <3>1, DetectionKept DEF detection, NoPixels
  <2> QED BY <1>6, <2>1, <2>2 DEF HaveFaces
<1>7. ASSUME ExtractFeatures
      PROVE  DetectorInv'
  <2>1. CASE Leave
    BY <1>5, <2>1
  <2>2. CASE step' = "select" /\ UNCHANGED detection
    BY <1>7, <2>2, DetectionKept DEF ExtractFeatures, detection, NoPixels
  <2> QED BY <1>7, <2>1, <2>2 DEF ExtractFeatures
<1>8. ASSUME SelectKeypoint \/ Match \/ \E o \in Owners : NewFeatures(o)
      PROVE  DetectorInv'
  BY <1>1, <1>8 DEF SelectKeypoint, Match, NewFeatures
<1>9. ASSUME SetDescriptors
      PROVE  DetectorInv'
  BY <1>5, <1>9 DEF SetDescriptors
<1>10. CASE UNCHANGED vars
  BY <1>1, <1>10 DEF vars
<1>11. CASE Next
  BY <1>2, <1>3, <1>4, <1>5, <1>6, <1>7, <1>8, <1>9, <1>11 DEF Next, Work
<1> QED BY <1>10, <1>11

(* So every step keeps the invariant. *)
LEMMA Inductive ==
  ASSUME IInv, [Next]_vars, DetectionTypeOK'
  PROVE  IInv'
<1>1. CASE UNCHANGED vars
  <2>1. \A o \in Owners : Rows(o)' = Rows(o) /\ Exact(o)' = Exact(o)
    BY <1>1 DEF vars, args, locals, Rows, Exact
  <2>2. \A o \in Owners : IsTail(Rows(o)', features'[o].keypoints)
    BY <1>1, <2>1 DEF IInv, vars
  <2> QED BY <1>1, <2>1, <2>2 DEF vars, args, locals, IInv, TypeOK, MatchesStayInRange
<1>2. CASE Next
  BY <1>2, CallStep, CallDetectorStep, NewStep, DetectStep, HaveStep, ExtractStep, SelectStep,
     SetStep, MatchStep DEF Next, Work
<1> QED BY <1>1, <1>2

(* Keypoints that have been picked are of this photograph and view, and on *)
(* its first face.                                                         *)
LEMMA PickedInductive ==
  ASSUME PickedInv, DetectorInv, IInv, [Next]_vars
  PROVE  PickedInv'
<1>1. CASE step' # "select"
  BY <1>1 DEF PickedInv
<1>2. CASE UNCHANGED <<step, photo, view, all, facial>>
  BY <1>2 DEF PickedInv, Picked
<1>3. CASE ExtractFeatures /\ step' = "select"
  <2>1. PICK found \in Found[view][photo] :
          /\ all' = [j \in 1..Len(found) |-> [image |-> photo, view |-> view, at |-> found[j]]]
          /\ facial' = << >> /\ view' = view /\ photo' = photo
    BY <1>3 DEF ExtractFeatures, Leave, args, detection
  <2>2. found \in Seq(Points)
    BY FacialFeaturesOK DEF IInv, TypeOK, DetectionTypeOK
  <2>3. Len(all') = Len(found) /\ Len(facial') = 0
    BY <2>1, <2>2
  <2> QED BY <2>1, <2>3 DEF PickedInv
<1>4. CASE SelectKeypoint
  <2>1. /\ step = "select" /\ UNCHANGED <<step, view, all, photo>> /\ i \in 1..Len(all)
        /\ facial \in Seq(Keypoint) /\ all[i] \in Keypoint
        /\ facial' = facial \/ (facial' = Append(facial, all[i]) /\ OnFace(all[i].at))
    BY <1>4 DEF SelectKeypoint, args, detection, IInv, TypeOK
  <2>2. faces[1].FaceCoordinate = Stored(Detected[photo][1])
    <3>1. AskedIsWritten /\ stage = "done" /\ Len(faces) > 0 /\ faces \in Seq(Face)
      BY <2>1, DetectionShows DEF DetectorInv, DetectionInv, DetectionTypeOK
    <3>2. 1 \in 1..Len(faces)
      BY <3>1
    <3> QED BY <3>1, <3>2 DEF AskedIsWritten
  <2>3. OnFace(all[i].at) => Picked(all[i])
    BY <2>1, <2>2 DEF OnFace, PickedInv, Picked
  <2>4. CASE facial' = facial
    BY <2>1, <2>4 DEF PickedInv, Picked
  <2>5. CASE facial' = Append(facial, all[i]) /\ OnFace(all[i].at)
    <3>1. ASSUME NEW k \in 1..Len(facial')
          PROVE  Picked(facial'[k])
      <4>1. facial'[k] = all[i] \/ (k \in 1..Len(facial) /\ facial'[k] = facial[k])
        BY <2>1, <2>5
      <4> QED BY <2>1, <2>3, <2>5, <4>1 DEF PickedInv
    <3> QED BY <2>1, <3>1 DEF PickedInv, Picked
  <2> QED BY <2>1, <2>4, <2>5
<1>5. step' = "select" =>
        ExtractFeatures \/ SelectKeypoint \/ UNCHANGED <<step, photo, view, all, facial>>
  <2>1. CASE UNCHANGED vars
    BY <2>1 DEF vars, args, locals, detection
  <2>2. CASE Detect
    BY <2>2, DetectingStep DEF Detect, args, locals, DetectorInv
  <2>3. CASE Next /\ ~Detect
    BY <2>3 DEF Next, Work, Call, CallDetector, NewFeatures, LeaveDetector, HaveFaces, Leave,
                SetDescriptors, Match, args, locals, detection
  <2> QED BY <2>1, <2>2, <2>3
<1> QED BY <1>1, <1>2, <1>3, <1>4, <1>5

(* The three hold throughout. *)
LEMMA Invariant == Spec => [](IInv /\ DetectorInv /\ PickedInv)
<1>1. Init => IInv /\ DetectorInv /\ PickedInv
  BY Initial, DetectionStarts DEF Init, DetectorInv, PickedInv
<1>2. IInv /\ DetectorInv /\ PickedInv /\ [Next]_vars => (IInv /\ DetectorInv /\ PickedInv)'
  BY DetectorInductive, Inductive, PickedInductive DEF DetectorInv, DetectionInv
<1> QED BY <1>1, <1>2, PTL DEF Spec

(* Type correctness: the recorded sizes are those of the lists.            *)
THEOREM TypeCorrect == Spec => []TypeOK
<1>1. IInv => TypeOK
  BY DEF IInv
<1> QED BY <1>1, Invariant, PTL

(* After any calls, on any photographs, the descriptors are those of the   *)
(* last keypoints (FaceAugmentation.cpp:56-64).                            *)
THEOREM DescriptorsAlwaysTail == Spec => []DescriptorsOfTheTail
<1>1. IInv => DescriptorsOfTheTail
  BY DEF IInv, DescriptorsOfTheTail, Rows
<1> QED BY <1>1, Invariant, PTL

(* A structure filled at most once pairs rows and keypoints one to one     *)
(* (HeadPoseEstimationTest.cpp:109-142).                                   *)
THEOREM FreshAlwaysExact == Spec => []FreshIsExact
<1>1. IInv => FreshIsExact
  <2> SUFFICES ASSUME IInv, step = "idle", NEW o \in Owners, filled[o] <= 1
               PROVE  features[o].descriptors = features[o].keypoints
    BY DEF FreshIsExact
  <2>1. filled[o] = 0 \/ filled[o] = 1
    BY FeatureTypes DEF IInv
  <2> QED BY <2>1 DEF IInv, Exact, Rows
<1> QED BY <1>1, Invariant, PTL

(* Both, for any history of a structure (FaceAugmentation.cpp:46-67).      *)
THEOREM DescriptorsAlwaysCorrespond == Spec => []DescriptorsCorrespond
<1>1. DescriptorsOfTheTail /\ FreshIsExact => DescriptorsCorrespond
  BY DEF DescriptorsCorrespond
<1> QED BY <1>1, DescriptorsAlwaysTail, FreshAlwaysExact, PTL

(* Matches never point behind the keypoints (FaceAugmentation.cpp:75).     *)
THEOREM MatchesAlwaysInRange == Spec => []MatchesStayInRange
<1>1. IInv => MatchesStayInRange
  BY DEF IInv
<1> QED BY <1>1, Invariant, PTL

(* Each face that DetectFaces returns was written as asked for             *)
(* (SeetaFaceDetection.cpp:66-198).                                        *)
THEOREM AskedAlwaysWritten == Spec => []AskedIsWritten
<1>1. DetectorInv => AskedIsWritten
  BY DetectionShows DEF DetectorInv
<1> QED BY <1>1, Invariant, PTL

(* Only looking for eyes throws, wherever the faces are                    *)
(* (SeetaFaceDetection.cpp:84, 149).                                       *)
THEOREM OnlyEyesEverThrow == Spec => []OnlyEyesThrow
<1>1. DetectorInv => OnlyEyesThrow
  BY DetectionShows DEF DetectorInv
<1> QED BY <1>1, Invariant, PTL

(* For faces of any size and whatever the cascades find, scaling back and  *)
(* truncation stay within the region (SeetaFaceDetection.cpp:121-178).     *)
THEOREM RegionsAlwaysFit == Spec => []RegionsFit
<1>1. DetectorInv => RegionsFit
  BY DetectionShows DEF DetectorInv
<1> QED BY <1>1, Invariant, PTL
-----------------------------------------------------------------------------
(* Extraction implements FeatureStore. *)
LEMMA TailIsRest ==
  ASSUME NEW S, NEW rows \in Seq(S), NEW kps \in Seq(S), IsTail(rows, kps)
  PROVE  kps = SubSeq(kps, 1, Len(kps) - Len(rows)) \o rows
<1> DEFINE n == Len(kps)
           h == Len(rows)
           front == SubSeq(kps, 1, n - h)
           whole == front \o rows
<1>1. n \in Nat /\ h \in Nat /\ h <= n /\ n - h \in 0..n
  BY DEF IsTail
<1>2. front \in Seq(S) /\ Len(front) = n - h /\ \A j \in 1..(n - h) : front[j] = kps[j]
  BY <1>1
<1>3. whole \in Seq(S) /\ Len(whole) = n
  BY <1>1, <1>2
<1>4. ASSUME NEW j \in 1..n PROVE whole[j] = kps[j]
  <2>1. CASE j <= n - h
    BY <1>1, <1>2, <2>1
  <2>2. CASE j > n - h
    <3>1. j - (n - h) \in 1..h
      BY <1>1, <2>2
    <3>2. whole[j] = rows[j - (n - h)]
      BY <1>1, <1>2, <2>2
    <3>3. rows[j - (n - h)] = kps[n - h + (j - (n - h))]
      BY <3>1 DEF IsTail
    <3>4. n - h + (j - (n - h)) = j
      BY <1>1
    <3> QED BY <3>2, <3>3, <3>4
  <2> QED BY <1>1, <2>1, <2>2
<1> HIDE DEF whole
<1>5. whole = kps
  BY <1>1, <1>3, <1>4
<1> QED BY <1>5 DEF whole

(* A keypoint appended with its row leaves the others as they were. *)
LEMMA BeforeGrows ==
  ASSUME NEW S, NEW rows \in Seq(S), NEW kps \in Seq(S), NEW x \in S, Len(rows) <= Len(kps)
  PROVE  SubSeq(Append(kps, x), 1, Len(Append(kps, x)) - Len(Append(rows, x)))
           = SubSeq(kps, 1, Len(kps) - Len(rows))
<1> DEFINE n == Len(kps) - Len(rows)
           left == SubSeq(Append(kps, x), 1, n)
           right == SubSeq(kps, 1, n)
<1>1. n \in 0..Len(kps) /\ Len(kps) \in Nat
  OBVIOUS
<1>2. Len(Append(kps, x)) - Len(Append(rows, x)) = n
  OBVIOUS
<1>3. left \in Seq(S) /\ Len(left) = n /\ \A j \in 1..n : left[j] = kps[j]
  BY <1>1
<1>4. right \in Seq(S) /\ Len(right) = n /\ \A j \in 1..n : right[j] = kps[j]
  BY <1>1
<1> HIDE DEF n, left, right
<1>5. left = right
  BY <1>1, <1>3, <1>4
<1> QED BY <1>2, <1>5 DEF left, right

(* Without rows, all of them are others. *)
LEMMA BeforeAll ==
  ASSUME NEW S, NEW kps \in Seq(S)
  PROVE  SubSeq(kps, 1, Len(kps) - Len(<< >>)) = kps
BY EmptyLength

(* Whichever other steps happen, the store stays as it is. *)
LEMMA StoreKept ==
  ASSUME IInv, PickedInv, DetectorInv, [Next]_vars, ~SetDescriptors, ~\E o \in Owners : NewFeatures(o)
  PROVE  stored' = stored
<1>1. ASSUME NEW o \in Owners
      PROVE  stored'[o] = stored[o]
  <2>1. CASE SelectKeypoint
    <3>1. /\ step = "select" /\ step' = "select" /\ owner' = owner /\ owner \in Owners
          /\ facial \in Seq(Keypoint) /\ all[i] \in Keypoint
          /\ features \in [Owners -> Features] /\ features[o] \in Features
      BY <2>1 DEF SelectKeypoint, args, IInv, TypeOK
    <3>2. CASE UNCHANGED <<features, facial>>
      BY <3>1, <3>2 DEF stored, Before
    <3>3. CASE /\ features' = [features EXCEPT ![owner].keypoints = Append(@, all[i]),
                                              ![owner].keypointsSize = @ + 1]
               /\ facial' = Append(facial, all[i])
      <4>1. CASE o # owner
        BY <3>1, <3>3, <4>1 DEF stored
      <4>2. CASE o = owner
        <5> DEFINE kps == features[o].keypoints
        <5>1. features'[o].keypoints = Append(kps, all[i])
              /\ features'[o].descriptors = features[o].descriptors
          BY <3>1, <3>3, <4>2 DEF Features
        <5>2. IsTail(facial, kps) /\ kps \in Seq(Keypoint)
          BY <3>1, <4>2, FeatureTypes DEF IInv, Rows
        <5>3. Len(facial) <= Len(kps)
          BY <5>2 DEF IsTail
        <5>4. SubSeq(features'[o].keypoints, 1, Len(features'[o].keypoints) - Len(facial'))
                = SubSeq(kps, 1, Len(kps) - Len(facial))
          <6> DEFINE x == all[i]
          <6>1. x \in Keypoint /\ facial \in Seq(Keypoint) /\ kps \in Seq(Keypoint)
            BY <3>1, <5>2
          <6>2. features'[o].keypoints = Append(kps, x) /\ facial' = Append(facial, x)
            BY <3>3, <5>1
          <6> HIDE DEF kps, x
          <6>3. SubSeq(Append(kps, x), 1, Len(Append(kps, x)) - Len(Append(facial, x)))
                  = SubSeq(kps, 1, Len(kps) - Len(facial))
            BY <5>3, <6>1, BeforeGrows
          <6> QED BY <6>2, <6>3
        <5>5. stored[o] = [keypoints |-> SubSeq(kps, 1, Len(kps) - Len(facial)),
                           descriptors |-> features[o].descriptors]
          BY <3>1, <4>2 DEF stored, Before
        <5>6. stored'[o] = [keypoints |-> SubSeq(features'[o].keypoints, 1,
                                                 Len(features'[o].keypoints) - Len(facial')),
                            descriptors |-> features'[o].descriptors]
          BY <3>1, <4>2 DEF stored, Before
        <5> QED BY <5>1, <5>4, <5>5, <5>6
      <4> QED BY <4>1, <4>2
    <3> QED BY <2>1, <3>2, <3>3 DEF SelectKeypoint
  <2>2. CASE ExtractFeatures /\ step' = "select"
    <3>1. /\ facial' = << >> /\ UNCHANGED <<features, owner>> /\ step = "extract"
      BY <2>2 DEF ExtractFeatures, args, Leave
    <3>2. features[o].keypoints \in Seq(Keypoint)
      BY FeatureTypes DEF IInv
    <3>3. Before(features[o].keypoints)' = features[o].keypoints
      BY <3>1, <3>2, BeforeAll DEF Before
    <3> QED BY <3>1, <3>3 DEF stored
  <2>3. CASE UNCHANGED <<features, step, owner, facial>>
    BY <2>3 DEF stored, Before
  <2>4. CASE step # "select" /\ step' # "select" /\ UNCHANGED features
    BY <2>4 DEF stored
  <2>5. SelectKeypoint \/ (ExtractFeatures /\ step' = "select")
          \/ UNCHANGED <<features, step, owner, facial>>
          \/ (step # "select" /\ step' # "select" /\ UNCHANGED features)
    BY DEF Next, Work, vars, Call, CallDetector, Detect, LeaveDetector, HaveFaces, ExtractFeatures,
           Leave, Match, args, locals
  <2> QED BY <2>1, <2>2, <2>3, <2>4, <2>5
<1> QED BY <1>1 DEF stored

(* Every step renews a structure, stores a batch, or is none of the store. *)
THEOREM ImplementsStore == Spec => StoresBatches
<1>1. Init => Store!Init
  BY DEF Init, Store!Init, Store!NoBatch, stored, NoFeatures
<1>2. IInv /\ DetectorInv /\ PickedInv /\ [Next]_vars => [Store!Next]_stored
  <2> SUFFICES ASSUME IInv, DetectorInv, PickedInv, [Next]_vars
               PROVE  [Store!Next]_stored
    OBVIOUS
  <2>1. ASSUME NEW o \in Owners, NewFeatures(o)
        PROVE  Store!Renew(o)
    <3>1. step # "select" /\ step' # "select" /\ features' = [features EXCEPT ![o] = NoFeatures]
          /\ features \in [Owners -> Features]
      BY <2>1 DEF NewFeatures, IInv, TypeOK
    <3> QED BY <3>1 DEF Store!Renew, Store!NoBatch, stored, NoFeatures
  <2>2. ASSUME SetDescriptors
        PROVE  Store!Extract(owner)
    <3> DEFINE kps == features[owner].keypoints
    <3>1. /\ step = "select" /\ step' = "idle" /\ owner \in Owners /\ facial \in Seq(Keypoint)
          /\ features' = [features EXCEPT ![owner].descriptors = facial,
                                          ![owner].descriptorsHeight = Len(facial)]
          /\ features \in [Owners -> Features] /\ kps \in Seq(Keypoint)
      BY <2>2, FeatureTypes DEF SetDescriptors, Leave, IInv, TypeOK
    <3>2. features'[owner].keypoints = kps /\ features'[owner].descriptors = facial
          /\ \A o \in Owners \ {owner} : features'[o] = features[o]
      BY <3>1 DEF Features
    <3>3. IsTail(facial, kps)
      BY <3>1 DEF IInv, Rows
    <3>4. kps = Before(kps) \o facial
      BY <3>1, <3>3, TailIsRest DEF Before
    <3>5. OneFace(facial)
      <4>1. \A k \in 1..Len(facial) : Picked(facial[k])
        BY <3>1 DEF PickedInv
      <4>2. Len(facial) \in Nat /\ (Len(facial) > 0 => 1 \in 1..Len(facial))
        BY <3>1
      <4> QED BY <4>1, <4>2 DEF OneFace, Picked
    <3>6. stored' = [stored EXCEPT ![owner] = [keypoints |-> kps, descriptors |-> facial]]
      BY <3>1, <3>2 DEF stored
    <3>7. stored[owner].keypoints = Before(kps) /\ stored'[owner].descriptors = facial
      BY <3>1, <3>6 DEF stored
    <3> QED BY <3>1, <3>4, <3>5, <3>6, <3>7 DEF Store!Extract
  <2>3. CASE \E o \in Owners : NewFeatures(o)
    BY <2>1, <2>3 DEF Store!Next
  <2>4. CASE SetDescriptors
    BY <2>2, <2>4 DEF Store!Next, IInv, TypeOK
  <2>5. CASE ~SetDescriptors /\ ~\E o \in Owners : NewFeatures(o)
    BY <2>5, StoreKept
  <2> QED BY <2>3, <2>4, <2>5
<1> QED BY <1>1, <1>2, Invariant, PTL DEF Spec, StoresBatches, Store!Spec
-----------------------------------------------------------------------------
(* The part of CallsReturn that is not fairness. *)
PhasesLeft ==
  CASE step = "detect"  -> 3
    [] step = "extract" -> 2
    [] step = "select"  -> 1
    [] OTHER            -> 0
TurnsLeft == IF step = "select" THEN Len(all) + 1 - i ELSE FacesLeft

(* Every step taken during an extraction is one of its own and brings it   *)
(* nearer to its end, however many keypoints were found; and the detector  *)
(* it called never ends in an exception, behind which extraction would not *)
(* go on: the other stages are those that Detect and HaveFaces take up     *)
(* (FaceAugmentation.cpp:33-67, SeetaFaceDetection.cpp:66-198).            *)
THEOREM ExtractionRunsDown ==
  Spec => /\ [](/\ TurnsLeft \in Nat
                /\ step = "detect" => /\ stage \in {"box", "smile", "done"}
                                      /\ TurnsLeft = 0 <=> stage = "done"
                /\ step = "select" => (TurnsLeft > 0 <=> i <= Len(all)))
          /\ [][step # "idle" =>
                  /\ Work
                  /\ \/ PhasesLeft' < PhasesLeft
                     \/ PhasesLeft' = PhasesLeft /\ TurnsLeft' < TurnsLeft]_vars
<1>1. ASSUME IInv, DetectorInv
      PROVE  /\ TurnsLeft \in Nat
             /\ step = "detect" => /\ stage \in {"box", "smile", "done"}
                                   /\ TurnsLeft = 0 <=> stage = "done"
             /\ step = "select" => (TurnsLeft > 0 <=> i <= Len(all))
  <2>1. DetectionInv /\ Len(all) \in Nat /\ i \in 1..(Len(all) + 1)
    BY <1>1 DEF IInv, TypeOK, DetectorInv
  <2>2. FacesLeft \in Nat /\ (FacesLeft = 0 <=> stage \in {"idle", "done", "thrown"})
    BY <2>1, FacesRunOut
  <2>3. step = "detect" => stage \in {"box", "smile", "done"}
    BY <1>1, <2>1 DEF DetectorInv, DetectionInv, DetectionTypeOK
  <2> QED BY <2>1, <2>2, <2>3 DEF TurnsLeft
<1>2. ASSUME IInv, DetectorInv, Next, step # "idle"
      PROVE  /\ Work
             /\ \/ PhasesLeft' < PhasesLeft
                \/ PhasesLeft' = PhasesLeft /\ TurnsLeft' < TurnsLeft
  <2>1. DetectionInv /\ Len(all) \in Nat /\ i \in 1..(Len(all) + 1)
        /\ step \in {"detect", "extract", "select"}
    BY <1>2 DEF IInv, TypeOK, DetectorInv
  <2>2. Detect \/ HaveFaces \/ ExtractFeatures \/ SelectKeypoint \/ SetDescriptors
    BY <1>2 DEF Next, Work, Call, CallDetector, NewFeatures, LeaveDetector, Match
  <2>3. CASE Detect
    <3>1. step = "detect" /\ step' = step
      BY <1>2, <2>1, <2>3, DetectingStep DEF Detect, DetectorInv
    <3>2. FacesLeft' < FacesLeft
      BY <2>1, <2>3, FacesRunOut DEF Detect
    <3>3. TurnsLeft = FacesLeft /\ TurnsLeft' = FacesLeft'
      BY <3>1 DEF TurnsLeft
    <3>4. PhasesLeft' = PhasesLeft
      BY <3>1 DEF PhasesLeft
    <3> QED BY <2>3, <3>2, <3>3, <3>4 DEF Work
  <2>4. CASE HaveFaces \/ ExtractFeatures \/ SetDescriptors
    <3>1. \/ step = "detect" /\ step' \in {"extract", "idle"}
          \/ step = "extract" /\ step' \in {"select", "idle"}
          \/ step = "select" /\ step' = "idle"
      BY <2>4 DEF HaveFaces, ExtractFeatures, SetDescriptors, Leave
    <3> QED BY <2>4, <3>1 DEF PhasesLeft, Work
  <2>5. CASE SelectKeypoint
    <3>1. step = "select" /\ step' = step /\ all' = all /\ i' = i + 1 /\ i <= Len(all)
      BY <2>5 DEF SelectKeypoint
    <3>2. TurnsLeft' < TurnsLeft
      BY <2>1, <3>1 DEF TurnsLeft
    <3> QED BY <2>5, <3>1, <3>2 DEF PhasesLeft, Work
  <2> QED BY <2>2, <2>3, <2>4, <2>5
<1>3. IInv /\ DetectorInv /\ [Next]_vars =>
        [step # "idle" => /\ Work
                          /\ \/ PhasesLeft' < PhasesLeft
                             \/ PhasesLeft' = PhasesLeft /\ TurnsLeft' < TurnsLeft]_vars
  BY <1>2
<1> QED BY <1>1, <1>3, Invariant, PTL DEF Spec
=============================================================================
