--------------------------- MODULE FacialFeatures ---------------------------
(***************************************************************************)
(* FaceAugmentation::ExtractFacialFeatures over the caller's Features: any *)
(* sequence of calls, on fresh and on used structures, with photographs    *)
(* that have no face, no keypoints, or make a detector throw.  Keypoints   *)
(* are appended to what the caller passes; descriptors replace it.         *)
(* FeatureExtraction::Match then compares two of the structures.  Face     *)
(* detection is that of FaceDetection, without eyes and smiles; another    *)
(* caller, who may ask for them, uses it between two extractions.          *)
(***************************************************************************)
EXTENDS FaceDetection, FiniteSets

CONSTANTS
  Crop, Whole, \* where features are looked for: the cropped face, or the image
  Points,     \* positions of keypoints, in the image they were found in
  Found,      \* Found[v][img]: what detect and compute may leave, in order
  MaxCalls    \* bound: calls

Views == {Crop, Whole}
Owners == {"query", "train"}  \* the two structures of the caller

ASSUME FacialFeaturesOK ==
  /\ Points \subseteq Int \X Int
  /\ Found \in [Views -> [Images -> SUBSET Seq(Points)]]
  /\ MaxCalls \in Nat

VARIABLES
  features,  \* features[o]: the structures of the caller
  filled,    \* filled[o]: how many extractions have ended with them
  step,      \* where ExtractFacialFeatures is, "idle" outside
  owner, view,             \* its arguments, with the photo of the detector
  all, i, facial,          \* allFeatures, loop counter, facialDescriptors
  matches,   \* the last result of Match
  calls

args == <<owner, view>>
locals == <<all, i, facial>>
vars == <<features, filled, step, args, locals, matches, calls, detection>>

(* A keypoint; its descriptor is named by the keypoint it was computed for.*)
Keypoint == [image : Images, view : Views, at : Points]
Features == [keypoints : Seq(Keypoint), keypointsSize : Nat,
             descriptors : Seq(Keypoint), descriptorsHeight : Nat]
NoFeatures == [keypoints |-> << >>, keypointsSize |-> 0,
               descriptors |-> << >>, descriptorsHeight |-> 0]

Init ==
  /\ features = [o \in Owners |-> NoFeatures]
  /\ filled = [o \in Owners |-> 0]
  /\ step = "idle"
  /\ owner = "query" /\ view = Whole
  /\ all = << >> /\ i = 1 /\ facial = << >>
  /\ matches = << >> /\ calls = 0
  /\ DetectionInit

(* The caller starts over with a new structure. *)
NewFeatures(o) ==
  /\ step = "idle" /\ stage = "idle" /\ features[o] # NoFeatures
  /\ features' = [features EXCEPT ![o] = NoFeatures]
  /\ filled' = [filled EXCEPT ![o] = 0]
  /\ matches' = << >>
  /\ UNCHANGED <<step, args, locals, calls, detection>>

(* ExtractFacialFeatures(pixels, features, ..., cropFace): without pixels  *)
(* it does nothing, otherwise it looks for faces first.                    *)
Call(o, img, crop) ==
  /\ step = "idle" /\ calls < MaxCalls
  /\ calls' = calls + 1
  /\ IF NoPixels(img) THEN stage = "idle" /\ UNCHANGED <<step, args, detection>>
     ELSE /\ step' = "detect" /\ DetectFaces(img, FALSE, FALSE)
          /\ owner' = o /\ view' = IF crop THEN Crop ELSE Whole
  /\ UNCHANGED <<features, filled, locals, matches>>

(* A step of the detector, for ExtractFacialFeatures or the other caller.  *)
Detect == Detecting /\ UNCHANGED <<features, filled, step, args, locals, matches, calls>>

(* Another caller of DetectFaces, such as SeetaFaceDetectionTest.          *)
CallDetector(img, eyes, smile) ==
  /\ step = "idle" /\ calls < MaxCalls /\ DetectFaces(img, eyes, smile)
  /\ calls' = calls + 1
  /\ UNCHANGED <<features, filled, step, args, locals, matches>>
LeaveDetector ==
  /\ step = "idle" /\ Return
  /\ UNCHANGED <<features, filled, step, args, locals, matches, calls>>

(* The call is over, and with it its arguments and variables.              *)
Leave ==
  /\ step' = "idle" /\ Return
  /\ owner' = "query" /\ view' = Whole /\ all' = << >> /\ i' = 1 /\ facial' = << >>

(* With a face, features are looked for; without one the structure is left *)
(* as it was.                                                              *)
HaveFaces ==
  /\ step = "detect" /\ stage = "done"
  /\ IF Len(faces) > 0 THEN step' = "extract" /\ UNCHANGED <<args, locals, detection>>
     ELSE Leave
  /\ UNCHANGED <<features, filled, matches, calls>>

(* detect, then compute, which may drop keypoints it cannot describe, in   *)
(* the crop or in a clone.  Either may throw; nobody catches on the way to *)
(* the caller.                                                             *)
ExtractFeatures ==
  /\ step = "extract"
  /\ \/ /\ \E found \in Found[view][photo] :
             all' = [j \in 1..Len(found) |-> [image |-> photo, view |-> view, at |-> found[j]]]
        /\ i' = 1 /\ facial' = << >> /\ step' = "select" /\ UNCHANGED <<args, detection>>
     \/ Leave
  /\ UNCHANGED <<features, filled, matches, calls>>

(* Within the box of the first face, which is one in the photograph, also  *)
(* when the keypoints are those of the crop.                               *)
OnFace(at) == Contains(faces[1].FaceCoordinate, at)

(* Mutant of SelectKeypoint: every descriptor is kept. *)
SelectAllDescriptors ==
  /\ step = "select" /\ i <= Len(all)
  /\ facial' = Append(facial, all[i])
  /\ features' = IF ~OnFace(all[i].at) THEN features
                 ELSE [features EXCEPT ![owner].keypoints = Append(@, all[i]),
                                       ![owner].keypointsSize = @ + 1]
  /\ i' = i + 1
  /\ UNCHANGED <<filled, step, args, all, matches, calls, detection>>

(* Mutant of SelectKeypoint: any face of the photograph will do. *)
SelectOnAnyFace ==
  /\ step = "select" /\ i <= Len(all)
  /\ IF \E k \in 1..Len(faces) : Contains(faces[k].FaceCoordinate, all[i].at)
     THEN /\ features' = [features EXCEPT ![owner].keypoints = Append(@, all[i]),
                                          ![owner].keypointsSize = @ + 1]
          /\ facial' = Append(facial, all[i])
     ELSE UNCHANGED <<features, facial>>
  /\ i' = i + 1
  /\ UNCHANGED <<filled, step, args, all, matches, calls, detection>>

(* Mutant of SelectKeypoint: the counter is only advanced on a face. *)
SelectStuck ==
  /\ step = "select" /\ i <= Len(all)
  /\ IF OnFace(all[i].at)
     THEN /\ features' = [features EXCEPT ![owner].keypoints = Append(@, all[i]),
                                          ![owner].keypointsSize = @ + 1]
          /\ facial' = Append(facial, all[i]) /\ i' = i + 1
     ELSE UNCHANGED <<features, facial, i>>
  /\ UNCHANGED <<filled, step, args, all, matches, calls, detection>>

(* One turn of the loop over allFeatures. *)
SelectKeypoint ==
  /\ step = "select" /\ i <= Len(all)
  /\ IF OnFace(all[i].at)
     THEN /\ features' = [features EXCEPT ![owner].keypoints = Append(@, all[i]),
                                          ![owner].keypointsSize = @ + 1]
          /\ facial' = Append(facial, all[i])
     ELSE UNCHANGED <<features, facial>>
  /\ i' = i + 1
  /\ UNCHANGED <<filled, step, args, all, matches, calls, detection>>

(* Mutant of SetDescriptors: the height is that of allFeatures. *)
SetDescriptorsOfAll ==
  /\ step = "select" /\ i > Len(all)
  /\ features' = [features EXCEPT ![owner].descriptors = facial,
                                  ![owner].descriptorsHeight = Len(all)]
  /\ filled' = [filled EXCEPT ![owner] = @ + 1]
  /\ Leave /\ UNCHANGED <<matches, calls>>

(* features.descriptors = facialDescriptors, and return. *)
SetDescriptors ==
  /\ step = "select" /\ i > Len(all)
  /\ features' = [features EXCEPT ![owner].descriptors = facial,
                                  ![owner].descriptorsHeight = Len(facial)]
  /\ filled' = [filled EXCEPT ![owner] = @ + 1]
  /\ Leave /\ UNCHANGED <<matches, calls>>

(* Match(query.descriptors, train.descriptors, matches): the best row of   *)
(* the second for each row of the first; without rows in the second it may *)
(* throw.                                                                  *)
Match ==
  /\ step = "idle" /\ stage = "idle"
  /\ LET rows(o) == 1..features[o].descriptorsHeight IN
     matches' \in IF rows("train") = {} THEN {<< >>, matches} ELSE [rows("query") -> rows("train")]
  /\ UNCHANGED <<features, filled, step, args, locals, calls, detection>>

Work == Detect \/ LeaveDetector \/ HaveFaces \/ ExtractFeatures \/ SelectKeypoint \/ SetDescriptors

Next ==
  \/ \E o \in Owners, img \in Images, crop \in BOOLEAN : Call(o, img, crop)
  \/ \E img \in Images, eyes, smile \in BOOLEAN : CallDetector(img, eyes, smile)
  \/ \E o \in Owners : NewFeatures(o)
  \/ Work
  \/ Match

(* A call runs to its end. *)
Spec == Init /\ [][Next]_vars /\ WF_vars(Work)
-----------------------------------------------------------------------------
TypeOK ==
  /\ features \in [Owners -> Features] /\ filled \in [Owners -> Nat]
  /\ \A o \in Owners :
       /\ features[o].keypointsSize = Len(features[o].keypoints)
       /\ features[o].descriptorsHeight = Len(features[o].descriptors)
  /\ step \in {"idle", "detect", "extract", "select"}
  /\ owner \in Owners /\ view \in Views
  /\ all \in Seq(Keypoint) /\ i \in 1..(Len(all) + 1) /\ facial \in Seq(Keypoint)
  /\ calls \in 0..MaxCalls
  /\ DetectionTypeOK

(* Outside a call, row j of the descriptors describes keypoint j counted   *)
(* from the start of the last extraction: whatever was appended before,    *)
(* found no face, or threw, the rows are those of the last keypoints       *)
(* (FaceAugmentation.cpp:56-64).                                           *)
IsTail(rows, keypoints) ==
  LET h == Len(rows)  n == Len(keypoints) IN
  h <= n /\ \A j \in 1..h : rows[j] = keypoints[n - h + j]
DescriptorsOfTheTail ==
  step = "idle" => \A o \in Owners : IsTail(features[o].descriptors, features[o].keypoints)

(* A structure that was filled at most once has one row for each keypoint, *)
(* in order, which is what the pairing of matches with keypoints by index  *)
(* relies on (HeadPoseEstimationTest.cpp:109-142, FaceAugmentation.cpp:75).*)
FreshIsExact ==
  step = "idle" =>
    \A o \in Owners : filled[o] <= 1 => features[o].descriptors = features[o].keypoints

(* What the rows of a structure describe, however often it was passed      *)
(* (FaceAugmentation.cpp:46-67).                                           *)
DescriptorsCorrespond == DescriptorsOfTheTail /\ FreshIsExact

(* The indexes of the last matches stay valid for the keypoints of both    *)
(* structures, also when either is extended afterwards                     *)
(* (FaceAugmentation.cpp:75, HeadPoseEstimationTest.cpp:175).              *)
MatchesStayInRange ==
  \A q \in 1..Len(matches) : /\ q <= Len(features["query"].keypoints)
                             /\ matches[q] <= Len(features["train"].keypoints)

(* Every call returns, for which ExtractFacialFeatures relies on detection *)
(* without eyes not to throw (FaceAugmentation.cpp:33-60).                 *)
CallsReturn == step = "detect" ~> step = "idle"
-----------------------------------------------------------------------------
(* The structures as FeatureStore has them: what the loop has appended so  *)
(* far is not there yet.                                                   *)
Before(keypoints) == SubSeq(keypoints, 1, Len(keypoints) - Len(facial))
stored ==
  [o \in Owners |->
    [keypoints |-> IF step = "select" /\ o = owner THEN Before(features[o].keypoints)
                   ELSE features[o].keypoints,
     descriptors |-> features[o].descriptors]]

(* Keypoints of one photograph, or of one crop, within the box of the      *)
(* first face of that photograph.                                          *)
OneFace(batch) ==
  \A k \in 1..Len(batch) :
    /\ batch[k].image = batch[1].image /\ batch[k].view = batch[1].view
    /\ Contains(Stored(Detected[batch[k].image][1]), batch[k].at)

Store == INSTANCE FeatureStore WITH
           Batches <- {batch \in Seq(Keypoint) : OneFace(batch)}, store <- stored

(* Extraction implements FeatureStore: however it ends, the structure got  *)
(* one whole batch of one face, or none (FaceAugmentation.cpp:28-67).      *)
StoresBatches == Store!Spec
=============================================================================
