--------------------------- MODULE HeadPoseProofs ---------------------------
(***************************************************************************)
(* The test beside the programs that write its files, for all photos,      *)
(* keypoints and runs: type correctness, pairs that stay together, that a  *)
(* pose comes from one whole camera and from paired points only, and that  *)
(* the test comes to its end.                                              *)
(***************************************************************************)
EXTENDS HeadPose, ModelFilesProofs

(* The elements of the list of 3D points are lines of a file and have no   *)
(* type of their own.                                                      *)
IsSeq(s) == s \in Seq({s[n] : n \in DOMAIN s})
SolidIsSeq == IsSeq(solid)

(* What Create2D3DCorrespondences has paired so far.                       *)
Paired ==
  \A n \in 1..Len(solid) : /\ matches[image[n]] <= Len(points)
                           /\ solid[n] = points[matches[image[n]]]

WholeCamera(r) == [A |-> PartOf("A", r), R |-> PartOf("R", r), T |-> TLine(r)]

Posed ==
  /\ pose = [rotation |-> Estimated("R"), translation |-> Estimated("T")]
  /\ \E r \in 1..run : camera = [WholeCamera(r) EXCEPT !.T = Estimated("T")]

(* The inductive invariant of the test.                                    *)
TestInv ==
  /\ test \in {"idle", "match", "camera", "points", "pair"} \union Ends
  /\ input \in Nat /\ model \in Seq(Pixels)
  /\ matches = << >> \/ matches \in [1..input -> 1..Len(model)]
  /\ image \in Seq(Nat) /\ SolidIsSeq
  /\ test = "idle" => input = 0
  /\ test \in {"idle", "match", "camera", "points"} => image = << >> /\ solid = << >>
  /\ Len(image) <= Len(matches)
  /\ \/ Len(image) = Len(solid)
     \/ test = "aborted" /\ Len(image) = Len(solid) + 1
  /\ Paired
  /\ test \in {"points", "pair"} => \E r \in 1..run : camera = WholeCamera(r)
  /\ test = "posed" => Posed
  /\ test = "posed" => Len(solid) >= MinPoints

IInv == FilesTypeOK /\ CameraInv /\ TestInv
-----------------------------------------------------------------------------
(* Appending to such a list. *)
LEMMA AppendIsSeq ==
  ASSUME NEW list, IsSeq(list), NEW x
  PROVE  /\ IsSeq(Append(list, x))
         /\ Len(Append(list, x)) = Len(list) + 1
         /\ \A n \in 1..Len(list) : Append(list, x)[n] = list[n]
         /\ Append(list, x)[Len(list) + 1] = x
<1> DEFINE S == {list[n] : n \in DOMAIN list} \union {x}
           s == Append(list, x)
<1>1. list \in Seq(S) /\ x \in S
  BY DEF IsSeq
<1> HIDE DEF S
<1>2. /\ s \in Seq(S) /\ Len(s) = Len(list) + 1
      /\ \A n \in 1..Len(list) : s[n] = list[n]
      /\ s[Len(list) + 1] = x
  BY <1>1
<1> HIDE DEF s
<1>3. IsSeq(s)
  BY <1>2 DEF IsSeq
<1> QED BY <1>2, <1>3 DEF s

(* The test starts with nothing read. *)
LEMMA Initial == Init => IInv
<1> SUFFICES ASSUME Init PROVE IInv
  OBVIOUS
<1>1. FilesTypeOK /\ CameraInv
  BY FilesTypeInit, CameraInvInit DEF Init
<1>2. TestInv
  BY DEF Init, TestInv, SolidIsSeq, IsSeq, Paired
<1> QED BY <1>1, <1>2 DEF IInv
-----------------------------------------------------------------------------
(* The other programs leave the memory of the test alone, and the number   *)
(* of renderings only grows.                                               *)
LEMMA FilesStep == TestInv /\ CameraInv /\ [FilesNext]_fileVars /\ UNCHANGED testVars => TestInv'
<1> SUFFICES ASSUME TestInv, CameraInv, [FilesNext]_fileVars, UNCHANGED testVars
             PROVE  TestInv'
  OBVIOUS
<1>1. run \in Nat /\ (run' = run \/ run' = run + 1)
  BY DEF CameraInv, FilesNext, fileVars, saverVars, scriptVars, ReplacePhoto,
     FindKeypoints, CreateNewFile, WriteHeader, WriteKeypoint, CloseKeypoints,
     LeaveSaver, TruncateCamera, WriteA, WriteR, WriteT, WriteCamera,
     ReadKeypoints, LookUp, WritePoints, LeaveScript
<1>2. 1..run \subseteq 1..run'
  BY <1>1
<1>3. \A r \in 1..run : camera = WholeCamera(r) => \E q \in 1..run' : camera = WholeCamera(q)
  BY <1>2
<1>4. test' \in {"points", "pair"} => \E r \in 1..run' : camera' = WholeCamera(r)
  BY <1>3 DEF TestInv, testVars
<1>5. test' = "posed" => Posed'
  BY <1>2 DEF TestInv, testVars, Posed
<1> QED BY <1>4, <1>5 DEF TestInv, testVars, SolidIsSeq, Paired

(* What is read is the whole camera of one run. *)
LEMMA ReadCameraStep == IInv /\ ReadCameraParams => TestInv'
<1> SUFFICES ASSUME IInv, ReadCameraParams PROVE TestInv'
  OBVIOUS
<1> DEFINE Kept == /\ UNCHANGED <<input, model, matches, points, image, solid>>
                   /\ image = << >> /\ solid = << >> /\ run' = run
<1>1. Kept
  BY DEF IInv, TestInv, ReadCameraParams, fileVars, scriptVars
<1>2. CASE test' \in {"aborted", "stopped"}
  BY <1>1, <1>2 DEF IInv, TestInv, SolidIsSeq, Paired, Ends
<1>3. CASE test' = "points"
  <2>1. /\ camFile # None /\ camera' = CameraOf(camFile)
        /\ camera'.A # None /\ camera'.R # None /\ camera'.T # None
    BY <1>3 DEF ReadCameraParams, SomeEmpty
  <2>2. PICK r \in 1..run : camFile \in Fronts(r)
    BY <2>1 DEF IInv, CameraInv
  <2>3. /\ camera'.A = PartOf("A", r) /\ camera'.R = PartOf("R", r)
        /\ camera'.T = TLine(r)
    BY <2>1, <2>2, FrontIsReadable
  <2>4. camera' = WholeCamera(r)
    BY <2>1, <2>3 DEF WholeCamera, CameraOf
  <2> QED BY <1>1, <1>3, <2>4 DEF IInv, TestInv, SolidIsSeq, Paired, Ends
<1> QED BY <1>2, <1>3 DEF ReadCameraParams

(* A match gives an image point and a 3D point, or an exception. *)
LEMMA PairStep == IInv /\ Create2D3DCorrespondences => TestInv'
<1> SUFFICES ASSUME IInv, Create2D3DCorrespondences PROVE TestInv'
  OBVIOUS
<1> DEFINE q == Len(image) + 1
<1>1. /\ test = "pair" /\ Len(image) < Len(matches) /\ Len(image) = Len(solid)
      /\ UNCHANGED <<input, model, matches, camera, points, run>>
      /\ image' = Append(image, q)
  BY DEF IInv, TestInv, Create2D3DCorrespondences, fileVars, scriptVars
<1>2. /\ Len(image) \in Nat /\ Len(matches) \in Nat
      /\ \A n \in 1..Len(image) : image[n] \in Nat
      /\ \E r \in 1..run : camera = WholeCamera(r)
  BY <1>1 DEF IInv, TestInv
<1>3. /\ image' \in Seq(Nat) /\ Len(image') = q /\ image'[q] = q
      /\ \A n \in 1..Len(image) : image'[n] = image[n]
  BY <1>1, <1>2 DEF IInv, TestInv
<1>4. CASE matches[q] <= Len(points)
  <2>1. solid' = Append(solid, points[matches[q]]) /\ test' = test
    BY <1>4 DEF Create2D3DCorrespondences
  <2>2. /\ SolidIsSeq' /\ Len(solid') = q /\ solid'[q] = points[matches[q]]
        /\ \A n \in 1..Len(solid) : solid'[n] = solid[n]
    <3>1. IsSeq(solid)
      BY DEF IInv, TestInv, SolidIsSeq
    <3> HIDE DEF q
    <3>2. /\ IsSeq(solid')
          /\ Len(solid') = Len(solid) + 1
          /\ \A n \in 1..Len(solid) : solid'[n] = solid[n]
          /\ solid'[Len(solid) + 1] = points[matches[q]]
      BY <2>1, <3>1, AppendIsSeq
    <3> QED BY <1>1, <3>2 DEF SolidIsSeq, q, IsSeq
  <2>3. Paired'
    <3> SUFFICES ASSUME NEW n \in 1..q
                 PROVE  /\ matches[image'[n]] <= Len(points)
                        /\ solid'[n] = points[matches[image'[n]]]
      BY <1>1, <2>2 DEF Paired
    <3>1. CASE n = q
      BY <1>3, <1>4, <2>2, <3>1
    <3>2. CASE n \in 1..Len(solid)
      <4>1. image'[n] = image[n] /\ solid'[n] = solid[n]
        BY <1>1, <1>3, <2>2, <3>2
      <4> QED BY <3>2, <4>1 DEF IInv, TestInv, Paired
    <3> QED BY <1>1, <1>2, <3>1, <3>2
  <2> QED BY <1>1, <1>2, <1>3, <2>1, <2>2, <2>3 DEF IInv, TestInv
<1>5. CASE ~(matches[q] <= Len(points))
  <2>1. test' = "aborted" /\ solid' = solid
    BY <1>5 DEF Create2D3DCorrespondences
  <2>2. SolidIsSeq' /\ Len(solid) \in Nat
    BY <1>1, <1>2, <2>1 DEF IInv, TestInv, SolidIsSeq, IsSeq
  <2>3. Paired'
    BY <1>1, <1>3, <2>1 DEF IInv, TestInv, Paired
  <2> QED BY <1>1, <1>2, <1>3, <2>1, <2>2, <2>3 DEF IInv, TestInv, Ends
<1> QED BY <1>4, <1>5

(* The other steps of the test. *)
LEMMA OtherSteps ==
  IInv /\ (ExtractFeatures \/ Match \/ Read3DPoints \/ EstimateHeadPose \/ RunAgain) => TestInv'
<1> SUFFICES ASSUME IInv,
                    ExtractFeatures \/ Match \/ Read3DPoints \/ EstimateHeadPose \/ RunAgain
             PROVE  TestInv'
  OBVIOUS
<1> USE DEF Ends, Paired, SolidIsSeq, IsSeq
<1>1. CASE ExtractFeatures
  <2>1. UNCHANGED <<matches, camera, points, image, solid, run>> /\ image = << >> /\ solid = << >>
    BY <1>1 DEF ExtractFeatures, IInv, TestInv, fileVars, scriptVars
  <2>2. PICK n \in Queries :
          IF n = 0 \/ Keypoints[photo] = << >>
          THEN test' = "stopped" /\ UNCHANGED <<input, model>>
          ELSE test' = "match" /\ input' = n /\ model' = Keypoints[photo]
    BY <1>1 DEF ExtractFeatures
  <2>3. n \in Nat /\ Keypoints[photo] \in Seq(Pixels)
    BY PhotosOK, HeadPoseOK DEF IInv, FilesTypeOK
  <2> QED BY <1>1, <2>1, <2>2, <2>3 DEF ExtractFeatures, IInv, TestInv
<1>2. CASE Match
  <2>1. /\ UNCHANGED <<input, model, camera, points, image, solid, run>>
        /\ image = << >> /\ solid = << >> /\ input \in Nat /\ Len(model) \in Nat
        /\ matches' \in [1..input -> 1..Len(model)] /\ test' = "camera"
    BY <1>2 DEF Match, IInv, TestInv, fileVars, scriptVars
  <2>2. matches' \in Seq(Nat) /\ Len(matches') \in Nat
    BY <2>1
  <2> QED BY <2>1, <2>2 DEF IInv, TestInv
<1>3. CASE Read3DPoints
  <2>1. /\ UNCHANGED <<input, model, matches, camera, image, solid, run>>
        /\ image = << >> /\ solid = << >> /\ test = "points" /\ test' \in {"stopped", "pair"}
    BY <1>3 DEF Read3DPoints, IInv, TestInv, fileVars, scriptVars
  <2> QED BY <2>1 DEF IInv, TestInv
<1>4. CASE EstimateHeadPose
  <2>1. /\ UNCHANGED <<input, model, matches, points, image, solid, run>>
        /\ test = "pair" /\ test' \in {"stopped", "aborted", "posed"}
        /\ test' = "posed" => ~(Len(solid) < MinPoints)
    BY <1>4 DEF EstimateHeadPose, fileVars, scriptVars
  <2>3. test' = "posed" => Posed'
    <3> SUFFICES ASSUME test' = "posed" PROVE Posed'
      OBVIOUS
    <3>1. PICK r \in 1..run : camera = WholeCamera(r)
      BY <2>1 DEF IInv, TestInv
    <3>2. /\ pose' = [rotation |-> Estimated("R"), translation |-> Estimated("T")]
          /\ camera' = [camera EXCEPT !.T = Estimated("T")]
      BY <1>4 DEF EstimateHeadPose
    <3> QED BY <2>1, <3>1, <3>2 DEF Posed, WholeCamera
  <2>2. Len(solid) \in Nat /\ MinPoints \in Nat
    BY HeadPoseOK DEF IInv, TestInv
  <2> QED BY <2>1, <2>2, <2>3 DEF IInv, TestInv
<1>5. CASE RunAgain
  BY <1>5 DEF RunAgain, IInv, TestInv
<1> QED BY <1>1, <1>2, <1>3, <1>4, <1>5

(* So every step, of the test or of the writers, keeps the invariant. *)
LEMMA Inductive == IInv /\ [Next]_vars => IInv'
<1> SUFFICES ASSUME IInv, [Next]_vars PROVE IInv'
  OBVIOUS
<1>1. [FilesNext]_fileVars
  BY DEF Next, TestStep, vars, ExtractFeatures, Match, ReadCameraParams, Read3DPoints,
     Create2D3DCorrespondences, EstimateHeadPose, RunAgain
<1>2. FilesTypeOK' /\ CameraInv'
  BY <1>1, FilesTypeStep, CameraInvStep DEF IInv
<1>3. TestInv'
  <2>1. CASE UNCHANGED testVars
    BY <1>1, <2>1, FilesStep DEF IInv
  <2>2. CASE TestStep \/ RunAgain
    BY <2>2, ReadCameraStep, PairStep, OtherSteps DEF TestStep
  <2> QED BY <2>1, <2>2 DEF Next, vars
<1> QED BY <1>2, <1>3 DEF IInv

(* It holds throughout. *)
LEMMA Invariant == Spec => []IInv
BY Initial, Inductive, PTL DEF Spec
-----------------------------------------------------------------------------
(* Type correctness of the test and of the files it reads                  *)
(* (HeadPoseEstimationTest.cpp:45-245).                                    *)
THEOREM TypeCorrect == Spec => []TypeOK
<1>1. IInv => TypeOK
  <2> SUFFICES ASSUME IInv PROVE TypeOK
    OBVIOUS
  <2>1. Len(image) \in Nat /\ Len(solid) \in Nat
    BY DEF IInv, TestInv, SolidIsSeq, IsSeq
  <2>2. Len(solid) <= Len(image)
    BY <2>1 DEF IInv, TestInv
  <2> QED BY <2>2 DEF IInv, TestInv, TypeOK
<1> QED BY <1>1, Invariant, PTL

(* An image point is without its 3D point only after an exception          *)
(* (FaceAugmentation.cpp:75-78).                                           *)
THEOREM PairsAlwaysTogether == Spec => []PairsStayTogether
<1>1. IInv => PairsStayTogether
  BY DEF IInv, TestInv, PairsStayTogether
<1> QED BY <1>1, Invariant, PTL

(* A pose is computed from one whole camera and from paired points only,   *)
(* however the files were rewritten, cut short or missing                  *)
(* (HeadPoseEstimationTest.cpp:178-221).                                   *)
THEOREM PoseAlwaysFromWholeData == Spec => []PoseFromWholeData
<1>1. IInv => PoseFromWholeData
  BY DEF IInv, TestInv, PoseFromWholeData, WholeCamera, TLine, Paired
<1> QED BY <1>1, Invariant, PTL

(* The estimate takes the camera's T, but neither A nor R, and is whole    *)
(* itself (PoseEstimation.cpp:20-24).                                      *)
THEOREM PoseAlwaysKeepsMatrices == Spec => []PoseKeepsMatrices
<1>1. IInv => PoseKeepsMatrices
  <2> SUFFICES ASSUME IInv, test = "posed" PROVE PoseKeepsMatrices
    BY DEF PoseKeepsMatrices
  <2>1. pose = [rotation |-> Estimated("R"), translation |-> Estimated("T")]
    BY DEF IInv, TestInv, Posed
  <2>2. PICK r \in 1..run : camera = [WholeCamera(r) EXCEPT !.T = Estimated("T")]
    BY DEF IInv, TestInv, Posed
  <2>3. camera.A = PartOf("A", r) /\ camera.R = PartOf("R", r) /\ camera.T = Estimated("T")
    BY <2>2 DEF WholeCamera
  <2> QED BY <2>1, <2>3 DEF PoseKeepsMatrices
<1> QED BY <1>1, Invariant, PTL
-----------------------------------------------------------------------------
(* The test only reads the files: seen from them, it is not there, and all *)
(* that is proved of the programs that write them holds beside the test    *)
(* (HeadPoseEstimationTest.cpp:45-245).                                    *)
THEOREM TestOnlyReads == Spec => FilesSpec
<1>1. Init => FilesInit
  BY DEF Init
<1>2. [Next]_vars => [FilesNext]_fileVars
  BY DEF Next, TestStep, vars, ExtractFeatures, Match, ReadCameraParams, Read3DPoints,
     Create2D3DCorrespondences, EstimateHeadPose, RunAgain
<1> QED BY <1>1, <1>2, PTL DEF Spec, FilesSpec

(* A save leaves its keypoints at the front of the file, also beside the   *)
(* test (Utilities.cpp:19-30).                                             *)
THEOREM SavedAlwaysPrefixBesideTest == Spec => []SavedIsPrefix
BY TestOnlyReads, SavedAlwaysPrefix, PTL

(* The camera file is whole, also beside the test (Utilities.cpp:67-127).  *)
THEOREM CameraAlwaysWholeBesideTest == Spec => []CameraWhole
BY TestOnlyReads, CameraAlwaysWhole, PTL
-----------------------------------------------------------------------------
(* What the test holds of the points: lines printed for some rows, and     *)
(* image points in the order of the matches.                               *)
ReadInv ==
  /\ points = << >> \/ \E pts \in Rows : points = Printed(pts)
  /\ \A n \in 1..Len(image) : image[n] = n

AllInv == IInv /\ SaveInv /\ PointsInv /\ ReadInv

(* It holds before anything is read.                                       *)
LEMMA ReadInvInit == Init => ReadInv
BY DEF Init, ReadInv

(* Read3DPoints takes the lines as they stand in the file, and every match *)
(* adds its own image point (Utilities.cpp:45-65,                          *)
(* FaceAugmentation.cpp:70-82).                                            *)
LEMMA ReadInvStep == AllInv /\ [Next]_vars => ReadInv'
<1> SUFFICES ASSUME AllInv, [Next]_vars PROVE ReadInv'
  OBVIOUS
<1>1. CASE UNCHANGED <<points, image>>
  BY <1>1 DEF AllInv, ReadInv, Printed, Value
<1>2. CASE Read3DPoints
  <2>1. image' = image /\ points' = IF ptsFile = None THEN << >> ELSE ptsFile
    BY <1>2 DEF Read3DPoints
  <2> QED BY <2>1 DEF AllInv, ReadInv, PointsInv, Printed, Value
<1>3. CASE Create2D3DCorrespondences
  <2>1. points' = points /\ image' = Append(image, Len(image) + 1) /\ image \in Seq(Nat)
    BY <1>3 DEF Create2D3DCorrespondences, AllInv, IInv, TestInv
  <2>2. /\ Len(image') = Len(image) + 1 /\ image'[Len(image) + 1] = Len(image) + 1
        /\ \A n \in 1..Len(image) : image'[n] = image[n]
    BY <2>1
  <2>3. \A n \in 1..Len(image') : image'[n] = n
    <3>1. Len(image) \in Nat
      BY <2>1
    <3> QED BY <2>2, <3>1 DEF AllInv, ReadInv
  <2> QED BY <2>1, <2>3 DEF AllInv, ReadInv, Printed, Value
<1>4. CASE RunAgain
  BY <1>4 DEF RunAgain, ReadInv
<1>5. CASE ExtractFeatures \/ Match \/ ReadCameraParams \/ EstimateHeadPose
  BY <1>1, <1>5 DEF ExtractFeatures, Match, ReadCameraParams, EstimateHeadPose
<1>6. CASE UNCHANGED testVars
  BY <1>1, <1>6 DEF testVars
<1> QED BY <1>2, <1>3, <1>4, <1>5, <1>6 DEF Next, TestStep, vars

(* All invariants of the files and of the test together.                   *)
LEMMA AllInvariants == Spec => []AllInv
<1>1. Init => AllInv
  BY Initial, SaveInvInit, PointsInvInit, ReadInvInit DEF Init, AllInv
<1>2. AllInv /\ [Next]_vars => AllInv'
  <2> SUFFICES ASSUME AllInv, [Next]_vars PROVE AllInv'
    OBVIOUS
  <2>1. [FilesNext]_fileVars
    BY DEF Next, TestStep, vars, ExtractFeatures, Match, ReadCameraParams, Read3DPoints,
       Create2D3DCorrespondences, EstimateHeadPose, RunAgain
  <2>2. FilesTypeOK
    BY DEF AllInv, IInv
  <2> QED BY <2>1, <2>2, Inductive, SaveInvStep, PointsInvStep, ReadInvStep DEF AllInv
<1> QED BY <1>1, <1>2, PTL DEF Spec

(* The three numbers of a paired point belong together exactly if the      *)
(* model has one keypoint, which is too few for a pose: what the test      *)
(* pairs from a file of two or more lines is never a point, whatever the   *)
(* keypoints are (get_3d_pts.m:40, Utilities.cpp:45-65).                   *)
PointsOnlyOfOne == PointsArePoints <=> solid = << >> \/ Len(points) = 1

(* So the disagreement of PointsArePoints is no matter of the data.        *)
THEOREM PointsAlwaysOnlyOfOne == Spec => []PointsOnlyOfOne
<1>1. ASSUME AllInv PROVE PointsOnlyOfOne
  <2>1. /\ Len(solid) \in Nat /\ (solid = << >> <=> Len(solid) = 0)
        /\ Len(image) \in Nat /\ Len(matches) \in Nat
        /\ Len(solid) <= Len(image) /\ Len(image) <= Len(matches)
    BY <1>1 DEF AllInv, IInv, TestInv, SolidIsSeq, IsSeq
  <2>2. ASSUME NEW n \in 1..Len(solid)
        PROVE  \E l \in 1..Len(points) : solid[n] = points[l]
    <3>1. n \in 1..Len(image) /\ n \in 1..Len(matches)
      BY <2>1
    <3>2. image[n] = n
      BY <1>1, <3>1 DEF AllInv, ReadInv
    <3>3. matches[n] \in 1..Len(model) /\ Len(model) \in Nat
      BY <1>1, <3>1 DEF AllInv, IInv, TestInv
    <3>4. matches[n] <= Len(points) /\ solid[n] = points[matches[n]]
      BY <1>1, <3>2 DEF AllInv, IInv, TestInv, Paired
    <3>5. Len(points) \in Nat
      BY <1>1 DEF AllInv, ReadInv, Printed, Rows
    <3>6. matches[n] \in 1..Len(points)
      BY <3>3, <3>4, <3>5
    <3> QED BY <3>4, <3>6
  <2>3. CASE solid = << >>
    BY <2>1, <2>3 DEF PointsOnlyOfOne, PointsArePoints
  <2>4. CASE solid # << >>
    <3>1. 1 \in 1..Len(solid)
      BY <2>1, <2>4
    <3>2. points # << >>
      BY <2>2, <3>1
    <3>3. PICK pts \in Rows : points = Printed(pts)
      BY <1>1, <3>2 DEF AllInv, ReadInv
    <3>4. Len(points) = Len(pts) /\ Len(pts) \in Nat \ {0}
      BY <3>3 DEF Printed, Rows
    <3>5. CASE Len(pts) = 1
      <4>1. ASSUME NEW n \in 1..Len(solid), NEW a \in 1..3
            PROVE  solid[n][a].row = 1 /\ solid[n][a].axis = a
        <5>1. solid[n] = points[1]
          BY <2>2, <3>4, <3>5
        <5>2. Printed(pts)[1][a] = [pixel |-> pts[1], row |-> 1, axis |-> a]
          BY <3>5, OnePointIsPrinted
        <5> QED BY <3>3, <5>1, <5>2
      <4>2. 1 \in 1..Len(points)
        BY <3>4, <3>5
      <4>3. PointsArePoints
        BY <4>1, <4>2 DEF PointsArePoints
      <4> QED BY <3>4, <3>5, <4>3 DEF PointsOnlyOfOne
    <3>6. CASE Len(pts) # 1
      <4>1. PICK l \in 1..Len(points) : solid[1] = points[l]
        BY <2>2, <3>1
      <4>2. l \in 1..Len(pts) /\ Len(pts) >= 2
        BY <3>4, <3>6
      <4>3. solid[1][1].row # solid[1][2].row
        BY <3>3, <4>1, <4>2, NoLineIsAPoint
      <4>4. ASSUME PointsArePoints PROVE FALSE
        <5>1. PICK j \in 1..Len(points) : \A a \in 1..3 : solid[1][a].row = j /\ solid[1][a].axis = a
          BY <3>1, <4>4 DEF PointsArePoints
        <5>2. solid[1][1].row = j /\ solid[1][2].row = j
          BY <5>1
        <5> QED BY <4>3, <5>2
      <4> QED BY <2>4, <3>4, <3>6, <4>4 DEF PointsOnlyOfOne
    <3> QED BY <3>5, <3>6
  <2> QED BY <2>3, <2>4
<1> QED BY <1>1, AllInvariants, PTL
-----------------------------------------------------------------------------
(* Steps of the test that are left: the matches are paired one by one.     *)
StepsLeft ==
  CASE test = "match"  -> input + 4
    [] test = "camera" -> Len(matches) + 3
    [] test = "points" -> Len(matches) + 2
    [] test = "pair"   -> Len(matches) - Len(image) + 1
    [] OTHER           -> 0

(* Whatever the other programs do, a step of the test that has found its   *)
(* faces brings it nearer to its end, and theirs do not take it back: the  *)
(* part of TestEnds that is not fairness                                   *)
(* (HeadPoseEstimationTest.cpp:167-245).                                   *)
THEOREM StepsRunOut ==
  Spec => /\ [](StepsLeft \in Nat /\ (StepsLeft = 0 <=> test \in Ends \union {"idle"}))
          /\ [][test \notin Ends \union {"idle"} =>
                  /\ TestStep => StepsLeft' < StepsLeft
                  /\ ~TestStep => StepsLeft' = StepsLeft]_vars
<1>1. ASSUME IInv
      PROVE  StepsLeft \in Nat /\ (StepsLeft = 0 <=> test \in Ends \union {"idle"})
  <2>1. /\ input \in Nat /\ Len(matches) \in Nat /\ Len(image) \in Nat
        /\ Len(image) <= Len(matches)
        /\ test \in {"idle", "match", "camera", "points", "pair"} \union Ends
    BY <1>1 DEF IInv, TestInv
  <2> QED BY <2>1 DEF StepsLeft, Ends
<1>2. ASSUME IInv, [Next]_vars, test \notin Ends \union {"idle"}
      PROVE  /\ TestStep => StepsLeft' < StepsLeft
             /\ ~TestStep => StepsLeft' = StepsLeft
  <2>1. /\ input \in Nat /\ Len(matches) \in Nat /\ Len(image) \in Nat
        /\ image \in Seq(Nat) /\ Len(image) <= Len(matches)
        /\ test \in {"points", "camera", "match"} => image = << >>
    BY <1>2 DEF IInv, TestInv
  <2>2. CASE Match
    <3>1. Len(matches') = input
      BY <2>1, <2>2 DEF Match
    <3> QED BY <2>1, <2>2, <3>1 DEF Match, StepsLeft, TestStep
  <2>3. CASE ReadCameraParams
    <3>1. test = "camera" /\ test' \in {"aborted", "stopped", "points"} /\ matches' = matches
      BY <2>3 DEF ReadCameraParams
    <3> QED BY <2>1, <2>3, <3>1 DEF StepsLeft, TestStep
  <2>4. CASE Read3DPoints
    <3>1. test = "points" /\ test' \in {"stopped", "pair"} /\ UNCHANGED <<matches, image>> /\ Len(image) = 0
      BY <2>1, <2>4 DEF Read3DPoints
    <3> QED BY <2>1, <2>4, <3>1 DEF StepsLeft, TestStep
  <2>5. CASE Create2D3DCorrespondences
    <3>1. /\ test = "pair" /\ test' \in {"aborted", "pair"} /\ matches' = matches
          /\ Len(image) < Len(matches) /\ Len(image') = Len(image) + 1
      BY <2>1, <2>5 DEF Create2D3DCorrespondences
    <3> QED BY <2>1, <2>5, <3>1 DEF StepsLeft, TestStep
  <2>6. CASE EstimateHeadPose
    <3>1. test = "pair" /\ test' \in {"aborted", "stopped", "posed"}
      BY <2>6 DEF EstimateHeadPose
    <3> QED BY <2>1, <2>6, <3>1 DEF StepsLeft, TestStep
  <2>7. ~ExtractFeatures /\ ~RunAgain
    BY <1>2 DEF ExtractFeatures, RunAgain
  <2>8. CASE UNCHANGED testVars
    <3>1. StepsLeft' = StepsLeft
      BY <2>8 DEF testVars, StepsLeft
    <3>2. ~TestStep
      BY <2>1, <2>2, <2>3, <2>4, <2>5, <2>6, <2>7, <2>8 DEF TestStep, testVars, Match,
         ReadCameraParams, Read3DPoints, Create2D3DCorrespondences, EstimateHeadPose
    <3> QED BY <3>1, <3>2
  <2>9. TestStep \/ UNCHANGED testVars
    BY <1>2, <2>7 DEF Next, vars
  <2> QED BY <2>2, <2>3, <2>4, <2>5, <2>6, <2>7, <2>8, <2>9 DEF TestStep
<1>3. IInv => StepsLeft \in Nat /\ (StepsLeft = 0 <=> test \in Ends \union {"idle"})
  BY <1>1
<1>4. IInv /\ [Next]_vars => [test \notin Ends \union {"idle"} =>
                                /\ TestStep => StepsLeft' < StepsLeft
                                /\ ~TestStep => StepsLeft' = StepsLeft]_vars
  BY <1>2
<1> QED BY <1>3, <1>4, Invariant, PTL DEF Spec
=============================================================================
