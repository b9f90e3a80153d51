------------------------------ MODULE HeadPose ------------------------------
(***************************************************************************)
(* HeadPoseEstimationTest(), run any number of times beside the programs   *)
(* that write the model files (ModelFiles): find the face and its          *)
(* keypoints in the photograph and in the model image, match them, read    *)
(* the camera and the 3D points, pair image points with 3D points, and     *)
(* estimate the pose.                                                      *)
(***************************************************************************)
EXTENDS ModelFiles

CONSTANTS
  Queries,    \* numbers of keypoints that input photographs have
  MinPoints   \* solvePnP throws on fewer correspondences

ASSUME HeadPoseOK == Queries \subseteq Nat /\ MinPoints \in Nat \ {0}

VARIABLES
  test,         \* step of the test
  input,        \* number of keypoints of the input photograph, in memory
  model,        \* facial keypoints of the model image, in memory
  matches,      \* matches[q]: model keypoint matched with input keypoint q
  camera,       \* cameraInternals
  points,       \* modelFilePoints
  image, solid, \* imagePoints and modelPoints: what has been paired
  pose          \* rotationVector and translationVector

testVars == <<test, input, model, matches, camera, points, image, solid, pose>>
vars == <<fileVars, testVars>>

NoCamera == [A |-> None, R |-> None, T |-> None]
NoPose == [rotation |-> None, translation |-> None]
Ends == {"stopped", "aborted", "posed"}

Init ==
  /\ FilesInit
  /\ test = "idle" /\ input = 0
  /\ model = << >> /\ matches = << >>
  /\ camera = NoCamera /\ points = << >>
  /\ image = << >> /\ solid = << >> /\ pose = NoPose

(* Both images are loaded and searched for faces and keypoints; every way  *)
(* of finding none prints a message and returns.                           *)
ExtractFeatures ==
  /\ test = "idle"
  /\ \E n \in Queries :
       IF n = 0 \/ Keypoints[photo] = << >>
       THEN test' = "stopped" /\ UNCHANGED <<input, model>>
       ELSE test' = "match" /\ input' = n /\ model' = Keypoints[photo]
  /\ UNCHANGED <<fileVars, matches, camera, points, image, solid, pose>>

(* One match for every descriptor of the input image. *)
Match ==
  /\ test = "match"
  /\ matches' \in [1..input -> 1..Len(model)]
  /\ test' = "camera"
  /\ UNCHANGED <<fileVars, input, model, camera, points, image, solid, pose>>

(* Mutant of ReadCameraParams: only A is looked at before going on. *)
ReadCameraUnguarded ==
  /\ test = "camera"
  /\ IF camFile = None \/ CameraOf(camFile).A = None
     THEN test' = "stopped" /\ UNCHANGED camera
     ELSE test' = "points" /\ camera' = CameraOf(camFile)
  /\ UNCHANGED <<fileVars, input, model, matches, points, image, solid, pose>>

(* A file that cannot be opened leaves the camera empty. *)
ReadCameraParams ==
  /\ test = "camera"
  /\ \/ /\ camFile # None /\ CameraThrows(camFile)
        /\ test' = "aborted" /\ UNCHANGED camera
     \/ /\ camFile = None
        /\ test' = "stopped" /\ UNCHANGED camera
     \/ /\ camFile # None /\ ~CameraThrows(camFile)
        /\ camera' = CameraOf(camFile)
        /\ test' = IF SomeEmpty(camera') THEN "stopped" ELSE "points"
  /\ UNCHANGED <<fileVars, input, model, matches, points, image, solid, pose>>

(* Mutant of Read3DPoints: tried again until the file has points. *)
Read3DPointsRetrying ==
  /\ test = "points"
  /\ points' = IF ptsFile = None THEN << >> ELSE ptsFile
  /\ test' = IF points' = << >> THEN "points" ELSE "pair"
  /\ UNCHANGED <<fileVars, input, model, matches, camera, image, solid, pose>>

(* A missing file and an empty one give no points. *)
Read3DPoints ==
  /\ test = "points"
  /\ points' = IF ptsFile = None THEN << >> ELSE ptsFile
  /\ test' = IF points' = << >> THEN "stopped" ELSE "pair"
  /\ UNCHANGED <<fileVars, input, model, matches, camera, image, solid, pose>>

(* Mutant of Create2D3DCorrespondences: the loop skips a match whose 3D    *)
(* point does not exist, after the image point has been added.             *)
PairSkipping ==
  /\ test = "pair" /\ Len(image) < Len(matches)
  /\ LET q == Len(image) + 1 IN
       /\ image' = Append(image, q)
       /\ solid' = IF matches[q] <= Len(points)
                   THEN Append(solid, points[matches[q]]) ELSE solid
  /\ UNCHANGED <<fileVars, test, input, model, matches, camera, points, pose>>

(* Create2D3DCorrespondences, one match.  The image point is added first;  *)
(* model3Dpoints.at throws when the file has too few points, and nobody    *)
(* catches.                                                                *)
Create2D3DCorrespondences ==
  /\ test = "pair" /\ Len(image) < Len(matches)
  /\ LET q == Len(image) + 1 IN
       /\ image' = Append(image, q)
       /\ IF matches[q] <= Len(points)
          THEN solid' = Append(solid, points[matches[q]]) /\ UNCHANGED test
          ELSE test' = "aborted" /\ UNCHANGED solid
  /\ UNCHANGED <<fileVars, input, model, matches, camera, points, pose>>

(* What solvePnP computes; lines of the file have other numbers of runs.   *)
Estimated(part) == [part |-> part, run |-> 0, row |-> 1]

(* Mutant of EstimateHeadPose: the rotation finds room in the camera too.  *)
EstimateInPlace ==
  /\ test = "pair" /\ Len(image) = Len(matches)
  /\ IF image = << >> \/ solid = << >> \/ Len(solid) < MinPoints
     THEN test' = "aborted" /\ UNCHANGED <<camera, pose>>
     ELSE /\ pose' = [rotation |-> Estimated("R"), translation |-> Estimated("T")]
          /\ camera' = [camera EXCEPT !.R = <<Estimated("R")>>, !.T = Estimated("T")]
          /\ test' = "posed"
  /\ UNCHANGED <<fileVars, input, model, matches, points, image, solid>>

(* EstimateHeadPose: the vectors start as the camera's R and T and share   *)
(* their data.  solvePnP, external, throws on few points.  It needs 3x1    *)
(* vectors: in place of R it allocates one, but T is one already, and the  *)
(* translation is written into the data of the caller's camera.  Then      *)
(* ProjectPoints with the camera and the vectors.                          *)
EstimateHeadPose ==
  /\ test = "pair" /\ Len(image) = Len(matches)
  /\ IF image = << >> \/ solid = << >>
     THEN test' = "stopped" /\ UNCHANGED <<camera, pose>>
     ELSE IF Len(solid) < MinPoints
     THEN /\ test' = "aborted" /\ UNCHANGED camera
          /\ pose' = [rotation |-> camera.R, translation |-> camera.T]
     ELSE /\ test' = "posed"
          /\ pose' = [rotation |-> Estimated("R"), translation |-> Estimated("T")]
          /\ camera' = [camera EXCEPT !.T = Estimated("T")]
  /\ UNCHANGED <<fileVars, input, model, matches, points, image, solid>>

(* Mutant of RunAgain: the list of image points outlives the test. *)
RunAgainKeeping ==
  /\ test \in Ends
  /\ test' = "idle" /\ input' = 0 /\ model' = << >> /\ matches' = << >>
  /\ camera' = NoCamera /\ points' = << >> /\ solid' = << >> /\ pose' = NoPose
  /\ UNCHANGED <<fileVars, image>>

(* The program ends and is started again, from nothing. *)
RunAgain ==
  /\ test \in Ends
  /\ test' = "idle" /\ input' = 0 /\ model' = << >> /\ matches' = << >>
  /\ camera' = NoCamera /\ points' = << >> /\ image' = << >> /\ solid' = << >>
  /\ pose' = NoPose
  /\ UNCHANGED fileVars

TestStep == \/ ExtractFeatures \/ Match \/ ReadCameraParams \/ Read3DPoints
            \/ Create2D3DCorrespondences \/ EstimateHeadPose

Next == \/ FilesNext /\ UNCHANGED testVars
        \/ TestStep
        \/ RunAgain

(* The test waits for nobody until it ends. *)
Spec == Init /\ [][Next]_vars /\ WF_vars(TestStep)
-----------------------------------------------------------------------------
TypeOK ==
  /\ FilesTypeOK
  /\ test \in {"idle", "match", "camera", "points", "pair"} \union Ends
  /\ model \in Seq(Pixels)
  /\ matches = << >> \/ matches \in [1..input -> 1..Len(model)]
  /\ Len(image) <= Len(matches) /\ Len(solid) <= Len(image)

(* A pose is only computed from a whole camera of one rendering, and from  *)
(* as many 3D points as image points, each pair joined by its match.  The  *)
(* files may be rewritten, cut short or missing at any time                *)
(* (HeadPoseEstimationTest.cpp:181, :198, :212).                           *)
PoseFromWholeData ==
  /\ test = "pair" => \E r \in 1..run :
       camera = [A |-> PartOf("A", r), R |-> PartOf("R", r),
                 T |-> [part |-> "T", run |-> r, row |-> 1]]
  /\ test = "posed" =>
       /\ Len(image) = Len(solid) /\ Len(solid) >= MinPoints
       /\ \A n \in 1..Len(solid) : /\ matches[image[n]] <= Len(points)
                                   /\ solid[n] = points[matches[image[n]]]

(* Although the vectors start as the camera's own data, the pose that is   *)
(* projected is one estimate, and the matrices it is projected with are    *)
(* still those of one rendering; of the camera only T is lost, to that     *)
(* estimate (PoseEstimation.cpp:20-24, HeadPoseEstimationTest.cpp:221-231).*)
PoseKeepsMatrices ==
  test = "posed" =>
    /\ pose = [rotation |-> Estimated("R"), translation |-> Estimated("T")]
    /\ camera.T = pose.translation
    /\ \E r \in 1..run : camera.A = PartOf("A", r) /\ camera.R = PartOf("R", r)

(* An image point without its 3D point is only ever left behind by an      *)
(* exception that ends the program (FaceAugmentation.cpp:75-78).           *)
PairsStayTogether ==
  Len(image) # Len(solid) => test = "aborted" /\ Len(image) = Len(solid) + 1

(* Every run of the test comes to an end, however the files change. *)
TestEnds == test = "match" ~> test \in Ends

(* "Reads 3D points from a text file ... the input file name that contains *)
(* the 3D points of the model" (Utilities.h:45-47): the three numbers of a *)
(* point paired with an image point are the coordinates of one point.      *)
PointsArePoints ==
  \A n \in 1..Len(solid) : \E j \in 1..Len(points) :
    \A a \in 1..3 : solid[n][a].row = j /\ solid[n][a].axis = a
=============================================================================
