------------------------------- MODULE DoCalib ------------------------------
(***************************************************************************)
(* doCalib.m over the calib MEX file: the pose that calib found is tried   *)
(* on the points it was found from, and turned round if none of them is in *)
(* the picture; then the renderer draws with it and gives its matrices     *)
(* back, as demo.m and facial_pose_estimation_hassner.m do.  Angles of     *)
(* half a turn are exact.                                                  *)
(***************************************************************************)
EXTENDS Calib, Camera

CONSTANTS
  Width, Height,  \* of the picture
  Given,    \* the A that doCalib is called with
  Objects,  \* Objects[n]: sets of points, for each n of Requests.points
  Found3D   \* the R and T that OpenCV may find

ASSUME DoCalibOK ==
  /\ Width \in Nat \ {0} /\ Height \in Nat \ {0}
  /\ Given \subseteq {A \in Intrinsics : A.fx > 0 /\ A.fy > 0}
  /\ Objects \in [{"none", "few", "enough"} -> SUBSET SUBSET Vector]
  /\ Objects["none"] = {{}}
  /\ Found3D \subseteq [R : [1..3 -> Vector], T : Vector]

VARIABLES
  doing,    \* where doCalib, or the script that called it, is
  object, intrinsics,  \* objPoints and A
  before,   \* the camera that calib returned, or the last drawing was given
  camera    \* the camera that doCalib, or the last drawing, returned

script == <<doing, object, intrinsics, before, camera>>
allVars == <<vars, script>>

Zero == [A |-> [fx |-> 0, fy |-> 0, cx |-> 0, cy |-> 0],
         R |-> [i \in 1..3 |-> [j \in 1..3 |-> 0]], T |-> [i \in 1..3 |-> 0]]
Frame(cam) == OpenGLMatrices(cam, Width, Height)

ScriptInit == /\ doing = "idle" /\ object = {} /\ intrinsics = Zero.A
              /\ before = Zero /\ camera = Zero
DoCalibInit == Init /\ ScriptInit

Forget == /\ doing' = "idle" /\ object' = {} /\ intrinsics' = Zero.A
          /\ before' = Zero /\ camera' = Zero

(* Another call of calib, or a new Matlab process. *)
CallOther == /\ doing \in {"idle", "kept", "turned", "rendered"}
             /\ Restart \/ \E r \in Requests : Call(r)
             /\ Forget

(* The guess is used if there is one; all three results are asked for.     *)
CallDoCalib(r, obj, A) ==
  /\ doing \in {"idle", "kept", "turned", "rendered"}
  /\ r.method \in {"extrinsic", "guess"} /\ r.results = 3 /\ obj \in Objects[r.points]
  /\ Call(r)
  /\ doing' = "calib" /\ object' = obj /\ intrinsics' = A /\ before' = Zero /\ camera' = Zero

(* A step of the MEX file. *)
MexStep == Work /\ UNCHANGED script

(* An error of calib ends doCalib, and the script. *)
Fail == /\ doing = "calib" /\ step = "idle" /\ reply.kind # "ok"
        /\ Forget /\ UNCHANGED vars

(* calib returns the A it was given with the pose, or zeros. *)
Returned ==
  IF reply.pose = Unset THEN {Zero}
  ELSE {[A |-> intrinsics, R |-> f.R, T |-> f.T] : f \in Found3D}

GetPose ==
  /\ doing = "calib" /\ step = "idle" /\ reply.kind = "ok"
  /\ before' \in Returned
  /\ doing' = "inside" /\ UNCHANGED <<vars, object, intrinsics, camera>>

Inside(cam) ==
  {p \in object : PointInFrustum(ExtractFrustum(Frame(cam), Width, Height, p))}

(* Mutant of Turned: only the translation. *)
TurnedHalf(cam) == [cam EXCEPT !.T = Negative(cam.T)]

(* T=-T, and half a turn about z after R. *)
Turned(cam) ==
  [cam EXCEPT !.T = Negative(cam.T),
              !.R = [cam.R EXCEPT ![1] = Negative(cam.R[1]), ![2] = Negative(cam.R[2])]]

(* The end of doCalib. *)
CalcInside ==
  /\ doing = "inside"
  /\ IF Inside(before) = {} THEN camera' = Turned(before) /\ doing' = "turned"
     ELSE camera' = before /\ doing' = "kept"
  /\ UNCHANGED <<vars, object, intrinsics, before>>

(* The renderer draws with the camera, unless it is zeros, and returns its *)
(* matrices, which the script may draw with again.                         *)
Render ==
  /\ doing \in {"kept", "turned", "rendered"} /\ camera.A # Zero.A
  /\ camera' = CameraMatrices(Frame(camera), Width, Height)
  /\ before' = camera /\ doing' = "rendered"
  /\ UNCHANGED <<vars, object, intrinsics>>

DoCalibNext ==
  \/ \E r \in Requests, obj \in UNION {Objects[n] : n \in DOMAIN Objects}, A \in Given :
       CallDoCalib(r, obj, A)
  \/ MexStep \/ CallOther \/ Fail \/ GetPose \/ CalcInside \/ Render

DoCalibSpec == DoCalibInit /\ [][DoCalibNext]_allVars
-----------------------------------------------------------------------------
ScriptTypeOK ==
  /\ doing \in {"idle", "calib", "inside", "kept", "turned", "rendered"}
  /\ object \subseteq Vector /\ intrinsics \in Intrinsics
  /\ before \in Matrices /\ camera \in Matrices
  /\ \A cam \in {before, camera} : /\ cam.A.fx \in {0, intrinsics.fx}
                                  /\ cam.A.fy \in {0, intrinsics.fy}

(* The MEX file and the scripts that call it. *)
DoCalibTypeOK == TypeOK /\ ScriptTypeOK

(* Drawn in front of the camera and within the picture.                    *)
DrawnInside(cam, p) ==
  LET z == InCamera(cam, p)[3] IN
  /\ z > 0
  /\ 0 < DrawnColumn(Frame(cam), Width, p) /\ DrawnColumn(Frame(cam), Width, p) < 2 * z * Width
  /\ 0 < DrawnRow(Frame(cam), Height, p) /\ DrawnRow(Frame(cam), Height, p) < 2 * z * Height

(* The four planes decide what they are meant to: a pose is kept if and    *)
(* only if the renderer would draw one of its points in front of the       *)
(* camera and in the picture (doCalib.m:8-9, PointInFrustum.m:5-10), and   *)
(* the signs of ExtractFrustum.m and getOpenGLMatrices.m fit the others.   *)
KeptIfDrawn ==
  /\ doing = "kept" => \E p \in object : DrawnInside(before, p)
  /\ doing = "turned" => \A p \in object : ~DrawnInside(before, p)

(* Turning a pose round mends what it is for: points that were behind, and *)
(* nearer to the centre of the object than the camera is, are in front     *)
(* afterwards, and those at the depth of the centre keep their line of     *)
(* sight, so that they are drawn where they were found (doCalib.m:10-13).  *)
TurnedFaces ==
  doing = "turned" => \A p \in object :
    LET depth == Rotated(before.R, p)[3]  t == before.T[3] IN
    /\ InCamera(before, p)[3] < 0 /\ t < depth => InFront(camera, p)
    /\ depth = 0 => InCamera(camera, p) = Negative(InCamera(before, p))

(* "Providing the camera matrices returned from the previous example will  *)
(* yield the same results" (renderer.cpp:168): with the matrices that the  *)
(* renderer returns it draws every point where they say it is seen, also   *)
(* where it drew it before if the principal point was in the middle, and   *)
(* they hold the same pose (util.cpp:99-193, EngineOSG.cpp:591-616,        *)
(* 1029-1060).                                                             *)
RenderingsAgree ==
  doing = "rendered" =>
    /\ camera.R = before.R /\ camera.T = before.T
    /\ \A p \in object :
         /\ DrawnColumn(Frame(camera), Width, p) = SeenColumn(camera, p)
         /\ DrawnRow(Frame(camera), Height, p) = SeenRow(camera, p)
         /\ before.A.cx = Width => DrawnColumn(Frame(before), Width, p) = SeenColumn(camera, p)
         /\ before.A.cy = Height => DrawnRow(Frame(before), Height, p) = SeenRow(camera, p)

(* A point is drawn in the row where its camera sees it, whatever the      *)
(* camera, but in that column only if the principal point is in the middle *)
(* column: otherwise it is off by twice the distance, as the sign of the   *)
(* horizontal offset is that of the vertical one (util.cpp:119-120).       *)
DrawnWhereSeen ==
  doing = "rendered" => \A p \in object :
    /\ DrawnRow(Frame(before), Height, p) = SeenRow(before, p)
    /\ DrawnColumn(Frame(before), Width, p) =
         SeenColumn(before, p) + 2 * (Width - before.A.cx) * InCamera(before, p)[3]

(* Where points are drawn, the first time and again with the camera that   *)
(* was returned (renderer.cpp:168, util.cpp:99-193).                       *)
DrawnAsSeen == DrawnWhereSeen /\ RenderingsAgree
=============================================================================
