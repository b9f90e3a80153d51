------------------------------- MODULE Camera -------------------------------
(***************************************************************************)
(* Camera matrices and the OpenGL matrices that renderer and calib draw    *)
(* and test with.  Numbers are integers: the principal point is given by   *)
(* cx and cy, twice its place, and what the code divides by the width or   *)
(* height of the frame is left multiplied by it.  Near and far planes are  *)
(* left out; OpenSceneGraph sets its own.  How matrices are laid out and   *)
(* transposed on their way makes no difference and is left out as well.    *)
(***************************************************************************)
EXTENDS Integers

(* A is upper triangular without skew; R has three rows.                   *)
Vector == [1..3 -> Int]
Intrinsics == [fx : Int, fy : Int, cx : Int, cy : Int]
Matrices == [A : Intrinsics, R : [1..3 -> Vector], T : Vector]

Dot(u, v) == u[1] * v[1] + u[2] * v[2] + u[3] * v[3]
Rotated(R, p) == [i \in 1..3 |-> Dot(R[i], p)]
Negative(v) == [i \in 1..3 |-> -v[i]]
InCamera(cam, p) == [i \in 1..3 |-> Dot(cam.R[i], p) + cam.T[i]]

(* The camera model of OpenCV: z looks forward, y down; column and row     *)
(* come with a factor of 2z.                                               *)
InFront(cam, p) == InCamera(cam, p)[3] > 0
SeenColumn(cam, p) == LET c == InCamera(cam, p) IN 2 * cam.A.fx * c[1] + cam.A.cx * c[3]
SeenRow(cam, p) == LET c == InCamera(cam, p) IN 2 * cam.A.fy * c[2] + cam.A.cy * c[3]

(* Y and Z of OpenGL are opposite to the camera model. *)
Opposite(rows) == [rows EXCEPT ![2] = Negative(rows[2]), ![3] = Negative(rows[3])]
OppositeT(t) == [t EXCEPT ![2] = -t[2], ![3] = -t[3]]

(* Mutant of OpenGLMatrices: both offsets have the other sign.             *)
OpenGLMatricesMirrored(cam, w, h) ==
  [x |-> 2 * cam.A.fx, xz |-> w - cam.A.cx, y |-> 2 * cam.A.fy, yz |-> h - cam.A.cy,
   rotation |-> Opposite(cam.R), translation |-> OppositeT(cam.T)]

OpenGLMatrices(cam, w, h) ==
  [x |-> 2 * cam.A.fx, xz |-> cam.A.cx - w, y |-> 2 * cam.A.fy, yz |-> cam.A.cy - h,
   rotation |-> Opposite(cam.R), translation |-> OppositeT(cam.T)]

(* The way back, with the principal point in the middle of the frame.      *)
CameraMatrices(gl, w, h) ==
  [A |-> [fx |-> gl.x \div 2, fy |-> gl.y \div 2, cx |-> w, cy |-> h],
   R |-> Opposite(gl.rotation), T |-> OppositeT(gl.translation)]

(* Clip coordinates x, y and w of a point, x and y times the size of the   *)
(* frame, and the pixel it is drawn at, with the same factor of 2z.        *)
Clip(gl, p) ==
  LET eye == [i \in 1..3 |-> Dot(gl.rotation[i], p) + gl.translation[i]] IN
  [x |-> gl.x * eye[1] + gl.xz * eye[3], y |-> gl.y * eye[2] + gl.yz * eye[3], w |-> -eye[3]]
DrawnColumn(gl, w, p) == LET clip == Clip(gl, p) IN clip.w * w + clip.x
DrawnRow(gl, h, p) == LET clip == Clip(gl, p) IN clip.w * h - clip.y

(* The planes right, left, bottom and top; scaling a plane to unit length  *)
(* keeps the side a point is on.                                           *)
ExtractFrustum(gl, w, h, p) ==
  LET clip == Clip(gl, p) IN
  <<clip.w * w - clip.x, clip.w * w + clip.x, clip.w * h + clip.y, clip.w * h - clip.y>>

(* Mutant of PointInFrustum: the top plane is not looked at. *)
PointBelowFrustum(planes) == \A k \in 1..3 : planes[k] > 0

PointInFrustum(planes) == \A k \in 1..4 : planes[k] > 0
=============================================================================
