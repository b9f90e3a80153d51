----------------------------- MODULE Rectangles -----------------------------
(***************************************************************************)
(* The two kinds of rectangles of face detection: OpenCV's, a corner and a *)
(* size, and dlib's, whose last column and row belong to it.               *)
(***************************************************************************)
EXTENDS Integers

(* cv::Rect. *)
Box == [x : Int, y : Int, width : Int, height : Int]
IsIn(box, outer) ==
  /\ outer.x <= box.x /\ box.x + box.width <= outer.x + outer.width
  /\ outer.y <= box.y /\ box.y + box.height <= outer.y + outer.height
Least(a, b) == IF a <= b THEN a ELSE b
Most(a, b) == IF a <= b THEN b ELSE a
Bounding(a, b) ==
  LET x == Least(a.x, b.x)  y == Least(a.y, b.y) IN
  [x |-> x, y |-> y, width |-> Most(a.x + a.width, b.x + b.width) - x,
   height |-> Most(a.y + a.height, b.y + b.height) - y]
Moved(box, dx, dy) ==
  [x |-> box.x + dx, y |-> box.y + dy, width |-> box.width, height |-> box.height]

(* dlib::rectangle. *)
Rectangle == [left : Int, top : Int, right : Int, bottom : Int]
Contains(r, p) == /\ r.left <= p[1] /\ p[1] <= r.right
                  /\ r.top <= p[2] /\ p[2] <= r.bottom

(* A box is stored with the column and row behind its last ones. *)
Stored(box) == [left |-> box.x, top |-> box.y,
                right |-> box.x + box.width, bottom |-> box.y + box.height]
=============================================================================
