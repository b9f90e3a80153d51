-------------------------- MODULE MCFacialFeatures --------------------------
(* A photograph with two faces, one of them at the border, and keypoints   *)
(* within the first face's box, just behind its last column, and on the    *)
(* second face only; one without a face; and one that could not be read.   *)
EXTENDS FacialFeatures

CONSTANTS portrait, landscape, missing, crop, whole

MCImages == {portrait, landscape, missing}
MCSize == [p \in MCImages |-> IF p = missing THEN <<0, 0>> ELSE <<9, 8>>]
face == [x |-> 1, y |-> 1, width |-> 6, height |-> 6]
border == [x |-> 4, y |-> 2, width |-> 7, height |-> 7]
MCDetected == [p \in MCImages |-> IF p = portrait THEN <<face, border>> ELSE << >>]
MCLandmarks == {<<0, 3>>, <<5, 4>>}
MCEyeHits == {[x |-> 50, y |-> 20, width |-> 50, height |-> 80]}
MCSmileHits == {[x |-> 100, y |-> 0, width |-> 90, height |-> 100]}
nose == <<4, 4>>
edge == <<7, 7>>
wall == <<8, 2>>
MCPoints == {nose, edge, wall}
MCFound == [v \in Views |-> [p \in MCImages |->
  CASE v = whole -> {<<wall, nose>>, <<nose, edge>>}
    [] v = crop -> {<<wall>>, << >>}]]
=============================================================================
