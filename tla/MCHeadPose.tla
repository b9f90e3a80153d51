---------------------------- MODULE MCHeadPose ----------------------------
(* Model images with two keypoints, on lines of different lengths, and     *)
(* with one, which lies outside the rendering; photographs with none, too  *)
(* few for solvePnP, and enough.                                           *)
EXTENDS HeadPose

CONSTANTS near, far, beyond, one, two

MCPixels == {near, far, beyond}
MCOutside == {beyond}
MCPhotos == {one, two}
MCKeypoints == [p \in MCPhotos |->
  IF p = one THEN <<beyond>> ELSE <<far, near>>]
MCBytes == [x \in MCPixels |-> IF x = near THEN 2 ELSE 3]
=============================================================================
