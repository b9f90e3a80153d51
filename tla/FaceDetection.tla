--------------------------- MODULE FaceDetection ----------------------------
(***************************************************************************)
(* SeetaFaceDetection::DetectFaces: the faces of a photograph in an array  *)
(* from malloc, whose fields hold garbage until they are written, and the  *)
(* regions of eyes and mouth that are cut out of the photograph.           *)
(* What the detectors find is external.                                    *)
(***************************************************************************)
EXTENDS Rectangles, Sequences

CONSTANTS
  Images,     \* photographs
  Size,       \* Size[img]: its width and height, 0 for none
  Detected,   \* Detected[img]: the boxes that SeetaFace finds
  Landmarks,  \* where the centre of an eye may be found
  EyeHits, SmileHits,  \* what the cascades may find in a resized region
  Garbage     \* the content of memory that was never written

Photo(img) == [x |-> 0, y |-> 0, width |-> Size[img][1], height |-> Size[img][2]]
NoPixels(img) == Size[img][1] = 0 \/ Size[img][2] = 0

(* Faces have at least 40 pixels; that they are square is SeetaFace's.     *)
ASSUME FaceDetectionOK ==
  /\ Size \in [Images -> Nat \X Nat]
  /\ Detected \in [Images -> Seq(Box)]
  /\ \A img \in Images : \A k \in 1..Len(Detected[img]) :
       Detected[img][k].width = Detected[img][k].height /\ Detected[img][k].width >= 6
  /\ Landmarks \subseteq Int \X Int
  /\ EyeHits \subseteq [x : Nat, y : Nat, width : Nat, height : Nat]
  /\ SmileHits \subseteq [x : Nat, y : Nat, width : Nat, height : Nat]
  /\ Garbage \notin Rectangle /\ Garbage \notin Int

VARIABLES
  stage,  \* where DetectFaces is
  photo, asked,  \* its arguments
  faces, current       \* the array and the loop counter

detection == <<stage, photo, asked, faces, current>>

Unwritten == [FaceCoordinate |-> Garbage,
              EyesCoordinate |-> Garbage, openEyesCount |-> Garbage, closedEyesCount |-> Garbage,
              SmileCoordinate |-> Garbage, smilesCount |-> Garbage]
Nothing == Stored([x |-> 0, y |-> 0, width |-> 0, height |-> 0])

DetectionInit == /\ stage = "idle" /\ photo \in Images
                 /\ asked = [eyes |-> FALSE, smile |-> FALSE] /\ faces = << >> /\ current = 1

(* Called with detectEyes and detectSmile; cvtColor throws without pixels. *)
DetectFaces(img, eyes, smile) ==
  /\ stage = "idle"
  /\ photo' = img /\ asked' = [eyes |-> eyes, smile |-> smile] /\ current' = 1
  /\ IF NoPixels(img) THEN stage' = "thrown" /\ UNCHANGED faces
     ELSE /\ faces' = [k \in 1..Len(Detected[img]) |-> Unwritten]
          /\ stage' = IF Detected[img] = << >> THEN "done" ELSE "box"

Write(face) == faces' = [faces EXCEPT ![current] = face]

(* The loop goes on with the stages that were asked for. *)
NextFace == IF current = Len(faces) THEN "done" ELSE "box"
AfterEyes == IF asked.smile THEN "smile" ELSE NextFace
GoTo(next) == /\ stage' = next
              /\ current' = IF next \in {"box", "done"} THEN current + 1 ELSE current
              /\ UNCHANGED <<photo, asked>>

StoreBox ==
  /\ stage = "box"
  /\ Write([faces[current] EXCEPT !.FaceCoordinate = Stored(Detected[photo][current])])
  /\ GoTo(IF asked.eyes THEN "eyes" ELSE AfterEyes)

(* A region is resized to a height of 100, its width to the nearest number *)
(* (for square faces a tie is at 200.5 pixels only, and goes to 200).      *)
(* What is found there is scaled back and truncated, after a division      *)
(* whose result may lie just below a whole number.                         *)
ResizedWidth(region) == (200 * region.width + region.height - 1) \div (2 * region.height)
Scaled(v, height) ==
  {(v * height) \div 100} \cup
    IF v * height > 0 /\ (v * height) % 100 = 0 THEN {(v * height) \div 100 - 1} ELSE {}
FoundIn(region, hits) ==
  UNION {[x : {region.x + d : d \in Scaled(h.x, region.height)},
          y : {region.y + d : d \in Scaled(h.y, region.height)},
          width : Scaled(h.width, region.height), height : Scaled(h.height, region.height)] :
         h \in {h \in hits : h.x + h.width <= ResizedWidth(region) /\ h.y + h.height <= 100}}
EyeRegion(box, mark) ==
  [x |-> mark[1] - box.width \div 6, y |-> mark[2] - box.height \div 6,
   width |-> box.width \div 3, height |-> box.height \div 3]
MouthRegion(box) ==
  [x |-> box.x, y |-> box.y + box.height \div 2, width |-> box.width, height |-> box.height \div 2]
Relative(region, box) == Stored(Moved(region, -box.x, -box.y))

OpenEyesAt(region, box) ==
  Write([faces[current] EXCEPT !.openEyesCount = 1, !.closedEyesCount = 0,
                               !.EyesCoordinate = Relative(region, box)])
NoOpenEyes ==
  Write([faces[current] EXCEPT !.openEyesCount = 0, !.closedEyesCount = 1,
                               !.EyesCoordinate = Nothing])

(* The regions of the eyes are cut out as they are: one that crosses the   *)
(* border throws, and the array is lost.  An eye that is not found open    *)
(* counts with its whole region if the other one is.                       *)
DetectEyes ==
  /\ stage = "eyes"
  /\ LET box == Detected[photo][current] IN
     \E marks \in Landmarks \X Landmarks :
       LET left == EyeRegion(box, marks[1])  right == EyeRegion(box, marks[2]) IN
       IF ~(IsIn(left, Photo(photo)) /\ IsIn(right, Photo(photo)))
       THEN stage' = "thrown" /\ UNCHANGED <<photo, asked, faces, current>>
       ELSE /\ \/ NoOpenEyes
               \/ \E l \in FoundIn(left, EyeHits), r \in FoundIn(right, EyeHits) \cup {right} :
                    OpenEyesAt(Bounding(l, r), box)
               \/ \E r \in FoundIn(right, EyeHits) : OpenEyesAt(Bounding(left, r), box)
            /\ GoTo(AfterEyes)

SmileAt(region, box) ==
  Write([faces[current] EXCEPT !.smilesCount = 1, !.SmileCoordinate = Relative(region, box)])
NoSmile == Write([faces[current] EXCEPT !.smilesCount = 0, !.SmileCoordinate = Nothing])

(* Mutant of DetectSmile: a mouth outside the photograph is passed over. *)
DetectSmilePassing ==
  /\ stage = "smile"
  /\ LET box == Detected[photo][current]  mouth == MouthRegion(box) IN
     IF IsIn(mouth, Photo(photo))
     THEN NoSmile \/ \E region \in FoundIn(mouth, SmileHits) : SmileAt(region, box)
     ELSE UNCHANGED faces
  /\ GoTo(NextFace)

(* Mutant of DetectSmile: the mouth is cut out unchecked, as the eyes are. *)
DetectSmileUnchecked ==
  /\ stage = "smile"
  /\ LET box == Detected[photo][current]  mouth == MouthRegion(box) IN
     IF ~IsIn(mouth, Photo(photo))
     THEN stage' = "thrown" /\ UNCHANGED <<photo, asked, faces, current>>
     ELSE /\ NoSmile \/ \E region \in FoundIn(mouth, SmileHits) : SmileAt(region, box)
          /\ GoTo(NextFace)

(* Mutant of DetectSmile: what is found is moved by the face's corner.     *)
DetectSmileInFace ==
  /\ stage = "smile"
  /\ LET box == Detected[photo][current]  mouth == MouthRegion(box)
         top == -(box.height \div 2) IN
     \/ NoSmile
     \/ /\ IsIn(mouth, Photo(photo))
        /\ \E region \in FoundIn(mouth, SmileHits) : SmileAt(Moved(region, 0, top), box)
  /\ GoTo(NextFace)

(* A smile is looked for in the lower half of the face if that is in the   *)
(* photograph.                                                             *)
DetectSmile ==
  /\ stage = "smile"
  /\ LET box == Detected[photo][current]  mouth == MouthRegion(box) IN
     \/ NoSmile
     \/ /\ IsIn(mouth, Photo(photo))
        /\ \E region \in FoundIn(mouth, SmileHits) : SmileAt(region, box)
  /\ GoTo(NextFace)

(* The caller has looked at the faces, which nobody releases. *)
Return ==
  /\ stage \in {"done", "thrown"}
  /\ stage' = "idle" /\ faces' = << >> /\ current' = 1
  /\ asked' = [eyes |-> FALSE, smile |-> FALSE] /\ UNCHANGED photo

Detecting == StoreBox \/ DetectEyes \/ DetectSmile
-----------------------------------------------------------------------------
Face == [FaceCoordinate : Rectangle \cup {Garbage},
         EyesCoordinate : Rectangle \cup {Garbage},
         openEyesCount : {0, 1, Garbage}, closedEyesCount : {0, 1, Garbage},
         SmileCoordinate : Rectangle \cup {Garbage}, smilesCount : {0, 1, Garbage}]

DetectionTypeOK ==
  /\ stage \in {"idle", "box", "eyes", "smile", "done", "thrown"}
  /\ photo \in Images /\ asked \in [eyes : BOOLEAN, smile : BOOLEAN]
  /\ faces \in Seq(Face) /\ current \in 1..(Len(faces) + 1)

(* Of every face that is returned the box was written, and the results on  *)
(* eyes and smile exactly if they were asked for, whichever way through    *)
(* the loop each face took (SeetaFaceDetection.cpp:66-198); the zeros of   *)
(* SeetaFaceDetection.h:44-47 are never set.                               *)
AskedIsWritten ==
  stage = "done" =>
    /\ Len(faces) = Len(Detected[photo])
    /\ \A k \in 1..Len(faces) :
         /\ faces[k].FaceCoordinate = Stored(Detected[photo][k])
         /\ \A f \in {"EyesCoordinate", "openEyesCount", "closedEyesCount"} :
              faces[k][f] = Garbage <=> ~asked.eyes
         /\ \A f \in {"SmileCoordinate", "smilesCount"} : faces[k][f] = Garbage <=> ~asked.smile

(* A photograph with pixels throws at most where eyes are looked for: a    *)
(* caller that does not ask for them needs no handler, wherever the faces  *)
(* are (SeetaFaceDetection.cpp:84, 149).                                   *)
OnlyEyesThrow == stage = "thrown" => asked.eyes \/ NoPixels(photo)

(* What was found lies where it was looked for, after scaling and          *)
(* truncation: eyes within the photograph, a smile in the lower half of    *)
(* its face (SeetaFaceDetection.cpp:121-131, 163-178).                     *)
EyesFit(eyes, box, img) ==
  /\ box.x + eyes.left >= 0 /\ box.x + eyes.right <= Size[img][1]
  /\ box.y + eyes.top >= 0 /\ box.y + eyes.bottom <= Size[img][2]
SmileFits(smile, box) ==
  /\ 0 <= smile.left /\ smile.right <= box.width
  /\ box.height \div 2 <= smile.top /\ smile.bottom <= box.height
RegionsFit ==
  stage = "done" => \A k \in 1..Len(faces) :
    /\ faces[k].openEyesCount = 1 => EyesFit(faces[k].EyesCoordinate, Detected[photo][k], photo)
    /\ faces[k].smilesCount = 1 => SmileFits(faces[k].SmileCoordinate, Detected[photo][k])
=============================================================================
