------------------------- MODULE FaceDetectionProofs -------------------------
(***************************************************************************)
(* Face detection, for all photographs and whatever the detectors find:    *)
(* what has been written of each face at each stage, and that regions stay *)
(* where they were looked for although they are scaled and truncated.      *)
(***************************************************************************)
EXTENDS FaceDetection, TLAPS

(* How far face k is. *)
HasBox(k) == k < current \/ (k = current /\ stage \in {"eyes", "smile"})
HasEyes(k) == asked.eyes /\ (k < current \/ (k = current /\ stage = "smile"))
HasSmile(k) == asked.smile /\ k < current

FaceInv(k) ==
  /\ HasBox(k) => faces[k].FaceCoordinate = Stored(Detected[photo][k])
  /\ \A f \in {"EyesCoordinate", "openEyesCount", "closedEyesCount"} :
       faces[k][f] = Garbage <=> ~HasEyes(k)
  /\ \A f \in {"SmileCoordinate", "smilesCount"} : faces[k][f] = Garbage <=> ~HasSmile(k)
  /\ faces[k].openEyesCount = 1 => EyesFit(faces[k].EyesCoordinate, Detected[photo][k], photo)
  /\ faces[k].smilesCount = 1 => SmileFits(faces[k].SmileCoordinate, Detected[photo][k])

DetectionInv ==
  /\ DetectionTypeOK
  /\ stage \notin {"idle", "thrown"} => Len(faces) = Len(Detected[photo])
  /\ stage \in {"box", "eyes", "smile"} => current \in 1..Len(faces)
  /\ stage = "done" => current = Len(faces) + 1
  /\ (stage = "eyes" => asked.eyes) /\ (stage = "smile" => asked.smile)
  /\ stage = "thrown" => asked.eyes \/ NoPixels(photo)
  /\ stage \notin {"idle", "thrown"} => \A k \in 1..Len(faces) : FaceInv(k)
-----------------------------------------------------------------------------
(* Scaling back: a length within the resized region is one within the      *)
(* region, also for the sum of an offset and a size.                       *)
LEMMA Quotient ==
  ASSUME NEW a \in Int, NEW b \in Nat \ {0}
  PROVE  /\ a \div b \in Int /\ a % b \in 0..(b - 1)
         /\ (a \div b) * b <= a /\ a = (a \div b) * b + (a % b)
         /\ a >= 0 => a \div b >= 0
OBVIOUS

(* Truncation never scales up. *)
LEMMA ScaledBounds ==
  ASSUME NEW v \in Nat, NEW height \in Nat, NEW d \in Scaled(v, height)
  PROVE  d \in Nat /\ 100 * d <= v * height
<1> DEFINE p == v * height
           q == p \div 100
<1>1. p \in Nat
  OBVIOUS
<1> HIDE DEF p
<1>2. q \in Nat /\ 100 * q <= p /\ (p % 100 = 0 => p = 100 * q)
  BY <1>1
<1>3. d = q \/ (p > 0 /\ p % 100 = 0 /\ d = q - 1)
  BY DEF Scaled, p
<1>4. d \in Nat /\ 100 * d <= p
  BY <1>1, <1>2, <1>3
<1> QED BY <1>4 DEF p

(* The width of a region, resized to a height of 100. *)
LEMMA ResizedBounds ==
  ASSUME NEW region \in Box, region.width \in Nat, region.height \in Nat \ {0},
         \/ region.width = region.height
         \/ region.width = 2 * region.height \/ region.width = 2 * region.height + 1
  PROVE  /\ ResizedWidth(region) \in Nat
         /\ ResizedWidth(region) * region.height < 100 * (region.width + 1)
<1> DEFINE w == region.width
           h == region.height
           q == ResizedWidth(region)
<1>0. w \in Nat /\ h \in Nat \ {0}
  OBVIOUS
<1>1. q \in Nat /\ q * (2 * h) <= 200 * w + h - 1
  <2>1. 200 * w + h - 1 \in Nat /\ 2 * h \in Nat \ {0}
    BY <1>0
  <2>2. q = (200 * w + h - 1) \div (2 * h)
    BY DEF ResizedWidth
  <2> DEFINE a == 200 * w + h - 1
             b == 2 * h
  <2>3. a \in Int /\ a >= 0 /\ b \in Nat \ {0}
    BY <2>1
  <2>4. q = a \div b
    BY <2>2
  <2> HIDE DEF w, h, q, a, b
  <2>5. q \in Int /\ q * b <= a /\ q >= 0
    BY <2>3, <2>4, Quotient
  <2> QED BY <2>5 DEF a, b
<1>2. q * (2 * h) = 2 * (q * h)
  <2> HIDE DEF w, h, q
  <2> QED BY <1>0, <1>1
<1> DEFINE p == q * h
<1>3. p \in Nat
  <2> HIDE DEF w, h, q
  <2> QED BY <1>0, <1>1
<1>4. 2 * p <= 200 * w + h - 1
  BY <1>1, <1>2
<1>5. ASSUME h < 200 PROVE p < 100 * (w + 1)
  <2> HIDE DEF w, h, q, p
  <2> QED BY <1>0, <1>3, <1>4, <1>5 DEF p
<1>6. ASSUME h >= 200 PROVE p < 100 * (w + 1)
  <2>1. w = h \/ w = 2 * h \/ w = 2 * h + 1
    OBVIOUS
  <2>2. q <= 200
    <3> HIDE DEF w, h, p
    <3>1. q * (2 * h) < 201 * (2 * h)
      BY <1>0, <1>1, <1>6, <2>1
    <3> HIDE DEF q
    <3>2. ASSUME q >= 201 PROVE FALSE
      <4>1. q * (2 * h) >= 201 * (2 * h)
        BY <1>0, <1>1, <3>2
      <4> QED BY <1>0, <1>1, <3>1, <4>1
    <3> QED BY <1>1, <3>2
  <2>3. CASE w = h
    <3>1. q <= 100
      <4> HIDE DEF w, h, p
      <4>1. q * (2 * h) < 101 * (2 * h)
        BY <1>0, <1>1, <2>3
      <4> HIDE DEF q
      <4>2. ASSUME q >= 101 PROVE FALSE
        <5>1. q * (2 * h) >= 101 * (2 * h)
          BY <1>0, <1>1, <4>2
        <5> QED BY <1>0, <1>1, <4>1, <5>1
      <4> QED BY <1>1, <4>2
    <3> HIDE DEF w, h, q
    <3>2. p <= 100 * h
      BY <1>0, <1>1, <3>1
    <3> HIDE DEF p
    <3> QED BY <1>0, <1>3, <2>3, <3>2
  <2>4. CASE w >= 2 * h
    <3> HIDE DEF w, h, q
    <3>2. p <= 200 * h
      BY <1>0, <1>1, <2>2
    <3> HIDE DEF p
    <3> QED BY <1>0, <1>3, <2>4, <3>2
  <2> HIDE DEF w, h, q, p
  <2> QED BY <1>0, <2>1, <2>3, <2>4
<1>7. p < 100 * (w + 1)
  <2> HIDE DEF w, h, q, p
  <2> QED BY <1>0, <1>5, <1>6
<1> QED BY <1>1, <1>7

(* The regions that are cut out have one of these shapes. *)
LEMMA FoundFits ==
  ASSUME NEW region \in Box, region.width \in Nat, region.height \in Nat \ {0},
         \/ region.width = region.height
         \/ region.width = 2 * region.height \/ region.width = 2 * region.height + 1,
         NEW hits, hits \subseteq [x : Nat, y : Nat, width : Nat, height : Nat],
         NEW r \in FoundIn(region, hits)
  PROVE  r \in Box /\ IsIn(r, region)
<1> DEFINE h == region.height
           w == region.width
           q == ResizedWidth(region)
<1>1. PICK hit \in hits :
        /\ hit.x + hit.width <= q /\ hit.y + hit.height <= 100
        /\ r \in [x : {region.x + d : d \in Scaled(hit.x, h)},
                  y : {region.y + d : d \in Scaled(hit.y, h)},
                  width : Scaled(hit.width, h), height : Scaled(hit.height, h)]
  BY DEF FoundIn
<1>2. /\ hit.x \in Nat /\ hit.y \in Nat /\ hit.width \in Nat /\ hit.height \in Nat
  OBVIOUS
<1>3. PICK dx \in Scaled(hit.x, h), dy \in Scaled(hit.y, h) :
        r.x = region.x + dx /\ r.y = region.y + dy
  BY <1>1
<1>4. r.width \in Scaled(hit.width, h) /\ r.height \in Scaled(hit.height, h)
  BY <1>1
<1>5. w \in Nat /\ h \in Nat \ {0} /\ h \in Nat /\ region.x \in Int /\ region.y \in Int
  BY DEF Box
<1>6. /\ dx \in Nat /\ 100 * dx <= hit.x * h
      /\ dy \in Nat /\ 100 * dy <= hit.y * h
      /\ r.width \in Nat /\ 100 * r.width <= hit.width * h
      /\ r.height \in Nat /\ 100 * r.height <= hit.height * h
  <2> HIDE DEF h
  <2> QED BY <1>2, <1>3, <1>4, <1>5, ScaledBounds
<1>7. q \in Nat /\ q * h < 100 * (w + 1)
  BY ResizedBounds
<1>8. dx + r.width <= w
  <2> DEFINE a == hit.x
             b == hit.width
             c == r.width
  <2>1. /\ a \in Nat /\ b \in Nat /\ c \in Nat /\ dx \in Nat /\ a + b <= q
        /\ 100 * dx <= a * h /\ 100 * c <= b * h
    BY <1>1, <1>2, <1>6
  <2> HIDE DEF a, b, c, h, w, q
  <2>2. a * h + b * h = (a + b) * h /\ (a + b) * h <= q * h
    BY <2>1, <1>5, <1>7
  <2>3. a * h \in Nat /\ b * h \in Nat /\ q * h \in Nat
    BY <2>1, <1>5, <1>7
  <2>4. 100 * (dx + c) < 100 * (w + 1)
    BY <2>1, <2>2, <2>3, <1>7, <1>5
  <2>5. dx + c <= w
    BY <2>1, <2>4, <1>5
  <2> QED BY <2>5 DEF c
<1>9. dy + r.height <= h
  <2> DEFINE a == hit.y
             b == hit.height
             c == r.height
  <2>1. /\ a \in Nat /\ b \in Nat /\ c \in Nat /\ dy \in Nat /\ a + b <= 100
        /\ 100 * dy <= a * h /\ 100 * c <= b * h
    BY <1>1, <1>2, <1>6
  <2> HIDE DEF a, b, c, h, w, q
  <2>2. a * h + b * h = (a + b) * h /\ (a + b) * h <= 100 * h
    BY <2>1, <1>5
  <2>3. a * h \in Nat /\ b * h \in Nat
    BY <2>1, <1>5
  <2>4. 100 * (dy + c) <= 100 * h
    BY <2>1, <2>2, <2>3, <1>5
  <2>5. dy + c <= h
    BY <2>1, <2>4, <1>5
  <2> QED BY <2>5 DEF c
<1>10. r \in Box
  <2>1. r = [x |-> r.x, y |-> r.y, width |-> r.width, height |-> r.height]
    BY <1>1
  <2> QED BY <2>1, <1>3, <1>5, <1>6 DEF Box
<1> QED BY <1>3, <1>5, <1>6, <1>8, <1>9, <1>10 DEF IsIn
-----------------------------------------------------------------------------
(* What a step makes of the current face, if it goes on with next. *)
FaceOK(face, next) ==
  /\ face \in Face
  /\ face.FaceCoordinate = Stored(Detected[photo][current])
  /\ \A f \in {"EyesCoordinate", "openEyesCount", "closedEyesCount"} :
       face[f] = Garbage <=> ~(asked.eyes /\ next # "eyes")
  /\ \A f \in {"SmileCoordinate", "smilesCount"} :
       face[f] = Garbage <=> ~(asked.smile /\ next \in {"box", "done"})
  /\ face.openEyesCount = 1 => EyesFit(face.EyesCoordinate, Detected[photo][current], photo)
  /\ face.smilesCount = 1 => SmileFits(face.SmileCoordinate, Detected[photo][current])

NextOK(next) ==
  /\ next \in {"box", "eyes", "smile", "done"}
  /\ (next = "eyes" => asked.eyes) /\ (next = "smile" => asked.smile)
  /\ next = "box" => current + 1 <= Len(faces)
  /\ next = "done" => current = Len(faces)

(* A stage that writes what it has to goes on with the invariant. *)
LEMMA FaceWritten ==
  ASSUME DetectionInv, stage \in {"box", "eyes", "smile"},
         NEW face, NEW next, FaceOK(face, next), NextOK(next), Write(face), GoTo(next)
  PROVE  DetectionInv'
<1>1. /\ faces \in Seq(Face) /\ current \in 1..Len(faces) /\ Len(faces) \in Nat
      /\ Len(faces) = Len(Detected[photo])
      /\ photo \in Images /\ asked \in [eyes : BOOLEAN, smile : BOOLEAN]
      /\ \A k \in 1..Len(faces) : FaceInv(k)
  BY DEF DetectionInv, DetectionTypeOK
<1>2. /\ faces' \in Seq(Face) /\ Len(faces') = Len(faces)
      /\ faces'[current] = face
      /\ \A k \in 1..Len(faces) : k # current => faces'[k] = faces[k]
  BY <1>1 DEF Write, FaceOK
<1>3. /\ photo' = photo /\ asked' = asked /\ stage' = next
      /\ next \in {"box", "done"} => current' = current + 1
      /\ next \in {"eyes", "smile"} => current' = current
  BY DEF GoTo
<1>4. DetectionTypeOK'
  BY <1>1, <1>2, <1>3 DEF DetectionTypeOK, NextOK
<1>5. ASSUME NEW k \in 1..Len(faces) PROVE FaceInv(k)'
  <2>1. CASE k = current
    <3>1. /\ HasEyes(k)' <=> (asked.eyes /\ next # "eyes")
          /\ HasSmile(k)' <=> (asked.smile /\ next \in {"box", "done"})
      BY <1>1, <1>3, <2>1 DEF HasEyes, HasSmile, NextOK
    <3> QED BY <1>2, <1>3, <2>1, <3>1 DEF FaceInv, FaceOK, EyesFit, SmileFits
  <2>2. CASE k # current
    <3>1. /\ HasBox(k)' <=> HasBox(k)
          /\ HasEyes(k)' <=> HasEyes(k)
          /\ HasSmile(k)' <=> HasSmile(k)
      BY <1>1, <1>3, <2>2 DEF HasBox, HasEyes, HasSmile, NextOK
    <3>2. FaceInv(k) /\ faces'[k] = faces[k]
      BY <1>1, <1>2, <2>2
    <3> QED BY <1>3, <3>1, <3>2 DEF FaceInv, EyesFit, SmileFits
  <2> QED BY <2>1, <2>2
<1>6. /\ stage' \notin {"idle", "thrown"} /\ Len(faces') = Len(Detected'[photo'])
      /\ stage' \in {"box", "eyes", "smile"} => current' \in 1..Len(faces')
      /\ stage' = "done" => current' = Len(faces') + 1
      /\ (stage' = "eyes" => asked'.eyes) /\ (stage' = "smile" => asked'.smile)
  BY <1>1, <1>2, <1>3 DEF NextOK
<1> QED BY <1>2, <1>4, <1>5, <1>6 DEF DetectionInv

(* The stages that may follow a stage. *)
LEMMA NextStages ==
  ASSUME DetectionInv, stage \in {"box", "eyes", "smile"}
  PROVE  /\ NextOK(NextFace) /\ NextFace \in {"box", "done"}
         /\ NextOK(AfterEyes) /\ AfterEyes # "eyes" /\ (asked.smile <=> AfterEyes = "smile")
         /\ asked.eyes => NextOK("eyes")
<1>1. /\ current \in 1..Len(faces) /\ Len(faces) \in Nat /\ faces \in Seq(Face)
      /\ asked \in [eyes : BOOLEAN, smile : BOOLEAN]
  BY DEF DetectionInv, DetectionTypeOK
<1> QED BY <1>1 DEF NextOK, NextFace, AfterEyes

(* The current face before the step. *)
LEMMA CurrentFace ==
  ASSUME DetectionInv, stage \in {"box", "eyes", "smile"}
  PROVE  /\ faces[current] \in Face /\ current \in 1..Len(faces) /\ FaceInv(current)
         /\ photo \in Images /\ asked \in [eyes : BOOLEAN, smile : BOOLEAN]
         /\ Detected[photo][current] \in Box
         /\ Detected[photo][current].width = Detected[photo][current].height
         /\ Detected[photo][current].width >= 6
         /\ Size[photo][1] \in Nat /\ Size[photo][2] \in Nat
         /\ Photo(photo) \in Box
<1>1. /\ faces \in Seq(Face) /\ current \in 1..Len(faces) /\ FaceInv(current) /\ photo \in Images
      /\ Len(faces) = Len(Detected[photo]) /\ asked \in [eyes : BOOLEAN, smile : BOOLEAN]
  BY DEF DetectionInv, DetectionTypeOK
<1>2. Detected[photo] \in Seq(Box) /\ Size[photo] \in Nat \X Nat
  BY <1>1, FaceDetectionOK
<1>3. Photo(photo) \in Box
  BY <1>2 DEF Photo, Box
<1> QED BY <1>1, <1>2, <1>3, FaceDetectionOK

(* A stored box is not garbage. *)
LEMMA StoredBox ==
  ASSUME NEW box \in Box
  PROVE  Stored(box) \in Rectangle /\ Stored(box) # Garbage
<1>1. Stored(box) \in Rectangle
  BY DEF Stored, Box, Rectangle
<1> QED BY <1>1, FaceDetectionOK

(* Nor are the counts. *)
LEMMA Counts == 0 # Garbage /\ 1 # Garbage
BY FaceDetectionOK

(* Where a region lies within its face. *)
LEMMA MovedBox ==
  ASSUME NEW region \in Box, NEW box \in Box
  PROVE  /\ Relative(region, box) = [left |-> region.x - box.x, top |-> region.y - box.y,
                                     right |-> region.x - box.x + region.width,
                                     bottom |-> region.y - box.y + region.height]
         /\ Relative(region, box) \in Rectangle /\ Relative(region, box) # Garbage
<1>1. Moved(region, -box.x, -box.y) = [x |-> region.x - box.x, y |-> region.y - box.y,
                                       width |-> region.width, height |-> region.height]
  <2>1. region.x + (-box.x) = region.x - box.x /\ region.y + (-box.y) = region.y - box.y
    BY DEF Box
  <2> QED BY <2>1 DEF Moved
<1>2. Relative(region, box) = [left |-> region.x - box.x, top |-> region.y - box.y,
                               right |-> region.x - box.x + region.width,
                               bottom |-> region.y - box.y + region.height]
  BY <1>1 DEF Relative, Stored
<1>3. Relative(region, box) \in Rectangle
  BY <1>2 DEF Rectangle, Box
<1> QED BY <1>2, <1>3, FaceDetectionOK

(* The parts of a face of six pixels or more are not empty. *)
LEMMA Parts ==
  ASSUME NEW n \in Int, n >= 6
  PROVE  /\ n \div 3 \in Nat \ {0} /\ n \div 2 \in Nat \ {0} /\ n \div 6 \in Int
         /\ n = 2 * (n \div 2) \/ n = 2 * (n \div 2) + 1
OBVIOUS

(* What is moved into the face and back again is where it was. *)
LEMMA BackAndForth ==
  ASSUME NEW a \in Int, NEW b \in Int, NEW w \in Int, NEW s \in Int, 0 <= a, a + w <= 0 + s
  PROVE  b + (a - b) >= 0 /\ b + (a - b + w) <= s
OBVIOUS

(* Nor is what is stored for no result. *)
LEMMA NothingFound == Nothing \in Rectangle /\ Nothing # Garbage
BY FaceDetectionOK DEF Nothing, Stored, Rectangle

(* Both of two regions fit where each of them fits. *)
LEMMA BoundingFits ==
  ASSUME NEW a \in Box, NEW b \in Box, NEW outer \in Box, IsIn(a, outer), IsIn(b, outer)
  PROVE  Bounding(a, b) \in Box /\ IsIn(Bounding(a, b), outer)
BY DEF Bounding, IsIn, Box, Least, Most

(* A region of a region. *)
LEMMA WithinPhoto ==
  ASSUME NEW a \in Box, NEW b \in Box, NEW outer \in Box, IsIn(a, b), IsIn(b, outer)
  PROVE  IsIn(a, outer)
BY DEF IsIn, Box

(* StoreBox writes the box. *)
LEMMA StoresBox ==
  ASSUME DetectionInv, StoreBox
  PROVE  DetectionInv'
<1> DEFINE next == IF asked.eyes THEN "eyes" ELSE AfterEyes
           face == [faces[current] EXCEPT !.FaceCoordinate = Stored(Detected[photo][current])]
<1>1. stage = "box" /\ Write(face) /\ GoTo(next)
  BY DEF StoreBox
<1>2. NextOK(next) /\ (asked.eyes => next = "eyes") /\ (~asked.eyes => next = AfterEyes)
  BY <1>1, NextStages
<1>3. FaceOK(face, next)
  <2>1. /\ faces[current] \in Face /\ FaceInv(current) /\ Stored(Detected[photo][current]) \in Rectangle
        /\ asked \in [eyes : BOOLEAN, smile : BOOLEAN] /\ current \in 1..Len(faces)
    BY <1>1, CurrentFace, StoredBox
  <2>2. /\ face \in Face /\ face.FaceCoordinate = Stored(Detected[photo][current])
        /\ \A f \in {"EyesCoordinate", "openEyesCount", "closedEyesCount",
                     "SmileCoordinate", "smilesCount"} : face[f] = faces[current][f]
    BY <2>1 DEF Face
  <2>3. ~HasEyes(current) /\ ~HasSmile(current)
    BY <1>1, <2>1 DEF HasEyes, HasSmile
  <2>4. ~(asked.eyes /\ next # "eyes") /\ ~(asked.smile /\ next \in {"box", "done"})
    BY <1>1, <1>2, NextStages
  <2> HIDE DEF face, next
  <2> QED BY <2>1, <2>2, <2>3, <2>4 DEF FaceInv, FaceOK
<1> HIDE DEF face, next
<1> QED BY <1>1, <1>2, <1>3, FaceWritten

(* A region of the eyes is at most what one of them was cut out of. *)
LEMMA DetectsEyes ==
  ASSUME DetectionInv, DetectEyes
  PROVE  DetectionInv'
<1> DEFINE box == Detected[photo][current]
<1>1. PICK marks \in Landmarks \X Landmarks :
        LET left == EyeRegion(box, marks[1])  right == EyeRegion(box, marks[2]) IN
        IF ~(IsIn(left, Photo(photo)) /\ IsIn(right, Photo(photo)))
        THEN stage' = "thrown" /\ UNCHANGED <<photo, asked, faces, current>>
        ELSE /\ \/ NoOpenEyes
                \/ \E l \in FoundIn(left, EyeHits), r \in FoundIn(right, EyeHits) \cup {right} :
                     OpenEyesAt(Bounding(l, r), box)
                \/ \E r \in FoundIn(right, EyeHits) : OpenEyesAt(Bounding(left, r), box)
             /\ GoTo(AfterEyes)
  BY DEF DetectEyes
<1> DEFINE left == EyeRegion(box, marks[1])
           right == EyeRegion(box, marks[2])
<1>2. stage = "eyes" /\ asked.eyes
  BY DEF DetectEyes, DetectionInv
<1>3. /\ faces[current] \in Face /\ FaceInv(current) /\ current \in 1..Len(faces)
      /\ box \in Box /\ box.width = box.height /\ box.width >= 6
      /\ Photo(photo) \in Box /\ Size[photo][1] \in Nat /\ Size[photo][2] \in Nat
      /\ asked \in [eyes : BOOLEAN, smile : BOOLEAN]
  BY <1>2, CurrentFace
<1>4. CASE ~(IsIn(left, Photo(photo)) /\ IsIn(right, Photo(photo)))
  <2>1. stage' = "thrown" /\ UNCHANGED <<photo, asked, faces, current>>
    BY <1>1, <1>4
  <2> QED BY <1>2, <2>1 DEF DetectionInv, DetectionTypeOK, NoPixels
<1>5. CASE IsIn(left, Photo(photo)) /\ IsIn(right, Photo(photo))
  <2> DEFINE next == AfterEyes
  <2>1. GoTo(next)
    BY <1>1, <1>5
  <2>2. NextOK(next) /\ next # "eyes" /\ (asked.smile <=> next = "smile")
    BY <1>2, NextStages
  <2>3. ~HasSmile(current) /\ ~(asked.smile /\ next \in {"box", "done"})
    BY <1>2, <1>3, <2>2 DEF HasSmile
  <2>4. faces[current].FaceCoordinate = Stored(box)
    BY <1>2, <1>3 DEF FaceInv, HasBox
  <2>5. CASE NoOpenEyes
    <3> DEFINE face == [faces[current] EXCEPT !.openEyesCount = 0, !.closedEyesCount = 1,
                                              !.EyesCoordinate = Nothing]
    <3>1. Write(face)
      BY <2>5 DEF NoOpenEyes
    <3>2. /\ face \in Face /\ face.openEyesCount = 0 /\ face.closedEyesCount = 1
          /\ face.EyesCoordinate = Nothing
          /\ \A f \in {"FaceCoordinate", "SmileCoordinate", "smilesCount"} :
               face[f] = faces[current][f]
      BY <1>3, NothingFound DEF Face
    <3> HIDE DEF face, next
    <3>3. FaceOK(face, next)
      <4>1. \A f \in {"EyesCoordinate", "openEyesCount", "closedEyesCount"} : face[f] # Garbage
        BY <3>2, NothingFound, Counts
      <4>2. \A f \in {"SmileCoordinate", "smilesCount"} : face[f] = Garbage
        BY <1>3, <2>3, <3>2 DEF FaceInv
      <4>3. face.openEyesCount # 1 /\ face.smilesCount # 1
        BY <3>2, <4>2, Counts
      <4> QED BY <1>2, <2>2, <2>3, <2>4, <3>2, <4>1, <4>2, <4>3 DEF FaceOK
    <3> QED BY <1>2, <2>1, <2>2, <3>1, <3>3, FaceWritten
  <2>6. ASSUME NEW eyes \in Box, IsIn(eyes, Photo(photo)), OpenEyesAt(eyes, box)
        PROVE  DetectionInv'
    <3> DEFINE where == Relative(eyes, box)
               face == [faces[current] EXCEPT !.openEyesCount = 1, !.closedEyesCount = 0,
                                              !.EyesCoordinate = where]
    <3>1. Write(face)
      BY <2>6 DEF OpenEyesAt
    <3>2. where \in Rectangle /\ where # Garbage
      BY <1>3, MovedBox
    <3>3. EyesFit(where, box, photo)
      <4>1. /\ 0 <= eyes.x /\ eyes.x + eyes.width <= 0 + Size[photo][1]
            /\ 0 <= eyes.y /\ eyes.y + eyes.height <= 0 + Size[photo][2]
        BY <2>6 DEF IsIn, Photo
      <4>2. /\ eyes.x \in Int /\ eyes.y \in Int /\ eyes.width \in Int /\ eyes.height \in Int
            /\ box.x \in Int /\ box.y \in Int
        BY <1>3, <2>6 DEF Box
      <4>3. /\ where.left = eyes.x - box.x /\ where.right = eyes.x - box.x + eyes.width
            /\ where.top = eyes.y - box.y /\ where.bottom = eyes.y - box.y + eyes.height
        BY <1>3, MovedBox
      <4>4. Size[photo][1] \in Int /\ Size[photo][2] \in Int
        BY <1>3
      <4>5. box.x + where.left >= 0 /\ box.x + where.right <= Size[photo][1]
        BY <4>1, <4>2, <4>3, <4>4, BackAndForth
      <4>6. box.y + where.top >= 0 /\ box.y + where.bottom <= Size[photo][2]
        BY <4>1, <4>2, <4>3, <4>4, BackAndForth
      <4> QED BY <4>5, <4>6 DEF EyesFit
    <3> HIDE DEF where
    <3>4. /\ face \in Face /\ face.openEyesCount = 1 /\ face.closedEyesCount = 0
          /\ face.EyesCoordinate = where
          /\ \A f \in {"FaceCoordinate", "SmileCoordinate", "smilesCount"} :
               face[f] = faces[current][f]
      BY <1>3, <3>2 DEF Face
    <3> HIDE DEF face, next
    <3>5. FaceOK(face, next)
      <4>1. \A f \in {"EyesCoordinate", "openEyesCount", "closedEyesCount"} : face[f] # Garbage
        BY <3>2, <3>4, Counts
      <4>2. \A f \in {"SmileCoordinate", "smilesCount"} : face[f] = Garbage
        BY <1>3, <2>3, <3>4 DEF FaceInv
      <4>3. face.smilesCount # 1
        BY <4>2, Counts
      <4> QED BY <1>2, <2>2, <2>3, <2>4, <3>3, <3>4, <4>1, <4>2, <4>3 DEF FaceOK
    <3> QED BY <1>2, <2>1, <2>2, <3>1, <3>5, FaceWritten
  <2>7. /\ left \in Box /\ left.width \in Nat /\ left.height \in Nat \ {0} /\ left.width = left.height
        /\ right \in Box /\ right.width \in Nat /\ right.height \in Nat \ {0}
        /\ right.width = right.height
    <3>1. /\ marks[1][1] \in Int /\ marks[1][2] \in Int /\ marks[2][1] \in Int /\ marks[2][2] \in Int
      BY FaceDetectionOK
    <3>2. /\ box.width \div 3 \in Nat \ {0} /\ box.width \div 6 \in Int
          /\ box.x \in Int /\ box.y \in Int /\ box.height = box.width
      <4>1. box.width \in Int /\ box.x \in Int /\ box.y \in Int
        BY <1>3 DEF Box
      <4> QED BY <1>3, <4>1, Parts
    <3>3. ASSUME NEW mark, mark[1] \in Int, mark[2] \in Int
          PROVE  /\ EyeRegion(box, mark) \in Box
                 /\ EyeRegion(box, mark).width = box.width \div 3
                 /\ EyeRegion(box, mark).height = box.width \div 3
      <4>1. /\ mark[1] - box.width \div 6 \in Int /\ mark[2] - box.height \div 6 \in Int
            /\ box.height \div 3 = box.width \div 3 /\ box.width \div 3 \in Int
        BY <3>2, <3>3
      <4> QED BY <4>1 DEF EyeRegion, Box
    <3> HIDE DEF box
    <3> QED BY <3>1, <3>2, <3>3
  <2>8. \A l \in FoundIn(left, EyeHits) : l \in Box /\ IsIn(l, Photo(photo))
    <3> HIDE DEF left
    <3> QED BY <1>3, <1>5, <2>7, FoundFits, WithinPhoto, FaceDetectionOK
  <2>9. \A r \in FoundIn(right, EyeHits) : r \in Box /\ IsIn(r, Photo(photo))
    <3> HIDE DEF right
    <3> QED BY <1>3, <1>5, <2>7, FoundFits, WithinPhoto, FaceDetectionOK
  <2>10. ASSUME NEW l \in FoundIn(left, EyeHits) \cup {left},
                NEW r \in FoundIn(right, EyeHits) \cup {right}, OpenEyesAt(Bounding(l, r), box)
         PROVE  DetectionInv'
    <3>1. l \in Box /\ r \in Box /\ IsIn(l, Photo(photo)) /\ IsIn(r, Photo(photo))
      BY <1>5, <2>7, <2>8, <2>9
    <3>2. Bounding(l, r) \in Box /\ IsIn(Bounding(l, r), Photo(photo))
      BY <1>3, <3>1, BoundingFits
    <3> QED BY <2>6, <2>10, <3>2
  <2>11. CASE \E l \in FoundIn(left, EyeHits), r \in FoundIn(right, EyeHits) \cup {right} :
                OpenEyesAt(Bounding(l, r), box)
    BY <2>10, <2>11
  <2>12. CASE \E r \in FoundIn(right, EyeHits) : OpenEyesAt(Bounding(left, r), box)
    BY <2>10, <2>12
  <2> QED BY <1>1, <1>5, <2>5, <2>11, <2>12
<1> QED BY <1>4, <1>5

(* DetectSmile writes the smile, within the mouth or as nothing. *)
LEMMA DetectsSmile ==
  ASSUME DetectionInv, DetectSmile
  PROVE  DetectionInv'
<1> DEFINE box == Detected[photo][current]
           mouth == MouthRegion(box)
           next == NextFace
<1>1. /\ \/ NoSmile
         \/ /\ IsIn(mouth, Photo(photo))
            /\ \E region \in FoundIn(mouth, SmileHits) : SmileAt(region, box)
      /\ GoTo(next)
  BY DEF DetectSmile
<1>2. stage = "smile" /\ asked.smile
  BY DEF DetectSmile, DetectionInv
<1>3. /\ faces[current] \in Face /\ FaceInv(current) /\ current \in 1..Len(faces)
      /\ box \in Box /\ box.width = box.height /\ box.width >= 6
      /\ asked \in [eyes : BOOLEAN, smile : BOOLEAN]
  BY <1>2, CurrentFace
<1>4. NextOK(next) /\ next \in {"box", "done"}
  BY <1>2, NextStages
<1>5. /\ faces[current].FaceCoordinate = Stored(box)
      /\ \A f \in {"EyesCoordinate", "openEyesCount", "closedEyesCount"} :
           faces[current][f] = Garbage <=> ~asked.eyes
      /\ faces[current].openEyesCount = 1 => EyesFit(faces[current].EyesCoordinate, box, photo)
  BY <1>2, <1>3 DEF FaceInv, HasBox, HasEyes
<1>6. ASSUME NEW face \in Face, Write(face), NEW count \in {0, 1}, NEW where \in Rectangle,
             where # Garbage, face.smilesCount = count, face.SmileCoordinate = where,
             \A f \in {"FaceCoordinate", "EyesCoordinate", "openEyesCount", "closedEyesCount"} :
               face[f] = faces[current][f],
             count = 1 => SmileFits(where, box)
      PROVE  DetectionInv'
  <2> HIDE DEF next
  <2>1. \A f \in {"SmileCoordinate", "smilesCount"} : face[f] # Garbage
    BY <1>6, Counts
  <2>2. \A f \in {"EyesCoordinate", "openEyesCount", "closedEyesCount"} :
          face[f] = Garbage <=> ~asked.eyes
    BY <1>5, <1>6
  <2>3. FaceOK(face, next)
    BY <1>2, <1>4, <1>5, <1>6, <2>1, <2>2 DEF FaceOK
  <2> QED BY <1>1, <1>2, <1>4, <1>6, <2>3, FaceWritten
<1>7. CASE NoSmile
  <2> DEFINE face == [faces[current] EXCEPT !.smilesCount = 0, !.SmileCoordinate = Nothing]
  <2>1. Write(face)
    BY <1>7 DEF NoSmile
  <2>2. /\ face \in Face /\ face.smilesCount = 0 /\ face.SmileCoordinate = Nothing
        /\ \A f \in {"FaceCoordinate", "EyesCoordinate", "openEyesCount", "closedEyesCount"} :
             face[f] = faces[current][f]
    BY <1>3, NothingFound DEF Face
  <2> HIDE DEF face
  <2> QED BY <1>6, <2>1, <2>2, NothingFound
<1>8. CASE \E region \in FoundIn(mouth, SmileHits) : SmileAt(region, box)
  <2>1. PICK region \in FoundIn(mouth, SmileHits) : SmileAt(region, box)
    BY <1>8
  <2> DEFINE where == Relative(region, box)
             face == [faces[current] EXCEPT !.smilesCount = 1, !.SmileCoordinate = where]
  <2>2. /\ mouth \in Box /\ mouth.width \in Nat /\ mouth.height \in Nat \ {0}
        /\ mouth.width = 2 * mouth.height \/ mouth.width = 2 * mouth.height + 1
    <3>1. /\ box.x \in Int /\ box.y \in Int /\ box.width \in Int /\ box.height \in Int
      BY <1>3 DEF Box
    <3>2. /\ box.height \div 2 \in Nat \ {0} /\ box.y + box.height \div 2 \in Int
          /\ box.width = 2 * (box.height \div 2) \/ box.width = 2 * (box.height \div 2) + 1
      <4>1. /\ box.height \div 2 \in Nat \ {0}
            /\ box.width = 2 * (box.height \div 2) \/ box.width = 2 * (box.height \div 2) + 1
        BY <1>3, <3>1, Parts
      <4> HIDE DEF box
      <4> QED BY <3>1, <4>1
    <3> HIDE DEF box
    <3> QED BY <1>3, <3>1, <3>2 DEF MouthRegion, Box
  <2>3. region \in Box /\ IsIn(region, mouth)
    <3> HIDE DEF mouth
    <3> QED BY <2>1, <2>2, FoundFits, FaceDetectionOK
  <2>4. where \in Rectangle /\ where # Garbage
    BY <1>3, <2>3, MovedBox
  <2>5. SmileFits(where, box)
    <3> DEFINE half == box.height \div 2
    <3>1. /\ box.x <= region.x /\ region.x + region.width <= box.x + box.width
          /\ box.y + half <= region.y /\ region.y + region.height <= box.y + half + half
      BY <2>3 DEF IsIn, MouthRegion
    <3>2. /\ region.x \in Int /\ region.y \in Int /\ region.width \in Int /\ region.height \in Int
          /\ box.x \in Int /\ box.y \in Int /\ box.width \in Int /\ box.height \in Int
      BY <1>3, <2>3 DEF Box
    <3>3. half \in Int /\ half + half <= box.height
      BY <3>2
    <3>4. /\ where.left = region.x - box.x /\ where.right = region.x - box.x + region.width
          /\ where.top = region.y - box.y /\ where.bottom = region.y - box.y + region.height
      BY <1>3, <2>3, MovedBox
    <3>5. half <= where.top /\ where.bottom <= box.height
      <4> HIDE DEF box, where, half
      <4> QED BY <3>1, <3>2, <3>3, <3>4
    <3>6. 0 <= where.left /\ where.right <= box.width
      <4> HIDE DEF box, where, half
      <4> QED BY <3>1, <3>2, <3>4
    <3> QED BY <3>5, <3>6 DEF SmileFits
  <2>6. Write(face)
    BY <2>1 DEF SmileAt
  <2> HIDE DEF where
  <2>7. /\ face \in Face /\ face.smilesCount = 1 /\ face.SmileCoordinate = where
        /\ \A f \in {"FaceCoordinate", "EyesCoordinate", "openEyesCount", "closedEyesCount"} :
             face[f] = faces[current][f]
    BY <1>3, <2>4 DEF Face
  <2> HIDE DEF face
  <2> QED BY <1>6, <2>4, <2>5, <2>6, <2>7
<1> QED BY <1>1, <1>7, <1>8

(* A call begins with an array of unwritten faces. *)
LEMMA DetectsFaces ==
  ASSUME DetectionInv, NEW img \in Images, NEW eyes \in BOOLEAN, NEW smile \in BOOLEAN,
         DetectFaces(img, eyes, smile)
  PROVE  DetectionInv'
<1>1. /\ photo' = img /\ asked' = [eyes |-> eyes, smile |-> smile] /\ current' = 1
      /\ Detected[img] \in Seq(Box) /\ faces \in Seq(Face)
  BY FaceDetectionOK DEF DetectFaces, DetectionInv, DetectionTypeOK
<1>2. CASE NoPixels(img)
  BY <1>1, <1>2 DEF DetectFaces, DetectionInv, DetectionTypeOK
<1>3. CASE ~NoPixels(img)
  <2>1. /\ faces' = [k \in 1..Len(Detected[img]) |-> Unwritten]
        /\ stage' = IF Detected[img] = << >> THEN "done" ELSE "box"
    BY <1>3 DEF DetectFaces
  <2>2. Unwritten \in Face
    BY DEF Unwritten, Face
  <2>3. faces' \in Seq(Face) /\ Len(faces') = Len(Detected[img])
    BY <1>1, <2>1, <2>2
  <2>4. Detected[img] # << >> => 1 \in 1..Len(faces')
    BY <1>1, <2>3
  <2>5. Detected[img] = << >> => Len(faces') = 0
    BY <2>3
  <2>6. DetectionTypeOK'
    BY <1>1, <2>1, <2>3 DEF DetectionTypeOK
  <2>7. ASSUME NEW k \in 1..Len(faces') PROVE FaceInv(k)'
    <3>1. faces'[k] = Unwritten /\ ~HasBox(k)' /\ ~HasEyes(k)' /\ ~HasSmile(k)'
      BY <1>1, <2>1, <2>3, <2>7 DEF HasBox, HasEyes, HasSmile
    <3> QED BY <3>1, Counts DEF FaceInv, Unwritten
  <2> QED BY <1>1, <2>1, <2>3, <2>4, <2>5, <2>6, <2>7 DEF DetectionInv
<1> QED BY <1>2, <1>3

(* The caller returns to a detector that is idle. *)
LEMMA Returns ==
  ASSUME DetectionInv, Return
  PROVE  DetectionInv' /\ asked'.eyes = FALSE
BY DEF DetectionInv, DetectionTypeOK, Return

(* Detection is idle at first. *)
LEMMA DetectionStarts ==
  ASSUME DetectionInit
  PROVE  DetectionInv
BY DEF DetectionInit, DetectionInv, DetectionTypeOK

(* What leaves the detector alone keeps its invariant. *)
LEMMA DetectionKept ==
  ASSUME DetectionInv, UNCHANGED detection
  PROVE  DetectionInv'
BY DEF detection, DetectionInv, DetectionTypeOK, FaceInv, HasBox, HasEyes, HasSmile,
       EyesFit, SmileFits, NoPixels

(* What the invariant says of the faces returned. *)
LEMMA DetectionShows ==
  ASSUME DetectionInv
  PROVE  AskedIsWritten /\ OnlyEyesThrow /\ RegionsFit
<1>1. OnlyEyesThrow
  BY DEF DetectionInv, OnlyEyesThrow
<1>2. ASSUME stage = "done", NEW k \in 1..Len(faces)
      PROVE  FaceInv(k) /\ HasBox(k) /\ (HasEyes(k) <=> asked.eyes) /\ (HasSmile(k) <=> asked.smile)
  <2>1. FaceInv(k) /\ current = Len(faces) + 1 /\ faces \in Seq(Face)
    BY <1>2 DEF DetectionInv, DetectionTypeOK
  <2>2. k < current
    BY <2>1
  <2> QED BY <1>2, <2>1, <2>2 DEF HasBox, HasEyes, HasSmile
<1>3. AskedIsWritten
  BY <1>2 DEF DetectionInv, AskedIsWritten, FaceInv
<1>4. RegionsFit
  BY <1>2 DEF RegionsFit, FaceInv
<1> QED BY <1>1, <1>3, <1>4
-----------------------------------------------------------------------------
(* Turns of the loop that are left, each in up to three parts. *)
FacesLeft ==
  CASE stage = "box"   -> 3 * (Len(faces) - current) + 3
    [] stage = "eyes"  -> 3 * (Len(faces) - current) + 2
    [] stage = "smile" -> 3 * (Len(faces) - current) + 1
    [] OTHER           -> 0

(* Each stage leaves fewer. *)
LEMMA FacesRunOut ==
  ASSUME DetectionInv
  PROVE  /\ FacesLeft \in Nat
         /\ FacesLeft = 0 <=> stage \in {"idle", "done", "thrown"}
         /\ Detecting => FacesLeft' < FacesLeft
<1>1. /\ Len(faces) \in Nat /\ current \in Nat
      /\ stage \in {"idle", "box", "eyes", "smile", "done", "thrown"}
      /\ stage \in {"box", "eyes", "smile"} => current <= Len(faces)
  BY DEF DetectionInv, DetectionTypeOK
<1>2. FacesLeft \in Nat /\ (FacesLeft = 0 <=> stage \in {"idle", "done", "thrown"})
  BY <1>1 DEF FacesLeft
<1>3. ASSUME Detecting
      PROVE  FacesLeft' < FacesLeft
  <2>1. Len(faces') = Len(faces) \/ stage' = "thrown"
    <3>1. \A face : Len([faces EXCEPT ![current] = face]) = Len(faces)
      BY DEF DetectionInv, DetectionTypeOK
    <3>2. (\E face : Write(face)) \/ stage' = "thrown"
      <4>1. CASE StoreBox
        BY <4>1 DEF StoreBox
      <4>2. CASE DetectEyes
        BY <4>2 DEF DetectEyes, OpenEyesAt, NoOpenEyes
      <4>3. CASE DetectSmile
        BY <4>3 DEF DetectSmile, SmileAt, NoSmile
      <4> QED BY <1>3, <4>1, <4>2, <4>3 DEF Detecting
    <3> QED BY <3>1, <3>2 DEF Write
  <2>2. CASE stage' = "thrown"
    BY <1>1, <1>3, <2>2 DEF Detecting, StoreBox, DetectEyes, DetectSmile, FacesLeft
  <2>3. CASE stage' # "thrown"
    <3>1. PICK next : /\ GoTo(next)
                      /\ \/ stage = "box" /\ next \in {"eyes", "smile", "box", "done"}
                         \/ stage = "eyes" /\ next \in {"smile", "box", "done"}
                         \/ stage = "smile" /\ next \in {"box", "done"}
                      /\ next = "box" => current # Len(faces)
      BY <1>3, <2>3 DEF Detecting, StoreBox, DetectEyes, DetectSmile, AfterEyes, NextFace
    <3>2. stage' = next /\ current' = IF next \in {"box", "done"} THEN current + 1 ELSE current
      BY <3>1 DEF GoTo
    <3>3. stage \in {"box", "eyes", "smile"} /\ Len(faces') = Len(faces)
      BY <2>1, <2>3, <3>1
    <3> QED BY <1>1, <3>1, <3>2, <3>3 DEF FacesLeft
  <2> QED BY <2>2, <2>3
<1> QED BY <1>2, <1>3
=============================================================================
