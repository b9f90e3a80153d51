---------------------------- MODULE FrameOutputs ----------------------------
(***************************************************************************)
(* What the draw callback makes of a frame: the Matlab arrays of one call  *)
(* and the file depth.pgm.  OpenGL numbers the pixels of an image          *)
(* row by row from the bottom, Matlab column by column from the top.  An   *)
(* array is a function from its indexes; a sample names its OpenGL pixel.  *)
(***************************************************************************)
EXTENDS Integers, FiniteSets

CONSTANT Sizes  \* <<width, height>> of frames

ASSUME FrameOutputsOK == Sizes \subseteq (Nat \ {0}) \X (Nat \ {0})

VARIABLES
  width, height,
  depth,     \* the depth buffer
  asked,     \* outputs of the call
  step,      \* what the callback does next
  imgDepth,  \* its copy of the depths
  depthOutput, imageOutput, unprojectOutput,
  file       \* depth.pgm

frame == <<width, height, depth, asked>>
outputs == <<depthOutput, imageOutput, unprojectOutput>>
vars == <<frame, step, imgDepth, outputs, file>>

One == 2   \* the depth 1.0; 0 is the near plane, One the far plane
MAX == 255
Outputs == {"depth", "image", "unproject", "file"}
Nothing == << >>
Origin == << >>  \* world position (0,0,0)

Indexes(n) == 0..(n - 1)
NoFile == [size |-> Nothing, pixels |-> Nothing]

(* out[i*m+j] = in[(m-1-j)*n+i] for i < n, j < m, and the like: which cell *)
(* of the input each cell of the output is written from.                   *)
TransposeAndFlipY(in, m, n) ==
  [k \in Indexes(m * n) |-> in[(m - 1 - (k % m)) * n + (k \div m)]]
FlipY(in, m, n) ==
  [k \in Indexes(m * n) |-> in[(m - 1 - (k \div n)) * n + (k % n)]]

(* Mutant of RenderedImage: one plane for all colours. *)
GreyImage(w, h) ==
  [k \in Indexes(w * h) |-> <<(h - 1 - (k % h)) * w + k \div h, 0>>]

(* Colour c of pixel g is byte 3g+c of the image that was read.            *)
RenderedImage(w, h) ==
  [k \in Indexes(3 * w * h) |->
     LET c == k \div (h * w)  x == (k % (h * w)) \div h  i == k % h
     IN  <<(h - 1 - i) * w + x, c>>]

(* The world position of (winx, winy + 1, winz), along axis c; the origin  *)
(* for pixels at the near and the far plane.                               *)
UnProjectImage(w, h) ==
  [k \in Indexes(3 * w * h) |->
     LET c == k \div (h * w)  winx == (k % (h * w)) \div h
         winy == h - 1 - (k % h)  winz == depth[winy * w + winx]
     IN  IF winz > 0 /\ winz < One THEN <<winx, winy + 1, winz, c>> ELSE Origin]
-----------------------------------------------------------------------------
(* A frame was drawn.  An older depth.pgm is truncated when it is opened.  *)
Init ==
  /\ \E size \in Sizes :
       /\ width = size[1] /\ height = size[2]
       /\ depth \in [Indexes(size[1] * size[2]) -> 0..One]
  /\ asked \in SUBSET Outputs
  /\ step = "image" /\ imgDepth = Nothing
  /\ depthOutput = Nothing /\ imageOutput = Nothing /\ unprojectOutput = Nothing
  /\ file = NoFile

GetRenderedImage ==
  /\ step = "image" /\ step' = "copy"
  /\ imageOutput' = IF "image" \in asked THEN RenderedImage(width, height) ELSE Nothing
  /\ UNCHANGED <<frame, imgDepth, depthOutput, unprojectOutput, file>>

(* Mutant of CopyAndModifyDepth: scaled for the file at once. *)
CopyScaledDepth ==
  /\ step = "copy" /\ step' = "depth"
  /\ imgDepth' = [g \in DOMAIN depth |-> [pixel |-> g, value |-> (One - depth[g]) * MAX]]
  /\ UNCHANGED <<frame, outputs, file>>

CopyAndModifyDepth ==
  /\ step = "copy" /\ step' = "depth"
  /\ imgDepth' = [g \in DOMAIN depth |-> [pixel |-> g, value |-> One - depth[g]]]
  /\ UNCHANGED <<frame, outputs, file>>

(* Mutant of GetDepthOutput: rows and columns are taken for each other. *)
GetDepthOutputSwapped ==
  /\ step = "depth" /\ step' = "unproject"
  /\ depthOutput' = IF "depth" \in asked
                    THEN TransposeAndFlipY(imgDepth, width, height) ELSE Nothing
  /\ UNCHANGED <<frame, imgDepth, imageOutput, unprojectOutput, file>>

GetDepthOutput ==
  /\ step = "depth" /\ step' = "unproject"
  /\ depthOutput' = IF "depth" \in asked
                    THEN TransposeAndFlipY(imgDepth, height, width) ELSE Nothing
  /\ UNCHANGED <<frame, imgDepth, imageOutput, unprojectOutput, file>>

GetUnproject ==
  /\ step = "unproject" /\ step' = "file"
  /\ unprojectOutput' = IF "unproject" \in asked THEN UnProjectImage(width, height) ELSE Nothing
  /\ UNCHANGED <<frame, imgDepth, depthOutput, imageOutput, file>>

(* Mutant of WriteDepthFile: every row is written from the same one. *)
WriteFirstRow ==
  /\ step = "file" /\ step' = "done"
  /\ file' = [size |-> <<width, height>>,
              pixels |-> [k \in Indexes(width * height) |-> imgDepth[k % height]]]
  /\ UNCHANGED <<frame, imgDepth, outputs>>

(* The header, then the depths, scaled in place and turned upside down.    *)
(* The file may fail to open, for the header or for the rest.              *)
WriteDepthFile ==
  /\ step = "file" /\ step' = "done"
  /\ \/ /\ "file" \in asked
        /\ imgDepth' = [g \in DOMAIN depth |-> [imgDepth[g] EXCEPT !.value = @ * MAX]]
        /\ file' = [size |-> <<width, height>>, pixels |-> FlipY(imgDepth', width, height)]
     \/ /\ "file" \in asked
        /\ file' = [size |-> <<width, height>>, pixels |-> Nothing]
        /\ UNCHANGED imgDepth
     \/ file' = file /\ UNCHANGED imgDepth
  /\ UNCHANGED <<frame, outputs>>

Next == \/ GetRenderedImage \/ CopyAndModifyDepth
        \/ GetDepthOutput \/ GetUnproject \/ WriteDepthFile

Spec == Init /\ [][Next]_vars
-----------------------------------------------------------------------------
(* Every array that was asked for is written as a whole, and only those.   *)
TypeOK ==
  /\ <<width, height>> \in Sizes /\ depth \in [Indexes(width * height) -> 0..One]
  /\ asked \subseteq Outputs
  /\ step \in {"image", "copy", "depth", "unproject", "file", "done"}
  /\ imgDepth # Nothing => DOMAIN imgDepth = Indexes(width * height)
  /\ depthOutput # Nothing => DOMAIN depthOutput = Indexes(height * width)
  /\ imageOutput # Nothing => DOMAIN imageOutput = Indexes(3 * width * height)
  /\ unprojectOutput # Nothing => DOMAIN unprojectOutput = Indexes(3 * width * height)
  /\ file.size \in {Nothing, <<width, height>>}

(* Where Matlab keeps element (row, column, plane), counted from 1.        *)
Element(row, column, plane) ==
  (plane - 1) * height * width + (column - 1) * height + (row - 1)

(* The OpenGL pixel shown there. *)
PixelAt(row, column) == (height - row) * width + (column - 1)

(* Element (row, column) of the depths, of all planes of the picture and   *)
(* of the unprojection is about one and the same pixel, and the depths are *)
(* 1 - depth, not scaled for the file (depth.cpp:13-24, 69-74,             *)
(* EngineOSG.cpp:515-531).                                                 *)
SamePixelEverywhere ==
  step = "done" =>
    \A row \in 1..height, column \in 1..width :
      LET g == PixelAt(row, column) IN
      /\ depthOutput # Nothing =>
           depthOutput[Element(row, column, 1)] = [pixel |-> g, value |-> One - depth[g]]
      /\ imageOutput # Nothing =>
           \A c \in 1..3 : imageOutput[Element(row, column, c)] = <<g, c - 1>>
      /\ unprojectOutput # Nothing =>
           \A c \in 1..3 :
             unprojectOutput[Element(row, column, c)] \in
               {Origin, <<column - 1, height - row + 1, depth[g], c - 1>>}

(* A pixel has a world position exactly where the depth output is neither  *)
(* 0 nor 1, which is how a script tells the model from the background      *)
(* (EngineOSG.cpp:519, facial_pose_estimation_hassner.m:27-29).            *)
PositionsWhereDepth ==
  step = "done" /\ depthOutput # Nothing /\ unprojectOutput # Nothing =>
    \A row \in 1..height, column \in 1..width, c \in 1..3 :
      unprojectOutput[Element(row, column, c)] = Origin
        <=> depthOutput[Element(row, column, 1)].value \in {0, One}

(* A complete depth.pgm holds every pixel of its frame once, as many as    *)
(* its header says (depth.cpp:115, 128, 132).                              *)
FileHoldsAllPixels ==
  file.pixels # Nothing =>
    {file.pixels[k].pixel : k \in DOMAIN file.pixels} = Indexes(file.size[1] * file.size[2])

(* A complete depth.pgm is the picture, top row first, as files of that    *)
(* format are read, if its frame is square, and never if it is not         *)
(* (depth.cpp:128).                                                        *)
PictureOf(f) ==
  \A row \in 1..f.size[2], column \in 1..f.size[1] :
    f.pixels[(row - 1) * f.size[1] + column - 1].pixel
      = (f.size[2] - row) * f.size[1] + column - 1
PictureExactlyIfSquare ==
  file.pixels # Nothing => (file.size[1] = file.size[2] <=> PictureOf(file))

(* In spite of the rows and columns that are mixed up (depth.cpp:76, 128), *)
(* the file loses nothing of its frame, and nothing shows just if it is    *)
(* square.                                                                 *)
FileHoldsTheFrame == FileHoldsAllPixels /\ PictureExactlyIfSquare

(* VIOLATED.  renderer.cpp:138, "outputs depth image: depth.pgm", for any  *)
(* size: flipY gets width and height in the wrong order (depth.cpp:76,128).*)
FileIsThePicture == file.pixels # Nothing => PictureOf(file)

(* VIOLATED.  renderer.cpp:164, "'unproject(125,149,1:3)' returns the      *)
(* world XYZ coordinate of the image point (x=148,y=124)": get_3d_pts.m:35 *)
(* takes unproject(y, x) for the image point (x, y) of keypoints.txt.      *)
LookUp(x, y) == [c \in 1..3 |-> unprojectOutput[Element(y, x, c)]]
KeypointFindsItsPosition ==
  step = "done" /\ unprojectOutput # Nothing =>
    \A x \in 1..(width - 1), y \in 1..(height - 1) :
      LookUp(x, y) = [c \in 1..3 |-> unprojectOutput[Element(y + 1, x + 1, c)]]
=============================================================================
