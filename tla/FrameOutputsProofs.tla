------------------------- MODULE FrameOutputsProofs -------------------------
(***************************************************************************)
(* For frames of every size: the arrays of a call show the same pixel at   *)
(* the same element, and what depth.pgm holds.  The proofs are about index *)
(* arithmetic: the cell that the copying loops write from is found with    *)
(* \div and %, Matlab's element with products and sums.  At the end, the   *)
(* angles that the viewer prints.                                          *)
(***************************************************************************)
EXTENDS Drawing, Sequences, TLAPS

(* What the callback has copied once it is past CopyAndModifyDepth. *)
Inverted == [g \in DOMAIN depth |-> [pixel |-> g, value |-> One - depth[g]]]

IInv ==
  /\ TypeOK
  /\ step \in {"depth", "unproject", "file"} => imgDepth = Inverted
  /\ depthOutput \in {Nothing, TransposeAndFlipY(Inverted, height, width)}
  /\ imageOutput \in {Nothing, RenderedImage(width, height)}
  /\ unprojectOutput \in {Nothing, UnProjectImage(width, height)}
-----------------------------------------------------------------------------
(* Quotient and remainder of a row (or column) start plus an offset.       *)
LEMMA Cancel ==
  ASSUME NEW m \in Nat \ {0}, NEW a \in Int, a * m < m, a * m > 0 - m
  PROVE  a = 0
<1>1. ASSUME a >= 1 PROVE FALSE
  <2>1. a * m >= m
    BY <1>1
  <2> QED BY <2>1
<1>2. ASSUME a <= -1 PROVE FALSE
  <2>1. a * m <= 0 - m
    BY <1>2
  <2> QED BY <2>1
<1> QED BY <1>1, <1>2

(* Row and column of an index. *)
LEMMA DivMod ==
  ASSUME NEW m \in Nat \ {0}, NEW i \in Nat, NEW j \in 0..(m - 1)
  PROVE  (i * m + j) \div m = i /\ (i * m + j) % m = j
<1> DEFINE k == i * m + j
           q == k \div m
           r == k % m
<1>1. i * m \in Nat
  OBVIOUS
<1>2. k \in Nat
  BY <1>1
<1>3. k = m * q + r /\ r \in 0..(m - 1) /\ q \in Int
  BY <1>2
<1>4. k = i * m + j
  OBVIOUS
<1> HIDE DEF k, q, r
<1> DEFINE a == q - i
<1>5. a \in Int /\ a * m = j - r
  BY <1>3, <1>4
<1>6. a = 0
  <2> HIDE DEF a
  <2> QED BY <1>3, <1>5, Cancel
<1>7. q = i /\ r = j
  BY <1>3, <1>4, <1>6
<1> QED BY <1>7 DEF q, r, k

(* Cell (i, j) of i < n blocks of m is a cell of the array.                *)
LEMMA InArray ==
  ASSUME NEW m \in Nat \ {0}, NEW n \in Nat \ {0}, NEW i \in 0..(n - 1), NEW j \in 0..(m - 1)
  PROVE  i * m + j \in 0..(n * m - 1)
<1>1. i * m <= (n - 1) * m
  OBVIOUS
<1>2. (n - 1) * m = n * m - m
  OBVIOUS
<1>3. i * m \in Nat /\ n * m \in Nat
  OBVIOUS
<1> QED BY <1>1, <1>2, <1>3

(* Element (row, column) of a matrix that was transposed and flipped shows *)
(* the OpenGL pixel of that row from the top.                              *)
LEMMA TransposedElement ==
  ASSUME NEW h \in Nat \ {0}, NEW w \in Nat \ {0}, NEW in,
         NEW row \in 1..h, NEW column \in 1..w
  PROVE  TransposeAndFlipY(in, h, w)[(column - 1) * h + (row - 1)]
           = in[(h - row) * w + (column - 1)]
<1> DEFINE k == (column - 1) * h + (row - 1)
<1>1. column - 1 \in 0..(w - 1) /\ row - 1 \in 0..(h - 1) /\ column - 1 \in Nat
  OBVIOUS
<1>2. k \div h = column - 1 /\ k % h = row - 1
  BY <1>1, DivMod
<1>3. k \in 0..(w * h - 1)
  BY <1>1, InArray
<1>4. w * h = h * w
  OBVIOUS
<1> HIDE DEF k
<1>5. k \in Indexes(h * w)
  BY <1>3, <1>4 DEF Indexes
<1>6. TransposeAndFlipY(in, h, w)[k] = in[(h - 1 - (k % h)) * w + (k \div h)]
  BY <1>5 DEF TransposeAndFlipY
<1>7. h - 1 - (row - 1) = h - row
  OBVIOUS
<1> QED BY <1>2, <1>6, <1>7 DEF k

(* Element (row, column, c) of arrays of height h and width w.             *)
Cell(h, w, row, column, c) == (c - 1) * h * w + (column - 1) * h + (row - 1)

(* Plane c of the picture and of the unprojection, at (row, column).       *)
LEMMA PlaneElement ==
  ASSUME NEW h \in Nat \ {0}, NEW w \in Nat \ {0},
         NEW row \in 1..h, NEW column \in 1..w, NEW c \in 1..3
  PROVE  /\ RenderedImage(w, h)[Cell(h, w, row, column, c)]
               = <<(h - row) * w + (column - 1), c - 1>>
         /\ UnProjectImage(w, h)[Cell(h, w, row, column, c)] =
              LET winz == depth[(h - row) * w + (column - 1)] IN
              IF winz > 0 /\ winz < One THEN <<column - 1, h - row + 1, winz, c - 1>> ELSE Origin
<1> DEFINE k == (c - 1) * h * w + (column - 1) * h + (row - 1)
           j == (column - 1) * h + (row - 1)
           m == h * w
<1>1. column - 1 \in 0..(w - 1) /\ row - 1 \in 0..(h - 1) /\ column - 1 \in Nat
      /\ c - 1 \in 0..2 /\ c - 1 \in Nat
  OBVIOUS
<1>2. m \in Nat \ {0} /\ w * h = m
  OBVIOUS
<1>3. j \in 0..(m - 1)
  BY <1>1, <1>2, InArray
<1>4. j \div h = column - 1
  BY <1>1, DivMod
<1>5. (c - 1) * h * w = (c - 1) * m
  OBVIOUS
<1>6. k = (c - 1) * m + j
  BY <1>3, <1>5
<1>7. 3 * w * h = 3 * m
  OBVIOUS
<1>8. k % h = row - 1
  <2> DEFINE i == (c - 1) * w + (column - 1)
  <2>1. i \in Nat
    BY <1>1
  <2>2. k = i * h + (row - 1)
    OBVIOUS
  <2> HIDE DEF i
  <2> QED BY <1>1, <2>1, <2>2, DivMod
<1> HIDE DEF j, m, k
<1>9. k \div m = c - 1 /\ k % m = j
  BY <1>1, <1>2, <1>3, <1>6, DivMod
<1>10. k \in 0..(3 * m - 1)
  BY <1>1, <1>2, <1>3, <1>6, InArray
<1>11. /\ k \in Indexes(3 * w * h) /\ k \div (h * w) = c - 1
       /\ (k % (h * w)) \div h = column - 1 /\ k % h = row - 1
  BY <1>4, <1>7, <1>8, <1>9, <1>10 DEF Indexes, m
<1>12. h - 1 - (row - 1) = h - row
  OBVIOUS
<1>13. RenderedImage(w, h)[k] = <<(h - row) * w + (column - 1), c - 1>>
  <2>1. RenderedImage(w, h)[k]
          = <<(h - 1 - (k % h)) * w + (k % (h * w)) \div h, k \div (h * w)>>
    BY <1>11 DEF RenderedImage
  <2> QED BY <1>11, <1>12, <2>1
<1>14. UnProjectImage(w, h)[k] =
         LET winz == depth[(h - row) * w + (column - 1)] IN
         IF winz > 0 /\ winz < One THEN <<column - 1, h - row + 1, winz, c - 1>> ELSE Origin
  BY <1>11, <1>12 DEF UnProjectImage
<1> QED BY <1>13, <1>14 DEF k, Cell
-----------------------------------------------------------------------------
(* Frames are not empty. *)
LEMMA SizeTypes ==
  ASSUME TypeOK
  PROVE  width \in Nat \ {0} /\ height \in Nat \ {0}
BY FrameOutputsOK DEF TypeOK

(* Nothing has been copied at first. *)
LEMMA Initial == Init => IInv
<1> SUFFICES ASSUME Init PROVE IInv
  OBVIOUS
<1>1. PICK size \in Sizes :
        /\ width = size[1] /\ height = size[2]
        /\ depth \in [Indexes(size[1] * size[2]) -> 0..One]
  BY DEF Init
<1>2. <<width, height>> = size
  BY <1>1, FrameOutputsOK
<1> QED BY <1>1, <1>2 DEF Init, IInv, TypeOK, NoFile

(* The arrays have as many cells as were asked for. *)
LEMMA Filled ==
  ASSUME TypeOK
  PROVE  /\ DOMAIN Inverted = Indexes(width * height)
         /\ DOMAIN TransposeAndFlipY(Inverted, height, width) = Indexes(height * width)
         /\ DOMAIN RenderedImage(width, height) = Indexes(3 * width * height)
         /\ DOMAIN UnProjectImage(width, height) = Indexes(3 * width * height)
BY DEF TypeOK, Inverted, TransposeAndFlipY, RenderedImage, UnProjectImage

(* Every copy puts the invariant of its array into force. *)
LEMMA Inductive == IInv /\ [Next]_vars => IInv'
<1> SUFFICES ASSUME IInv, [Next]_vars PROVE IInv'
  OBVIOUS
<1>0. TypeOK
  BY DEF IInv
<1>1. CASE UNCHANGED vars
  BY <1>1 DEF IInv, TypeOK, vars, frame, outputs, Inverted, UnProjectImage
<1>2. CASE GetRenderedImage
  BY <1>0, <1>2, Filled
  DEF GetRenderedImage, IInv, TypeOK, frame, Inverted, UnProjectImage
<1>3. CASE CopyAndModifyDepth
  <2>1. imgDepth' = Inverted /\ Inverted' = Inverted
    BY <1>3 DEF CopyAndModifyDepth, Inverted, frame
  <2> QED BY <1>0, <1>3, <2>1, Filled
          DEF CopyAndModifyDepth, IInv, TypeOK, frame, outputs, UnProjectImage
<1>4. CASE GetDepthOutput
  <2>1. imgDepth = Inverted /\ Inverted' = Inverted
    BY <1>4 DEF GetDepthOutput, IInv, Inverted, frame
  <2> QED BY <1>0, <1>4, <2>1, Filled
          DEF GetDepthOutput, IInv, TypeOK, frame, UnProjectImage
<1>5. CASE GetUnproject
  <2>1. Inverted' = Inverted
    BY <1>5 DEF GetUnproject, Inverted, frame
  <2> QED BY <1>0, <1>5, <2>1, Filled
          DEF GetUnproject, IInv, TypeOK, frame, UnProjectImage
<1>6. CASE WriteDepthFile
  <2>1. Inverted' = Inverted
    BY <1>6 DEF WriteDepthFile, Inverted, frame
  <2>2. imgDepth' # Nothing => DOMAIN imgDepth' = Indexes(width * height)
    BY <1>0, <1>6 DEF WriteDepthFile, TypeOK
  <2>3. file'.size \in {Nothing, <<width, height>>}
    BY <1>0, <1>6 DEF WriteDepthFile, TypeOK
  <2> QED BY <1>0, <1>6, <2>1, <2>2, <2>3
          DEF WriteDepthFile, IInv, TypeOK, frame, outputs, UnProjectImage
<1> QED BY <1>1, <1>2, <1>3, <1>4, <1>5, <1>6 DEF Next

(* It holds throughout. *)
LEMMA Invariant == Spec => []IInv
BY Initial, Inductive, PTL DEF Spec

(* Every array of the call is written as a whole. *)
THEOREM TypeCorrect == Spec => []TypeOK
<1>1. IInv => TypeOK
  BY DEF IInv
<1> QED BY <1>1, Invariant, PTL

(* Element (row, column) of all arrays is about the same pixel, for every  *)
(* size of the frame (depth.cpp:13-24, 69-74, EngineOSG.cpp:515-531).      *)
THEOREM AlwaysSamePixel == Spec => []SamePixelEverywhere
<1>1. IInv => SamePixelEverywhere
  <2> SUFFICES ASSUME IInv, NEW row \in 1..height, NEW column \in 1..width
               PROVE  LET g == PixelAt(row, column) IN
                      /\ depthOutput # Nothing =>
                           depthOutput[Element(row, column, 1)]
                             = [pixel |-> g, value |-> One - depth[g]]
                      /\ imageOutput # Nothing =>
                           \A c \in 1..3 : imageOutput[Element(row, column, c)] = <<g, c - 1>>
                      /\ unprojectOutput # Nothing =>
                           \A c \in 1..3 :
                             unprojectOutput[Element(row, column, c)] \in
                               {Origin, <<column - 1, height - row + 1, depth[g], c - 1>>}
    BY DEF SamePixelEverywhere
  <2> DEFINE g == PixelAt(row, column)
  <2>1. width \in Nat \ {0} /\ height \in Nat \ {0}
    BY SizeTypes DEF IInv
  <2>2. g \in Indexes(width * height)
    <3>1. height - row \in 0..(height - 1) /\ column - 1 \in 0..(width - 1)
      BY <2>1
    <3>2. (height - row) * width + (column - 1) \in 0..(height * width - 1)
      BY <2>1, <3>1, InArray
    <3>3. height * width = width * height
      BY <2>1
    <3> QED BY <3>2, <3>3 DEF PixelAt, Indexes
  <2>3. Inverted[g] = [pixel |-> g, value |-> One - depth[g]]
    <3> HIDE DEF g
    <3> QED BY <2>2 DEF Inverted, IInv, TypeOK
  <2>4. ASSUME depthOutput # Nothing
        PROVE  depthOutput[Element(row, column, 1)] = Inverted[g]
    <3>1. depthOutput = TransposeAndFlipY(Inverted, height, width)
      BY <2>4 DEF IInv
    <3>2. Element(row, column, 1) = (column - 1) * height + (row - 1)
      BY <2>1 DEF Element
    <3>3. TransposeAndFlipY(Inverted, height, width)[(column - 1) * height + (row - 1)]
            = Inverted[(height - row) * width + (column - 1)]
      BY <2>1, TransposedElement
    <3> QED BY <3>1, <3>2, <3>3 DEF PixelAt
  <2>5. ASSUME NEW c \in 1..3
        PROVE  /\ RenderedImage(width, height)[Cell(height, width, row, column, c)]
                     = <<(height - row) * width + (column - 1), c - 1>>
               /\ UnProjectImage(width, height)[Cell(height, width, row, column, c)] \in
                     {Origin, <<column - 1, height - row + 1,
                                depth[(height - row) * width + (column - 1)], c - 1>>}
    <3>1. RenderedImage(width, height)[Cell(height, width, row, column, c)]
            = <<(height - row) * width + (column - 1), c - 1>>
      BY <2>1, PlaneElement
    <3>2. UnProjectImage(width, height)[Cell(height, width, row, column, c)] =
            LET winz == depth[(height - row) * width + (column - 1)] IN
            IF winz > 0 /\ winz < One THEN <<column - 1, height - row + 1, winz, c - 1>> ELSE Origin
      BY <2>1, PlaneElement
    <3> QED BY <3>1, <3>2
  <2>6. ASSUME imageOutput # Nothing, NEW c \in 1..3
        PROVE  imageOutput[Element(row, column, c)] = <<g, c - 1>>
    BY <2>5, <2>6 DEF IInv, Element, Cell, PixelAt
  <2>7. ASSUME unprojectOutput # Nothing, NEW c \in 1..3
        PROVE  unprojectOutput[Element(row, column, c)] \in
                 {Origin, <<column - 1, height - row + 1, depth[g], c - 1>>}
    BY <2>5, <2>7 DEF IInv, Element, Cell, PixelAt
  <2> QED BY <2>3, <2>4, <2>6, <2>7
<1> QED BY <1>1, Invariant, PTL

(* A pixel has a position exactly where its depth is neither 0 nor 1, for  *)
(* every size of the frame.                                                *)
THEOREM AlwaysPositionsWhereDepth == Spec => []PositionsWhereDepth
<1>1. IInv => PositionsWhereDepth
  <2> SUFFICES ASSUME IInv, depthOutput # Nothing, unprojectOutput # Nothing,
                      NEW row \in 1..height, NEW column \in 1..width, NEW c \in 1..3
               PROVE  unprojectOutput[Element(row, column, c)] = Origin
                        <=> depthOutput[Element(row, column, 1)].value \in {0, One}
    BY DEF PositionsWhereDepth
  <2> DEFINE g == (height - row) * width + (column - 1)
  <2>1. width \in Nat \ {0} /\ height \in Nat \ {0}
    BY SizeTypes DEF IInv
  <2>2. g \in Indexes(width * height)
    <3>1. height - row \in 0..(height - 1) /\ column - 1 \in 0..(width - 1)
      BY <2>1
    <3>2. g \in 0..(height * width - 1)
      BY <2>1, <3>1, InArray
    <3>3. height * width = width * height
      BY <2>1
    <3> QED BY <3>2, <3>3 DEF Indexes
  <2>3. depthOutput[Element(row, column, 1)] = Inverted[g]
    <3>1. Element(row, column, 1) = (column - 1) * height + (row - 1)
      BY <2>1 DEF Element
    <3>2. TransposeAndFlipY(Inverted, height, width)[(column - 1) * height + (row - 1)] = Inverted[g]
      BY <2>1, TransposedElement
    <3> QED BY <3>1, <3>2 DEF IInv
  <2>4. unprojectOutput[Element(row, column, c)] =
          IF depth[g] > 0 /\ depth[g] < One
          THEN <<column - 1, height - row + 1, depth[g], c - 1>> ELSE Origin
    <3>1. UnProjectImage(width, height)[Cell(height, width, row, column, c)] =
            LET winz == depth[g] IN
            IF winz > 0 /\ winz < One THEN <<column - 1, height - row + 1, winz, c - 1>> ELSE Origin
      BY <2>1, PlaneElement
    <3> QED BY <3>1 DEF IInv, Element, Cell
  <2> HIDE DEF g
  <2>5. depth[g] \in 0..One /\ Inverted[g].value = One - depth[g]
    BY <2>2 DEF IInv, TypeOK, Inverted
  <2>6. \A a, b, d, e : <<a, b, d, e>> # Origin
    <3>1. \A a, b, d, e : Len(<<a, b, d, e>>) = 4 /\ Len(Origin) = 0
      BY DEF Origin
    <3> QED BY <3>1
  <2> QED BY <2>3, <2>4, <2>5, <2>6 DEF One
<1> QED BY <1>1, Invariant, PTL
-----------------------------------------------------------------------------
(* Where depth.pgm was written, its pixels are those of the frame, in      *)
(* blocks of the height that are in reversed order.                        *)
FileInv ==
  file.pixels # Nothing =>
    /\ file.size = <<width, height>>
    /\ DOMAIN file.pixels = Indexes(width * height)
    /\ \A k \in Indexes(width * height) :
         file.pixels[k].pixel = (width - 1 - (k \div height)) * height + (k % height)

(* Quotient and remainder of a cell. *)
LEMMA Split ==
  ASSUME NEW m \in Nat \ {0}, NEW n \in Nat \ {0}, NEW k \in Indexes(n * m)
  PROVE  k \div m \in 0..(n - 1) /\ k % m \in 0..(m - 1) /\ k = (k \div m) * m + (k % m)
<1> DEFINE q == k \div m
           r == k % m
<1>1. n * m \in Nat /\ k \in Nat /\ k <= n * m - 1
  BY DEF Indexes
<1>2. k = m * q + r /\ r \in 0..(m - 1) /\ q \in Int
  BY <1>1
<1>3. q \in 0..(n - 1)
  <2> HIDE DEF q, r
  <2>1. ASSUME q >= n PROVE FALSE
    <3>1. m * q >= n * m
      BY <1>2, <2>1
    <3> QED BY <1>1, <1>2, <3>1
  <2>2. ASSUME q <= -1 PROVE FALSE
    <3>1. m * q <= -m
      BY <1>2, <2>2
    <3> QED BY <1>1, <1>2, <3>1
  <2> QED BY <1>2, <2>1, <2>2
<1> HIDE DEF q, r
<1>4. q * m = m * q
  BY <1>3
<1> QED BY <1>2, <1>3, <1>4 DEF q, r

(* The rows written so far are those of the mixed-up picture. *)
LEMMA FileInductive == IInv /\ FileInv /\ [Next]_vars => FileInv'
<1> SUFFICES ASSUME IInv, FileInv, [Next]_vars PROVE FileInv'
  OBVIOUS
<1>1. CASE UNCHANGED <<width, height, file>>
  BY <1>1 DEF FileInv
<1>2. CASE WriteDepthFile
  <2>1. width' = width /\ height' = height /\ step = "file"
    BY <1>2 DEF WriteDepthFile, frame
  <2>2. CASE file' = [size |-> <<width, height>>, pixels |-> Nothing] \/ file' = file
    BY <2>1, <2>2 DEF FileInv
  <2>3. CASE /\ imgDepth' = [g \in DOMAIN depth |-> [imgDepth[g] EXCEPT !.value = @ * MAX]]
             /\ file' = [size |-> <<width, height>>, pixels |-> FlipY(imgDepth', width, height)]
    <3>1. width \in Nat \ {0} /\ height \in Nat \ {0} /\ DOMAIN depth = Indexes(width * height)
      BY SizeTypes DEF IInv, TypeOK
    <3>2. \A g \in Indexes(width * height) : imgDepth'[g].pixel = g
      BY <2>1, <2>3, <3>1 DEF IInv, Inverted
    <3>3. ASSUME NEW k \in Indexes(width * height)
          PROVE  FlipY(imgDepth', width, height)[k].pixel
                   = (width - 1 - (k \div height)) * height + (k % height)
      <4> DEFINE cell == (width - 1 - (k \div height)) * height + (k % height)
      <4>1. k \div height \in 0..(width - 1) /\ k % height \in 0..(height - 1)
        BY <3>1, Split
      <4>2. width - 1 - (k \div height) \in 0..(width - 1)
        BY <3>1, <4>1
      <4>3. cell \in Indexes(width * height)
        BY <3>1, <4>1, <4>2, InArray DEF Indexes
      <4>4. FlipY(imgDepth', width, height)[k] = imgDepth'[cell]
        BY DEF FlipY
      <4> HIDE DEF cell
      <4>5. imgDepth'[cell].pixel = cell
        BY <3>2, <4>3
      <4> QED BY <4>4, <4>5 DEF cell
    <3>4. DOMAIN FlipY(imgDepth', width, height) = Indexes(width * height)
      BY DEF FlipY
    <3> QED BY <2>1, <2>3, <3>3, <3>4 DEF FileInv
  <2> QED BY <1>2, <2>2, <2>3 DEF WriteDepthFile
<1> QED
  BY <1>1, <1>2 DEF Next, GetRenderedImage, CopyAndModifyDepth, GetDepthOutput, GetUnproject,
                    vars, frame, outputs

(* Both hold throughout. *)
LEMMA FileInvariant == Spec => [](IInv /\ FileInv)
<1>1. Init => FileInv
  BY DEF Init, FileInv, NoFile
<1> QED BY <1>1, Initial, Inductive, FileInductive, PTL DEF Spec

(* A file that was written to the end holds every pixel of its frame once. *)
THEOREM FileAlwaysHoldsAllPixels == Spec => []FileHoldsAllPixels
<1>1. IInv /\ FileInv => FileHoldsAllPixels
  <2> SUFFICES ASSUME IInv, FileInv, file.pixels # Nothing
               PROVE  {file.pixels[k].pixel : k \in DOMAIN file.pixels}
                        = Indexes(file.size[1] * file.size[2])
    BY DEF FileHoldsAllPixels
  <2>1. width \in Nat \ {0} /\ height \in Nat \ {0}
    BY SizeTypes DEF IInv
  <2>2. /\ DOMAIN file.pixels = Indexes(width * height)
        /\ file.size[1] = width /\ file.size[2] = height
        /\ \A k \in Indexes(width * height) :
             file.pixels[k].pixel = (width - 1 - (k \div height)) * height + (k % height)
    BY DEF FileInv
  <2>3. ASSUME NEW k \in Indexes(width * height)
        PROVE  file.pixels[k].pixel \in Indexes(width * height)
    <3>1. k \div height \in 0..(width - 1) /\ k % height \in 0..(height - 1)
      BY <2>1, Split
    <3>2. width - 1 - (k \div height) \in 0..(width - 1)
      BY <2>1, <3>1
    <3>3. (width - 1 - (k \div height)) * height + (k % height) \in Indexes(width * height)
      BY <2>1, <3>1, <3>2, InArray DEF Indexes
    <3> QED BY <2>2, <3>3
  <2>4. ASSUME NEW g \in Indexes(width * height)
        PROVE  \E k \in Indexes(width * height) : file.pixels[k].pixel = g
    <3> DEFINE i == g \div height
               j == g % height
               k == (width - 1 - i) * height + j
    <3>1. i \in 0..(width - 1) /\ j \in 0..(height - 1) /\ g = i * height + j
      BY <2>1, Split
    <3> HIDE DEF i, j
    <3>2. width - 1 - i \in 0..(width - 1) /\ width - 1 - i \in Nat
      BY <2>1, <3>1
    <3>3. k \in Indexes(width * height)
      BY <2>1, <3>1, <3>2, InArray DEF Indexes
    <3>4. k \div height = width - 1 - i /\ k % height = j
      BY <2>1, <3>1, <3>2, DivMod
    <3>5. width - 1 - (width - 1 - i) = i
      BY <2>1, <3>1
    <3> HIDE DEF k
    <3>6. file.pixels[k].pixel = (width - 1 - (k \div height)) * height + (k % height)
      BY <2>2, <3>3
    <3>7. file.pixels[k].pixel = i * height + j
      BY <3>4, <3>5, <3>6
    <3> QED BY <3>1, <3>3, <3>7
  <2>5. {file.pixels[k].pixel : k \in Indexes(width * height)} = Indexes(width * height)
    <3> HIDE DEF Indexes
    <3>1. {file.pixels[k].pixel : k \in Indexes(width * height)} \subseteq Indexes(width * height)
      BY <2>3
    <3>2. Indexes(width * height) \subseteq {file.pixels[k].pixel : k \in Indexes(width * height)}
      BY <2>4
    <3> QED BY <3>1, <3>2
  <2> QED BY <2>2, <2>5
<1> QED BY <1>1, FileInvariant, PTL

(* The file of a square frame of any size is its picture.                  *)
LEMMA SquareFileIsThePicture ==
  ASSUME IInv, FileInv, file.pixels # Nothing, file.size[1] = file.size[2]
  PROVE  PictureOf(file)
<1> SUFFICES ASSUME NEW row \in 1..file.size[2], NEW column \in 1..file.size[1]
             PROVE file.pixels[(row - 1) * file.size[1] + column - 1].pixel
                     = (file.size[2] - row) * file.size[1] + column - 1
  BY DEF PictureOf
<1>1. width \in Nat \ {0} /\ height \in Nat \ {0}
  BY SizeTypes DEF IInv
<1>2. /\ file.size[1] = width /\ file.size[2] = height /\ width = height
      /\ \A k \in Indexes(width * height) :
           file.pixels[k].pixel = (width - 1 - (k \div height)) * height + (k % height)
  BY DEF FileInv
<1> DEFINE k == (row - 1) * height + (column - 1)
<1>3. row - 1 \in 0..(width - 1) /\ row - 1 \in Nat /\ column - 1 \in 0..(height - 1)
  BY <1>1, <1>2
<1>4. k \in Indexes(width * height)
  BY <1>1, <1>3, InArray DEF Indexes
<1>5. k \div height = row - 1 /\ k % height = column - 1
  BY <1>1, <1>3, DivMod
<1>6. (row - 1) * width + column - 1 = k
  BY <1>1, <1>2, <1>3
<1>7. width - 1 - (row - 1) = height - row
  BY <1>1, <1>2, <1>3
<1> HIDE DEF k
<1>8. file.pixels[k].pixel = (height - row) * height + (column - 1)
  BY <1>2, <1>4, <1>5, <1>7
<1>9. (height - row) * height + (column - 1) = (height - row) * width + column - 1
  BY <1>1, <1>2, <1>3
<1> QED BY <1>2, <1>6, <1>8, <1>9

(* Of any other frame, already the first pixel of the file is another one: *)
(* that of w blocks of h, the last, for that of h rows of w.               *)
LEMMA OtherFileIsNotThePicture ==
  ASSUME IInv, FileInv, file.pixels # Nothing, PictureOf(file)
  PROVE  file.size[1] = file.size[2]
<1>1. width \in Nat \ {0} /\ height \in Nat \ {0}
  BY SizeTypes DEF IInv
<1>2. /\ file.size[1] = width /\ file.size[2] = height
      /\ \A k \in Indexes(width * height) :
           file.pixels[k].pixel = (width - 1 - (k \div height)) * height + (k % height)
  BY DEF FileInv
<1>3. 0 \in Indexes(width * height)
  <2>1. 0 \in 0..(width - 1) /\ 0 \in 0..(height - 1) /\ 0 * height + 0 = 0
    BY <1>1
  <2>2. 0 * height + 0 \in 0..(width * height - 1)
    BY <1>1, <2>1, InArray
  <2> QED BY <2>1, <2>2 DEF Indexes
<1>4. 0 \div height = 0 /\ 0 % height = 0
  BY <1>1
<1>5. file.pixels[0].pixel = (width - 1) * height
  <2>1. file.pixels[0].pixel = (width - 1 - (0 \div height)) * height + (0 % height)
    BY <1>2, <1>3
  <2>2. (width - 1 - 0) * height + 0 = (width - 1) * height
    BY <1>1
  <2> QED BY <1>4, <2>1, <2>2
<1>6. file.pixels[0].pixel = (height - 1) * width
  <2>1. 1 \in 1..file.size[2] /\ 1 \in 1..file.size[1]
    BY <1>1, <1>2
  <2>2. file.pixels[(1 - 1) * width + 1 - 1].pixel = (height - 1) * width + 1 - 1
    BY <1>2, <2>1 DEF PictureOf
  <2>3. (1 - 1) * width + 1 - 1 = 0 /\ (height - 1) * width + 1 - 1 = (height - 1) * width
    BY <1>1
  <2> QED BY <2>2, <2>3
<1>7. (width - 1) * height = width * height - height
  BY <1>1
<1>8. (height - 1) * width = width * height - width
  BY <1>1
<1>9. width * height \in Nat
  BY <1>1
<1> QED BY <1>1, <1>2, <1>5, <1>6, <1>7, <1>8, <1>9

(* A complete depth.pgm holds its frame, of any size, and shows it exactly *)
(* if it is square (depth.cpp:76, 128).                                    *)
THEOREM FileAlwaysHoldsTheFrame == Spec => []FileHoldsTheFrame
<1>1. IInv /\ FileInv /\ FileHoldsAllPixels => FileHoldsTheFrame
  BY SquareFileIsThePicture, OtherFileIsNotThePicture
  DEF FileHoldsTheFrame, PictureExactlyIfSquare
<1> QED BY <1>1, FileAlwaysHoldsAllPixels, FileInvariant, PTL
-----------------------------------------------------------------------------
(* Where get_3d_pts.m looks a keypoint up, and where its position is.      *)
Position(x, y) == LookUp(x + 1, y + 1)

(* A pixel's position is told from every other pixel's by its column, so   *)
(* the script never finds that of a keypoint: it finds another point of    *)
(* the model, or else no point for a keypoint that has none either         *)
(* (get_3d_pts.m:33-36, EngineOSG.cpp:515-531).                            *)
LookUpMisses ==
  step = "done" /\ unprojectOutput # Nothing =>
    \A x \in 1..(width - 1), y \in 1..(height - 1) :
      LookUp(x, y) = Position(x, y)
        <=> \A c \in 1..3 : LookUp(x, y)[c] = Origin /\ Position(x, y)[c] = Origin

(* The script misses every keypoint on the model, in a frame of any size.  *)
THEOREM LookUpAlwaysMisses == Spec => []LookUpMisses
<1>1. ASSUME IInv PROVE LookUpMisses
  <2> SUFFICES ASSUME unprojectOutput # Nothing,
                      NEW x \in 1..(width - 1), NEW y \in 1..(height - 1)
               PROVE  LookUp(x, y) = Position(x, y)
                        <=> \A c \in 1..3 : LookUp(x, y)[c] = Origin /\ Position(x, y)[c] = Origin
    BY DEF LookUpMisses
  <2>1. width \in Nat \ {0} /\ height \in Nat \ {0} /\ unprojectOutput = UnProjectImage(width, height)
    BY <1>1, SizeTypes DEF IInv
  <2>2. x \in 1..width /\ y \in 1..height /\ x + 1 \in 1..width /\ y + 1 \in 1..height
        /\ (x + 1) - 1 = x /\ x - 1 # x
    BY <2>1
  <2>3. ASSUME NEW row \in 1..height, NEW column \in 1..width, NEW c \in 1..3
        PROVE  unprojectOutput[Element(row, column, c)] \in
                 {Origin, <<column - 1, height - row + 1,
                            depth[(height - row) * width + (column - 1)], c - 1>>}
    <3>1. UnProjectImage(width, height)[Cell(height, width, row, column, c)] =
            LET winz == depth[(height - row) * width + (column - 1)] IN
            IF winz > 0 /\ winz < One THEN <<column - 1, height - row + 1, winz, c - 1>> ELSE Origin
      BY <2>1, PlaneElement
    <3> QED BY <2>1, <3>1 DEF Element, Cell
  <2>4. ASSUME NEW c \in 1..3
        PROVE  /\ LookUp(x, y)[c] = unprojectOutput[Element(y, x, c)]
               /\ Position(x, y)[c] = unprojectOutput[Element(y + 1, x + 1, c)]
    BY DEF LookUp, Position
  <2>5. ASSUME LookUp(x, y) = Position(x, y), NEW c \in 1..3
        PROVE  LookUp(x, y)[c] = Origin /\ Position(x, y)[c] = Origin
    <3> DEFINE here == LookUp(x, y)[c]  there == Position(x, y)[c]
    <3>1. here = there
      BY <2>5
    <3>2. PICK b, d : here \in {Origin, <<x - 1, b, d, c - 1>>}
      BY <2>2, <2>3, <2>4
    <3>3. PICK e, f : there \in {Origin, <<x, e, f, c - 1>>}
      <4>1. unprojectOutput[Element(y + 1, x + 1, c)] \in
              {Origin, <<(x + 1) - 1, height - (y + 1) + 1,
                         depth[(height - (y + 1)) * width + ((x + 1) - 1)], c - 1>>}
        BY <2>2, <2>3
      <4> QED BY <2>2, <2>4, <4>1
    <3> HIDE DEF here, there
    <3>4. <<x - 1, b, d, c - 1>> # <<x, e, f, c - 1>>
      BY <2>2
    <3>5. /\ \A p, q, r, s : <<p, q, r, s>> # Origin
      <4>1. \A p, q, r, s : Len(<<p, q, r, s>>) = 4 /\ Len(Origin) = 0
        BY DEF Origin
      <4> QED BY <4>1
    <3>6. here = Origin /\ there = Origin
      BY <3>1, <3>2, <3>3, <3>4, <3>5
    <3> QED BY <3>6 DEF here, there
  <2>6. ASSUME \A c \in 1..3 : LookUp(x, y)[c] = Origin /\ Position(x, y)[c] = Origin
        PROVE  LookUp(x, y) = Position(x, y)
    <3>1. LookUp(x, y) = [c \in 1..3 |-> LookUp(x, y)[c]]
          /\ Position(x, y) = [c \in 1..3 |-> Position(x, y)[c]]
      BY DEF LookUp, Position
    <3> QED BY <2>6, <3>1
  <2> QED BY <2>5, <2>6
<1> QED BY <1>1, Invariant, PTL
-----------------------------------------------------------------------------
(* The viewer shows what its handler has. *)
ViewInv ==
  /\ angle \in [Axes -> Int] /\ distance \in Int
  /\ view = [angle |-> angle, distance |-> distance]

(* Wrapping an angle that lost at most a degree. *)
LEMMA Wrapped ==
  ASSUME NEW a \in Int, NEW p \in Printed(a)
  PROVE  p \in 0..359 /\ (a - p) % 360 \in {0, 1, 359}
<1>1. PICK d \in Truncated(a) :
        p = IF Remainder(d) < 0 THEN 360 + Remainder(d) ELSE Remainder(d)
  BY DEF Printed
<1>2. d \in Int /\ a - d \in {0, 1, -1}
  BY <1>1 DEF Truncated
<1>3. Remainder(d) \in -359..359 /\ \E q \in Int : d = 360 * q + Remainder(d)
  <2>1. CASE d >= 0
    <3>1. d % 360 \in 0..359 /\ d = 360 * (d \div 360) + (d % 360) /\ d \div 360 \in Int
      BY <1>2
    <3> QED BY <2>1, <3>1 DEF Remainder
  <2>2. CASE d < 0
    <3> DEFINE e == -d
    <3>1. e % 360 \in 0..359 /\ e = 360 * (e \div 360) + (e % 360) /\ e \div 360 \in Int
      BY <1>2
    <3>2. Remainder(d) = -(e % 360)
      BY <1>2, <2>2 DEF Remainder
    <3> HIDE DEF e
    <3>3. -(e \div 360) \in Int /\ d = 360 * (-(e \div 360)) + (-(e % 360))
      BY <1>2, <3>1 DEF e
    <3> QED BY <3>1, <3>2, <3>3
  <2> QED BY <1>2, <2>1, <2>2
<1>4. p \in 0..359
  BY <1>1, <1>3
<1>5. \E q \in Int : d = 360 * q + p
  <2>1. PICK q \in Int : d = 360 * q + Remainder(d)
    BY <1>3
  <2>2. CASE Remainder(d) < 0
    <3>1. q - 1 \in Int /\ d = 360 * (q - 1) + p
      BY <1>1, <1>3, <2>1, <2>2
    <3> QED BY <3>1
  <2>3. CASE ~(Remainder(d) < 0)
    BY <1>1, <2>1, <2>3
  <2> QED BY <2>2, <2>3
<1>6. PICK q \in Int : d = 360 * q + p
  BY <1>5
<1>7. a - p \in {360 * q, 360 * q + 1, 360 * q - 1}
  BY <1>2, <1>4, <1>6
<1>8. \A n \in Int : (360 * n) % 360 = 0 /\ (360 * n + 1) % 360 = 1 /\ (360 * n - 1) % 360 = 359
  OBVIOUS
<1> QED BY <1>4, <1>7, <1>8

(* Every key moves what is printed and what is shown alike. *)
LEMMA ViewInductive == ViewInv /\ [DrawingNext]_drawing => ViewInv'
<1> SUFFICES ASSUME ViewInv, [DrawingNext]_drawing PROVE ViewInv'
  OBVIOUS
<1>1. CASE UNCHANGED viewer
  BY <1>1 DEF ViewInv, viewer
<1>2. ASSUME angle' \in [Axes -> Int], distance' \in Int, SetView PROVE ViewInv'
  BY <1>2 DEF ViewInv, SetView
<1>3. CASE Turn
  BY <1>2, <1>3 DEF Turn, ViewInv, Increment
<1>4. CASE Move
  BY <1>2, <1>4, ViewerKeysOK DEF Move, ViewInv
<1>5. CASE Space
  BY <1>2, <1>5 DEF Space, Forward, Distance0
<1>6. CASE OtherKey
  BY <1>2, <1>6 DEF OtherKey, ViewInv
<1> QED BY <1>1, <1>3, <1>4, <1>5, <1>6 DEF DrawingNext, Capture, Handle, Key, drawing

(* It holds throughout. *)
LEMMA ViewInvariant == DrawingSpec => []ViewInv
<1>1. DrawingInit => ViewInv
  BY DEF DrawingInit, ViewerInit, ViewInv, Forward, Distance0
<1> QED BY <1>1, ViewInductive, PTL DEF DrawingSpec

(* What is proved of the callback holds of the program that draws in       *)
(* either way.                                                             *)
THEOREM DrawsFrames == DrawingSpec => Spec
<1>1. DrawingInit => Init
  BY DEF DrawingInit
<1>2. [DrawingNext]_drawing => [Next]_vars
  BY DEF DrawingNext, Capture, Handle, drawing
<1> QED BY <1>1, <1>2, PTL DEF DrawingSpec, Spec

(* The printed angle is one of a turn and the one shown to a degree, for any number of keys. *)
THEOREM PrintedAlwaysShown == DrawingSpec => []PrintedIsShown
<1>1. ViewInv => PrintedIsShown
  <2> SUFFICES ASSUME ViewInv, NEW a \in Axes, NEW d \in Printed(angle[a])
               PROVE  d \in 0..359 /\ (view.angle[a] - d) % 360 \in {0, 1, 359}
    BY DEF PrintedIsShown
  <2>1. angle[a] \in Int /\ view.angle = angle
    BY DEF ViewInv
  <2> QED BY <2>1, Wrapped
<1> QED BY <1>1, ViewInvariant, PTL
=============================================================================
