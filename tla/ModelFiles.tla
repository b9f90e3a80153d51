----------------------------- MODULE ModelFiles -----------------------------
(***************************************************************************)
(* The text files that tie the model of a head to the C++ programs:        *)
(*                                                                         *)
(*   keypoints.txt      written by SaveKeypoints() from the model image,   *)
(*   3D_points.txt,     written by get_3d_pts.m, which renders the model   *)
(*   camera_params.txt  and looks the keypoints up in `unproject'.         *)
(*                                                                         *)
(* The two programs run when somebody runs them, also at the same time,    *)
(* and either may die between two steps.                                   *)
(***************************************************************************)
EXTENDS Integers, Sequences

CONSTANTS
  Pixels,       \* where keypoints are found
  Outside,      \* pixels that are not in the 640x480 rendering
  Photos,       \* model images
  Keypoints,    \* Keypoints[p]: facial keypoints found in photo p
  Bytes,        \* Bytes[x]: length of the line that holds pixel x
  HeaderBytes,  \* length of "x y\n"
  MaxRuns,      \* bound: runs of get_3d_pts.m
  None

ASSUME PhotosOK == /\ Outside \subseteq Pixels
                   /\ Keypoints \in [Photos -> Seq(Pixels)]
                   /\ Bytes \in [Pixels -> Nat \ {0}] /\ HeaderBytes \in Nat \ {0}
                   /\ MaxRuns \in Nat /\ None \notin Pixels

VARIABLES
  photo,                    \* the model image on disk
  kpFile, camFile, ptsFile, \* the lines of the three files, or None
  saver, kps, k,            \* SaveKeypoints: step, keypoints, lines written
  script, rows, run         \* get_3d_pts.m: step, keypoints read, number of the run

saverVars == <<kpFile, saver, kps, k>>
scriptVars == <<camFile, ptsFile, script, rows, run>>
fileVars == <<photo, saverVars, scriptVars>>

-----------------------------------------------------------------------------
(* Lines.  A line of keypoints.txt is the header, a pixel, or what is left *)
(* of an old line whose front was overwritten.                             *)
Header == "x y"
Fragment == "fragment"
KpLine(t) == [text |-> t, bytes |-> IF t = Header THEN HeaderBytes ELSE Bytes[t]]
HeaderLine == [text |-> Header, bytes |-> HeaderBytes]

FileLine == [text : Pixels \union {Header, Fragment}, bytes : Nat \ {0}]
ASSUME NoneIsNoFile == None \notin Seq(FileLine)

(* Offset of the end of line n. *)
EndOf(lines, n) ==
  LET End[j \in 0..Len(lines)] == IF j = 0 THEN 0 ELSE End[j - 1] + lines[j].bytes
  IN End[n]

(* What is left of some lines when b bytes are written over their front. *)
Cut(lines, b) ==
  LET gone == CHOOSE n \in 0..Len(lines) :
                /\ EndOf(lines, n) <= b
                /\ n = Len(lines) \/ EndOf(lines, n + 1) > b
      over == b - EndOf(lines, gone)
      rest == SubSeq(lines, gone + 1, Len(lines))
  IN IF over = 0 \/ rest = << >> THEN rest
     ELSE <<[text |-> Fragment, bytes |-> Head(rest).bytes - over]>> \o Tail(rest)

(* Mutant of Overwrite: the file is opened with app. *)
AppendLine(lines, n, line) == Append(lines, line)

(* A file opened with in | out is written from its first byte on and keeps *)
(* what lies behind.                                                       *)
Overwrite(lines, n, line) ==
  SubSeq(lines, 1, n) \o <<line>> \o Cut(SubSeq(lines, n + 1, Len(lines)), line.bytes)

CamLine(part, n) == [part |-> part, run |-> run, row |-> n]
Blank == [part |-> "blank", run |-> 0, row |-> 0]

-----------------------------------------------------------------------------
FilesInit ==
  /\ photo \in Photos
  /\ kpFile = None /\ camFile = None /\ ptsFile = None
  /\ saver = "idle" /\ kps = << >> /\ k = 0
  /\ script = "idle" /\ rows = << >> /\ run = 0

(* save_2d_from_3d.m, or somebody with a camera. *)
ReplacePhoto ==
  /\ \E p \in Photos : photo' = p
  /\ UNCHANGED <<saverVars, scriptVars>>

(* SaveKeypoints() of the test: nothing is written without a keypoint. *)
FindKeypoints ==
  /\ saver = "idle"
  /\ Keypoints[photo] # << >>
  /\ kps' = Keypoints[photo] /\ saver' = "create"
  /\ UNCHANGED <<photo, kpFile, k, scriptVars>>

(* CreateNewFile, then open and write the header. *)
CreateNewFile ==
  /\ saver = "create"
  /\ kpFile' = IF kpFile = None THEN << >> ELSE kpFile
  /\ saver' = "header"
  /\ UNCHANGED <<photo, kps, k, scriptVars>>

WriteHeader ==
  /\ saver = "header"
  /\ kpFile' = Overwrite(kpFile, 0, HeaderLine)
  /\ saver' = "write" /\ k' = 0
  /\ UNCHANGED <<photo, kps, scriptVars>>

WriteKeypoint ==
  /\ saver = "write" /\ k < Len(kps)
  /\ kpFile' = Overwrite(kpFile, k + 1, KpLine(kps[k + 1]))
  /\ k' = k + 1
  /\ UNCHANGED <<photo, saver, kps, scriptVars>>

CloseKeypoints ==
  /\ saver = "write" /\ k = Len(kps)
  /\ saver' = "saved"
  /\ UNCHANGED <<photo, kpFile, kps, k, scriptVars>>

(* The program ends, or is killed. *)
LeaveSaver ==
  /\ saver # "idle"
  /\ saver' = "idle" /\ kps' = << >> /\ k' = 0
  /\ UNCHANGED <<photo, kpFile, scriptVars>>

-----------------------------------------------------------------------------
(* get_3d_pts.m.  renderer(...) first, then three dlmwrite calls; the      *)
(* first one truncates the file, the others append, after a blank line.    *)

(* Mutant of TruncateCamera: dlmwrite(camera_params, outA, '-append', ...) *)
KeepCamera ==
  /\ script = "idle" /\ run < MaxRuns
  /\ run' = run + 1
  /\ camFile' = IF camFile = None THEN << >> ELSE camFile
  /\ script' = "A"
  /\ UNCHANGED <<photo, saverVars, ptsFile, rows>>

TruncateCamera ==
  /\ script = "idle" /\ run < MaxRuns
  /\ run' = run + 1
  /\ camFile' = << >>
  /\ script' = "A"
  /\ UNCHANGED <<photo, saverVars, ptsFile, rows>>

WriteCamera(step, part, lines, next) ==
  /\ script = step
  /\ camFile' = camFile \o lines
  /\ script' = next
  /\ UNCHANGED <<photo, saverVars, ptsFile, rows, run>>

Matrix(part) == [n \in 1..3 |-> CamLine(part, n)]
WriteA == WriteCamera("A", "A", Matrix("A"), "R")
WriteR == WriteCamera("R", "R", <<Blank>> \o Matrix("R"), "T")
WriteT == WriteCamera("T", "T", <<Blank, CamLine("T", 1)>>, "keypoints")

(* importdata with one header line.  A fragment is a row if it still holds *)
(* two numbers; without a row there is no kps.data and the script fails.   *)
ReadKeypoints ==
  /\ script = "keypoints"
  /\ kpFile # None
  /\ LET texts == [n \in 1..Len(kpFile) - 1 |-> kpFile[n + 1].text] IN
       \/ /\ texts # << >>
          /\ rows' = texts /\ script' = "lookup"
       \/ /\ texts = << >> \/ \E n \in 1..Len(texts) : texts[n] = Fragment
          /\ rows' = << >> /\ script' = "idle"
  /\ UNCHANGED <<photo, saverVars, camFile, ptsFile, run>>

(* refUnproject(pts_2D(j, 2), pts_2D(j, 1), 1:3) for every row: an index   *)
(* outside the rendering is an error; else the points file is truncated.   *)
LookUp ==
  /\ script = "lookup"
  /\ \/ /\ \A j \in 1..Len(rows) : rows[j] \notin Outside
        /\ ptsFile' = << >> /\ script' = "points"
        /\ UNCHANGED rows
     \/ /\ \E j \in 1..Len(rows) : rows[j] \in Outside \union {Fragment}
        /\ rows' = << >> /\ script' = "idle"
        /\ UNCHANGED ptsFile
  /\ UNCHANGED <<photo, saverVars, camFile, run>>

(* fprintf takes the values of the n x 3 matrix column by column, three to *)
(* a line.  A value is named by its keypoint and its axis.                 *)
Value(pts, m) == LET n == Len(pts) IN
  [pixel |-> pts[((m - 1) % n) + 1], row |-> ((m - 1) % n) + 1, axis |-> ((m - 1) \div n) + 1]

Printed(pts) ==
  [l \in 1..Len(pts) |-> [c \in 1..3 |-> Value(pts, 3 * (l - 1) + c)]]

WritePoints ==
  /\ script = "points"
  /\ ptsFile' = Printed(rows)
  /\ script' = "printed"
  /\ UNCHANGED <<photo, saverVars, camFile, rows, run>>

(* The script ends, fails, or is interrupted. *)
LeaveScript ==
  /\ script # "idle"
  /\ script' = "idle" /\ rows' = << >>
  /\ UNCHANGED <<photo, saverVars, camFile, ptsFile, run>>

FilesNext ==
  \/ ReplacePhoto
  \/ FindKeypoints \/ CreateNewFile \/ WriteHeader \/ WriteKeypoint
  \/ CloseKeypoints \/ LeaveSaver
  \/ TruncateCamera \/ WriteA \/ WriteR \/ WriteT
  \/ ReadKeypoints \/ LookUp \/ WritePoints \/ LeaveScript
-----------------------------------------------------------------------------
(* ReadCameraParams: lines 0-2 are rows of A, line 3 stores it, lines 4-6  *)
(* are rows of R, line 7 stores it, line 8 is T.                           *)
CameraOf(lines) ==
  [A |-> IF Len(lines) >= 4 THEN SubSeq(lines, 1, 3) ELSE None,
   R |-> IF Len(lines) >= 8 THEN SubSeq(lines, 5, 7) ELSE None,
   T |-> IF Len(lines) >= 9 THEN lines[9] ELSE None]

(* stof throws on the empty fields of a blank line. *)
CameraThrows(lines) ==
  \E n \in {1, 2, 3, 5, 6, 7, 9} : n <= Len(lines) /\ lines[n] = Blank

(* The guard of the test before it goes on. *)
SomeEmpty(cam) == cam.A = None \/ cam.R = None \/ cam.T = None
-----------------------------------------------------------------------------
FilesSpec == FilesInit /\ [][FilesNext]_fileVars

FilesTypeOK ==
  /\ photo \in Photos
  /\ saver \in {"idle", "create", "header", "write", "saved"}
  /\ kps \in Seq(Pixels) /\ k \in 0..Len(kps)
  /\ saver \in {"idle", "create", "header"} => k = 0
  /\ script \in {"idle", "A", "R", "T", "keypoints", "lookup", "points", "printed"}
  /\ run \in 0..MaxRuns

(* While keypoints are saved, and once they are, the file begins with the  *)
(* header and the keypoints written so far, whatever an earlier or a       *)
(* killed run left in it (Utilities.cpp:19-30).                            *)
SavedIsPrefix ==
  saver \in {"write", "saved"} =>
    /\ Len(kpFile) > k
    /\ kpFile[1] = HeaderLine
    /\ \A j \in 1..k : kpFile[j + 1] = KpLine(kps[j])

(* ReadCameraParams never fails on the file that get_3d_pts.m leaves,      *)
(* wherever the script was when it stopped, and a matrix it stores is      *)
(* whole; matrices stored together come from one rendering                 *)
(* (get_3d_pts.m:13-15, Utilities.cpp:67-127).                             *)
PartOf(part, r) == [n \in 1..3 |-> [part |-> part, run |-> r, row |-> n]]
CameraWhole ==
  camFile # None =>
    LET cam == CameraOf(camFile) IN
    /\ ~CameraThrows(camFile)
    /\ \E r \in 1..run :
         /\ cam.A \in {None, PartOf("A", r)}
         /\ cam.R \in {None, PartOf("R", r)}
         /\ cam.T \in {None, [part |-> "T", run |-> r, row |-> 1]}

(* keypoints.txt holds "Features from 2D image from 3D model"              *)
(* (get_3d_pts.m:4), those of the image they were last saved for.          *)
KeypointsFileHoldsTheFeatures ==
  saver = "saved" =>
    kpFile = <<HeaderLine>> \o [j \in 1..Len(kps) |-> KpLine(kps[j])]
=============================================================================
