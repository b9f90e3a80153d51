-------------------------- MODULE ModelFilesProofs --------------------------
(***************************************************************************)
(* The files between the programs, for all photos, keypoints and numbers   *)
(* of runs: camera_params.txt is always the front of one rendering's       *)
(* matrices, cut between two of them, so that ReadCameraParams never fails *)
(* on it and never mixes two renderings; keypoints.txt begins with what    *)
(* was saved and holds just that if and only if it is not too long; and    *)
(* the lines of 3D_points.txt hold every coordinate once.                  *)
(***************************************************************************)
EXTENDS ModelFiles, SequenceTheorems, WellFoundedInduction, TLAPS

-----------------------------------------------------------------------------
(* The file after each of the three calls of dlmwrite in run r.            *)
TLine(r) == [part |-> "T", run |-> r, row |-> 1]
FileA(r) == PartOf("A", r)
FileR(r) == FileA(r) \o (<<Blank>> \o PartOf("R", r))
FileT(r) == FileR(r) \o <<Blank, TLine(r)>>
Fronts(r) == {<< >>, FileA(r), FileR(r), FileT(r)}

(* The inductive invariant: the script knows what it has written, and what *)
(* is in the file is all of one run, wherever the script has stopped.      *)
CameraInv ==
  /\ run \in Nat
  /\ camFile # None =>
       \E r \in 1..run : camFile \in Fronts(r)
  /\ script \in {"A", "R", "T"} => run \in 1..run
  /\ script = "A" => camFile = << >>
  /\ script = "R" => camFile = FileA(run)
  /\ script = "T" => camFile = FileR(run)

-----------------------------------------------------------------------------
(* The lines of the file, by number.                                       *)
LEMMA LinesOfA ==
  ASSUME NEW r
  PROVE  Len(FileA(r)) = 3 /\ \A n \in 1..3 : FileA(r)[n] = [part |-> "A", run |-> r, row |-> n]
BY DEF FileA, PartOf

(* Likewise after the second call. *)
LEMMA LinesOfR ==
  ASSUME NEW r
  PROVE  /\ Len(FileR(r)) = 7
         /\ \A n \in 1..3 : FileR(r)[n] = [part |-> "A", run |-> r, row |-> n]
         /\ FileR(r)[4] = Blank
         /\ \A n \in 1..3 : FileR(r)[n + 4] = [part |-> "R", run |-> r, row |-> n]
<1> DEFINE S == {FileA(r)[n] : n \in 1..3} \union {Blank} \union {PartOf("R", r)[n] : n \in 1..3}
<1>1. FileA(r) \in Seq(S) /\ Len(FileA(r)) = 3
  BY DEF FileA, PartOf
<1>2. PartOf("R", r) \in Seq(S) /\ Len(PartOf("R", r)) = 3
  BY DEF PartOf
<1>3. <<Blank>> \in Seq(S) /\ Len(<<Blank>>) = 1 /\ <<Blank>>[1] = Blank
  OBVIOUS
<1> DEFINE tail == <<Blank>> \o PartOf("R", r)
<1> HIDE DEF S
<1>4. /\ tail \in Seq(S) /\ Len(tail) = 4 /\ tail[1] = Blank
      /\ \A n \in 1..3 : tail[n + 1] = PartOf("R", r)[n]
  BY <1>2, <1>3
<1> HIDE DEF tail
<1>5. FileR(r) = FileA(r) \o tail
  BY DEF FileR, tail
<1>6. /\ Len(FileR(r)) = 7
      /\ \A n \in 1..3 : FileR(r)[n] = FileA(r)[n]
      /\ \A n \in 1..4 : FileR(r)[n + 3] = tail[n]
  <2> HIDE DEF FileA, FileR
  <2> DEFINE u == FileR(r)  a == FileA(r)
  <2>0. a \in Seq(S) /\ tail \in Seq(S) /\ u = a \o tail
    BY <1>1, <1>4, <1>5
  <2> HIDE DEF u, a, tail
  <2>1. /\ Len(u) = Len(a) + Len(tail)
        /\ \A i \in 1..Len(a) : u[i] = a[i]
        /\ \A i \in 1..Len(tail) : u[Len(a) + i] = tail[i]
    BY <2>0, SMT
  <2> USE DEF u, a
  <2> HIDE DEF tail
  <2> QED BY <1>1, <1>4, <2>1
<1>7. FileR(r)[4] = Blank /\ \A n \in 1..3 : FileR(r)[n + 4] = PartOf("R", r)[n]
  BY <1>4, <1>6
<1> QED BY <1>6, <1>7, LinesOfA DEF PartOf

(* Likewise after the third. *)
LEMMA LinesOfT ==
  ASSUME NEW r
  PROVE  /\ Len(FileT(r)) = 9
         /\ \A n \in 1..7 : FileT(r)[n] = FileR(r)[n]
         /\ FileT(r)[8] = Blank /\ FileT(r)[9] = TLine(r)
<1> DEFINE S == {FileR(r)[n] : n \in 1..7} \union {Blank, TLine(r)}
<1>1. FileR(r) \in Seq(S) /\ Len(FileR(r)) = 7
  <2>1. FileR(r) = [n \in 1..7 |-> FileR(r)[n]]
    BY LinesOfR DEF FileR, FileA, PartOf
  <2> QED BY <2>1, LinesOfR
<1>2. <<Blank, TLine(r)>> \in Seq(S)
  OBVIOUS
<1> DEFINE tail == <<Blank, TLine(r)>>
<1>3. Len(tail) = 2 /\ tail[1] = Blank /\ tail[2] = TLine(r)
  OBVIOUS
<1> DEFINE u == FileT(r)  front == FileR(r)
<1>4. u = front \o tail /\ tail \in Seq(S) /\ front \in Seq(S)
  BY <1>1, <1>2 DEF FileT
<1> HIDE DEF S, tail, u, front
<1>5. /\ Len(u) = Len(front) + Len(tail)
      /\ \A i \in 1..Len(front) : u[i] = front[i]
      /\ \A i \in 1..Len(tail) : u[Len(front) + i] = tail[i]
  BY <1>4, SMT
<1> USE DEF u, front
<1> QED BY <1>1, <1>3, <1>5

-----------------------------------------------------------------------------
(* What ReadCameraParams makes of a file that is the front of run r.       *)
LEMMA FrontIsReadable ==
  ASSUME NEW r, NEW f \in Fronts(r)
  PROVE  /\ ~CameraThrows(f)
         /\ CameraOf(f).A \in {None, PartOf("A", r)}
         /\ CameraOf(f).R \in {None, PartOf("R", r)}
         /\ CameraOf(f).T \in {None, TLine(r)}
<1> DEFINE A(n) == [part |-> "A", run |-> r, row |-> n]
           R(n) == [part |-> "R", run |-> r, row |-> n]
<1>1. \A n \in 1..3 : A(n) # Blank /\ R(n) # Blank
  BY DEF Blank
<1>2. TLine(r) # Blank
  BY DEF Blank, TLine
<1>3. CASE f = << >>
  BY <1>3 DEF CameraThrows, CameraOf
<1>4. CASE f = FileA(r)
  <2>1. Len(f) = 3 /\ \A n \in 1..3 : f[n] = A(n)
    BY <1>4, LinesOfA
  <2> QED BY <1>1, <2>1 DEF CameraThrows, CameraOf
<1>5. CASE f = FileR(r)
  <2>1. /\ Len(f) = 7 /\ \A n \in 1..3 : f[n] = A(n)
        /\ f[4] = Blank /\ \A n \in 1..3 : f[n + 4] = R(n)
    BY <1>5, LinesOfR
  <2>2. \A n \in {1, 2, 3, 5, 6, 7} : f[n] # Blank
    <3>1. f[5] = R(1) /\ f[6] = R(2) /\ f[7] = R(3)
      BY <2>1
    <3> QED BY <1>1, <2>1, <3>1
  <2>3. SubSeq(f, 1, 3) = PartOf("A", r)
    BY <2>1 DEF PartOf
  <2> QED BY <2>1, <2>2, <2>3 DEF CameraThrows, CameraOf
<1>6. CASE f = FileT(r)
  <2>1. /\ Len(f) = 9 /\ \A n \in 1..3 : f[n] = A(n)
        /\ f[5] = R(1) /\ f[6] = R(2) /\ f[7] = R(3) /\ f[9] = TLine(r)
    <3> DEFINE g == FileR(r)
    <3>0. \A n \in 1..3 : g[n + 4] = R(n)
      BY LinesOfR
    <3> HIDE DEF g, R
    <3>1. g[5] = R(1) /\ g[6] = R(2) /\ g[7] = R(3)
      BY <3>0
    <3> USE DEF g, R
    <3> QED BY <1>6, <3>1, LinesOfR, LinesOfT
  <2>2. \A n \in {1, 2, 3, 5, 6, 7, 9} : f[n] # Blank
    BY <1>1, <1>2, <2>1
  <2>3. SubSeq(f, 1, 3) = PartOf("A", r)
    BY <2>1 DEF PartOf
  <2>4. SubSeq(f, 5, 7) = PartOf("R", r)
    BY <2>1 DEF PartOf
  <2> QED BY <2>1, <2>2, <2>3, <2>4 DEF CameraThrows, CameraOf
<1> QED BY <1>3, <1>4, <1>5, <1>6 DEF Fronts
-----------------------------------------------------------------------------
(* There is no file at first. *)
LEMMA CameraInvInit == FilesInit => CameraInv
BY PhotosOK DEF FilesInit, CameraInv

(* Every step leaves the front of one run. *)
LEMMA CameraInvStep == CameraInv /\ [FilesNext]_fileVars => CameraInv'
<1> SUFFICES ASSUME CameraInv, [FilesNext]_fileVars PROVE CameraInv'
  OBVIOUS
<1>1. CASE UNCHANGED <<camFile, script, run>>
  BY <1>1 DEF CameraInv, Fronts, FileT, FileR, FileA
<1>2. CASE TruncateCamera
  <2>1. run + 1 \in 1..(run + 1) /\ run + 1 \in Nat
    BY DEF CameraInv
  <2> QED BY <1>2, <2>1 DEF TruncateCamera, CameraInv, Fronts
<1>3. CASE WriteA
  <2>1. camFile' = << >> \o Matrix("A") /\ run' = run /\ script' = "R" /\ run \in 1..run
    BY <1>3 DEF WriteA, WriteCamera, CameraInv
  <2>2. << >> \o Matrix("A") = FileA(run)
    BY DEF Matrix, CamLine, FileA, PartOf
  <2> QED BY <2>1, <2>2 DEF CameraInv, Fronts
<1>4. CASE WriteR
  <2>1. camFile' = FileR(run) /\ run' = run /\ script' = "T" /\ run \in 1..run
    BY <1>4 DEF WriteR, WriteCamera, CameraInv, FileR, Matrix, CamLine, PartOf
  <2> QED BY <2>1 DEF CameraInv, Fronts
<1>5. CASE WriteT
  <2>1. camFile' = FileT(run) /\ run' = run /\ script' = "keypoints" /\ run \in 1..run
    BY <1>5 DEF WriteT, WriteCamera, CameraInv, FileT, CamLine, TLine
  <2> QED BY <2>1 DEF CameraInv, Fronts
<1>6. CASE /\ script' \notin {"A", "R", "T"} /\ UNCHANGED <<camFile, run>>
  BY <1>6 DEF CameraInv, Fronts
<1>7. CASE UNCHANGED fileVars
  BY <1>1, <1>7 DEF fileVars, scriptVars
<1>8. CASE \/ ReplacePhoto \/ FindKeypoints \/ CreateNewFile \/ WriteHeader
           \/ WriteKeypoint \/ CloseKeypoints \/ LeaveSaver
  BY <1>1, <1>8 DEF ReplacePhoto, FindKeypoints, CreateNewFile, WriteHeader,
     WriteKeypoint, CloseKeypoints, LeaveSaver, scriptVars
<1>9. CASE ReadKeypoints \/ LookUp \/ WritePoints \/ LeaveScript
  BY <1>6, <1>9 DEF ReadKeypoints, LookUp, WritePoints, LeaveScript
<1> QED BY <1>2, <1>3, <1>4, <1>5, <1>7, <1>8, <1>9 DEF FilesNext

(* A front that can be read is the whole. *)
LEMMA CameraInvWhole == CameraInv => CameraWhole
<1> SUFFICES ASSUME CameraInv, camFile # None
             PROVE /\ ~CameraThrows(camFile)
                   /\ \E r \in 1..run :
                        /\ CameraOf(camFile).A \in {None, PartOf("A", r)}
                        /\ CameraOf(camFile).R \in {None, PartOf("R", r)}
                        /\ CameraOf(camFile).T \in {None, TLine(r)}
  BY DEF CameraWhole, TLine
<1>1. PICK r \in 1..run : camFile \in Fronts(r)
  BY DEF CameraInv
<1> QED BY <1>1, FrontIsReadable

(* Wherever get_3d_pts.m was when it stopped, and whenever it is run       *)
(* again, the camera file can be read and mixes no two renderings          *)
(* (get_3d_pts.m:13-15, Utilities.cpp:67-127).                             *)
THEOREM CameraAlwaysWhole == FilesSpec => []CameraWhole
<1>1. FilesSpec => []CameraInv
  BY CameraInvInit, CameraInvStep, PTL DEF FilesSpec
<1> QED BY <1>1, CameraInvWhole, PTL
-----------------------------------------------------------------------------
(* The writers are well typed at first. *)
LEMMA FilesTypeInit == FilesInit => FilesTypeOK
BY PhotosOK DEF FilesInit, FilesTypeOK

(* They stay so. *)
LEMMA FilesTypeStep == FilesTypeOK /\ [FilesNext]_fileVars => FilesTypeOK'
<1> SUFFICES ASSUME FilesTypeOK, [FilesNext]_fileVars PROVE FilesTypeOK'
  OBVIOUS
<1> USE PhotosOK DEF FilesTypeOK
<1>1. CASE UNCHANGED fileVars
  BY <1>1 DEF fileVars, saverVars, scriptVars
<1>2. CASE ReplacePhoto
  BY <1>2 DEF ReplacePhoto, saverVars, scriptVars
<1>3. CASE FindKeypoints
  <2>1. k = 0 /\ Keypoints[photo] \in Seq(Pixels)
    BY <1>3 DEF FindKeypoints
  <2> QED BY <1>3, <2>1 DEF FindKeypoints, scriptVars
<1>4. CASE CreateNewFile \/ WriteHeader \/ CloseKeypoints
  BY <1>4 DEF CreateNewFile, WriteHeader, CloseKeypoints, scriptVars
<1>5. CASE WriteKeypoint
  BY <1>5 DEF WriteKeypoint, scriptVars
<1>6. CASE LeaveSaver
  BY <1>6 DEF LeaveSaver, scriptVars
<1>7. CASE TruncateCamera
  BY <1>7 DEF TruncateCamera, saverVars
<1>8. CASE WriteA \/ WriteR \/ WriteT
  BY <1>8 DEF WriteA, WriteR, WriteT, WriteCamera, saverVars
<1>9. CASE ReadKeypoints \/ LookUp \/ WritePoints \/ LeaveScript
  BY <1>9 DEF ReadKeypoints, LookUp, WritePoints, LeaveScript, saverVars
<1> QED BY <1>1, <1>2, <1>3, <1>4, <1>5, <1>6, <1>7, <1>8, <1>9 DEF FilesNext

(* Type correctness of the files and of the two programs that write them   *)
(* (Utilities.cpp:17-43, get_3d_pts.m).                                    *)
THEOREM FilesTypeCorrect == FilesSpec => []FilesTypeOK
BY FilesTypeInit, FilesTypeStep, PTL DEF FilesSpec
-----------------------------------------------------------------------------
(* The size of a file, in bytes.                                           *)
SizeOf(lines) == EndOf(lines, Len(lines))

(* Every set of numbers has a least one.  The file is a list, and what     *)
(* follows counts its lines: induction over numbers comes from the         *)
(* well-founded order of the library.                                      *)
LEMMA Least ==
  ASSUME NEW S \in SUBSET Nat, S # {}
  PROVE  \E m \in S : \A n \in S : m <= n
<1> DEFINE R == OpToRel(<, Nat)
<1>1. IsWellFoundedOn(R, Nat)
  BY NatLessThanWellFounded, Zenon
<1>2. \A x, y \in Nat : x < y => <<x, y>> \in R
  BY Zenon DEF OpToRel
<1> HIDE DEF R
<1>3. PICK m \in S : \A y \in S : ~ (<<y, m>> \in R)
  BY <1>1, WFMin
<1>4. \A n \in S : ~(n < m)
  BY <1>2, <1>3
<1> QED BY <1>3, <1>4

(* A set that has 0, and with n also n + 1, has every number.              *)
LEMMA Induct ==
  ASSUME NEW S, 0 \in S, \A n \in Nat : n \in S => n + 1 \in S
  PROVE Nat \subseteq S
<1> SUFFICES ASSUME Nat \ S # {} PROVE FALSE
  OBVIOUS
<1>1. PICK m \in Nat \ S : \A n \in Nat \ S : m <= n
  BY Least
<1>2. m - 1 \in Nat /\ m-1 \in S
  BY <1>1
<1> QED BY <1>1, <1>2

(* Every line has a byte, its line break.                                  *)
LEMMA LineBytes ==
  ASSUME NEW lines \in Seq(FileLine), NEW j \in 1..Len(lines)
  PROVE  lines[j] \in FileLine /\ lines[j].bytes \in Nat \ {0}
<1>1. lines[j] \in FileLine
  OBVIOUS
<1> QED BY <1>1 DEF FileLine

(* The recursion of EndOf defines a function: up to any n there is one,    *)
(* by induction on n.                                                      *)
LEMMA EndExists ==
  ASSUME NEW lines \in Seq(FileLine)
  PROVE  \E f : f = [j \in 0..Len(lines) |-> IF j = 0 THEN 0 ELSE f[j - 1] + lines[j].bytes]
<1> DEFINE Upto(n) == \E f \in [0..n -> Nat] :
                        f[0] = 0 /\ \A j \in 1..n : f[j] = f[j - 1] + lines[j].bytes
           S == {n \in Nat : n <= Len(lines) => Upto(n)}
<1>0. \A j \in 1..Len(lines) : lines[j].bytes \in Nat
  BY LineBytes
<1>1. 0 \in S
  <2> DEFINE z == [j \in 0..0 |-> 0]
  <2>1. z \in [0..0 -> Nat] /\ z[0] = 0 /\ \A j \in 1..0 : z[j] = z[j - 1] + lines[j].bytes
    OBVIOUS
  <2> HIDE DEF z
  <2>2. Upto(0)
    BY <2>1
  <2> QED BY <2>2
<1>2. ASSUME NEW n \in Nat, n \in S PROVE n + 1 \in S
  <2> HIDE DEF Upto
  <2> SUFFICES ASSUME n + 1 <= Len(lines) PROVE Upto(n + 1)
    BY <1>2
  <2>0. Upto(n)
    BY <1>2
  <2> USE DEF Upto
  <2>1. PICK f \in [0..n -> Nat] : f[0] = 0 /\ \A j \in 1..n : f[j] = f[j - 1] + lines[j].bytes
    BY <2>0
  <2> DEFINE g == [j \in 0..(n + 1) |-> IF j <= n THEN f[j] ELSE f[n] + lines[n + 1].bytes]
  <2>2. g \in [0..(n + 1) -> Nat]
    BY <1>0
  <2>3. g[0] = 0
    BY <2>1
  <2>4. \A j \in 1..(n + 1) : g[j] = g[j - 1] + lines[j].bytes
    BY <2>1
  <2> HIDE DEF g
  <2> QED BY <2>2, <2>3, <2>4
<1> HIDE DEF S
<1>3. Len(lines) \in S
  BY <1>1, <1>2, Induct
<1>4. PICK f \in [0..Len(lines) -> Nat] :
        f[0] = 0 /\ \A j \in 1..Len(lines) : f[j] = f[j - 1] + lines[j].bytes
  BY <1>3 DEF S
<1>5. f = [j \in 0..Len(lines) |-> IF j = 0 THEN 0 ELSE f[j - 1] + lines[j].bytes]
  BY <1>4
<1> QED BY <1>5

(* So EndOf counts as its recursion says, and counts bytes.                *)
LEMMA EndSteps ==
  ASSUME NEW lines \in Seq(FileLine)
  PROVE  /\ EndOf(lines, 0) = 0
         /\ \A n \in 1..Len(lines) : EndOf(lines, n) = EndOf(lines, n - 1) + lines[n].bytes
         /\ \A n \in 0..Len(lines) : EndOf(lines, n) \in Nat
<1> DEFINE e == CHOOSE f : f = [j \in 0..Len(lines) |-> IF j = 0 THEN 0 ELSE f[j - 1] + lines[j].bytes]
<1>1. e = [j \in 0..Len(lines) |-> IF j = 0 THEN 0 ELSE e[j - 1] + lines[j].bytes]
  BY EndExists
<1>2. \A n \in 0..Len(lines) : EndOf(lines, n) = e[n]
  BY DEF EndOf
<1> HIDE DEF e
<1>3. e[0] = 0 /\ \A n \in 1..Len(lines) : e[n] = e[n - 1] + lines[n].bytes
  BY <1>1
<1>4. \A j \in 1..Len(lines) : lines[j].bytes \in Nat
  BY LineBytes
<1> DEFINE S == {n \in Nat : n <= Len(lines) => e[n] \in Nat}
<1>5. Nat \subseteq S
  <2>1. 0 \in S
    BY <1>3
  <2>2. ASSUME NEW n \in Nat, n \in S PROVE n + 1 \in S
    <3>1. CASE n + 1 <= Len(lines)
      <4>1. e[n] \in Nat /\ lines[n + 1].bytes \in Nat
        BY <1>4, <2>2, <3>1
      <4>2. e[n + 1] = e[n] + lines[n + 1].bytes
        BY <1>3, <3>1
      <4> QED BY <4>1, <4>2
    <3> QED BY <3>1
  <2> HIDE DEF S
  <2> QED BY <2>1, <2>2, Induct
<1>6. \A n \in 0..Len(lines) : e[n] \in Nat
  BY <1>5
<1> QED BY <1>2, <1>3, <1>6

(* Lines written behind other lines do not move those, and are moved by    *)
(* their size.                                                             *)
LEMMA EndOfBoth ==
  ASSUME NEW s \in Seq(FileLine), NEW t \in Seq(FileLine)
  PROVE  /\ s \o t \in Seq(FileLine) /\ Len(s \o t) = Len(s) + Len(t)
         /\ \A n \in 0..Len(s) : EndOf(s \o t, n) = EndOf(s, n)
         /\ \A n \in 0..Len(t) : EndOf(s \o t, Len(s) + n) = SizeOf(s) + EndOf(t, n)
         /\ SizeOf(s \o t) = SizeOf(s) + SizeOf(t)
<1> DEFINE u == s \o t
<1>1. /\ u \in Seq(FileLine) /\ Len(u) = Len(s) + Len(t)
      /\ \A i \in 1..Len(s) : u[i] = s[i]
      /\ \A i \in 1..Len(t) : u[Len(s) + i] = t[i]
  OBVIOUS
<1> HIDE DEF u
<1>2. Len(s) \in Nat /\ Len(t) \in Nat
  OBVIOUS
<1> DEFINE A == {n \in Nat : n <= Len(s) => EndOf(u, n) = EndOf(s, n)}
           B == {n \in Nat : n <= Len(t) => EndOf(u, Len(s) + n) = SizeOf(s) + EndOf(t, n)}
<1>3. Nat \subseteq A
  <2>1. 0 \in A
    BY <1>1, EndSteps
  <2>2. ASSUME NEW n \in Nat, n \in A PROVE n + 1 \in A
    <3>1. CASE n + 1 <= Len(s)
      <4>1. EndOf(u, n + 1) = EndOf(u, n) + u[n + 1].bytes
        <5>1. n + 1 \in 1..Len(u) /\ (n + 1) - 1 = n
          BY <1>1, <1>2, <3>1
        <5>2. EndOf(u, n + 1) = EndOf(u, (n + 1) - 1) + u[n + 1].bytes
          BY <1>1, <5>1, EndSteps
        <5> QED BY <5>1, <5>2
      <4>2. EndOf(s, n + 1) = EndOf(s, n) + s[n + 1].bytes
        <5>1. n + 1 \in 1..Len(s) /\ (n + 1) - 1 = n
          BY <1>1, <1>2, <3>1
        <5>2. EndOf(s, n + 1) = EndOf(s, (n + 1) - 1) + s[n + 1].bytes
          BY <1>1, <5>1, EndSteps
        <5> QED BY <5>1, <5>2
      <4>3. u[n + 1] = s[n + 1] /\ EndOf(u, n) = EndOf(s, n)
        BY <1>1, <1>2, <2>2, <3>1
      <4> QED BY <4>1, <4>2, <4>3
    <3> QED BY <3>1, <1>2
  <2> HIDE DEF A
  <2> QED BY <2>1, <2>2, Induct
<1>4. \A n \in 0..Len(s) : EndOf(u, n) = EndOf(s, n)
  BY <1>3
<1>5. SizeOf(s) \in Nat /\ EndOf(u, Len(s)) = SizeOf(s)
  BY <1>2, <1>4, EndSteps DEF SizeOf
<1>6. Nat \subseteq B
  <2>1. 0 \in B
    BY <1>2, <1>5, EndSteps
  <2>2. ASSUME NEW n \in Nat, n \in B PROVE n + 1 \in B
    <3>1. CASE n + 1 <= Len(t)
      <4>1. EndOf(u, Len(s) + (n + 1)) = EndOf(u, Len(s) + n) + u[Len(s) + (n + 1)].bytes
        <5>1. Len(s) + (n + 1) \in 1..Len(u) /\ (Len(s) + (n + 1)) - 1 = Len(s) + n
          BY <1>1, <1>2, <3>1
        <5>2. EndOf(u, Len(s) + (n + 1)) = EndOf(u, (Len(s) + (n + 1)) - 1) + u[Len(s) + (n + 1)].bytes
          BY <1>1, <5>1, EndSteps
        <5> QED BY <5>1, <5>2
      <4>2. EndOf(t, n + 1) = EndOf(t, n) + t[n + 1].bytes
        <5>1. n + 1 \in 1..Len(t) /\ (n + 1) - 1 = n
          BY <1>1, <1>2, <3>1
        <5>2. EndOf(t, n + 1) = EndOf(t, (n + 1) - 1) + t[n + 1].bytes
          BY <1>1, <5>1, EndSteps
        <5> QED BY <5>1, <5>2
      <4>3. u[Len(s) + (n + 1)] = t[n + 1] /\ EndOf(u, Len(s) + n) = SizeOf(s) + EndOf(t, n)
        BY <1>1, <1>2, <2>2, <3>1
      <4>4. EndOf(t, n) \in Nat /\ t[n + 1].bytes \in Nat
        BY <1>2, <3>1, EndSteps, LineBytes
      <4> QED BY <1>5, <4>1, <4>2, <4>3, <4>4
    <3> QED BY <3>1, <1>2
  <2> HIDE DEF B
  <2> QED BY <2>1, <2>2, Induct
<1>7. \A n \in 0..Len(t) : EndOf(u, Len(s) + n) = SizeOf(s) + EndOf(t, n)
  BY <1>6
<1>8. SizeOf(u) = SizeOf(s) + SizeOf(t)
  BY <1>1, <1>2, <1>7 DEF SizeOf
<1> QED BY <1>1, <1>4, <1>7, <1>8 DEF u

(* The size of two lists of lines, one behind the other.                   *)
LEMMA SizeOfBoth ==
  ASSUME NEW s \in Seq(FileLine), NEW t \in Seq(FileLine)
  PROVE  SizeOf(s \o t) = SizeOf(s) + SizeOf(t)
BY EndOfBoth

(* Only the empty file has no bytes.                                       *)
LEMMA EndGrows ==
  ASSUME NEW lines \in Seq(FileLine)
  PROVE  SizeOf(lines) \in Nat /\ (lines # << >> => SizeOf(lines) > 0)
<1>1. Len(lines) \in Nat /\ (lines # << >> => Len(lines) \in 1..Len(lines))
  OBVIOUS
<1>2. SizeOf(lines) \in Nat
  BY <1>1, EndSteps DEF SizeOf
<1>3. ASSUME lines # << >> PROVE SizeOf(lines) > 0
  <2>1. EndOf(lines, Len(lines)) = EndOf(lines, Len(lines) - 1) + lines[Len(lines)].bytes
    BY <1>1, <1>3, EndSteps
  <2>2. EndOf(lines, Len(lines) - 1) \in Nat /\ lines[Len(lines)].bytes \in Nat \ {0}
    BY <1>1, <1>3, EndSteps, LineBytes
  <2> QED BY <2>1, <2>2 DEF SizeOf
<1> QED BY <1>2, <1>3

(* A file of one line.                                                     *)
LEMMA SizeOfOne ==
  ASSUME NEW line \in FileLine
  PROVE  <<line>> \in Seq(FileLine) /\ SizeOf(<<line>>) = line.bytes
<1> DEFINE one == <<line>>
<1>1. one \in Seq(FileLine) /\ Len(one) = 1 /\ one[1] = line
  OBVIOUS
<1>2. line.bytes \in Nat
  BY DEF FileLine
<1> HIDE DEF one
<1>3. EndOf(one, 0) = 0 /\ EndOf(one, 1) = EndOf(one, 1 - 1) + one[1].bytes
  BY <1>1, EndSteps
<1>4. SizeOf(one) = line.bytes
  BY <1>1, <1>2, <1>3 DEF SizeOf
<1> QED BY <1>1, <1>4 DEF one

(* A file is its first n lines and the others.                             *)
LEMMA SizeSplit ==
  ASSUME NEW lines \in Seq(FileLine), NEW n \in 0..Len(lines)
  PROVE  /\ SubSeq(lines, 1, n) \in Seq(FileLine) /\ Len(SubSeq(lines, 1, n)) = n
         /\ SubSeq(lines, n + 1, Len(lines)) \in Seq(FileLine)
         /\ Len(SubSeq(lines, n + 1, Len(lines))) = Len(lines) - n
         /\ SizeOf(SubSeq(lines, 1, n)) = EndOf(lines, n)
         /\ SizeOf(SubSeq(lines, n + 1, Len(lines))) = SizeOf(lines) - EndOf(lines, n)
<1> DEFINE front == SubSeq(lines, 1, n)  rest == SubSeq(lines, n + 1, Len(lines))
<1>0. Len(lines) \in Nat
  OBVIOUS
<1>1. /\ front \in Seq(FileLine) /\ Len(front) = n
      /\ \A i \in 1..n : front[i] = lines[i]
  BY <1>0, SubSeqProperties
<1>2. /\ rest \in Seq(FileLine) /\ Len(rest) = Len(lines) - n
      /\ \A i \in 1..(Len(lines) - n) : rest[i] = lines[n + i]
  BY <1>0, SubSeqProperties
<1> HIDE DEF front, rest
<1>3. front \o rest = lines
  <2>1. front \o rest \in Seq(FileLine) /\ Len(front \o rest) = Len(lines)
    BY <1>0, <1>1, <1>2
  <2>2. \A i \in 1..Len(lines) : (front \o rest)[i] = lines[i]
    <3> SUFFICES ASSUME NEW i \in 1..Len(lines) PROVE (front \o rest)[i] = lines[i]
      OBVIOUS
    <3>1. CASE i <= n
      BY <1>1, <1>2, <3>1
    <3>2. CASE i > n
      <4>1. i - n \in 1..(Len(lines) - n) /\ n + (i - n) = i
        BY <1>0, <3>2
      <4>2. (front \o rest)[n + (i - n)] = rest[i - n]
        BY <1>1, <1>2, <4>1
      <4> QED BY <1>2, <4>1, <4>2
    <3>3. i <= n \/ i > n
      BY <1>0
    <3> QED BY <3>1, <3>2, <3>3, Zenon
  <2> QED BY <2>1, <2>2, SeqEqual
<1>4. EndOf(lines, n) = EndOf(front, n) /\ SizeOf(lines) = SizeOf(front) + SizeOf(rest)
  <2>1. \A j \in 0..Len(front) : EndOf(front \o rest, j) = EndOf(front, j)
    BY <1>1, <1>2, EndOfBoth
  <2>2. SizeOf(front \o rest) = SizeOf(front) + SizeOf(rest)
    BY <1>1, <1>2, EndOfBoth
  <2> QED BY <1>0, <1>1, <1>3, <2>1, <2>2
<1>5. SizeOf(front) \in Nat /\ SizeOf(rest) \in Nat
  BY <1>1, <1>2, EndGrows
<1>6. SizeOf(front) = EndOf(front, n)
  BY <1>1 DEF SizeOf
<1>7. SizeOf(rest) = SizeOf(lines) - EndOf(lines, n)
  BY <1>4, <1>5, <1>6
<1> QED BY <1>1, <1>2, <1>4, <1>6, <1>7 DEF front, rest

(* What lies behind the b bytes written over the front are the other       *)
(* bytes, whole lines but for the first: Cut chooses a line that exists.   *)
LEMMA CutKeepsTheRest ==
  ASSUME NEW lines \in Seq(FileLine), NEW b \in Nat
  PROVE  /\ Cut(lines, b) \in Seq(FileLine)
         /\ SizeOf(Cut(lines, b)) = IF SizeOf(lines) <= b THEN 0 ELSE SizeOf(lines) - b
<1>0. Len(lines) \in Nat
  OBVIOUS
<1> DEFINE Gone(n) == /\ EndOf(lines, n) <= b
                      /\ n = Len(lines) \/ EndOf(lines, n + 1) > b
           S == {n \in 0..Len(lines) : n = Len(lines) \/ EndOf(lines, n + 1) > b}
<1>1. \E n \in 0..Len(lines) : Gone(n)
  <2>1. S \in SUBSET Nat /\ S # {}
    BY <1>0
  <2>2. PICK n \in S : \A m \in S : n <= m
    BY <2>1, Least
  <2>3. EndOf(lines, n) <= b
    <3>1. CASE n = 0
      BY <3>1, EndSteps
    <3>2. CASE n > 0
      <4>0. n - 1 \in 0..Len(lines) /\ ~(n <= n - 1) /\ n - 1 # Len(lines) /\ (n - 1) + 1 = n
        BY <1>0, <3>2
      <4>1. n - 1 \notin S
        <5> HIDE DEF S
        <5> QED BY <2>2, <4>0
      <4>2. ~(EndOf(lines, n) > b)
        <5>1. ~(EndOf(lines, (n - 1) + 1) > b)
          BY <4>0, <4>1
        <5> QED BY <4>0, <5>1
      <4>3. EndOf(lines, n) \in Nat
        BY <2>1, EndSteps
      <4> QED BY <4>2, <4>3
    <3> QED BY <2>1, <3>1, <3>2
  <2> QED BY <2>2, <2>3
<1> DEFINE gone == CHOOSE n \in 0..Len(lines) : Gone(n)
           over == b - EndOf(lines, gone)
           rest == SubSeq(lines, gone + 1, Len(lines))
<1>2. gone \in 0..Len(lines) /\ Gone(gone)
  <2> HIDE DEF Gone
  <2> QED BY <1>1
<1>3. Cut(lines, b) = IF over = 0 \/ rest = << >> THEN rest
                      ELSE <<[text |-> Fragment, bytes |-> Head(rest).bytes - over]>> \o Tail(rest)
  BY DEF Cut
<1> HIDE DEF gone
<1>4. /\ rest \in Seq(FileLine) /\ Len(rest) = Len(lines) - gone
      /\ SizeOf(rest) = SizeOf(lines) - EndOf(lines, gone)
  BY <1>2, SizeSplit
<1>5. EndOf(lines, gone) \in Nat /\ over \in Nat /\ SizeOf(lines) \in Nat /\ SizeOf(rest) \in Nat
  <2>1. EndOf(lines, gone) \in Nat
    BY <1>2, EndSteps
  <2>2. over \in Nat
    BY <1>2, <2>1
  <2>3. SizeOf(lines) \in Nat /\ SizeOf(rest) \in Nat
    BY <1>4, EndGrows
  <2> QED BY <2>1, <2>2, <2>3
<1>6. CASE rest = << >>
  <2>1. gone = Len(lines) /\ EndOf(lines, gone) = SizeOf(lines)
    <3>1. Len(rest) = 0
      <4> HIDE DEF rest
      <4> QED BY <1>6
    <3>2. gone = Len(lines)
      <4> HIDE DEF rest
      <4> QED BY <1>0, <1>2, <1>4, <3>1
    <3> QED BY <3>2 DEF SizeOf
  <2>2. SizeOf(rest) = 0
    BY <1>4, <1>5, <2>1
  <2> QED BY <1>2, <1>3, <1>4, <1>5, <1>6, <2>1, <2>2
<1>7. CASE over = 0 /\ rest # << >>
  <2>1. SizeOf(rest) > 0
    BY <1>4, <1>7, EndGrows
  <2> QED BY <1>3, <1>4, <1>5, <1>7, <2>1
<1>8. CASE over # 0 /\ rest # << >>
  <2>1. gone + 1 \in 1..Len(lines) /\ EndOf(lines, gone + 1) > b /\ (gone + 1) - 1 = gone
    BY <1>0, <1>2, <1>4, <1>8
  <2>2. EndOf(lines, gone + 1) = EndOf(lines, gone) + lines[gone + 1].bytes
    <3>1. EndOf(lines, gone + 1) = EndOf(lines, (gone + 1) - 1) + lines[gone + 1].bytes
      BY <2>1, EndSteps
    <3> QED BY <2>1, <3>1
  <2>3. Head(rest) = lines[gone + 1] /\ Head(rest) \in FileLine /\ Tail(rest) \in Seq(FileLine)
    <3>1. rest[1] = lines[gone + 1]
      BY <1>0, <1>2, <2>1
    <3> HIDE DEF rest
    <3> QED BY <1>4, <1>8, <3>1
  <2> DEFINE piece == [text |-> Fragment, bytes |-> Head(rest).bytes - over]
  <2>4. lines[gone + 1].bytes \in Nat \ {0}
    BY <2>1, LineBytes
  <2>5. piece.bytes \in Nat \ {0} /\ piece \in FileLine
    <3>1. lines[gone + 1].bytes - over \in Nat \ {0}
      <4> DEFINE x == EndOf(lines, gone)  y == EndOf(lines, gone + 1)  z == lines[gone + 1].bytes
      <4>1. x \in Nat /\ z \in Nat /\ y = x + z /\ y > b /\ b - x \in Nat
        BY <1>5, <2>1, <2>2, <2>4
      <4> HIDE DEF x, y, z
      <4>2. z - (b - x) \in Nat \ {0}
        BY <4>1
      <4> QED BY <4>2 DEF x, z
    <3>2. piece.bytes \in Nat \ {0}
      BY <2>3, <3>1
    <3>3. piece.text \in Pixels \union {Header, Fragment}
      OBVIOUS
    <3> QED BY <3>2, <3>3 DEF FileLine
  <2>6. SizeOf(<<piece>>) = piece.bytes /\ <<piece>> \in Seq(FileLine)
    <3> HIDE DEF piece
    <3> QED BY <2>5, SizeOfOne
  <2>7. SizeOf(rest) = Head(rest).bytes + SizeOf(Tail(rest)) /\ SizeOf(Tail(rest)) \in Nat
    <3>1. <<Head(rest)>> \in Seq(FileLine) /\ rest = <<Head(rest)>> \o Tail(rest)
      <4> HIDE DEF rest
      <4> QED BY <1>4, <1>8, <2>3
    <3>2. SizeOf(<<Head(rest)>>) = Head(rest).bytes
      BY <2>3, SizeOfOne
    <3>3. SizeOf(<<Head(rest)>> \o Tail(rest)) = SizeOf(<<Head(rest)>>) + SizeOf(Tail(rest))
      BY <2>3, <3>1, EndOfBoth
    <3> QED BY <2>3, <3>1, <3>2, <3>3, EndGrows
  <2>8. /\ <<piece>> \o Tail(rest) \in Seq(FileLine)
        /\ SizeOf(<<piece>> \o Tail(rest)) = piece.bytes + SizeOf(Tail(rest))
    BY <2>3, <2>6, EndOfBoth
  <2>9. piece.bytes = Head(rest).bytes - over /\ Head(rest).bytes \in Nat
    BY <2>3, <2>4
  <2>10. Cut(lines, b) = <<piece>> \o Tail(rest)
    BY <1>3, <1>8
  <2> HIDE DEF piece, rest
  <2>11. SizeOf(Cut(lines, b)) = SizeOf(rest) - over /\ SizeOf(Cut(lines, b)) > 0
    BY <1>5, <2>5, <2>7, <2>8, <2>9, <2>10
  <2>12. SizeOf(rest) - over = SizeOf(lines) - b
    BY <1>4, <1>5
  <2> QED BY <1>5, <2>8, <2>10, <2>11, <2>12
<1> QED BY <1>6, <1>7, <1>8

(* Writing a line behind the first n leaves those alone, and the file is   *)
(* as long as it was, or now ends with the line (Utilities.cpp:22-29).     *)
LEMMA OverwriteKeeps ==
  ASSUME NEW lines \in Seq(FileLine), NEW n \in 0..Len(lines), NEW line \in FileLine
  PROVE  LET file == Overwrite(lines, n, line)
             end == EndOf(lines, n) + line.bytes
         IN  /\ file \in Seq(FileLine) /\ Len(file) > n
             /\ \A i \in 1..n : file[i] = lines[i]
             /\ file[n + 1] = line
             /\ EndOf(file, n + 1) = end
             /\ SizeOf(file) = IF SizeOf(lines) <= end THEN end ELSE SizeOf(lines)
<1> DEFINE front == SubSeq(lines, 1, n)  rest == SubSeq(lines, n + 1, Len(lines))
           tail == Cut(rest, line.bytes)
           end == EndOf(lines, n) + line.bytes
           file == (front \o <<line>>) \o tail
<1>0. Len(lines) \in Nat /\ line.bytes \in Nat
  BY DEF FileLine
<1>1. /\ front \in Seq(FileLine) /\ Len(front) = n /\ rest \in Seq(FileLine)
      /\ SizeOf(front) = EndOf(lines, n) /\ SizeOf(rest) = SizeOf(lines) - EndOf(lines, n)
  BY SizeSplit
<1>2. \A i \in 1..n : front[i] = lines[i]
  BY <1>0
<1>3. tail \in Seq(FileLine) /\ SizeOf(tail) = IF SizeOf(rest) <= line.bytes THEN 0 ELSE SizeOf(rest) - line.bytes
  BY <1>0, <1>1, CutKeepsTheRest
<1>4. <<line>> \in Seq(FileLine) /\ SizeOf(<<line>>) = line.bytes
  BY SizeOfOne
<1>5. Overwrite(lines, n, line) = file
  BY DEF Overwrite
<1> HIDE DEF front, rest, tail
<1> DEFINE top == front \o <<line>>
<1>6. /\ top \in Seq(FileLine) /\ Len(top) = n + 1 /\ top[n + 1] = line
      /\ \A i \in 1..n : top[i] = lines[i]
  BY <1>1, <1>2
<1>7. SizeOf(top) = end
  <2>1. SizeOf(front \o <<line>>) = SizeOf(front) + SizeOf(<<line>>)
    BY <1>1, <1>4, SizeOfBoth
  <2> QED BY <1>1, <1>4, <2>1
<1> HIDE DEF top
<1>8. /\ file \in Seq(FileLine) /\ Len(file) = Len(top) + Len(tail)
      /\ \A i \in 1..(n + 1) : file[i] = top[i]
  BY <1>3, <1>6 DEF top
<1>9. EndOf(file, n + 1) = EndOf(top, n + 1) /\ SizeOf(file) = SizeOf(top) + SizeOf(tail)
  <2>1. \A j \in 0..Len(top) : EndOf(top \o tail, j) = EndOf(top, j)
    BY <1>3, <1>6, EndOfBoth
  <2>2. SizeOf(top \o tail) = SizeOf(top) + SizeOf(tail)
    BY <1>3, <1>6, SizeOfBoth
  <2>3. file = top \o tail /\ n + 1 \in 0..Len(top)
    BY <1>6 DEF top
  <2> QED BY <2>1, <2>2, <2>3
<1>10. EndOf(lines, n) \in Nat /\ SizeOf(lines) \in Nat /\ SizeOf(rest) \in Nat
  BY <1>1, EndSteps, EndGrows
<1> HIDE DEF file
<1>11. SizeOf(file) = IF SizeOf(lines) <= end THEN end ELSE SizeOf(lines)
  BY <1>0, <1>1, <1>3, <1>7, <1>9, <1>10
<1>12. EndOf(file, n + 1) = end
  BY <1>6, <1>7, <1>9 DEF SizeOf
<1>13. Len(file) > n /\ file[n + 1] = line /\ \A i \in 1..n : file[i] = lines[i]
  BY <1>3, <1>6, <1>8
<1> QED BY <1>5, <1>8, <1>11, <1>12, <1>13

-----------------------------------------------------------------------------
(* What SaveKeypoints writes are lines (Utilities.cpp:26-29).              *)
LEMMA LinesAreLines ==
  /\ HeaderLine \in FileLine
  /\ \A t \in Pixels : KpLine(t) \in FileLine
BY PhotosOK DEF FileLine, HeaderLine, KpLine

(* The inductive invariant of SaveKeypoints: the file is a list of lines   *)
(* from its creation on, and a save ends when all its keypoints are in it. *)
SaveInv ==
  /\ kpFile = None \/ kpFile \in Seq(FileLine)
  /\ saver \in {"header", "write", "saved"} => kpFile \in Seq(FileLine)
  /\ saver = "saved" => k = Len(kps)
  /\ SavedIsPrefix

(* It holds when nothing is written yet.                                   *)
LEMMA SaveInvInit == FilesInit => SaveInv
BY DEF FilesInit, SaveInv, SavedIsPrefix

(* Every line is written behind those that are already there: this needs   *)
(* the numbers of lines to be right, not the contents of the old file.     *)
LEMMA SaveInvStep == FilesTypeOK /\ SaveInv /\ [FilesNext]_fileVars => SaveInv'
<1> SUFFICES ASSUME FilesTypeOK, SaveInv, [FilesNext]_fileVars PROVE SaveInv'
  OBVIOUS
<1>1. CASE UNCHANGED saverVars
  BY <1>1 DEF SaveInv, SavedIsPrefix, saverVars
<1>2. CASE FindKeypoints \/ LeaveSaver
  BY <1>2 DEF FindKeypoints, LeaveSaver, SaveInv, SavedIsPrefix
<1>3. CASE CreateNewFile
  <2>1. << >> \in Seq(FileLine)
    OBVIOUS
  <2> QED BY <1>3, <2>1 DEF CreateNewFile, SaveInv, SavedIsPrefix
<1>4. CASE WriteHeader
  <2>1. kpFile \in Seq(FileLine) /\ 0 \in 0..Len(kpFile)
    BY <1>4 DEF WriteHeader, SaveInv
  <2>2. /\ kpFile' \in Seq(FileLine) /\ Len(kpFile') > 0
        /\ kpFile'[0 + 1] = HeaderLine
    BY <1>4, <2>1, LinesAreLines, OverwriteKeeps DEF WriteHeader
  <2>3. saver' = "write" /\ k' = 0
    BY <1>4 DEF WriteHeader
  <2> QED BY <2>2, <2>3 DEF SaveInv, SavedIsPrefix
<1>5. CASE WriteKeypoint
  <2>1. /\ kpFile \in Seq(FileLine) /\ k \in Nat /\ Len(kpFile) \in Nat /\ Len(kpFile) > k
        /\ kpFile[1] = HeaderLine /\ \A j \in 1..k : kpFile[j + 1] = KpLine(kps[j])
        /\ k + 1 \in 1..Len(kps) /\ kps \in Seq(Pixels)
    BY <1>5 DEF WriteKeypoint, SaveInv, SavedIsPrefix, FilesTypeOK
  <2>2. k + 1 \in 0..Len(kpFile) /\ KpLine(kps[k + 1]) \in FileLine
    BY <2>1, LinesAreLines
  <2>3. /\ kpFile' \in Seq(FileLine) /\ Len(kpFile') > k + 1
        /\ \A i \in 1..(k + 1) : kpFile'[i] = kpFile[i]
        /\ kpFile'[(k + 1) + 1] = KpLine(kps[k + 1])
    BY <1>5, <2>1, <2>2, OverwriteKeeps DEF WriteKeypoint
  <2>4. k' = k + 1 /\ kps' = kps /\ saver' = "write"
    BY <1>5 DEF WriteKeypoint
  <2>5. kpFile'[1] = HeaderLine
    BY <2>1, <2>3
  <2>6. ASSUME NEW j \in 1..(k + 1) PROVE kpFile'[j + 1] = KpLine(kps[j])
    <3>1. CASE j = k + 1
      BY <2>3, <3>1
    <3>2. CASE j # k + 1
      <4>1. j \in 1..k /\ j + 1 \in 1..(k + 1)
        BY <2>1, <3>2
      <4> QED BY <2>1, <2>3, <4>1
    <3> QED BY <3>1, <3>2
  <2>7. SavedIsPrefix'
    <3>1. Len(kpFile') > k'
      BY <2>3, <2>4
    <3>2. \A j \in 1..k' : kpFile'[j + 1] = KpLine(kps'[j])
      BY <2>4, <2>6
    <3> QED BY <2>5, <3>1, <3>2 DEF SavedIsPrefix, KpLine, HeaderLine
  <2> QED BY <2>3, <2>4, <2>7 DEF SaveInv
<1>6. CASE CloseKeypoints
  BY <1>6 DEF CloseKeypoints, SaveInv, SavedIsPrefix
<1>7. CASE UNCHANGED fileVars
  BY <1>1, <1>7 DEF fileVars
<1>8. CASE ReplacePhoto \/ TruncateCamera \/ WriteA \/ WriteR \/ WriteT
           \/ ReadKeypoints \/ LookUp \/ WritePoints \/ LeaveScript
  BY <1>1, <1>8 DEF ReplacePhoto, TruncateCamera, WriteA, WriteR, WriteT, WriteCamera,
     ReadKeypoints, LookUp, WritePoints, LeaveScript
<1> QED BY <1>2, <1>3, <1>4, <1>5, <1>6, <1>7, <1>8 DEF FilesNext

(* So it holds always.                                                     *)
LEMMA SaveInvAlways == FilesSpec => [](FilesTypeOK /\ SaveInv)
<1>1. FilesTypeOK /\ SaveInv /\ [FilesNext]_fileVars => (FilesTypeOK /\ SaveInv)'
  BY FilesTypeStep, SaveInvStep
<1> QED BY <1>1, FilesTypeInit, SaveInvInit, PTL DEF FilesSpec

(* While keypoints are saved, and once they are, the file begins with the  *)
(* header and the keypoints written so far, whatever an earlier or a       *)
(* killed run left in it (Utilities.cpp:19-30).                            *)
THEOREM SavedAlwaysPrefix == FilesSpec => []SavedIsPrefix
<1>1. SaveInv => SavedIsPrefix
  BY DEF SaveInv
<1> QED BY <1>1, SaveInvAlways, PTL

(* The file exists and has n bytes or more.                                *)
Holds(n) == kpFile \in Seq(FileLine) /\ SizeOf(kpFile) >= n

(* No step of any program makes the file shorter.                          *)
LEMMA HoldsStep ==
  ASSUME NEW n \in Nat
  PROVE  FilesTypeOK /\ SaveInv /\ Holds(n) /\ [FilesNext]_fileVars => Holds(n)'
<1> SUFFICES ASSUME FilesTypeOK, SaveInv, Holds(n), [FilesNext]_fileVars PROVE Holds(n)'
  OBVIOUS
<1>1. CASE UNCHANGED kpFile
  BY <1>1 DEF Holds
<1>2. CASE CreateNewFile
  BY <1>1, <1>2, NoneIsNoFile DEF CreateNewFile, Holds
<1>3. ASSUME NEW i \in 0..Len(kpFile), NEW line \in FileLine, kpFile' = Overwrite(kpFile, i, line)
      PROVE  Holds(n)'
  <2>1. /\ kpFile' \in Seq(FileLine)
        /\ SizeOf(kpFile') = IF SizeOf(kpFile) <= EndOf(kpFile, i) + line.bytes
                             THEN EndOf(kpFile, i) + line.bytes ELSE SizeOf(kpFile)
    BY <1>3, OverwriteKeeps DEF Holds
  <2>2. SizeOf(kpFile) \in Nat /\ EndOf(kpFile, i) \in Nat /\ line.bytes \in Nat
    BY EndSteps, EndGrows DEF Holds, FileLine
  <2>3. SizeOf(kpFile') >= n
    BY <2>1, <2>2 DEF Holds
  <2> QED BY <2>1, <2>3 DEF Holds
<1>4. CASE WriteHeader
  <2>1. 0 \in 0..Len(kpFile) /\ HeaderLine \in FileLine
    BY LinesAreLines DEF Holds
  <2> QED BY <1>3, <1>4, <2>1 DEF WriteHeader
<1>5. CASE WriteKeypoint
  <2>1. k + 1 \in 0..Len(kpFile) /\ KpLine(kps[k + 1]) \in FileLine
    <3>1. /\ Len(kpFile) \in Nat /\ Len(kpFile) > k /\ k \in Nat
          /\ k + 1 \in 1..Len(kps) /\ kps \in Seq(Pixels)
      BY <1>5 DEF WriteKeypoint, SaveInv, SavedIsPrefix, FilesTypeOK, Holds
    <3> QED BY <3>1, LinesAreLines
  <2> QED BY <1>3, <1>5, <2>1 DEF WriteKeypoint
<1>6. CASE FindKeypoints \/ LeaveSaver \/ CloseKeypoints
  BY <1>1, <1>6 DEF FindKeypoints, LeaveSaver, CloseKeypoints
<1>7. CASE UNCHANGED fileVars
  BY <1>1, <1>7 DEF fileVars, saverVars
<1>8. CASE ReplacePhoto \/ TruncateCamera \/ WriteA \/ WriteR \/ WriteT
           \/ ReadKeypoints \/ LookUp \/ WritePoints \/ LeaveScript
  BY <1>1, <1>8 DEF ReplacePhoto, TruncateCamera, WriteA, WriteR, WriteT, WriteCamera,
     ReadKeypoints, LookUp, WritePoints, LeaveScript, saverVars
<1> QED BY <1>2, <1>4, <1>5, <1>6, <1>7, <1>8 DEF FilesNext

(* keypoints.txt never gets shorter: it is created once, and opened with   *)
(* in | out from then on, which does not truncate (Utilities.cpp:21-22).   *)
THEOREM FileNeverShrinks ==
  ASSUME NEW n \in Nat
  PROVE  FilesSpec => [](Holds(n) => []Holds(n))
<1>1. FilesTypeOK /\ SaveInv /\ Holds(n) /\ [FilesNext]_fileVars => Holds(n)'
  BY HoldsStep
<1>2. FilesSpec => [](FilesTypeOK /\ SaveInv) /\ [][FilesNext]_fileVars
  BY SaveInvAlways DEF FilesSpec
<1> QED BY <1>1, <1>2, PTL

(* The file that would hold the features and nothing else.                 *)
Features == <<HeaderLine>> \o [j \in 1..Len(kps) |-> KpLine(kps[j])]

(* After a save the file is the header and the keypoints of that save, and *)
(* nothing else, exactly if it is no longer than they are: what is wrong   *)
(* with a saved file is always an old end, never its front                 *)
(* (Utilities.cpp:19-30).                                                  *)
THEOREM SavedExactlyIfItFits ==
  FilesSpec => [](saver = "saved" => (KeypointsFileHoldsTheFeatures <=> SizeOf(kpFile) <= SizeOf(Features)))
<1>1. ASSUME FilesTypeOK, SaveInv, saver = "saved"
      PROVE KeypointsFileHoldsTheFeatures <=> SizeOf(kpFile) <= SizeOf(Features)
  <2> DEFINE n == k + 1
             front == SubSeq(kpFile, 1, n)
             rest == SubSeq(kpFile, n + 1, Len(kpFile))
  <2>1. /\ kpFile \in Seq(FileLine) /\ k = Len(kps) /\ kps \in Seq(Pixels) /\ k \in Nat
        /\ Len(kpFile) \in Nat /\ Len(kpFile) > k
        /\ kpFile[1] = HeaderLine /\ \A j \in 1..k : kpFile[j + 1] = KpLine(kps[j])
    BY <1>1 DEF SaveInv, SavedIsPrefix, FilesTypeOK
  <2>2. n \in 0..Len(kpFile) /\ n = k + 1
    BY <2>1
  <2>3. /\ front \in Seq(FileLine) /\ Len(front) = n
        /\ rest \in Seq(FileLine) /\ Len(rest) = Len(kpFile) - n
        /\ SizeOf(front) = EndOf(kpFile, n)
        /\ SizeOf(rest) = SizeOf(kpFile) - EndOf(kpFile, n)
    <3> HIDE DEF n
    <3> QED BY <2>1, <2>2, SizeSplit
  <2>4. \A i \in 1..n : front[i] = kpFile[i]
    BY <2>1, <2>2
  <2> DEFINE body == [j \in 1..Len(kps) |-> KpLine(kps[j])]
  <2>5. /\ body \in Seq(FileLine) /\ Len(body) = k
        /\ \A j \in 1..k : body[j] = KpLine(kps[j])
    <3>1. \A j \in 1..Len(kps) : KpLine(kps[j]) \in FileLine
      BY <2>1, LinesAreLines
    <3> QED BY <2>1, <3>1
  <2>6. Features = <<HeaderLine>> \o body
    BY DEF Features
  <2> HIDE DEF front, rest, body
  <2>7. /\ Features \in Seq(FileLine) /\ Len(Features) = k + 1 /\ Features[1] = HeaderLine
        /\ \A j \in 1..k : Features[j + 1] = body[j]
    BY <2>1, <2>5, <2>6, LinesAreLines
  <2>8. front = Features
    <3>1. \A i \in 1..Len(front) : front[i] = Features[i]
      <4> SUFFICES ASSUME NEW i \in 1..n PROVE front[i] = Features[i]
        BY <2>3
      <4>1. CASE i = 1
        BY <2>1, <2>2, <2>4, <2>7, <4>1
      <4>2. CASE i # 1
        <5>1. i - 1 \in 1..k /\ (i - 1) + 1 = i
          BY <2>1, <2>2, <4>2
        <5>2. kpFile[(i - 1) + 1] = KpLine(kps[i - 1]) /\ Features[(i - 1) + 1] = body[i - 1]
              /\ body[i - 1] = KpLine(kps[i - 1])
          BY <2>1, <2>5, <2>7, <5>1
        <5> QED BY <2>4, <5>1, <5>2
      <4> QED BY <4>1, <4>2
    <3> QED BY <2>2, <2>3, <2>7, <3>1, SeqEqual
  <2>9. SizeOf(kpFile) = SizeOf(Features) + SizeOf(rest) /\ SizeOf(rest) \in Nat /\ SizeOf(Features) \in Nat
    <3>1. SizeOf(kpFile) \in Nat /\ SizeOf(front) \in Nat /\ SizeOf(rest) \in Nat
      BY <2>1, <2>3, EndGrows
    <3> QED BY <2>3, <2>8, <3>1
  <2>10. ASSUME SizeOf(kpFile) <= SizeOf(Features) PROVE kpFile = Features
    <3>1. SizeOf(rest) = 0
      BY <2>9, <2>10
    <3>2. rest = << >>
      BY <2>3, <3>1, EndGrows
    <3>3. Len(kpFile) = n
      BY <2>1, <2>2, <2>3, <3>2
    <3>4. \A i \in 1..Len(kpFile) : kpFile[i] = Features[i]
      BY <2>3, <2>4, <2>8, <3>3
    <3> QED BY <2>1, <2>2, <2>7, <3>3, <3>4, SeqEqual
  <2>11. KeypointsFileHoldsTheFeatures <=> kpFile = Features
    BY <1>1 DEF KeypointsFileHoldsTheFeatures, Features
  <2> QED BY <2>9, <2>10, <2>11
<1> QED BY <1>1, SaveInvAlways, PTL

(* Once the file is longer than some list of lines, no later save, of      *)
(* whatever photo and however often, makes it that list again              *)
(* (Utilities.cpp:21-22).                                                  *)
THEOREM LongerFileStaysWrong ==
  ASSUME NEW lines \in Seq(FileLine)
  PROVE  FilesSpec => [](Holds(SizeOf(lines) + 1) => [](kpFile # lines))
<1>1. SizeOf(lines) \in Nat /\ SizeOf(lines) + 1 \in Nat
  BY EndGrows
<1>2. Holds(SizeOf(lines) + 1) => kpFile # lines
  BY <1>1 DEF Holds
<1>3. FilesTypeOK /\ SaveInv /\ Holds(SizeOf(lines) + 1) /\ [FilesNext]_fileVars
      => Holds(SizeOf(lines) + 1)'
  BY <1>1, HoldsStep
<1>4. FilesSpec => [](FilesTypeOK /\ SaveInv) /\ [][FilesNext]_fileVars
  BY SaveInvAlways DEF FilesSpec
<1> QED BY <1>2, <1>3, <1>4, PTL
-----------------------------------------------------------------------------
(* 3D_points.txt.  Column c of line l holds the value number 3(l-1) + c,   *)
(* and fprintf numbers the values column by column (get_3d_pts.m:40).      *)
Texts == Pixels \union {Header, Fragment}
Rows == Seq(Texts) \ {<< >>}

(* A multiple of d that is less than d away from 0 is 0.                   *)
LEMMA SmallMultiple ==
  ASSUME NEW d \in Nat \ {0}, NEW a \in Int, NEW b \in (1 - d)..(d - 1), a * d = b
  PROVE  a = 0
<1>1. CASE a >= 1
  <2>1. (a - 1) * d >= 0
    BY <1>1
  <2>2. a * d = (a - 1) * d + d
    OBVIOUS
  <2> QED BY <2>1, <2>2
<1>2. CASE a <= -1
  <2>1. (-a - 1) * d >= 0
    BY <1>2
  <2>2. a * d = -((-a - 1) * d) - d
    OBVIOUS
  <2> QED BY <2>1, <2>2
<1> QED BY <1>1, <1>2

(* Neighbours are in different rows of two or more.                        *)
LEMMA RowsDiffer ==
  ASSUME NEW n \in Nat, n >= 2, NEW m \in Nat
  PROVE  m % n # (m + 1) % n
<1> DEFINE q == m \div n  r == m % n  q2 == (m + 1) \div n  r2 == (m + 1) % n
<1>1. m = n * q + r /\ m + 1 = n * q2 + r2 /\ q \in Int /\ q2 \in Int /\ r \in Int /\ r2 \in Int
  OBVIOUS
<1> HIDE DEF q, r, q2, r2
<1>2. ASSUME r = r2 PROVE FALSE
  <2> DEFINE a == q2 - q
  <2>1. a * n = 1 /\ a \in Int
    BY <1>1, <1>2
  <2> HIDE DEF a
  <2>2. a = 0
    BY <2>1, SmallMultiple
  <2> QED BY <2>1, <2>2
<1> QED BY <1>2 DEF r, r2

(* Row and column of the value number i * n + j.                           *)
LEMMA RowAndColumn ==
  ASSUME NEW n \in Nat \ {0}, NEW i \in Nat, NEW j \in 0..(n - 1)
  PROVE  (i * n + j) \div n = i /\ (i * n + j) % n = j
<1> DEFINE v == i * n + j  q == v \div n  r == v % n
<1>1. i * n \in Nat
  OBVIOUS
<1>2. v = n * q + r /\ r \in 0..(n - 1) /\ q \in Int /\ v \in Nat
  BY <1>1
<1>3. v = i * n + j
  OBVIOUS
<1> HIDE DEF v, q, r
<1> DEFINE a == q - i
<1>4. a \in Int /\ a * n = j - r /\ j - r \in (1 - n)..(n - 1)
  BY <1>2, <1>3
<1>5. a = 0
  <2> HIDE DEF a
  <2> QED BY <1>4, SmallMultiple
<1>6. q = i /\ r = j
  BY <1>2, <1>3, <1>5
<1> QED BY <1>6 DEF v, q, r

(* Of two points or more, no printed line is one of them: its first two    *)
(* numbers are of different points (get_3d_pts.m:38-41).                   *)
LEMMA NoLineIsAPoint ==
  ASSUME NEW pts \in Rows, NEW l \in 1..Len(pts), Len(pts) >= 2
  PROVE  Printed(pts)[l][1].row # Printed(pts)[l][2].row
<1> DEFINE n == Len(pts)  m == 3 * (l - 1)
<1>1. n \in Nat /\ n >= 2 /\ m \in Nat /\ 3 * (l - 1) + 1 = m + 1 /\ 3 * (l - 1) + 2 = m + 2
      /\ (m + 1) - 1 = m /\ (m + 2) - 1 = m + 1
  BY DEF Rows
<1>2. /\ Printed(pts)[l][1] = Value(pts, m + 1)
      /\ Printed(pts)[l][2] = Value(pts, m + 2)
  BY <1>1 DEF Printed
<1>3. /\ Value(pts, m + 1).row = (((m + 1) - 1) % n) + 1
      /\ Value(pts, m + 2).row = (((m + 2) - 1) % n) + 1
  BY DEF Value
<1> HIDE DEF n, m
<1>4. m % n # (m + 1) % n
  BY <1>1, RowsDiffer
<1>5. m % n \in Int /\ (m + 1) % n \in Int
  BY <1>1
<1> QED BY <1>1, <1>2, <1>3, <1>4, <1>5

(* One point is printed as it is.                                          *)
LEMMA OnePointIsPrinted ==
  ASSUME NEW pts \in Rows, Len(pts) = 1, NEW c \in 1..3
  PROVE  Printed(pts)[1][c] = [pixel |-> pts[1], row |-> 1, axis |-> c]
<1>1. Printed(pts)[1][c] = Value(pts, 3 * (1 - 1) + c)
  BY DEF Printed
<1>2. 3 * (1 - 1) + c = c /\ (c - 1) % 1 = 0 /\ (c - 1) \div 1 = c - 1 /\ (c - 1) + 1 = c
  OBVIOUS
<1> QED BY <1>1, <1>2 DEF Value

(* Axis a of point i stands at one place of the file.                      *)
Once(file, pts, i, a) ==
  \E l \in 1..Len(pts), c \in 1..3 :
    \A m \in 1..Len(pts), d \in 1..3 :
      file[m][d] = [pixel |-> pts[i], row |-> i, axis |-> a] <=> m = l /\ d = c

(* Its number fixes its line and its column.                               *)
LEMMA CoordinatePrintedOnce ==
  ASSUME NEW pts \in Rows, NEW i \in 1..Len(pts), NEW a \in 1..3
  PROVE  Once(Printed(pts), pts, i, a)
<1> DEFINE n == Len(pts)  v == (a - 1) * n + (i - 1)
           l == (v \div 3) + 1  c == (v % 3) + 1
<1>1. n \in Nat \ {0} /\ i - 1 \in 0..(n - 1) /\ a - 1 \in 0..2 /\ a - 1 \in Nat
  BY DEF Rows
<1>2. v \div n = a - 1 /\ v % n = i - 1
  <2> HIDE DEF n
  <2> QED BY <1>1, RowAndColumn
<1>3. v \in 0..(3 * n - 1)
  <2>1. (a - 1) * n = 0 \/ (a - 1) * n = n \/ (a - 1) * n = 2 * n
    <3>1. a = 1 \/ a = 2 \/ a = 3
      OBVIOUS
    <3> QED BY <1>1, <3>1
  <2> QED BY <1>1, <2>1
<1> HIDE DEF v
<1>4. l \in 1..n /\ c \in 1..3 /\ 3 * (l - 1) + c = v + 1
  BY <1>1, <1>3
<1> HIDE DEF n, l, c
<1>5. ASSUME NEW m \in 1..n, NEW d \in 1..3
      PROVE  Printed(pts)[m][d] = [pixel |-> pts[i], row |-> i, axis |-> a] <=> m = l /\ d = c
  <2> DEFINE w == 3 * (m - 1) + (d - 1)
  <2>1. Printed(pts)[m][d] = Value(pts, w + 1) /\ w \in Nat /\ (w + 1) - 1 = w
    <3>1. 3 * (m - 1) + d = w + 1 /\ w \in Nat /\ (w + 1) - 1 = w
      BY <1>1
    <3> HIDE DEF w
    <3> QED BY <3>1 DEF Printed, n
  <2>2. Value(pts, w + 1) = [pixel |-> pts[(w % n) + 1], row |-> (w % n) + 1, axis |-> (w \div n) + 1]
    BY <2>1 DEF Value, n
  <2>3. w = v <=> m = l /\ d = c
    BY <1>1, <1>3, <1>4
  <2> HIDE DEF w
  <2>4. w = n * (w \div n) + (w % n) /\ w \div n \in Int /\ w % n \in Int
    BY <1>1, <2>1
  <2>5. v = n * (v \div n) + (v % n)
    BY <1>1, <1>3
  <2>6. ASSUME w = v PROVE Printed(pts)[m][d] = [pixel |-> pts[i], row |-> i, axis |-> a]
    <3>1. (w % n) + 1 = i /\ (w \div n) + 1 = a
      BY <1>1, <1>2, <2>6
    <3> QED BY <2>1, <2>2, <3>1
  <2>7. ASSUME Printed(pts)[m][d] = [pixel |-> pts[i], row |-> i, axis |-> a] PROVE w = v
    <3>1. (w % n) + 1 = i /\ (w \div n) + 1 = a
      BY <2>1, <2>2, <2>7
    <3>2. w % n = i - 1 /\ w \div n = a - 1
      <4> DEFINE r == w % n  q == w \div n
      <4>1. r \in Int /\ q \in Int /\ r + 1 = i /\ q + 1 = a
        BY <2>4, <3>1
      <4> HIDE DEF r, q
      <4>2. r = i - 1 /\ q = a - 1
        BY <4>1
      <4> QED BY <4>2 DEF r, q
    <3>3. w = n * (a - 1) + (i - 1) /\ v = n * (a - 1) + (i - 1)
      BY <1>2, <2>4, <2>5, <3>2
    <3> QED BY <3>3
  <2> QED BY <2>3, <2>6, <2>7
<1> QED BY <1>4, <1>5 DEF n, Once
(* The inductive invariant of the points: get_3d_pts.m works on rows that  *)
(* hold a keypoint or what is left of one, and the file holds no lines, or *)
(* those printed for some rows.                                            *)
PointsInv ==
  /\ script \in {"lookup", "points", "printed"} => rows \in Rows
  /\ ptsFile \in {None, << >>} \/ \E pts \in Rows : ptsFile = Printed(pts)
  /\ script = "printed" => ptsFile = Printed(rows)

(* It holds before any script has run.                                     *)
LEMMA PointsInvInit == FilesInit => PointsInv
BY DEF FilesInit, PointsInv

(* The rows are the texts of the lines behind the header                   *)
(* (get_3d_pts.m:22-28).                                                   *)
LEMMA PointsInvStep == SaveInv /\ PointsInv /\ [FilesNext]_fileVars => PointsInv'
<1> SUFFICES ASSUME SaveInv, PointsInv, [FilesNext]_fileVars PROVE PointsInv'
  OBVIOUS
<1>1. CASE UNCHANGED <<ptsFile, script, rows>>
  BY <1>1 DEF PointsInv, Printed, Value
<1>2. CASE ReadKeypoints
  <2> DEFINE texts == [n \in 1..Len(kpFile) - 1 |-> kpFile[n + 1].text]
  <2>1. kpFile \in Seq(FileLine) /\ ptsFile' = ptsFile
    BY <1>2 DEF ReadKeypoints, SaveInv
  <2>2. texts # << >> => texts \in Rows
    <3>1. CASE Len(kpFile) = 0
      <4>1. texts = << >>
        BY <2>1, <3>1
      <4> QED BY <4>1
    <3>2. CASE Len(kpFile) # 0
      <4>1. Len(kpFile) - 1 \in Nat
        BY <2>1, <3>2
      <4>2. \A n \in 1..Len(kpFile) - 1 : kpFile[n + 1].text \in Texts
        <5> SUFFICES ASSUME NEW n \in 1..Len(kpFile) - 1 PROVE kpFile[n + 1].text \in Texts
          OBVIOUS
        <5>1. n + 1 \in 1..Len(kpFile)
          BY <4>1
        <5>2. kpFile[n + 1] \in FileLine
          BY <2>1, <5>1
        <5> QED BY <5>2 DEF FileLine, Texts
      <4> QED BY <4>1, <4>2 DEF Rows
    <3> QED BY <3>1, <3>2
  <2>3. \/ texts # << >> /\ rows' = texts /\ script' = "lookup"
        \/ script' = "idle"
    BY <1>2 DEF ReadKeypoints
  <2> HIDE DEF texts
  <2> QED BY <2>1, <2>2, <2>3 DEF PointsInv, Printed, Value
<1>3. CASE LookUp
  BY <1>3 DEF LookUp, PointsInv, Printed, Value
<1>4. CASE WritePoints
  <2>1. rows \in Rows /\ ptsFile' = Printed(rows) /\ rows' = rows /\ script' = "printed"
    BY <1>4 DEF WritePoints, PointsInv
  <2> QED BY <2>1 DEF PointsInv, Printed, Value
<1>5. CASE LeaveScript
  BY <1>5 DEF LeaveScript, PointsInv, Printed, Value
<1>6. CASE TruncateCamera \/ WriteA \/ WriteR \/ WriteT
  BY <1>6 DEF TruncateCamera, WriteA, WriteR, WriteT, WriteCamera, PointsInv, Printed, Value
<1>7. CASE UNCHANGED fileVars
  BY <1>1, <1>7 DEF fileVars, scriptVars
<1>8. CASE \/ ReplacePhoto \/ FindKeypoints \/ CreateNewFile \/ WriteHeader
           \/ WriteKeypoint \/ CloseKeypoints \/ LeaveSaver
  BY <1>1, <1>8 DEF ReplacePhoto, FindKeypoints, CreateNewFile, WriteHeader,
     WriteKeypoint, CloseKeypoints, LeaveSaver, scriptVars
<1> QED BY <1>2, <1>3, <1>4, <1>5, <1>6, <1>7, <1>8 DEF FilesNext

(* When get_3d_pts.m has printed its points, every coordinate of every     *)
(* keypoint it has read stands in the file, at one place only: the order   *)
(* of fprintf mixes points, but loses and repeats none of their numbers    *)
(* (get_3d_pts.m:38-41).                                                   *)
EveryCoordinateOnce ==
  script = "printed" =>
    /\ Len(ptsFile) = Len(rows)
    /\ \A i \in 1..Len(rows), a \in 1..3 : Once(ptsFile, rows, i, a)

(* No coordinate is lost or printed twice (get_3d_pts.m:38-41).            *)
THEOREM CoordinatesAlwaysOnce == FilesSpec => []EveryCoordinateOnce
<1>1. PointsInv => EveryCoordinateOnce
  <2> SUFFICES ASSUME PointsInv, script = "printed"
               PROVE  /\ Len(ptsFile) = Len(rows)
                      /\ \A i \in 1..Len(rows), a \in 1..3 : Once(ptsFile, rows, i, a)
    BY DEF EveryCoordinateOnce
  <2>1. rows \in Rows /\ ptsFile = Printed(rows)
    BY DEF PointsInv
  <2>2. Len(rows) \in Nat
    BY <2>1 DEF Rows
  <2>3. Len(ptsFile) = Len(rows)
    BY <2>1, <2>2 DEF Printed
  <2> QED BY <2>1, <2>3, CoordinatePrintedOnce
<1>2. FilesTypeOK /\ SaveInv /\ PointsInv /\ [FilesNext]_fileVars
      => (FilesTypeOK /\ SaveInv /\ PointsInv)'
  BY FilesTypeStep, SaveInvStep, PointsInvStep
<1>3. FilesInit => FilesTypeOK /\ SaveInv /\ PointsInv
  BY FilesTypeInit, SaveInvInit, PointsInvInit
<1> QED BY <1>1, <1>2, <1>3, PTL DEF FilesSpec
=============================================================================
