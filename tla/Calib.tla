------------------------------- MODULE Calib -------------------------------
(***************************************************************************)
(* The calib MEX file, as called again and again in one Matlab process:    *)
(* its buffers, the error state it leaves in OpenCV, and which calls       *)
(* deliver a pose.  OpenCV is external and reports errors in one of two    *)
(* ways: versions 1 by a status that sticks, which calib was written for,  *)
(* versions 2 by exceptions, which the two binaries of calib were built    *)
(* with (calib/readme).  DEBUG is false (util.h:13).                       *)
(***************************************************************************)
EXTENDS Naturals, FiniteSets

CONSTANT MaxThrown  \* bound: calls ended by OpenCV's exceptions

ASSUME CalibOK == MaxThrown \in Nat

VARIABLES
  library,  \* how OpenCV reports errors: by a status or by exceptions
  status,   \* cvGetErrStatus
  handler,  \* where cvRedirectError points
  live,     \* live[b]: allocations of buffer b not released
  thrown,   \* calls ended by an exception of OpenCV
  step,     \* where the call is
  request,  \* its arguments
  pose,     \* cameraMatrix, rotMatrs and transVects
  failed,   \* the call's own operations failed
  reply     \* what Matlab got from the last call

process == <<library, thrown>>
vars == <<process, status, handler, live, step, request, pose, failed, reply>>

Converted == {"imgPoints", "objPoints"}                  \* new double[]
Copied == {"imagePoints", "objectPoints", "numbers"}     \* cvAlloc
Buffers == Converted \cup Copied
Unset == [set |-> FALSE]

(* fault: where validation stops; points: none, too few, or enough of them *)
(* for the method; results: how many are asked for.  max_mse is read but   *)
(* looked at in DEBUG builds only (calib.cpp:372, 421).                    *)
Methods == {"posit", "extrinsic", "guess", "calibrate"}
Requests == [fault : {"none", "early", "late"}, points : {"none", "few", "enough"},
             method : Methods, results : 0..3]

(* A pose that was found, and with which distortion. *)
Poses == [set : {TRUE}, distortion : {"zero", "garbage"}]

More(set) == [b \in Buffers |-> IF b \in set THEN live[b] + 1 ELSE live[b]]
Less(set) == [b \in Buffers |-> IF b \in set THEN live[b] - 1 ELSE live[b]]

NoReply == [kind |-> "none", pose |-> Unset]

Init ==
  /\ library \in {"status", "exception"} /\ status = "ok" /\ handler = "opencv"
  /\ live = [b \in Buffers |-> 0] /\ thrown = 0 /\ step = "idle"
  /\ request \in Requests /\ pose = Unset /\ failed = FALSE /\ reply = NoReply

(* A new Matlab process. *)
NewProcess ==
  /\ status' = "ok" /\ handler' = "opencv"
  /\ live' = [b \in Buffers |-> 0] /\ thrown' = 0 /\ step' = "idle"
  /\ pose' = Unset /\ failed' = FALSE /\ reply' = NoReply
  /\ UNCHANGED <<library, request>>

Call(r) ==
  /\ step = "idle" /\ thrown < MaxThrown
  /\ step' = "validate"
  /\ request' = r /\ pose' = Unset /\ failed' = FALSE /\ reply' = NoReply
  /\ UNCHANGED <<process, status, handler, live>>

(* Matlab is started again. *)
Restart == step = "idle" /\ NewProcess

(* catch (int err): shutdown, then mexErrMsgIdAndTxt. *)
Error(allocated) ==
  /\ live' = Less(allocated)
  /\ step' = "idle" /\ reply' = [kind |-> "error", pose |-> Unset]

(* Sizes and the two lists of points are checked before any allocation.    *)
Validate ==
  /\ step = "validate"
  /\ IF request.fault = "early" THEN Error({})
     ELSE live' = More(Converted) /\ step' = "arguments" /\ UNCHANGED reply
  /\ UNCHANGED <<process, status, handler, request, pose, failed>>

(* The camera, the method, its guess and max_mse are checked after. *)
Arguments ==
  /\ step = "arguments"
  /\ IF request.fault = "late" THEN Error(Converted)
     ELSE step' = "run" /\ UNCHANGED <<live, reply>>
  /\ UNCHANGED <<process, status, handler, request, pose, failed>>

(* run returns at once without points, with the handler it has just set.   *)
Start ==
  /\ step = "run" /\ handler' = "report"
  /\ IF request.points = "none" THEN step' = "return" /\ UNCHANGED live
     ELSE step' = "estimate" /\ live' = More(Copied)
  /\ UNCHANGED <<process, status, request, pose, failed, reply>>

(* Found: the distortion given to OpenCV was never written, so that it is  *)
(* zero by chance only; POSIT does not take any.                           *)
Found ==
  /\ request.points = "enough"
  /\ \E d \in {"zero", "garbage"} :
       /\ d = "garbage" => request.method # "posit"
       /\ pose' = [set |-> TRUE, distortion |-> d]
  /\ step' = "check" /\ UNCHANGED <<process, status, handler, live, request, failed, reply>>

FailStatus ==
  /\ library = "status" /\ status' = "error" /\ failed' = TRUE
  /\ step' = "check" /\ UNCHANGED <<process, handler, live, request, pose, reply>>

(* Nothing on the way to Matlab catches cv::Exception.  Destroying a POSIT *)
(* whose object was not created releases an indeterminate pointer, after   *)
(* which the process may be gone (POSIT.cpp:6-10).                         *)
FailThrowing ==
  /\ library = "exception"
  /\ \/ /\ thrown' = thrown + 1 /\ failed' = TRUE
        /\ step' = "idle" /\ reply' = [kind |-> "exception", pose |-> Unset]
        /\ UNCHANGED <<library, status, handler, live, request, pose>>
     \/ request.method = "posit" /\ request.points = "few" /\ NewProcess

(* doPOSIT, cvFindExtrinsicCameraParams2 or cvCalibrateCamera2. *)
Estimate ==
  /\ step = "estimate"
  /\ Found \/ FailStatus \/ FailThrowing

(* Mutant of Check: each result that was asked for is written. *)
CheckAny ==
  /\ step = "check"
  /\ IF status # "ok" THEN step' = "fail" /\ UNCHANGED reply
     ELSE /\ step' = "release"
          /\ reply' = [kind |-> "running", pose |-> IF request.results > 0 THEN pose ELSE Unset]
  /\ UNCHANGED <<process, status, handler, live, request, pose, failed>>

(* A status that is not ok makes the call fail; otherwise A, R and T are   *)
(* written, if all three were asked for.                                   *)
Check ==
  /\ step = "check"
  /\ IF status # "ok" THEN step' = "fail" /\ UNCHANGED reply
     ELSE /\ step' = "release"
          /\ reply' = [kind |-> "running", pose |-> IF request.results = 3 THEN pose ELSE Unset]
  /\ UNCHANGED <<process, status, handler, live, request, pose, failed>>

(* Mutant of Release: only what went well is released. *)
ReleaseOnSuccess ==
  /\ step \in {"release", "fail"}
  /\ live' = IF step = "fail" THEN Less(Converted) ELSE Less(Copied)
  /\ handler' = "silent" /\ status' = "ok"
  /\ IF step = "fail"
     THEN step' = "idle" /\ reply' = [kind |-> "error", pose |-> Unset]
     ELSE step' = "return" /\ UNCHANGED reply
  /\ UNCHANGED <<process, request, pose, failed>>

(* Mutant of Release: the error is left in OpenCV. *)
ReleaseKeepingStatus ==
  /\ step \in {"release", "fail"}
  /\ handler' = "silent" /\ status' = status
  /\ IF step = "fail" THEN Error(Buffers)
     ELSE live' = Less(Copied) /\ step' = "return" /\ UNCHANGED reply
  /\ UNCHANGED <<process, request, pose, failed>>

(* The end of run, and after an error also the catch of mexFunction. *)
Release ==
  /\ step \in {"release", "fail"}
  /\ handler' = "silent" /\ status' = "ok"
  /\ IF step = "fail" THEN Error(Buffers)
     ELSE live' = Less(Copied) /\ step' = "return" /\ UNCHANGED reply
  /\ UNCHANGED <<process, request, pose, failed>>

(* Mutant of Return: what run has released is released again. *)
ReturnReleasingAll ==
  /\ step = "return" /\ step' = "idle"
  /\ live' = Less(Buffers) /\ reply' = [reply EXCEPT !.kind = "ok"]
  /\ UNCHANGED <<process, status, handler, request, pose, failed>>

(* shutdown; outputs that were not written are zero. *)
Return ==
  /\ step = "return" /\ step' = "idle"
  /\ live' = Less(Converted)
  /\ reply' = [reply EXCEPT !.kind = "ok"]
  /\ UNCHANGED <<process, status, handler, request, pose, failed>>

Work == Validate \/ Arguments \/ Start \/ Estimate \/ Check \/ Release \/ Return

Next == Work \/ Restart \/ \E r \in Requests : Call(r)

Spec == Init /\ [][Next]_vars
-----------------------------------------------------------------------------
TypeOK ==
  /\ library \in {"status", "exception"} /\ status \in {"ok", "error"}
  /\ handler \in {"opencv", "report", "silent"} /\ live \in [Buffers -> Nat]
  /\ thrown \in 0..MaxThrown
  /\ step \in {"idle", "validate", "arguments", "run", "estimate", "check", "fail",
               "release", "return"}
  /\ request \in Requests /\ pose \in Poses \cup {Unset} /\ failed \in BOOLEAN
  /\ reply \in [kind : {"none", "running", "error", "exception", "ok"},
                pose : Poses \cup {Unset}]

(* Between calls every buffer was released as often as it was allocated,   *)
(* whatever stopped the calls; only an exception of OpenCV leaves one of   *)
(* each behind, as no catch of mexFunction is for it (calib.cpp:300-305,   *)
(* 462-469, 614-621, 661-664, 725-735).                                    *)
BuffersReleased == step = "idle" => \A b \in Buffers : live[b] = thrown

(* An error is that of the call itself, not one that an earlier call left  *)
(* in OpenCV, and a call that ends well had none (calib.cpp:363, 466).     *)
ErrorsAreOwn ==
  /\ reply.kind = "error" => request.fault # "none" \/ failed
  /\ reply.kind = "ok" => request.fault = "none" /\ ~failed

(* A call that ends well gives the pose it found if and only if there were *)
(* points and all three results were asked for; otherwise zeros            *)
(* (calib.cpp:266-268, 367-371).  What it gives was never what the stack   *)
(* held before (276-278).                                                  *)
ResultsAreOwn ==
  reply.kind = "ok" =>
    IF request.points # "none" /\ request.results = 3
    THEN reply.pose = pose /\ pose # Unset
    ELSE reply.pose = Unset

(* VIOLATED.  demo.m:54, "rendered_new should be almost equal to the       *)
(* original rendered": the camera of the renderer has no distortion, but   *)
(* the pose is estimated with one that was never set (calib.cpp:291).      *)
NoDistortion == reply.kind = "ok" /\ reply.pose.set => reply.pose.distortion = "zero"
=============================================================================
