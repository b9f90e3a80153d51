---------------------------- MODULE CalibProofs ----------------------------
(***************************************************************************)
(* Proofs about Calib, for any number of calls and of exceptions, and      *)
(* about doCalib and the drawings that follow, for every camera.  Calib's  *)
(* invariant says what a call holds at each of its steps (Balanced), which *)
(* arguments got that far (Passed), where an error of OpenCV can still be  *)
(* (OwnFailure) and what has been written for Matlab so far (Written).     *)
(***************************************************************************)
EXTENDS DoCalib, TLAPS

Held ==
  IF step \in {"arguments", "run", "return"} THEN Converted
  ELSE IF step \in {"estimate", "check", "release", "fail"} THEN Buffers ELSE {}

Balanced ==
  /\ \A b \in Buffers : live[b] = thrown + (IF b \in Held THEN 1 ELSE 0)
  /\ step # "idle" => thrown < MaxThrown

Passed ==
  /\ step \in {"arguments", "run", "estimate", "check", "release", "fail", "return"} =>
       request.fault # "early"
  /\ step \in {"run", "estimate", "check", "release", "fail", "return"} =>
       request.fault # "late"
  /\ step \in {"estimate", "check", "release", "fail"} => request.points # "none"

OwnFailure ==
  /\ status = "error" => step \in {"check", "fail"} /\ failed
  /\ step = "fail" => failed
  /\ failed => \/ step \in {"check", "fail"} /\ status = "error"
               \/ step = "idle" /\ reply.kind \in {"error", "exception"}

Due == IF request.points # "none" /\ request.results = 3 THEN pose ELSE Unset

Written ==
  /\ step \in {"validate", "arguments", "run", "estimate", "check", "fail"} =>
       reply = NoReply
  /\ step \in {"release", "return"} => reply.pose = Due /\ reply.kind \in {"none", "running"}
  /\ step = "check" /\ ~failed => pose # Unset
  /\ step \in {"release", "return"} /\ request.points # "none" => pose # Unset

IInv == TypeOK /\ Balanced /\ Passed /\ OwnFailure /\ Written /\ ErrorsAreOwn /\ ResultsAreOwn
-----------------------------------------------------------------------------
(* A pose that was found is one, and is told from none. *)
LEMMA FoundIsPose ==
  ASSUME NEW d \in {"zero", "garbage"}
  PROVE  LET p == [set |-> TRUE, distortion |-> d]
         IN  p \in Poses /\ p # Unset
<1> DEFINE p == [set |-> TRUE, distortion |-> d]
<1>1. p \in Poses  BY DEF Poses
<1>2. p.set = TRUE /\ Unset.set = FALSE  BY DEF Unset
<1>3. p # Unset  BY <1>2
<1> QED  BY <1>1, <1>3

(* What a reply may be; the poses are left unexpanded. *)
LEMMA ReplyIsReply ==
  ASSUME NEW k \in {"none", "running", "error", "exception", "ok"},
         NEW p \in Poses \cup {Unset}
  PROVE  LET r == [kind |-> k, pose |-> p] IN
         /\ r \in [kind : {"none", "running", "error", "exception", "ok"},
                   pose : Poses \cup {Unset}]
         /\ r.kind = k /\ r.pose = p
  OBVIOUS

(* NoReply is a reply without a pose. *)
LEMMA NoReplyIsReply ==
  /\ NoReply \in [kind : {"none", "running", "error", "exception", "ok"},
                  pose : Poses \cup {Unset}]
  /\ NoReply.kind = "none" /\ NoReply.pose = Unset
  BY DEF NoReply

(* A new process holds nothing and has not failed. *)
LEMMA InitInv == Init => IInv
<1> SUFFICES ASSUME Init PROVE IInv  OBVIOUS
<1> USE DEF Init
<1>r. reply \in [kind : {"none", "running", "error", "exception", "ok"},
                 pose : Poses \cup {Unset}]
  BY NoReplyIsReply
<1>l. live \in [Buffers -> Nat]  OBVIOUS
<1>t. thrown \in 0..MaxThrown  BY CalibOK
<1>q. request \in Requests /\ pose \in Poses \cup {Unset} /\ failed \in BOOLEAN  OBVIOUS
<1>s. step = "idle" /\ library \in {"status", "exception"} /\ status = "ok" /\ handler = "opencv"
  OBVIOUS
<1>1. TypeOK
  BY <1>r, <1>l, <1>t, <1>q, <1>s DEF TypeOK
<1>2. Held = {}  BY DEF Held
<1>3. Balanced  BY <1>2, CalibOK DEF Balanced
<1>4. Passed /\ OwnFailure /\ Written  BY DEF Passed, OwnFailure, Written
<1>5. ErrorsAreOwn /\ ResultsAreOwn  BY DEF ErrorsAreOwn, ResultsAreOwn, NoReply
<1> QED  BY <1>1, <1>3, <1>4, <1>5 DEF IInv

(* What releasing a set of buffers leaves. *)
LEMMA Released ==
  ASSUME live \in [Buffers -> Nat], NEW set \in SUBSET Buffers,
         \A b \in set : live[b] > 0
  PROVE  /\ Less(set) \in [Buffers -> Nat]
         /\ \A b \in Buffers : Less(set)[b] = IF b \in set THEN live[b] - 1 ELSE live[b]
<1>1. \A b \in Buffers : (IF b \in set THEN live[b] - 1 ELSE live[b]) \in Nat
  OBVIOUS
<1> QED  BY <1>1 DEF Less

(* What allocating a set of buffers leaves. *)
LEMMA Allocated ==
  ASSUME live \in [Buffers -> Nat], NEW set \in SUBSET Buffers
  PROVE  /\ More(set) \in [Buffers -> Nat]
         /\ \A b \in Buffers : More(set)[b] = IF b \in set THEN live[b] + 1 ELSE live[b]
  BY DEF More

(* Every buffer is either converted or copied. *)
LEMMA BufferSets ==
  /\ Converted \in SUBSET Buffers /\ Copied \in SUBSET Buffers
  /\ \A b \in Buffers : b \in Converted <=> b \notin Copied
  BY DEF Converted, Copied, Buffers
-----------------------------------------------------------------------------
(* One lemma per step of a call: a new call holds nothing yet. *)
LEMMA CallInv == ASSUME IInv, NEW r \in Requests, Call(r) PROVE IInv'
<1> USE DEF Call, process
<1>1. TypeOK'
  BY NoReplyIsReply DEF IInv, TypeOK
<1>2. Held = {} /\ Held' = {}  BY DEF Held
<1>3. Balanced'  BY <1>2 DEF IInv, Balanced
<1>4. Passed' /\ OwnFailure' /\ Written'
  BY DEF IInv, TypeOK, Passed, OwnFailure, Written
<1>5. ErrorsAreOwn' /\ ResultsAreOwn'  BY NoReplyIsReply DEF ErrorsAreOwn, ResultsAreOwn
<1> QED  BY <1>1, <1>3, <1>4, <1>5 DEF IInv

(* The buffers of a lost process are gone with it. *)
LEMMA NewProcessInv == ASSUME IInv, NewProcess PROVE IInv'
<1> USE DEF NewProcess
<1>1. live' \in [Buffers -> Nat] /\ thrown' \in 0..MaxThrown  BY CalibOK
<1>2. TypeOK'  BY <1>1, NoReplyIsReply DEF IInv, TypeOK
<1>3. Held' = {}  BY DEF Held
<1>4. Balanced'  BY <1>3 DEF Balanced
<1>5. Passed' /\ OwnFailure' /\ Written'  BY DEF Passed, OwnFailure, Written
<1>6. ErrorsAreOwn' /\ ResultsAreOwn'  BY NoReplyIsReply DEF ErrorsAreOwn, ResultsAreOwn
<1> QED  BY <1>2, <1>4, <1>5, <1>6 DEF IInv

(* The step that ends a call with an error of its own. *)
LEMMA ErrorInv ==
  ASSUME IInv, NEW set \in SUBSET Buffers, Error(set),
         \A b \in Buffers : live[b] = thrown + (IF b \in set THEN 1 ELSE 0),
         request.fault # "none" \/ failed,
         status' = "ok", handler' \in {"opencv", "report", "silent"},
         UNCHANGED <<process, request, pose, failed>>
  PROVE  IInv'
<1> USE DEF Error, process
<1>1. reply'.kind = "error" /\ reply'.pose = Unset
      /\ reply' \in [kind : {"none", "running", "error", "exception", "ok"},
                      pose : Poses \cup {Unset}]
  BY ReplyIsReply
<1>2. live' \in [Buffers -> Nat] /\ \A b \in Buffers : live'[b] = thrown
  BY Released DEF IInv, TypeOK
<1>3. TypeOK'  BY <1>1, <1>2 DEF IInv, TypeOK
<1>4. Held' = {}  BY DEF Held
<1>5. Balanced'  BY <1>2, <1>4 DEF IInv, TypeOK, Balanced
<1>6. Passed' /\ OwnFailure' /\ Written'  BY <1>1 DEF Passed, OwnFailure, Written
<1>7. ErrorsAreOwn' /\ ResultsAreOwn'  BY <1>1 DEF ErrorsAreOwn, ResultsAreOwn
<1> QED  BY <1>3, <1>5, <1>6, <1>7 DEF IInv

(* What stops early holds nothing; what goes on, the converted points. *)
LEMMA ValidateInv == ASSUME IInv, Validate PROVE IInv'
<1> USE DEF Validate, process
<1>1. Held = {}  BY DEF Held
<1>2. \A b \in Buffers : live[b] = thrown
  BY <1>1 DEF IInv, TypeOK, Balanced
<1>3. status = "ok" /\ ~failed /\ reply = NoReply
  BY DEF IInv, TypeOK, OwnFailure, Written
<1>4. CASE request.fault = "early"
  BY <1>2, <1>3, <1>4, ErrorInv DEF IInv, TypeOK
<1>5. CASE request.fault # "early"
  <2>1. live' = More(Converted) /\ step' = "arguments" /\ reply' = reply  BY <1>5
  <2>2. live' \in [Buffers -> Nat]
        /\ \A b \in Buffers : live'[b] = thrown + (IF b \in Converted THEN 1 ELSE 0)
    BY <2>1, <1>2, Allocated, BufferSets DEF IInv, TypeOK
  <2>3. TypeOK'  BY <2>1, <2>2 DEF IInv, TypeOK
  <2>4. Held' = Converted  BY <2>1 DEF Held
  <2>5. Balanced'  BY <2>1, <2>2, <2>4 DEF IInv, Balanced
  <2>6. Passed' /\ OwnFailure' /\ Written'
    BY <1>3, <1>5, <2>1 DEF Passed, OwnFailure, Written
  <2>7. ErrorsAreOwn' /\ ResultsAreOwn'
    BY <1>3, <2>1, NoReplyIsReply DEF ErrorsAreOwn, ResultsAreOwn
  <2> QED  BY <2>3, <2>5, <2>6, <2>7 DEF IInv
<1> QED  BY <1>4, <1>5

(* What stops late releases the converted points. *)
LEMMA ArgumentsInv == ASSUME IInv, Arguments PROVE IInv'
<1> USE DEF Arguments, process
<1>1. Held = Converted  BY DEF Held
<1>2. \A b \in Buffers : live[b] = thrown + (IF b \in Converted THEN 1 ELSE 0)
  BY <1>1 DEF IInv, Balanced
<1>3. status = "ok" /\ ~failed /\ reply = NoReply
  BY DEF IInv, TypeOK, OwnFailure, Written
<1>4. CASE request.fault = "late"
  BY <1>2, <1>3, <1>4, ErrorInv, BufferSets DEF IInv, TypeOK
<1>5. CASE request.fault # "late"
  <2>1. live' = live /\ step' = "run" /\ reply' = reply  BY <1>5
  <2>2. TypeOK'  BY <2>1 DEF IInv, TypeOK
  <2>3. Held' = Converted  BY <2>1 DEF Held
  <2>4. Balanced'  BY <2>1, <2>3, <1>1 DEF IInv, Balanced
  <2>5. Passed' /\ OwnFailure' /\ Written'
    BY <1>3, <1>5, <2>1 DEF IInv, Passed, OwnFailure, Written
  <2>6. ErrorsAreOwn' /\ ResultsAreOwn'
    BY <1>3, <2>1, NoReplyIsReply DEF ErrorsAreOwn, ResultsAreOwn
  <2> QED  BY <2>2, <2>4, <2>5, <2>6 DEF IInv
<1> QED  BY <1>4, <1>5

(* Without points run ends at once, with them it copies them. *)
LEMMA StartInv == ASSUME IInv, Start PROVE IInv'
<1> USE DEF Start, process
<1>1. Held = Converted  BY DEF Held
<1>2. \A b \in Buffers : live[b] = thrown + (IF b \in Converted THEN 1 ELSE 0)
  BY <1>1 DEF IInv, Balanced
<1>3. status = "ok" /\ ~failed /\ reply = NoReply
  BY DEF IInv, TypeOK, OwnFailure, Written
<1>4. ErrorsAreOwn' /\ ResultsAreOwn'
  BY <1>3, NoReplyIsReply DEF ErrorsAreOwn, ResultsAreOwn
<1>5. CASE request.points = "none"
  <2>1. live' = live /\ step' = "return"  BY <1>5
  <2>2. TypeOK'  BY <2>1 DEF IInv, TypeOK
  <2>3. Held' = Converted  BY <2>1 DEF Held
  <2>4. Balanced'  BY <2>1, <2>3, <1>1 DEF IInv, Balanced
  <2>5. Passed' /\ OwnFailure' /\ Written'
    BY <1>3, <1>5, <2>1, NoReplyIsReply DEF IInv, Passed, OwnFailure, Written, Due
  <2> QED  BY <2>2, <2>4, <2>5, <1>4 DEF IInv
<1>6. CASE request.points # "none"
  <2>1. live' = More(Copied) /\ step' = "estimate"  BY <1>6
  <2>2. live' \in [Buffers -> Nat] /\ \A b \in Buffers : live'[b] = thrown + 1
    BY <2>1, <1>2, Allocated, BufferSets DEF IInv, TypeOK
  <2>3. TypeOK'  BY <2>1, <2>2 DEF IInv, TypeOK
  <2>4. Held' = Buffers  BY <2>1 DEF Held
  <2>5. Balanced'  BY <2>1, <2>2, <2>4 DEF IInv, Balanced
  <2>6. Passed' /\ OwnFailure' /\ Written'
    BY <1>3, <1>6, <2>1 DEF IInv, Passed, OwnFailure, Written
  <2> QED  BY <2>3, <2>5, <2>6, <1>4 DEF IInv
<1> QED  BY <1>5, <1>6

(* OpenCV finds a pose, or fails in one of its two ways. *)
LEMMA EstimateInv == ASSUME IInv, Estimate PROVE IInv'
<1> USE DEF Estimate, process
<1>1. Held = Buffers  BY DEF Held
<1>2. \A b \in Buffers : live[b] = thrown + 1
  BY <1>1 DEF IInv, Balanced
<1>3. status = "ok" /\ ~failed /\ reply = NoReply
  BY DEF IInv, TypeOK, OwnFailure, Written
<1>4. CASE Found
  <2> USE DEF Found
  <2>1. pose' \in Poses /\ pose' # Unset  BY <1>4, FoundIsPose
  <2>2. TypeOK'  BY <1>4, <2>1 DEF IInv, TypeOK
  <2>3. Held' = Buffers  BY <1>4 DEF Held
  <2>4. Balanced'  BY <1>1, <1>4, <2>3 DEF IInv, Balanced
  <2>5. Passed' /\ OwnFailure' /\ Written'
    BY <1>3, <1>4, <2>1 DEF IInv, Passed, OwnFailure, Written
  <2>6. ErrorsAreOwn' /\ ResultsAreOwn'
    BY <1>3, <1>4, NoReplyIsReply DEF ErrorsAreOwn, ResultsAreOwn
  <2> QED  BY <2>2, <2>4, <2>5, <2>6 DEF IInv
<1>5. CASE FailStatus
  <2> USE DEF FailStatus
  <2>1. TypeOK'  BY <1>5 DEF IInv, TypeOK
  <2>2. Held' = Buffers  BY <1>5 DEF Held
  <2>3. Balanced'  BY <1>1, <1>5, <2>2 DEF IInv, Balanced
  <2>4. Passed' /\ OwnFailure' /\ Written'
    BY <1>3, <1>5 DEF IInv, Passed, OwnFailure, Written
  <2>5. ErrorsAreOwn' /\ ResultsAreOwn'
    BY <1>3, <1>5, NoReplyIsReply DEF ErrorsAreOwn, ResultsAreOwn
  <2> QED  BY <2>1, <2>3, <2>4, <2>5 DEF IInv
<1>6. CASE FailThrowing
  <2>1. CASE NewProcess  BY <2>1, NewProcessInv
  <2>2. CASE /\ thrown' = thrown + 1 /\ failed' = TRUE
             /\ step' = "idle" /\ reply' = [kind |-> "exception", pose |-> Unset]
             /\ UNCHANGED <<library, status, handler, live, request, pose>>
    <3> USE <2>2
    <3>1. reply'.kind = "exception"
          /\ reply' \in [kind : {"none", "running", "error", "exception", "ok"},
                          pose : Poses \cup {Unset}]
      BY ReplyIsReply
    <3>2. thrown' \in 0..MaxThrown  BY CalibOK DEF IInv, TypeOK, Balanced
    <3>3. TypeOK'  BY <3>1, <3>2 DEF IInv, TypeOK
    <3>4. Held' = {}  BY DEF Held
    <3>5. Balanced'  BY <1>2, <3>2, <3>4 DEF Balanced
    <3>6. Passed' /\ OwnFailure' /\ Written'
      BY <1>3, <3>1 DEF Passed, OwnFailure, Written
    <3>7. ErrorsAreOwn' /\ ResultsAreOwn'  BY <3>1 DEF ErrorsAreOwn, ResultsAreOwn
    <3> QED  BY <3>3, <3>5, <3>6, <3>7 DEF IInv
  <2> QED  BY <1>6, <2>1, <2>2 DEF FailThrowing
<1> QED  BY <1>4, <1>5, <1>6

(* Only the status of this call can be an error here. *)
LEMMA CheckInv == ASSUME IInv, Check PROVE IInv'
<1> USE DEF Check, process
<1>1. reply = NoReply /\ Held = Buffers  BY DEF IInv, Written, Held
<1>2. Held' = Buffers  BY DEF Held
<1>3. Balanced'  BY <1>1, <1>2 DEF IInv, Balanced
<1>4. Passed'  BY DEF IInv, Passed
<1>5. CASE status # "ok"
  <2>1. step' = "fail" /\ reply' = NoReply  BY <1>1, <1>5
  <2>2. TypeOK'  BY <1>1, <2>1 DEF IInv, TypeOK
  <2>3. OwnFailure' /\ Written'
    BY <1>5, <2>1 DEF IInv, TypeOK, OwnFailure, Written
  <2>4. ErrorsAreOwn' /\ ResultsAreOwn'
    BY <2>1, NoReplyIsReply DEF ErrorsAreOwn, ResultsAreOwn
  <2> QED  BY <1>3, <1>4, <2>2, <2>3, <2>4 DEF IInv
<1>6. CASE status = "ok"
  <2>1. ~failed /\ pose # Unset /\ request.points # "none"
    BY <1>6 DEF IInv, OwnFailure, Written, Passed
  <2>2. step' = "release"
        /\ reply' = [kind |-> "running", pose |-> IF request.results = 3 THEN pose ELSE Unset]
    BY <1>6
  <2>3. reply'.kind = "running" /\ reply'.pose = Due
        /\ reply' \in [kind : {"none", "running", "error", "exception", "ok"},
                        pose : Poses \cup {Unset}]
    <3>1. (IF request.results = 3 THEN pose ELSE Unset) \in Poses \cup {Unset}
      BY DEF IInv, TypeOK
    <3>2. Due = IF request.results = 3 THEN pose ELSE Unset  BY <2>1 DEF Due
    <3> HIDE DEF Check
    <3> QED  BY <2>2, <3>1, <3>2, ReplyIsReply
  <2>4. TypeOK'  BY <2>2, <2>3 DEF IInv, TypeOK
  <2>5. Due' = Due  BY DEF Due
  <2>6. OwnFailure' /\ Written'
    BY <1>6, <2>1, <2>2, <2>3, <2>5 DEF OwnFailure, Written
  <2>7. ErrorsAreOwn' /\ ResultsAreOwn'
    BY <2>3 DEF ErrorsAreOwn, ResultsAreOwn
  <2> QED  BY <1>3, <1>4, <2>4, <2>6, <2>7 DEF IInv
<1> QED  BY <1>5, <1>6

(* After run only the converted points are held, and nothing on failure. *)
LEMMA ReleaseInv == ASSUME IInv, Release PROVE IInv'
<1> USE DEF Release, process
<1>1. \A b \in Buffers : live[b] = thrown + 1
  BY DEF IInv, Balanced, Held
<1>2. CASE step = "fail"
  <2>1. Error(Buffers)  BY <1>2
  <2>2. failed  BY <1>2 DEF IInv, OwnFailure
  <2> QED  BY <1>1, <2>1, <2>2, ErrorInv
<1>3. CASE step = "release"
  <2>1. live' = Less(Copied) /\ step' = "return" /\ reply' = reply  BY <1>3
  <2>2. live' \in [Buffers -> Nat]
        /\ \A b \in Buffers : live'[b] = thrown + (IF b \in Converted THEN 1 ELSE 0)
    BY <2>1, <1>1, Released, BufferSets DEF IInv, TypeOK
  <2>3. TypeOK'  BY <2>1, <2>2 DEF IInv, TypeOK
  <2>4. Held' = Converted  BY <2>1 DEF Held
  <2>5. Balanced'  BY <2>1, <2>2, <2>4, <1>3 DEF IInv, Balanced
  <2>6. ~failed /\ reply.kind \in {"none", "running"} /\ reply.pose = Due
    BY <1>3 DEF IInv, OwnFailure, Written
  <2>7. Due' = Due  BY DEF Due
  <2>8. Passed' /\ OwnFailure'
    BY <1>3, <2>1, <2>6 DEF IInv, Passed, OwnFailure
  <2>9. Written'
    BY <1>3, <2>1, <2>6, <2>7 DEF IInv, Written
  <2>10. ErrorsAreOwn' /\ ResultsAreOwn'
    BY <2>1, <2>6 DEF ErrorsAreOwn, ResultsAreOwn
  <2> QED  BY <2>3, <2>5, <2>8, <2>9, <2>10 DEF IInv
<1> QED  BY <1>2, <1>3

(* shutdown releases what is left. *)
LEMMA ReturnInv == ASSUME IInv, Return PROVE IInv'
<1> USE DEF Return, process
<1>1. \A b \in Buffers : live[b] = thrown + (IF b \in Converted THEN 1 ELSE 0)
  BY DEF IInv, Balanced, Held
<1>2. live' \in [Buffers -> Nat] /\ \A b \in Buffers : live'[b] = thrown
  BY <1>1, Released, BufferSets DEF IInv, TypeOK
<1>3. reply'.kind = "ok" /\ reply'.pose = reply.pose
      /\ reply' \in [kind : {"none", "running", "error", "exception", "ok"},
                      pose : Poses \cup {Unset}]
  BY DEF IInv, TypeOK
<1>4. TypeOK'  BY <1>2, <1>3 DEF IInv, TypeOK
<1>5. Held' = {}  BY DEF Held
<1>6. Balanced'  BY <1>2, <1>5 DEF IInv, TypeOK, Balanced
<1>7. status = "ok" /\ ~failed /\ request.fault = "none"
  BY DEF IInv, TypeOK, OwnFailure, Passed, Requests
<1>8. Passed' /\ OwnFailure' /\ Written'  BY <1>7 DEF Passed, OwnFailure, Written
<1>9. ErrorsAreOwn'  BY <1>3, <1>7 DEF ErrorsAreOwn
<1>10. ResultsAreOwn'
  BY <1>3 DEF IInv, Written, Due, ResultsAreOwn
<1> QED  BY <1>4, <1>6, <1>8, <1>9, <1>10 DEF IInv

(* So every step keeps the invariant. *)
LEMMA StepInv == ASSUME IInv, [Next]_vars PROVE IInv'
<1>1. CASE UNCHANGED vars
  BY <1>1 DEF vars, process, IInv, TypeOK, Balanced, Held, Passed, OwnFailure, Written, Due,
     ErrorsAreOwn, ResultsAreOwn
<1>2. CASE Work
  BY <1>2, ValidateInv, ArgumentsInv, StartInv, EstimateInv, CheckInv, ReleaseInv, ReturnInv
     DEF Work
<1>3. CASE Restart  BY <1>3, NewProcessInv DEF Restart
<1>4. CASE \E r \in Requests : Call(r)  BY <1>4, CallInv
<1> QED  BY <1>1, <1>2, <1>3, <1>4 DEF Next
-----------------------------------------------------------------------------
(* It holds throughout. *)
LEMMA InvariantHolds == Spec => []IInv
<1>1. Init => IInv  BY InitInv
<1>2. IInv /\ [Next]_vars => IInv'  BY StepInv
<1> QED  BY <1>1, <1>2, PTL DEF Spec

(* Every reachable state is well typed; in particular no buffer is         *)
(* released more often than it was allocated.                              *)
THEOREM TypeCorrect == Spec => []TypeOK
<1>1. IInv => TypeOK  BY DEF IInv
<1> QED  BY <1>1, InvariantHolds, PTL

(* Whatever stops a call, it leaves behind at most what an exception of    *)
(* OpenCV jumped over (calib.cpp:462-469, 614-621, 725-735).               *)
THEOREM BuffersAlwaysReleased == Spec => []BuffersReleased
<1>1. IInv => BuffersReleased
  BY DEF IInv, TypeOK, Balanced, Held, BuffersReleased
<1> QED  BY <1>1, InvariantHolds, PTL

(* No call answers for an error of an earlier one (calib.cpp:363, 466).    *)
THEOREM ErrorsAlwaysOwn == Spec => []ErrorsAreOwn
<1>1. IInv => ErrorsAreOwn  BY DEF IInv
<1> QED  BY <1>1, InvariantHolds, PTL

(* Results are those the call found, or zero (calib.cpp:266-268, 367-371). *)
THEOREM ResultsAlwaysOwn == Spec => []ResultsAreOwn
<1>1. IInv => ResultsAreOwn  BY DEF IInv
<1> QED  BY <1>1, InvariantHolds, PTL
-----------------------------------------------------------------------------
(* doCalib.m.  First the algebra of the camera matrices. *)
LEMMA DotInt == ASSUME NEW u \in Vector, NEW v \in Vector PROVE Dot(u, v) \in Int
<1>1. u[1] \in Int /\ u[2] \in Int /\ u[3] \in Int  BY DEF Vector
<1>2. v[1] \in Int /\ v[2] \in Int /\ v[3] \in Int  BY DEF Vector
<1> QED  BY <1>1, <1>2 DEF Dot

(* Signs can be moved out of products. *)
LEMMA NegativeDot ==
  ASSUME NEW u \in Vector, NEW v \in Vector
  PROVE  /\ Negative(u) \in Vector /\ Negative(Negative(u)) = u
         /\ Dot(Negative(u), v) = -Dot(u, v)
<1>1. u[1] \in Int /\ u[2] \in Int /\ u[3] \in Int  BY DEF Vector
<1>2. v[1] \in Int /\ v[2] \in Int /\ v[3] \in Int  BY DEF Vector
<1>3. Negative(u) \in Vector  BY DEF Negative, Vector
<1>4. Negative(Negative(u)) = u  BY DEF Negative, Vector
<1>5. \A a, b, c, x, y, z \in Int : (-a) * x + (-b) * y + (-c) * z = -(a * x + b * y + c * z)
  OBVIOUS
<1>6. Negative(u)[1] = -u[1] /\ Negative(u)[2] = -u[2] /\ Negative(u)[3] = -u[3]
  BY DEF Negative
<1>7. Dot(Negative(u), v) = -Dot(u, v)
  BY <1>1, <1>2, <1>5, <1>6 DEF Dot
<1> QED  BY <1>3, <1>4, <1>7

(* Coordinates in the camera are whole numbers. *)
LEMMA InCameraParts ==
  ASSUME NEW cam \in Matrices, NEW p \in Vector
  PROVE  LET c == InCamera(cam, p) IN
         /\ c \in Vector
         /\ \A i \in 1..3 : c[i] = Dot(cam.R[i], p) + cam.T[i]
         /\ \A i \in 1..3 : /\ cam.R[i] \in Vector /\ cam.T[i] \in Int
                           /\ Dot(cam.R[i], p) \in Int
<1>1. \A i \in 1..3 : cam.R[i] \in Vector /\ cam.T[i] \in Int  BY DEF Matrices, Vector
<1>2. \A i \in 1..3 : Dot(cam.R[i], p) \in Int  BY <1>1, DotInt
<1> QED  BY <1>1, <1>2 DEF InCamera, Vector

(* Y and Z of the eye coordinates are opposite to the camera's. *)
LEMMA ClipOfCamera ==
  ASSUME NEW cam \in Matrices, NEW p \in Vector, NEW w \in Int, NEW h \in Int
  PROVE  LET c == InCamera(cam, p)  clip == Clip(OpenGLMatrices(cam, w, h), p) IN
         /\ clip.x = 2 * cam.A.fx * c[1] - (cam.A.cx - w) * c[3]
         /\ clip.y = -(2 * cam.A.fy * c[2]) - (cam.A.cy - h) * c[3]
         /\ clip.w = c[3]
         /\ clip.x \in Int /\ clip.y \in Int /\ clip.w \in Int
<1> DEFINE c == InCamera(cam, p)
           gl == OpenGLMatrices(cam, w, h)
           eye == [i \in 1..3 |-> Dot(gl.rotation[i], p) + gl.translation[i]]
<1>a. cam.A.fx \in Int /\ cam.A.fy \in Int /\ cam.A.cx \in Int /\ cam.A.cy \in Int
  BY DEF Matrices, Intrinsics
<1>c. c[1] \in Int /\ c[2] \in Int /\ c[3] \in Int  BY InCameraParts DEF Vector
<1>r. /\ gl.rotation[1] = cam.R[1] /\ gl.rotation[2] = Negative(cam.R[2])
      /\ gl.rotation[3] = Negative(cam.R[3])
  BY DEF OpenGLMatrices, Opposite, Matrices
<1>t. gl.translation[1] = cam.T[1] /\ gl.translation[2] = -cam.T[2] /\ gl.translation[3] = -cam.T[3]
  BY DEF OpenGLMatrices, OppositeT, Matrices, Vector
<1>1. eye[1] = c[1]
  BY <1>r, <1>t, InCameraParts
<1>2. eye[2] = -c[2]
  <2>1. Dot(Negative(cam.R[2]), p) = -Dot(cam.R[2], p)  BY NegativeDot, InCameraParts
  <2>2. eye[2] = -Dot(cam.R[2], p) + (-cam.T[2])  BY <2>1, <1>r, <1>t
  <2>3. c[2] = Dot(cam.R[2], p) + cam.T[2] /\ Dot(cam.R[2], p) \in Int /\ cam.T[2] \in Int
    BY InCameraParts
  <2> QED  BY <2>2, <2>3
<1>3. eye[3] = -c[3]
  <2>1. Dot(Negative(cam.R[3]), p) = -Dot(cam.R[3], p)  BY NegativeDot, InCameraParts
  <2>2. eye[3] = -Dot(cam.R[3], p) + (-cam.T[3])  BY <2>1, <1>r, <1>t
  <2>3. c[3] = Dot(cam.R[3], p) + cam.T[3] /\ Dot(cam.R[3], p) \in Int /\ cam.T[3] \in Int
    BY InCameraParts
  <2> QED  BY <2>2, <2>3
<1>g. /\ gl.x = 2 * cam.A.fx /\ gl.xz = cam.A.cx - w
      /\ gl.y = 2 * cam.A.fy /\ gl.yz = cam.A.cy - h
  BY DEF OpenGLMatrices
<1> HIDE DEF c, gl, eye
<1>4. /\ Clip(gl, p).x = gl.x * eye[1] + gl.xz * eye[3]
      /\ Clip(gl, p).y = gl.y * eye[2] + gl.yz * eye[3]
      /\ Clip(gl, p).w = -eye[3]
  BY DEF Clip, eye
<1>5. \A f, k, a, b \in Int : /\ 2 * f * a + k * (-b) = 2 * f * a - k * b
                             /\ 2 * f * (-a) + k * (-b) = -(2 * f * a) - k * b
  OBVIOUS
<1>6. cam.A.cx - w \in Int /\ cam.A.cy - h \in Int  BY <1>a
<1>7. Clip(gl, p).x = 2 * cam.A.fx * c[1] - (cam.A.cx - w) * c[3]
  BY <1>1, <1>3, <1>4, <1>5, <1>6, <1>a, <1>c, <1>g
<1>8. Clip(gl, p).y = -(2 * cam.A.fy * c[2]) - (cam.A.cy - h) * c[3]
  <2>1. 2 * cam.A.fy * (-c[2]) + (cam.A.cy - h) * (-c[3])
          = -(2 * cam.A.fy * c[2]) - (cam.A.cy - h) * c[3]
    <3> DEFINE f == cam.A.fy
               k == cam.A.cy - h
    <3>1. f \in Int /\ k \in Int  BY <1>6, <1>a
    <3> HIDE DEF f, k
    <3>2. 2 * f * (-c[2]) + k * (-c[3]) = -(2 * f * c[2]) - k * c[3]  BY <3>1, <1>5, <1>c
    <3> QED  BY <3>2 DEF f, k
  <2> QED  BY <2>1, <1>2, <1>3, <1>4, <1>g
<1>9. Clip(gl, p).w = c[3]  BY <1>3, <1>4, <1>c
<1> QED  BY <1>7, <1>8, <1>9, <1>a, <1>c DEF c, gl

(* Rows are drawn where they are seen, columns off by the principal point. *)
LEMMA Drawn ==
  ASSUME NEW cam \in Matrices, NEW p \in Vector, NEW w \in Int, NEW h \in Int
  PROVE  LET gl == OpenGLMatrices(cam, w, h) IN
         /\ DrawnRow(gl, h, p) = SeenRow(cam, p)
         /\ DrawnColumn(gl, w, p) = SeenColumn(cam, p) + 2 * (w - cam.A.cx) * InCamera(cam, p)[3]
<1> DEFINE c == InCamera(cam, p)
           clip == Clip(OpenGLMatrices(cam, w, h), p)
<1>a. cam.A.fx \in Int /\ cam.A.fy \in Int /\ cam.A.cx \in Int /\ cam.A.cy \in Int
  BY DEF Matrices, Intrinsics
<1>c. c[1] \in Int /\ c[2] \in Int /\ c[3] \in Int  BY InCameraParts DEF Vector
<1>1. /\ clip.x = 2 * cam.A.fx * c[1] - (cam.A.cx - w) * c[3]
      /\ clip.y = -(2 * cam.A.fy * c[2]) - (cam.A.cy - h) * c[3]
      /\ clip.w = c[3]
  BY ClipOfCamera
<1>2. /\ DrawnRow(OpenGLMatrices(cam, w, h), h, p) = clip.w * h - clip.y
      /\ DrawnColumn(OpenGLMatrices(cam, w, h), w, p) = clip.w * w + clip.x
      /\ SeenRow(cam, p) = 2 * cam.A.fy * c[2] + cam.A.cy * c[3]
      /\ SeenColumn(cam, p) = 2 * cam.A.fx * c[1] + cam.A.cx * c[3]
  BY DEF DrawnRow, DrawnColumn, SeenRow, SeenColumn
<1> HIDE DEF c, clip
<1>3. \A e, k, b, n \in Int : b * n - (-e - (k - n) * b) = e + k * b
  OBVIOUS
<1>4. \A e, k, b, n \in Int : b * n + (e - (k - n) * b) = e + k * b + 2 * (n - k) * b
  OBVIOUS
<1>5. 2 * cam.A.fy * c[2] \in Int /\ 2 * cam.A.fx * c[1] \in Int  BY <1>a, <1>c
<1>6. DrawnRow(OpenGLMatrices(cam, w, h), h, p) = SeenRow(cam, p)
  BY <1>1, <1>2, <1>3, <1>5, <1>a, <1>c
<1>7. DrawnColumn(OpenGLMatrices(cam, w, h), w, p) = SeenColumn(cam, p) + 2 * (w - cam.A.cx) * c[3]
  BY <1>1, <1>2, <1>4, <1>5, <1>a, <1>c
<1> QED  BY <1>6, <1>7 DEF c

(* What comes back from OpenGL. *)
LEMMA RoundTrip ==
  ASSUME NEW cam \in Matrices, NEW w \in Int, NEW h \in Int
  PROVE  LET back == CameraMatrices(OpenGLMatrices(cam, w, h), w, h) IN
         /\ back \in Matrices
         /\ back.R = cam.R /\ back.T = cam.T
         /\ back.A = [fx |-> cam.A.fx, fy |-> cam.A.fy, cx |-> w, cy |-> h]
<1> DEFINE gl == OpenGLMatrices(cam, w, h)
           back == CameraMatrices(gl, w, h)
<1>a. cam.A.fx \in Int /\ cam.A.fy \in Int  BY DEF Matrices, Intrinsics
<1>r. cam.R \in [1..3 -> Vector] /\ cam.T \in [1..3 -> Int]  BY DEF Matrices, Vector
<1>1. gl.x = 2 * cam.A.fx /\ gl.y = 2 * cam.A.fy  BY DEF OpenGLMatrices
<1>2. \A n \in Int : (2 * n) \div 2 = n  OBVIOUS
<1>3. back.A = [fx |-> cam.A.fx, fy |-> cam.A.fy, cx |-> w, cy |-> h]
  BY <1>1, <1>2, <1>a DEF CameraMatrices
<1>4. back.R = cam.R
  <2>1. back.R = Opposite(Opposite(cam.R))  BY DEF CameraMatrices, OpenGLMatrices
  <2>2. \A i \in 1..3 : Negative(Negative(cam.R[i])) = cam.R[i]  BY NegativeDot, <1>r
  <2> DEFINE once == Opposite(cam.R)
  <2>3. /\ once[1] = cam.R[1] /\ once[2] = Negative(cam.R[2]) /\ once[3] = Negative(cam.R[3])
        /\ DOMAIN once = 1..3 /\ once = [i \in 1..3 |-> once[i]]
    BY <1>r DEF Opposite
  <2>4. Opposite(once) = [i \in 1..3 |-> cam.R[i]]
    <3> HIDE DEF once
    <3>1. Opposite(once) = [i \in 1..3 |-> IF i = 1 THEN once[1] ELSE Negative(once[i])]
      BY <2>3 DEF Opposite
    <3> QED  BY <3>1, <2>2, <2>3
  <2> QED  BY <2>1, <2>4, <1>r
<1>5. back.T = cam.T
  <2>1. back.T = OppositeT(OppositeT(cam.T))  BY DEF CameraMatrices, OpenGLMatrices
  <2> QED  BY <2>1, <1>r DEF OppositeT
<1>6. back \in Matrices
  <2>1. back = [A |-> back.A, R |-> back.R, T |-> back.T]  BY DEF CameraMatrices
  <2>2. back.A \in Intrinsics  BY <1>3, <1>a DEF Intrinsics
  <2> QED  BY <2>1, <2>2, <1>4, <1>5, <1>r DEF Matrices, Vector
<1> QED  BY <1>3, <1>4, <1>5, <1>6

(* Half a turn leaves the depth within the object and turns the rest. *)
LEMMA TurnedParts ==
  ASSUME NEW cam \in Matrices, NEW p \in Vector
  PROVE  LET r == Rotated(cam.R, p)  c == InCamera(Turned(cam), p) IN
         /\ Turned(cam) \in Matrices /\ Turned(cam).A = cam.A
         /\ r \in Vector
         /\ c[1] = -r[1] - cam.T[1] /\ c[2] = -r[2] - cam.T[2] /\ c[3] = r[3] - cam.T[3]
         /\ \A i \in 1..3 : InCamera(cam, p)[i] = r[i] + cam.T[i] /\ cam.T[i] \in Int
<1> DEFINE r == Rotated(cam.R, p)
           t == Turned(cam)
<1>p. \A i \in 1..3 : cam.R[i] \in Vector /\ cam.T[i] \in Int /\ Dot(cam.R[i], p) \in Int
  BY InCameraParts
<1>1. \A i \in 1..3 : r[i] = Dot(cam.R[i], p)  BY DEF Rotated
<1>2. r \in Vector  BY <1>p DEF Rotated, Vector
<1>3. \A i \in 1..3 : InCamera(cam, p)[i] = r[i] + cam.T[i]  BY <1>1, InCameraParts
<1>4. /\ t.A = cam.A /\ t.T = Negative(cam.T)
      /\ t.R = [cam.R EXCEPT ![1] = Negative(cam.R[1]), ![2] = Negative(cam.R[2])]
  BY DEF Turned, Matrices
<1>5. t.R \in [1..3 -> Vector] /\ t.T \in Vector
  BY <1>4, <1>p, NegativeDot DEF Matrices, Negative, Vector
<1>6. t \in Matrices  BY <1>4, <1>5 DEF Turned, Matrices
<1>7. /\ t.R[1] = Negative(cam.R[1]) /\ t.R[2] = Negative(cam.R[2]) /\ t.R[3] = cam.R[3]
      /\ \A i \in 1..3 : t.T[i] = -cam.T[i]
  BY <1>4 DEF Matrices, Negative
<1>8. Dot(t.R[1], p) = -r[1] /\ Dot(t.R[2], p) = -r[2] /\ Dot(t.R[3], p) = r[3]
  BY <1>1, <1>7, <1>p, NegativeDot
<1>9. \A i \in 1..3 : InCamera(t, p)[i] = Dot(t.R[i], p) + t.T[i]  BY <1>6, InCameraParts
<1>r. \A i \in 1..3 : r[i] \in Int /\ cam.T[i] \in Int  BY <1>2, <1>p DEF Vector
<1>c. \A i \in 1..3 : InCamera(t, p)[i] = Dot(t.R[i], p) + (-cam.T[i])  BY <1>7, <1>9
<1> HIDE DEF r, t
<1>10. InCamera(t, p)[1] = -r[1] - cam.T[1]
  <2>1. InCamera(t, p)[1] = -r[1] + (-cam.T[1])  BY <1>8, <1>c
  <2> QED  BY <2>1, <1>r
<1>11. InCamera(t, p)[2] = -r[2] - cam.T[2]
  <2>1. InCamera(t, p)[2] = -r[2] + (-cam.T[2])  BY <1>8, <1>c
  <2> QED  BY <2>1, <1>r
<1>12. InCamera(t, p)[3] = r[3] - cam.T[3]
  <2>1. InCamera(t, p)[3] = r[3] + (-cam.T[3])  BY <1>8, <1>c
  <2> QED  BY <2>1, <1>r
<1> QED  BY <1>2, <1>3, <1>4, <1>6, <1>10, <1>11, <1>12, <1>p DEF r, t

(* The four planes are the borders of the picture. *)
LEMMA FrustumIsPicture ==
  ASSUME NEW cam \in Matrices, NEW p \in Vector
  PROVE  PointInFrustum(ExtractFrustum(Frame(cam), Width, Height, p)) <=> DrawnInside(cam, p)
<1> DEFINE clip == Clip(Frame(cam), p)
           z == InCamera(cam, p)[3]
<1>s. Width \in Int /\ Width > 0 /\ Height \in Int /\ Height > 0  BY DoCalibOK
<1>1. clip.w = z /\ clip.x \in Int /\ clip.y \in Int /\ z \in Int
  BY <1>s, ClipOfCamera DEF Frame
<1>2. /\ DrawnColumn(Frame(cam), Width, p) = z * Width + clip.x
      /\ DrawnRow(Frame(cam), Height, p) = z * Height - clip.y
  BY <1>1 DEF DrawnColumn, DrawnRow
<1>3. PointInFrustum(ExtractFrustum(Frame(cam), Width, Height, p)) <=>
        /\ z * Width - clip.x > 0 /\ z * Width + clip.x > 0
        /\ z * Height + clip.y > 0 /\ z * Height - clip.y > 0
  BY <1>1 DEF PointInFrustum, ExtractFrustum
<1>4. DrawnInside(cam, p) <=>
        /\ z > 0
        /\ 0 < z * Width + clip.x /\ z * Width + clip.x < 2 * z * Width
        /\ 0 < z * Height - clip.y /\ z * Height - clip.y < 2 * z * Height
  BY <1>2 DEF DrawnInside
<1> HIDE DEF clip, z
<1>5. \A a, n \in Int : n > 0 /\ a * n > 0 => a > 0  OBVIOUS
<1>6. z * Width \in Int /\ z * Height \in Int /\ 2 * z * Width = z * Width + z * Width
      /\ 2 * z * Height = z * Height + z * Height
  BY <1>1, <1>s
<1>7. z * Width > 0 => z > 0  BY <1>1, <1>5, <1>s
<1> QED  BY <1>1, <1>3, <1>4, <1>6, <1>7

-----------------------------------------------------------------------------
(* The script holds cameras, and each of its results is right when it is   *)
(* made; nothing but the next step of the script changes them.             *)
SInv == ScriptTypeOK /\ KeptIfDrawn /\ TurnedFaces /\ RenderingsAgree /\ DrawnWhereSeen

(* Zeros are camera matrices. *)
LEMMA ZeroCamera == Zero \in Matrices /\ Zero.A \in Intrinsics /\ Zero.A.fx = 0 /\ Zero.A.fy = 0
  BY DEF Zero, Matrices, Intrinsics, Vector

(* A script that starts over relies on nothing. *)
LEMMA ForgetInv == ASSUME Forget PROVE SInv'
<1>1. doing' = "idle" /\ object' = {} /\ intrinsics' = Zero.A /\ before' = Zero /\ camera' = Zero
  BY DEF Forget
<1>2. ScriptTypeOK'  BY <1>1, ZeroCamera DEF ScriptTypeOK
<1> QED  BY <1>1, <1>2 DEF SInv, KeptIfDrawn, TurnedFaces, RenderingsAgree, DrawnWhereSeen

(* Nothing has been drawn at first. *)
LEMMA ScriptInitInv == ScriptInit => SInv
<1> SUFFICES ASSUME ScriptInit PROVE SInv  OBVIOUS
<1>1. doing = "idle" /\ object = {} /\ intrinsics = Zero.A /\ before = Zero /\ camera = Zero
  BY DEF ScriptInit
<1>2. ScriptTypeOK  BY <1>1, ZeroCamera DEF ScriptTypeOK
<1> QED  BY <1>1, <1>2 DEF SInv, KeptIfDrawn, TurnedFaces, RenderingsAgree, DrawnWhereSeen

(* The call keeps points and A for later. *)
LEMMA CallDoCalibInv ==
  ASSUME NEW r \in Requests, NEW obj, NEW A \in Given, CallDoCalib(r, obj, A)
  PROVE  SInv'
<1>1. /\ doing' = "calib" /\ object' = obj /\ intrinsics' = A /\ before' = Zero /\ camera' = Zero
      /\ obj \in Objects[r.points]
  BY DEF CallDoCalib
<1>2. obj \subseteq Vector
  <2>1. r.points \in {"none", "few", "enough"}  BY DEF Requests
  <2> QED  BY <1>1, <2>1, DoCalibOK
<1>3. A \in Intrinsics  BY DoCalibOK
<1>4. ScriptTypeOK'  BY <1>1, <1>2, <1>3, ZeroCamera DEF ScriptTypeOK
<1> QED  BY <1>1, <1>4 DEF SInv, KeptIfDrawn, TurnedFaces, RenderingsAgree, DrawnWhereSeen

(* What calib returns is a camera with the given A, or zeros. *)
LEMMA GetPoseInv == ASSUME SInv, GetPose PROVE SInv'
<1>1. /\ before' \in Returned /\ doing' = "inside"
      /\ object' = object /\ intrinsics' = intrinsics /\ camera' = camera
  BY DEF GetPose
<1>2. ScriptTypeOK  BY DEF SInv
<1>3. before' \in Matrices /\ before'.A.fx \in {0, intrinsics.fx} /\ before'.A.fy \in {0, intrinsics.fy}
  <2>1. CASE reply.pose = Unset  BY <2>1, <1>1, ZeroCamera DEF Returned
  <2>2. CASE reply.pose # Unset
    <3>1. PICK f \in Found3D : before' = [A |-> intrinsics, R |-> f.R, T |-> f.T]
      BY <2>2, <1>1 DEF Returned
    <3>2. f.R \in [1..3 -> Vector] /\ f.T \in Vector  BY DoCalibOK
    <3>3. intrinsics \in Intrinsics  BY <1>2 DEF ScriptTypeOK
    <3> QED  BY <3>1, <3>2, <3>3 DEF Matrices
  <2> QED  BY <2>1, <2>2
<1>4. ScriptTypeOK'  BY <1>1, <1>2, <1>3 DEF ScriptTypeOK
<1> QED  BY <1>1, <1>4 DEF SInv, KeptIfDrawn, TurnedFaces, RenderingsAgree, DrawnWhereSeen

(* The pose is kept or turned; see FrustumIsPicture and TurnedParts. *)
LEMMA CalcInsideInv == ASSUME SInv, CalcInside PROVE SInv'
<1>1. object' = object /\ intrinsics' = intrinsics /\ before' = before  BY DEF CalcInside
<1>2. ScriptTypeOK  BY DEF SInv
<1>3. before \in Matrices /\ object \subseteq Vector  BY <1>2 DEF ScriptTypeOK
<1>4. Inside(before) = {p \in object : DrawnInside(before, p)}
  BY <1>3, FrustumIsPicture DEF Inside
<1>5. CASE Inside(before) = {}
  <2>1. camera' = Turned(before) /\ doing' = "turned"  BY <1>5 DEF CalcInside
  <2>2. \A p \in object : ~DrawnInside(before, p)  BY <1>4, <1>5
  <2>3. KeptIfDrawn'  BY <1>1, <2>1, <2>2 DEF KeptIfDrawn
  <2>4. TurnedFaces'
    <3> SUFFICES ASSUME NEW p \in object
                 PROVE  LET depth == Rotated(before.R, p)[3]  t == before.T[3] IN
                        /\ InCamera(before, p)[3] < 0 /\ t < depth => InFront(Turned(before), p)
                        /\ depth = 0 =>
                             InCamera(Turned(before), p) = Negative(InCamera(before, p))
      BY <1>1, <2>1 DEF TurnedFaces
    <3> DEFINE r == Rotated(before.R, p)
               c == InCamera(before, p)
               d == InCamera(Turned(before), p)
    <3>p. p \in Vector  BY <1>3
    <3>1. /\ d[1] = -r[1] - before.T[1] /\ d[2] = -r[2] - before.T[2] /\ d[3] = r[3] - before.T[3]
          /\ \A i \in 1..3 : c[i] = r[i] + before.T[i] /\ before.T[i] \in Int
          /\ r \in Vector
      BY <1>3, <3>p, TurnedParts
    <3>2. \A i \in 1..3 : r[i] \in Int  BY <3>1 DEF Vector
    <3>3. c \in Vector /\ d \in Vector  BY <1>3, <3>p, TurnedParts, InCameraParts
    <3>4. before.T[3] < r[3] => InFront(Turned(before), p)
      BY <3>1, <3>2 DEF InFront
    <3>5. r[3] = 0 => d = Negative(c)
      <4> SUFFICES ASSUME r[3] = 0 PROVE d = Negative(c)  OBVIOUS
      <4> HIDE DEF r, c, d
      <4>1. d[1] = -c[1] /\ d[2] = -c[2] /\ d[3] = -c[3]  BY <3>1, <3>2
      <4>2. d = [i \in 1..3 |-> d[i]]  BY <3>3 DEF Vector
      <4> QED  BY <4>1, <4>2 DEF Negative
    <3> QED  BY <3>4, <3>5
  <2>5. ScriptTypeOK'
    <3>1. camera' \in Matrices /\ camera'.A = before.A
      <4>1. [i \in 1..3 |-> 0] \in Vector  BY DEF Vector
      <4> QED  BY <1>3, <2>1, <4>1, TurnedParts
    <3> QED  BY <1>1, <1>2, <2>1, <3>1 DEF ScriptTypeOK
  <2> QED  BY <2>1, <2>3, <2>4, <2>5 DEF SInv, RenderingsAgree, DrawnWhereSeen
<1>6. CASE Inside(before) # {}
  <2>1. camera' = before /\ doing' = "kept"  BY <1>6 DEF CalcInside
  <2>2. \E p \in object : DrawnInside(before, p)  BY <1>4, <1>6
  <2>3. KeptIfDrawn'  BY <1>1, <2>1, <2>2 DEF KeptIfDrawn
  <2>4. ScriptTypeOK'  BY <1>1, <1>2, <2>1 DEF ScriptTypeOK
  <2> QED  BY <2>1, <2>3, <2>4 DEF SInv, TurnedFaces, RenderingsAgree, DrawnWhereSeen
<1> QED  BY <1>5, <1>6

(* A drawing and the matrices it returns; see Drawn and RoundTrip. *)
LEMMA RenderInv == ASSUME SInv, Render PROVE SInv'
<1>s. Width \in Int /\ Height \in Int  BY DoCalibOK
<1>1. /\ before' = camera /\ doing' = "rendered" /\ object' = object /\ intrinsics' = intrinsics
      /\ camera' = CameraMatrices(OpenGLMatrices(camera, Width, Height), Width, Height)
  BY DEF Render, Frame
<1>2. ScriptTypeOK  BY DEF SInv
<1>3. camera \in Matrices /\ object \subseteq Vector  BY <1>2 DEF ScriptTypeOK
<1>4. /\ camera' \in Matrices /\ camera'.R = camera.R /\ camera'.T = camera.T
      /\ camera'.A = [fx |-> camera.A.fx, fy |-> camera.A.fy, cx |-> Width, cy |-> Height]
  BY <1>1, <1>3, <1>s, RoundTrip
<1>5. ScriptTypeOK'  BY <1>1, <1>2, <1>4 DEF ScriptTypeOK
<1>6. \A cam \in Matrices : \A p \in Vector :
        /\ InCamera(cam, p)[3] \in Int /\ SeenColumn(cam, p) \in Int
        /\ DrawnRow(Frame(cam), Height, p) = SeenRow(cam, p)
        /\ DrawnColumn(Frame(cam), Width, p) =
             SeenColumn(cam, p) + 2 * (Width - cam.A.cx) * InCamera(cam, p)[3]
  <2> SUFFICES ASSUME NEW cam \in Matrices, NEW p \in Vector
               PROVE  /\ InCamera(cam, p)[3] \in Int /\ SeenColumn(cam, p) \in Int
                      /\ DrawnRow(Frame(cam), Height, p) = SeenRow(cam, p)
                      /\ DrawnColumn(Frame(cam), Width, p) =
                           SeenColumn(cam, p) + 2 * (Width - cam.A.cx) * InCamera(cam, p)[3]
    OBVIOUS
  <2>1. InCamera(cam, p)[1] \in Int /\ InCamera(cam, p)[3] \in Int  BY InCameraParts DEF Vector
  <2>2. SeenColumn(cam, p) \in Int  BY <2>1 DEF SeenColumn, Matrices, Intrinsics
  <2> QED  BY <2>1, <2>2, <1>s, Drawn DEF Frame
<1>7. \A cam \in Matrices : \A p \in Vector :
        cam.A.cx = Width => DrawnColumn(Frame(cam), Width, p) = SeenColumn(cam, p)
  <2> SUFFICES ASSUME NEW cam \in Matrices, NEW p \in Vector, cam.A.cx = Width
               PROVE  DrawnColumn(Frame(cam), Width, p) = SeenColumn(cam, p)
    OBVIOUS
  <2>1. \A a, b, n \in Int : a + 2 * (n - n) * b = a  OBVIOUS
  <2> QED  BY <1>6, <1>s, <2>1
<1>8. \A p \in Vector : InCamera(camera', p) = InCamera(camera, p)  BY <1>4 DEF InCamera
<1>9. RenderingsAgree'
  <2> SUFFICES ASSUME NEW p \in object
               PROVE  /\ DrawnColumn(Frame(camera'), Width, p) = SeenColumn(camera', p)
                      /\ DrawnRow(Frame(camera'), Height, p) = SeenRow(camera', p)
                      /\ camera.A.cx = Width =>
                           DrawnColumn(Frame(camera), Width, p) = SeenColumn(camera', p)
                      /\ camera.A.cy = Height =>
                           DrawnRow(Frame(camera), Height, p) = SeenRow(camera', p)
    BY <1>1, <1>4 DEF RenderingsAgree
  <2>p. p \in Vector  BY <1>3
  <2>1. DrawnColumn(Frame(camera'), Width, p) = SeenColumn(camera', p)  BY <1>4, <1>7, <2>p
  <2>2. DrawnRow(Frame(camera'), Height, p) = SeenRow(camera', p)  BY <1>4, <1>6, <2>p
  <2>3. camera.A.cx = Width => SeenColumn(camera', p) = SeenColumn(camera, p)
    BY <1>4, <1>8, <2>p DEF SeenColumn
  <2>4. camera.A.cy = Height => SeenRow(camera', p) = SeenRow(camera, p)
    BY <1>4, <1>8, <2>p DEF SeenRow
  <2> QED  BY <1>3, <1>6, <1>7, <2>p, <2>1, <2>2, <2>3, <2>4
<1>10. DrawnWhereSeen'  BY <1>1, <1>3, <1>6 DEF DrawnWhereSeen
<1> QED  BY <1>1, <1>5, <1>9, <1>10 DEF SInv, KeptIfDrawn, TurnedFaces

(* So every step of the script keeps its invariant. *)
LEMMA ScriptStepInv == SInv /\ [DoCalibNext]_allVars => SInv'
<1> SUFFICES ASSUME SInv, [DoCalibNext]_allVars PROVE SInv'  OBVIOUS
<1>1. CASE UNCHANGED script
  BY <1>1 DEF SInv, script, ScriptTypeOK, KeptIfDrawn, TurnedFaces, RenderingsAgree, DrawnWhereSeen
<1>2. CASE Forget  BY <1>2, ForgetInv
<1>3. ASSUME NEW r \in Requests, NEW obj, NEW A \in Given, CallDoCalib(r, obj, A) PROVE SInv'
  BY <1>3, CallDoCalibInv
<1>4. CASE GetPose  BY <1>4, GetPoseInv
<1>5. CASE CalcInside  BY <1>5, CalcInsideInv
<1>6. CASE Render  BY <1>6, RenderInv
<1> QED
  BY <1>1, <1>2, <1>3, <1>4, <1>5, <1>6 DEF DoCalibNext, MexStep, CallOther, Fail, allVars

(* It holds throughout. *)
LEMMA ScriptInvariantHolds == DoCalibSpec => []SInv
<1>1. DoCalibInit => SInv  BY ScriptInitInv DEF DoCalibInit
<1> QED  BY <1>1, ScriptStepInv, PTL DEF DoCalibSpec

(* doCalib uses calib as any caller may: what is proved of calib holds of  *)
(* it under doCalib.                                                       *)
THEOREM CallsCalib == DoCalibSpec => Spec
<1>1. DoCalibInit => Init  BY DEF DoCalibInit
<1>2. [DoCalibNext]_allVars => [Next]_vars
  <2> SUFFICES ASSUME [DoCalibNext]_allVars PROVE Next \/ UNCHANGED vars  OBVIOUS
  <2>1. ASSUME NEW r \in Requests, NEW obj, NEW A, CallDoCalib(r, obj, A) PROVE Next
    BY <2>1 DEF CallDoCalib, Next
  <2>2. CASE MexStep  BY <2>2 DEF MexStep, Next
  <2>3. CASE CallOther  BY <2>3 DEF CallOther, Next
  <2>4. CASE Fail \/ GetPose \/ CalcInside \/ Render \/ UNCHANGED allVars
    BY <2>4 DEF Fail, GetPose, CalcInside, Render, allVars
  <2> QED  BY <2>1, <2>2, <2>3, <2>4 DEF DoCalibNext
<1> QED  BY <1>1, <1>2, PTL DEF DoCalibSpec, Spec

(* Cameras stay cameras, with the focal lengths that doCalib was given.    *)
THEOREM ScriptTypeCorrect == DoCalibSpec => []ScriptTypeOK
<1>1. SInv => ScriptTypeOK  BY DEF SInv
<1> QED  BY <1>1, ScriptInvariantHolds, PTL

(* A pose is kept if and only if one of its points would be drawn in the   *)
(* picture, for every camera, pose and set of points.                      *)
THEOREM KeptAlwaysIfDrawn == DoCalibSpec => []KeptIfDrawn
<1>1. SInv => KeptIfDrawn  BY DEF SInv
<1> QED  BY <1>1, ScriptInvariantHolds, PTL

(* A pose that was turned round has in front what was behind, within the   *)
(* depth of the camera, and keeps the lines of sight of the centre.        *)
THEOREM TurnedAlwaysFaces == DoCalibSpec => []TurnedFaces
<1>1. SInv => TurnedFaces  BY DEF SInv
<1> QED  BY <1>1, ScriptInvariantHolds, PTL

(* Drawing with the matrices that the renderer returned agrees with them.  *)
THEOREM RenderingsAlwaysAgree == DoCalibSpec => []RenderingsAgree
<1>1. SInv => RenderingsAgree  BY DEF SInv
<1> QED  BY <1>1, ScriptInvariantHolds, PTL

(* Rows are drawn where the camera sees them; columns are off by twice the *)
(* distance of the principal point from the middle.                        *)
THEOREM DrawnAlwaysWhereSeen == DoCalibSpec => []DrawnWhereSeen
<1>1. SInv => DrawnWhereSeen  BY DEF SInv
<1> QED  BY <1>1, ScriptInvariantHolds, PTL

(* Both, for every camera, picture and set of points (util.cpp:99-193).    *)
THEOREM AlwaysDrawnAsSeen == DoCalibSpec => []DrawnAsSeen
<1>1. DrawnWhereSeen /\ RenderingsAgree => DrawnAsSeen  BY DEF DrawnAsSeen
<1> QED  BY <1>1, DrawnAlwaysWhereSeen, RenderingsAlwaysAgree, PTL

(* The MEX file and its callers are well typed, for any number of calls.   *)
THEOREM DoCalibTypeCorrect == DoCalibSpec => []DoCalibTypeOK
<1>1. TypeOK /\ ScriptTypeOK => DoCalibTypeOK  BY DEF DoCalibTypeOK
<1> QED  BY <1>1, CallsCalib, TypeCorrect, ScriptTypeCorrect, PTL
-----------------------------------------------------------------------------
(* Where the distortion that was never set cannot reach. *)
Undistorted == pose \in Poses /\ request.method = "posit" => pose.distortion = "zero"

(* POSIT is given no distortion, so that its poses are those of a camera   *)
(* without one: NoDistortion fails only for the methods that hand the      *)
(* unwritten coefficients to OpenCV (calib.cpp:291, 329-359).              *)
THEOREM PositAlwaysUndistorted ==
  Spec => [](request.method = "posit" => NoDistortion)
<1>u. Unset \notin Poses /\ Unset.set = FALSE  BY DEF Unset, Poses
<1>1. Init => Undistorted  BY <1>u DEF Init, Undistorted
<1>2. Undistorted /\ [Next]_vars => Undistorted'
  <2> SUFFICES ASSUME Undistorted, [Next]_vars PROVE Undistorted'  OBVIOUS
  <2>1. CASE UNCHANGED <<pose, request>>  BY <2>1 DEF Undistorted
  <2>2. CASE Found
    <3>1. PICK d \in {"zero", "garbage"} :
            /\ d = "garbage" => request.method # "posit"
            /\ pose' = [set |-> TRUE, distortion |-> d] /\ request' = request
      BY <2>2 DEF Found
    <3> QED  BY <3>1 DEF Undistorted
  <2>3. CASE pose' = Unset  BY <1>u, <2>3 DEF Undistorted
  <2> QED
    BY <2>1, <2>2, <2>3 DEF Next, Work, Validate, Arguments, Start, Estimate, FailStatus,
       FailThrowing, NewProcess, Check, Release, Return, Restart, Call, vars
<1>3. TypeOK /\ ResultsAreOwn /\ Undistorted => (request.method = "posit" => NoDistortion)
  BY <1>u DEF TypeOK, ResultsAreOwn, Undistorted, NoDistortion
<1>4. Spec => []Undistorted  BY <1>1, <1>2, PTL DEF Spec
<1> QED  BY <1>3, <1>4, TypeCorrect, ResultsAlwaysOwn, PTL

(* Steps of the MEX file that are left, at most. *)
StepsLeft ==
  CASE step = "validate" -> 7 [] step = "arguments" -> 6 [] step = "run" -> 5
    [] step = "estimate" -> 4 [] step = "check" -> 3 [] step \in {"release", "fail"} -> 2
    [] step = "return" -> 1 [] OTHER -> 0

(* No call of calib loops, or waits for anything: whatever OpenCV does,    *)
(* each step is the call's own and leaves fewer (calib.cpp:255-375,        *)
(* 640-737).                                                               *)
THEOREM CallsOfCalibEnd ==
  Spec => [][step # "idle" => Work /\ StepsLeft' < StepsLeft]_vars
<1>1. ASSUME TypeOK, Next, step # "idle"
      PROVE  Work /\ StepsLeft' < StepsLeft
  <2>1. Work  BY <1>1 DEF Next, Restart, Call
  <2>2. \/ step = "validate" /\ step' \in {"arguments", "idle"}
        \/ step = "arguments" /\ step' \in {"run", "idle"}
        \/ step = "run" /\ step' \in {"estimate", "return"}
        \/ step = "estimate" /\ step' \in {"check", "idle"}
        \/ step = "check" /\ step' \in {"release", "fail"}
        \/ step \in {"release", "fail"} /\ step' \in {"return", "idle"}
        \/ step = "return" /\ step' = "idle"
    BY <2>1 DEF Work, Validate, Arguments, Start, Estimate, Found, FailStatus, FailThrowing,
       NewProcess, Check, Release, Return, Error
  <2>3. StepsLeft' < StepsLeft  BY <2>2 DEF StepsLeft
  <2> QED  BY <2>1, <2>3
<1>2. TypeOK /\ [Next]_vars => [step # "idle" => Work /\ StepsLeft' < StepsLeft]_vars
  BY <1>1
<1> QED  BY <1>2, TypeCorrect, PTL DEF Spec
-----------------------------------------------------------------------------
(* What drawing again with the returned matrices changes. *)
LEMMA FrameOfDrawing ==
  ASSUME NEW cam \in Matrices, NEW p \in Vector,
         NEW back, back = CameraMatrices(Frame(cam), Width, Height)
  PROVE  /\ DrawnColumn(Frame(back), Width, p) = DrawnColumn(Frame(cam), Width, p)
              <=> cam.A.cx = Width \/ InCamera(cam, p)[3] = 0
         /\ DrawnRow(Frame(back), Height, p) = DrawnRow(Frame(cam), Height, p)
              <=> cam.A.cy = Height \/ InCamera(cam, p)[3] = 0
<1> DEFINE c == InCamera(cam, p)
           z == c[3]
<1>s. Width \in Int /\ Height \in Int  BY DoCalibOK
<1>a. cam.A.fx \in Int /\ cam.A.fy \in Int /\ cam.A.cx \in Int /\ cam.A.cy \in Int
  BY DEF Matrices, Intrinsics
<1>c. c[1] \in Int /\ c[2] \in Int /\ z \in Int  BY InCameraParts DEF Vector
<1>1. /\ back \in Matrices /\ back.R = cam.R /\ back.T = cam.T
      /\ back.A = [fx |-> cam.A.fx, fy |-> cam.A.fy, cx |-> Width, cy |-> Height]
  BY <1>s, RoundTrip DEF Frame
<1>2. InCamera(back, p) = c  BY <1>1 DEF InCamera
<1>3. /\ DrawnColumn(Frame(cam), Width, p) =
           2 * cam.A.fx * c[1] + cam.A.cx * z + 2 * (Width - cam.A.cx) * z
      /\ DrawnRow(Frame(cam), Height, p) = 2 * cam.A.fy * c[2] + cam.A.cy * z
  BY <1>s, Drawn DEF Frame, SeenColumn, SeenRow
<1>4. /\ DrawnColumn(Frame(back), Width, p) =
           2 * cam.A.fx * c[1] + Width * z + 2 * (Width - Width) * z
      /\ DrawnRow(Frame(back), Height, p) = 2 * cam.A.fy * c[2] + Height * z
  BY <1>1, <1>2, <1>s, Drawn DEF Frame, SeenColumn, SeenRow
<1>5. \A e, k, n, b \in Int :
        e + n * b + 2 * (n - n) * b = e + k * b + 2 * (n - k) * b <=> k = n \/ b = 0
  <2> SUFFICES ASSUME NEW e \in Int, NEW k \in Int, NEW n \in Int, NEW b \in Int
               PROVE  e + n * b + 2 * (n - n) * b = e + k * b + 2 * (n - k) * b <=> k = n \/ b = 0
    OBVIOUS
  <2>1. e + k * b + 2 * (n - k) * b - (e + n * b + 2 * (n - n) * b) = (n - k) * b  OBVIOUS
  <2>2. (n - k) * b = 0 <=> k = n \/ b = 0  OBVIOUS
  <2> QED  BY <2>1, <2>2
<1>6. \A e, k, n, b \in Int : e + n * b = e + k * b <=> k = n \/ b = 0
  <2> SUFFICES ASSUME NEW e \in Int, NEW k \in Int, NEW n \in Int, NEW b \in Int
               PROVE  e + n * b = e + k * b <=> k = n \/ b = 0
    OBVIOUS
  <2>1. e + n * b - (e + k * b) = (n - k) * b  OBVIOUS
  <2>2. (n - k) * b = 0 <=> k = n \/ b = 0  OBVIOUS
  <2> QED  BY <2>1, <2>2
<1> DEFINE x == 2 * cam.A.fx * c[1]
           y == 2 * cam.A.fy * c[2]
           cx == cam.A.cx
           cy == cam.A.cy
<1>7. x \in Int /\ y \in Int /\ cx \in Int /\ cy \in Int /\ z \in Int  BY <1>a, <1>c
<1> HIDE DEF c, z, x, y, cx, cy
<1>8. DrawnColumn(Frame(back), Width, p) = DrawnColumn(Frame(cam), Width, p)
        <=> cam.A.cx = Width \/ z = 0

  <2>1. x + Width * z + 2 * (Width - Width) * z = x + cx * z + 2 * (Width - cx) * z
          <=> cx = Width \/ z = 0
    BY ONLY <1>5, <1>7, <1>s
  <2>2. /\ DrawnColumn(Frame(back), Width, p) = x + Width * z + 2 * (Width - Width) * z
        /\ DrawnColumn(Frame(cam), Width, p) = x + cx * z + 2 * (Width - cx) * z
    BY <1>3, <1>4 DEF x, cx
  <2> QED  BY <2>1, <2>2 DEF cx
<1>9. DrawnRow(Frame(back), Height, p) = DrawnRow(Frame(cam), Height, p)
        <=> cam.A.cy = Height \/ z = 0
  <2>1. y + Height * z = y + cy * z <=> cy = Height \/ z = 0
    BY ONLY <1>6, <1>7, <1>s
  <2>2. /\ DrawnRow(Frame(back), Height, p) = y + Height * z
        /\ DrawnRow(Frame(cam), Height, p) = y + cy * z
    BY <1>3, <1>4 DEF y, cy
  <2> QED  BY <2>1, <2>2 DEF cy
<1> QED  BY <1>8, <1>9 DEF z, c

(* What the returned matrices are: those of the drawing, but for the       *)
(* principal point.                                                        *)
GivenBack == doing = "rendered" => camera = CameraMatrices(Frame(before), Width, Height)

(* "Providing the camera matrices returned from the previous example will  *)
(* yield the same results" (renderer.cpp:168): a point is drawn where it   *)
(* was exactly if the principal point was in the middle column and row, or *)
(* the point lies in the plane of the camera; and from then on always, as  *)
(* the matrices given back are those of the second drawing                 *)
(* (util.cpp:99-193).                                                      *)
THEOREM SameResultsIfCentred ==
  DoCalibSpec =>
    /\ [](doing = "rendered" => \A p \in object :
            /\ DrawnColumn(Frame(camera), Width, p) = DrawnColumn(Frame(before), Width, p)
                 <=> before.A.cx = Width \/ InCamera(before, p)[3] = 0
            /\ DrawnRow(Frame(camera), Height, p) = DrawnRow(Frame(before), Height, p)
                 <=> before.A.cy = Height \/ InCamera(before, p)[3] = 0)
    /\ [][doing = "rendered" /\ Render => camera' = camera]_allVars
<1> DEFINE Same == doing = "rendered" => \A p \in object :
             /\ DrawnColumn(Frame(camera), Width, p) = DrawnColumn(Frame(before), Width, p)
                  <=> before.A.cx = Width \/ InCamera(before, p)[3] = 0
             /\ DrawnRow(Frame(camera), Height, p) = DrawnRow(Frame(before), Height, p)
                  <=> before.A.cy = Height \/ InCamera(before, p)[3] = 0
<1>1. DoCalibInit => GivenBack  BY DEF DoCalibInit, ScriptInit, GivenBack
<1>2. GivenBack /\ [DoCalibNext]_allVars => GivenBack'
  <2> SUFFICES ASSUME GivenBack, [DoCalibNext]_allVars PROVE GivenBack'  OBVIOUS
  <2>1. CASE Render  BY <2>1 DEF Render, GivenBack
  <2>2. CASE UNCHANGED script  BY <2>2 DEF script, GivenBack, Frame
  <2>3. CASE doing' # "rendered"  BY <2>3 DEF GivenBack
  <2> QED
    BY <2>1, <2>2, <2>3 DEF DoCalibNext, CallDoCalib, MexStep, CallOther, Forget, Fail, GetPose,
       CalcInside, allVars
<1>3. DoCalibSpec => []GivenBack  BY <1>1, <1>2, PTL DEF DoCalibSpec
<1>4. ScriptTypeOK /\ GivenBack => Same
  <2> SUFFICES ASSUME ScriptTypeOK, GivenBack, doing = "rendered", NEW p \in object
               PROVE  /\ DrawnColumn(Frame(camera), Width, p) = DrawnColumn(Frame(before), Width, p)
                            <=> before.A.cx = Width \/ InCamera(before, p)[3] = 0
                      /\ DrawnRow(Frame(camera), Height, p) = DrawnRow(Frame(before), Height, p)
                            <=> before.A.cy = Height \/ InCamera(before, p)[3] = 0
    OBVIOUS
  <2>1. before \in Matrices /\ p \in Vector  BY DEF ScriptTypeOK
  <2> QED  BY <2>1, FrameOfDrawing DEF GivenBack
<1>5. ASSUME ScriptTypeOK, GivenBack, doing = "rendered", Render
      PROVE  camera' = camera
  <2>1. before \in Matrices /\ camera \in Matrices /\ Width \in Int /\ Height \in Int
    BY <1>5, DoCalibOK DEF ScriptTypeOK
  <2>2. /\ camera.R = before.R /\ camera.T = before.T
        /\ camera.A = [fx |-> before.A.fx, fy |-> before.A.fy, cx |-> Width, cy |-> Height]
    BY <1>5, <2>1, RoundTrip DEF GivenBack, Frame
  <2>3. /\ camera' \in Matrices /\ camera'.R = camera.R /\ camera'.T = camera.T
        /\ camera'.A = [fx |-> camera.A.fx, fy |-> camera.A.fy, cx |-> Width, cy |-> Height]
    BY <1>5, <2>1, RoundTrip DEF Render, Frame
  <2>4. camera'.A = camera.A  BY <2>2, <2>3
  <2> QED  BY <2>1, <2>3, <2>4 DEF Matrices
<1>6. ScriptTypeOK /\ GivenBack /\ [DoCalibNext]_allVars =>
        [doing = "rendered" /\ Render => camera' = camera]_allVars
  BY <1>5
<1> HIDE DEF Same
<1>7. DoCalibSpec => []Same  BY <1>3, <1>4, ScriptTypeCorrect, PTL
<1>8. DoCalibSpec => [][doing = "rendered" /\ Render => camera' = camera]_allVars
  BY <1>3, <1>6, ScriptTypeCorrect, PTL DEF DoCalibSpec
<1> QED  BY <1>7, <1>8 DEF Same
=============================================================================
