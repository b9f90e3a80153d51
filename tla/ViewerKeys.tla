----------------------------- MODULE ViewerKeys -----------------------------
(***************************************************************************)
(* The keys of the stand-alone viewer: KeyboardEventHandler turns and      *)
(* moves the model in its own copy of the engine, sets the camera of the   *)
(* shared viewer from it, and prints the angles.  Angles are whole         *)
(* degrees, as keys change them by five; that they are kept in radians     *)
(* shows where they are truncated for printing.                            *)
(***************************************************************************)
EXTENDS Integers

CONSTANTS
  DistanceInc,  \* third argument of the program
  MaxAngle,     \* bound: of the angles that keys lead to, for each axis
  MaxDistance   \* bound: of the distance

Axes == {"elevation", "azimuth", "yaw"}
ASSUME ViewerKeysOK ==
  DistanceInc \in Int /\ MaxAngle \in [Axes -> Nat] /\ MaxDistance \in Nat

VARIABLES
  angle, distance,  \* of the handler's engine
  view              \* what the camera shows

viewer == <<angle, distance, view>>

Increment == 5
Forward == [a \in Axes |-> 0]  \* all angles zero
Distance0 == 0                 \* the distance main passes

(* main passes zeros, and initCamera sets the view from them. *)
ViewerInit == /\ angle = Forward /\ distance = Distance0
              /\ view = [angle |-> Forward, distance |-> Distance0]

(* setupSphereOrientation, after every key. *)
SetView == view' = [angle |-> angle', distance |-> distance']

Turn == \E a \in Axes, d \in {Increment, -Increment} :
          /\ angle[a] + d \in -MaxAngle[a]..MaxAngle[a]
          /\ angle' = [angle EXCEPT ![a] = @ + d]
          /\ UNCHANGED distance /\ SetView

(* Home and End. *)
Move == \E d \in {DistanceInc, -DistanceInc} :
          /\ distance + d \in -MaxDistance..MaxDistance
          /\ distance' = distance + d
          /\ UNCHANGED angle /\ SetView

(* Mutant of Space: the view is left to the next key. *)
SpaceSilent == angle' = Forward /\ distance' = Distance0 /\ UNCHANGED view

Space == angle' = Forward /\ distance' = Distance0 /\ SetView

(* Keys that change how the model is drawn, and all others. *)
OtherKey == UNCHANGED <<angle, distance>> /\ SetView

Key == Turn \/ Move \/ Space \/ OtherKey

(* int() of the degrees that come back from radians, which may be just     *)
(* below the whole number; then C's remainder, which keeps the sign.       *)
Truncated(a) == {a} \cup (IF a > 0 THEN {a - 1} ELSE IF a < 0 THEN {a + 1} ELSE {})
Remainder(d) == IF d >= 0 THEN d % 360 ELSE -((-d) % 360)

Printed(a) ==
  {IF Remainder(d) < 0 THEN 360 + Remainder(d) ELSE Remainder(d) : d \in Truncated(a)}
-----------------------------------------------------------------------------
(* However often the model was turned, the angle printed is one of a turn  *)
(* and, to a degree, the one shown, though the handler turns a copy of the *)
(* engine and prints remainders of truncated numbers                       *)
(* (EngineOSG.cpp:1113-1118, 1152-1157, 1192-1200).                        *)
PrintedIsShown ==
  \A a \in Axes : \A d \in Printed(angle[a]) :
    d \in 0..359 /\ (view.angle[a] - d) % 360 \in {0, 1, 359}
=============================================================================
