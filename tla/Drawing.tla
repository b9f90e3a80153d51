------------------------------ MODULE Drawing -------------------------------
(***************************************************************************)
(* The two ways of EngineOSG to draw: off screen, for Matlab, a frame goes *)
(* through the draw callback; on screen, in the stand-alone program, keys  *)
(* change the view between frames and no frame is read.                    *)
(***************************************************************************)
EXTENDS FrameOutputs, ViewerKeys

VARIABLE offScreen

drawing == <<offScreen, vars, viewer>>

DrawingInit ==
  /\ offScreen \in BOOLEAN /\ Init /\ ViewerInit
  /\ ~offScreen => asked = {} /\ \A g \in DOMAIN depth : depth[g] = One

Capture == offScreen /\ Next /\ UNCHANGED <<offScreen, viewer>>
Handle == ~offScreen /\ Key /\ UNCHANGED <<offScreen, vars>>

DrawingNext == Capture \/ Handle
DrawingSpec == DrawingInit /\ [][DrawingNext]_drawing
=============================================================================
