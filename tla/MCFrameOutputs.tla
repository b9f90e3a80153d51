--------------------------- MODULE MCFrameOutputs ---------------------------
(* Wide, high and square frames, with every depth buffer; or keys that     *)
(* turn the model more than once round.                                    *)
EXTENDS Drawing

MCSizes == {<<1, 1>>, <<1, 3>>, <<3, 1>>, <<2, 2>>, <<2, 3>>, <<3, 2>>}
MCMaxAngle == [a \in Axes |-> IF a = "elevation" THEN 370 ELSE 5]
=============================================================================
