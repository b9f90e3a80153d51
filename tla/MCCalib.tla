------------------------------ MODULE MCCalib ------------------------------
(* All kinds of calls, with both ways of OpenCV to report errors; doCalib  *)
(* with a centred and an off-centre camera, points on and off the axis and *)
(* at several depths, and poses in front, behind, half turned and aside.   *)
EXTENDS DoCalib

plain == <<<<1, 0, 0>>, <<0, 1, 0>>, <<0, 0, 1>>>>
about == <<<<1, 0, 0>>, <<0, -1, 0>>, <<0, 0, -1>>>>
aside == <<<<0, 0, 1>>, <<0, 1, 0>>, <<-1, 0, 0>>>>

MCGiven == {[fx |-> 3, fy |-> 3, cx |-> 4, cy |-> 6], [fx |-> 2, fy |-> 2, cx |-> 7, cy |-> 4]}
flat == {<<0, 0, 0>>, <<1, 0, 0>>, <<0, 2, 0>>, <<1, 1, 0>>}
deep == {<<1, 0, 1>>, <<0, 1, -1>>, <<-1, 0, 2>>, <<0, -1, 0>>}
MCObjects == [n \in {"none", "few", "enough"} |->
  CASE n = "none" -> {{}} [] n = "few" -> {{<<0, 0, 0>>}} [] n = "enough" -> {flat, deep}]
MCFound == [R : {plain, about, aside}, T : {<<0, 0, 3>>, <<0, 0, -3>>, <<2, 1, -2>>, <<7, 0, 2>>, <<0, -3, 2>>}]
=============================================================================
