------------------------- MODULE MC_ColorConvert -------------------------
(* Model-checking instance of ColorConvert: frames of two pixels, one row *)
(* and one column, so that width and height differ.                      *)
EXTENDS ColorConvert

MC_Shapes == {<<2, 1>>, <<1, 2>>}
====
