------------------ MODULE MC_TfLiteTensorsToSegmentation ------------------
(* Model-checking instance of TfLiteTensorsToSegmentation: the constants  *)
(* are given in the .cfg files.                                           *)
EXTENDS TfLiteTensorsToSegmentation
====
