------------------------------ MODULE MCArrayVM ------------------------------
(***************************************************************************)
(* Instances of ArrayVM for TLC.  Lengths are the smallest that tell the   *)
(* generations apart: ShortArray is allocated young, and the shortest      *)
(* array that is allocated large is one short of the threshold.            *)
(***************************************************************************)
EXTENDS ArrayVM

ShortArray   == {1}
ShortOrLarge == {1, YOUNG_THRESHOLD - 1}
FirstIndex   == {0}
AnyIndex     == {-1, 0, 1}
===============================================================================
