--------------------------- MODULE MCRunDetection ---------------------------
(***************************************************************************)
(* The third run of the second instrument is filed under no RB number, and *)
(* third runs have longer numbers than the others, as 10 is longer.        *)
(***************************************************************************)
EXTENDS RunDetection

Calibration == {<<2, 3>>}
ThirdIsLonger == [n \in RunNumbers |-> IF n < 3 THEN 1 ELSE 2]
=============================================================================
