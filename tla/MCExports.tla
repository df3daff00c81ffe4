------------------------------ MODULE MCExports ------------------------------
(* Instances of Exports for TLC: exports and workers are model values.      *)
EXTENDS Exports

CONSTANTS x1, x2, b1, b2
=============================================================================
