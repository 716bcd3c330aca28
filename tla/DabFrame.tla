------------------------------ MODULE DabFrame ------------------------------
(* What the parts of the data decoder share: how many common interleaved      *)
(* frames (CIFs) a transmission frame has, 4, 1, 1, 2 in modes I .. IV.        *)
EXTENDS Integers

CONSTANT number_of_cif

ASSUME CifAssumption == number_of_cif \in {1, 2, 4}
=============================================================================
