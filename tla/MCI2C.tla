-------------------------------- MODULE MCI2C --------------------------------
(* Small instances of I2C.                                                 *)
EXTENDS I2C, TLC

\* Objects are interchangeable.
Symmetry == Permutations(Objects)
=============================================================================
