-------------------------------- MODULE MCAccess --------------------------------
(* Small instances of Access: requests are interchangeable.                       *)
EXTENDS Access, TLC
RequestSymmetry == Permutations(Calls)
=============================================================================
