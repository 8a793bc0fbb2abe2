------------------------------ MODULE MCPhone ------------------------------
(* A phone that may be the account's first or its second.                  *)
EXTENDS Phone, TLC

CONSTANTS a, b
MCPins == {a, b}

\* No PIN is singled out.
MCPinSymmetry == Permutations(MCPins)
=============================================================================
