--------------------------- MODULE MCKeyRegistry ---------------------------
(* One student whose phone holds k1 moves to other phones while recovery   *)
(* requests are filed, cancelled and decided.                              *)
EXTENDS KeyRegistry, TLC

CONSTANTS s1, m1, k1, k2, k3, r1, r2, c1, c2

MCStudents  == {s1}
MCMerchants == {m1}
MCKeys      == {k1, k2, k3}
MCKeyOwner  == [k \in MCKeys |-> s1]
MCRequests  == {r1, r2}
MCKeyCalls  == {c1, c2}
MCBalance   == [u \in {s1, m1} |-> IF u = s1 THEN 2 ELSE 0]
MCNobody    == {}

\* No key, request row or call is singled out when no key starts registered.
MCSymmetry ==
  Permutations(MCKeys) \cup Permutations(MCRequests) \cup Permutations(MCKeyCalls)
=============================================================================
