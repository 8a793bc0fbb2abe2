---------------------------- MODULE MCTreasury ----------------------------
(* One student tops up and pays one merchant, which cashes out, with        *)
(* webhooks, polls, requests and an admin in any order.                     *)
EXTENDS Treasury, TLC

CONSTANTS s1, m1, op, c1, c2, f1, f2, q1, q2

MCStudents   == {s1}
MCMerchants  == {m1}
MCCashouts   == {c1, c2}
MCFinalizers == {f1, f2}
MCRequesters == {q1, q2}
MCModes      == {"manual", "korapay_api"}

\* Over the cap of 2 until the student has paid.
MCTopups   == {[user |-> s1, amount |-> 2]}
MCOldFunds == [h \in {s1, m1, op} |-> IF h = op THEN -2 ELSE 1]
MCPayments == {[from |-> s1, to |-> m1, amount |-> 1, seq |-> n] : n \in {1, 2}}

\* The student paid 2 and a fee of 1, or too little.  The gateway says all of
\* it, or leaves the fee and the total to the webhook, or the total alone.
MCReports == {
  [gross |-> 3, amount |-> 2, paid |-> 3, fee |-> 1, hookPaid |-> 3, hookFee |-> 1],
  [gross |-> 3, amount |-> 2, paid |-> None, fee |-> None, hookPaid |-> 3, hookFee |-> None],
  [gross |-> 1, amount |-> 2, paid |-> 1, fee |-> None, hookPaid |-> 1, hookFee |-> None]}

MCSymmetry ==
  Permutations(MCCashouts) \cup Permutations(MCFinalizers) \cup Permutations(MCRequesters)
=============================================================================
