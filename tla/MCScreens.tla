------------------------------ MODULE MCScreens ------------------------------
(* Two admins, a merchant, a student, two cashouts and two top-ups.         *)
EXTENDS Screens, TLC

CONSTANTS s1, m1, op, c1, c2, q1, q2, f1, f2, a1, a2, p1, b1, b2, n1, n2, nb1, nb2, h1, h2

MCAdmins == {a1, a2}

MCOldFunds == [u \in {s1, m1, op} |-> IF u = op THEN -2 ELSE 1]

\* Each bank gives each number to someone else.
MCHolder ==
  (<<b1, n1>> :> h1) @@ (<<b1, n2>> :> h2) @@ (<<b2, n1>> :> h2) @@ (<<b2, n2>> :> h1)
MCBankName == (b1 :> nb1) @@ (b2 :> nb2)

\* A merchant who typed somebody else's name when signing up, or none yet.
MCFirstRows ==
  {[p \in {p1} |-> r] : r \in {[code |-> b1, bank |-> nb1, number |-> n1, name |-> h2], NoRow}}

\* The second credit would pass the cap of 2.
MCTopups == {[user |-> s1, amount |-> 1, n |-> k] : k \in 1..2}

\* The student paid the amount and a fee of 1, or nothing; the gateway says all
\* of it, or leaves the fee, or what was paid, to the webhook.
MCReports == {
  [gross |-> 2, amount |-> 1, paid |-> 2, fee |-> 1, hookPaid |-> 2, hookFee |-> 1],
  [gross |-> 2, amount |-> 1, paid |-> None, fee |-> None, hookPaid |-> 2, hookFee |-> 1],
  [gross |-> 2, amount |-> None, paid |-> 2, fee |-> None, hookPaid |-> 2, hookFee |-> 1],
  [gross |-> 0, amount |-> 1, paid |-> 0, fee |-> None, hookPaid |-> 0, hookFee |-> None]}

\* The answer and the webhook name no fee, name one, prove who bears it, or hide
\* the proof; a fee of 99.5 kobo is none, and one of 90 is more than the transfer.
MCMessages ==
  LET says(fees, proof) == [fees |-> fees, proof |-> proof]
  IN  {[by |-> "answer", layers |-> <<top, data>>] :
         top \in {says(<<>>, "no"), says(<<>>, "odd")},
         data \in {says(<<>>, "no"), says(<<Unknown, 500>>, "no"), says(<<300>>, "yes")}}
      \cup {[by |-> "hook", layers |-> l] :
         l \in {<<says(<<>>, "no")>>, <<says(<<500>>, "no")>>, <<says(<<300>>, "yes")>>,
                <<says(<<995, 900>>, "no"), says(<<>>, "yes")>>}}

MCSymmetry ==
  Permutations({a1, a2})
=============================================================================
