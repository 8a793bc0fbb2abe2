-------------------------------- MODULE MCTill --------------------------------
(* One student, first on one phone and then on another, pays one merchant. *)
EXTENDS Till, TLC

CONSTANTS s1, m1, r1, r2, f1

MCUsers   == {s1, m1}
MCBalance == [u \in MCUsers |-> IF u = s1 THEN 3 ELSE 1]
MCCredits == {[user |-> s1, amount |-> 1]}
MCAmounts == {2}
MCNone    == {}

Payment(n, seq) == [sender |-> s1, to |-> m1, phone |-> n, seq |-> seq, amount |-> 2]

\* The student can pay twice once the top-up is credited; the merchant has room
\* for one of the payments.
MCOnePhone == {Payment(1, 1), Payment(1, 2)}

\* One payment on each of two phones, which both start with number 1.
MCTwoPhones == {Payment(1, 1), Payment(2, 1)}

\* What one payment brings can be cashed out.
MCCashouts == {[amount |-> 2]}

MCTwoRefreshes == {r1, r2}
MCOneRefresh   == {r1}
MCTwoScreens   == {"home", "success"}
MCHome         == {"home"}
MCOneFetch     == {f1}
MCSymmetry     == Permutations(Refreshes)
=============================================================================
