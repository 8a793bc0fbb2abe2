---------------------------- MODULE MCSettlement ----------------------------
(* One student pays one merchant from phone k1 and, after a device change, *)
(* from phone k2, whose sequence numbers start over.                       *)
EXTENDS Settlement, TLC

CONSTANTS s1, m1, k1, k2, r1, c1, c2, d1

MCNone       == {}
MCStudents   == {s1}
MCMerchants  == {m1}
MCKeys       == {k1, k2}
MCKeyOwner   == [k \in MCKeys |-> s1]
MCRegistered == {k1}
MCRequests   == {r1}
MCKeyCalls   == {d1}
MCOneCall    == {c1}
MCTwoCalls   == {c1, c2}
MCSymmetry   == Permutations(MCTwoCalls)

\* From 1 a top-up leads to the cap and a hold may be smaller than a payment of
\* the old phone; from 3 the top-up is too large.  The merchant cannot be paid
\* both payments below a cap of 3.
MCBalance     == [u \in {s1, m1} |-> 1]
MCRichStudent == [u \in {s1, m1} |-> IF u = s1 THEN 3 ELSE 1]
MCTopups      == {[user |-> s1, amount |-> 2]}

Envelope(k, seq, amount, ts) ==
  [sender |-> s1, key |-> k, to |-> m1, seq |-> seq, amount |-> amount, ts |-> ts]

\* A payment of the old phone and the second one of the new phone.
MCTwoNumbers == {Envelope(k1, 1, 2, 0), Envelope(k2, 2, 1, 1)}

\* A payment of the old phone, signed before or after the key is retired, and
\* one of the new phone that reuses its number.
MCLatePayment == {Envelope(k1, 1, 2, 1), Envelope(k2, 1, 1, 1)}

\* Two payments of one phone with one number: its ledger was lost, not its key.
MCCollision == {Envelope(k1, 1, 2, 0), Envelope(k1, 1, 1, 0)}
=============================================================================
