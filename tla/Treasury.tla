----------------------------- MODULE Treasury -----------------------------
(***************************************************************************)
(* All the money: top-ups bring it in, payments move it from students to   *)
(* merchants, cashouts take it out.  Payments are here what Settlement      *)
(* shows them to be, one guarded transfer each.                            *)
(***************************************************************************)
EXTENDS Topup, Cashout

CONSTANT Payments  \* payments, with fields from, to and amount

ASSUME TreasuryAssumption ==
  \A p \in Payments : p.from \in Students /\ p.to \in Merchants /\ p.amount \in Nat \ {0}

VARIABLE paid  \* payments that have settled

treasuryVars == <<funds, topupVars, cashoutVars, paid>>

TreasuryTypeOK ==
  /\ FundsTypeOK
  /\ TopupTypeOK
  /\ CashoutTypeOK
  /\ paid \subseteq Payments

TreasuryInit ==
  /\ FundsInit
  /\ TopupInit
  /\ CashoutInit
  /\ paid = {}

\* Mutant: the recipient's balance is not compared with the cap.
Uncapped(p) == TRUE

Fits(p) == funds[p.to] + p.amount <= MaxBalance

Pay(p) ==
  /\ p \notin paid
  /\ funds[p.from] >= p.amount
  /\ Fits(p)
  /\ funds' = Move(p.from, p.to, p.amount)
  /\ paid' = paid \cup {p}
  /\ UNCHANGED <<topupVars, cashoutVars>>

TreasuryNext ==
  \/ TopupStep /\ UNCHANGED <<cashoutVars, paid>>
  \/ CashoutStep /\ UNCHANGED <<topupVars, paid>>
  \/ \E p \in Payments : Pay(p)

TreasurySpec == TreasuryInit /\ [][TreasuryNext]_treasuryVars

-----------------------------------------------------------------------------
Sum(S) == SumFunction([x \in S |-> x.amount])

\* Cashouts whose amount is out of the merchant's account.
Reserved(m) == {c \in Cashouts : /\ cashouts[c].status \in {"PROCESSING", "COMPLETED"}
                                 /\ cashouts[c].merchant = m}

CashedOut(m) == SumFunction([c \in Reserved(m) |-> cashouts[c].gross])

RefundsTo(m) == {r \in refunds : cashouts[r.cashout].merchant = m}
Refunded(m)  == SumFunction([r \in RefundsTo(m) |-> cashouts[r.cashout].gross])

\* Every account holds what top-ups, payments and cashouts left in it: a credit
\* is made once, and a cashout is out of its merchant's account exactly while
\* it is in progress or paid.  And no step changes the sum of all balances, which
\* AdminService.getReconciliationReport compares with zero.
BooksBalance ==
  /\ \A s \in Students :
       funds[s] = OldFunds[s] + Sum({t \in credits : t.user = s}) - Sum({p \in paid : p.from = s})
  /\ \A m \in Merchants :
       funds[m] = OldFunds[m] + Sum({p \in paid : p.to = m}) - CashedOut(m)
  /\ SumFunction(funds) = SumFunction(OldFunds)

\* MAX_USER_BALANCE_KOBO is an invariant of no balance: a refund is not compared
\* with it, and the merchant may have been paid since the approval
\* (cashout.service.ts:826, 1133).  What does hold is that refunds are all that
\* an account can have above the cap.
BalanceCapped ==
  /\ \A s \in Students : funds[s] <= MaxBalance
  /\ \A m \in Merchants : funds[m] <= MaxBalance + Refunded(m)
=============================================================================
