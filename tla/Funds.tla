------------------------------- MODULE Funds -------------------------------
(***************************************************************************)
(* The balances that top-ups, payments and cashouts move money between.    *)
(* The operating account is the other side of the money that enters and    *)
(* leaves through the gateway, and is the only balance below zero.         *)
(***************************************************************************)
EXTENDS Integers, FiniteSets, FiniteSetsExt

CONSTANTS
  Students,   \* users that top up and pay
  Merchants,  \* users that are paid and cash out
  Operating,  \* the user u_operating
  MaxBalance, \* MAX_USER_BALANCE_KOBO
  OldFunds    \* the balances when the model starts

ASSUME FundsAssumption ==
  /\ IsFiniteSet(Students \cup Merchants)
  /\ Students \cap Merchants = {}
  /\ Operating \notin Students \cup Merchants
  /\ MaxBalance \in Nat
  /\ OldFunds \in [Students \cup Merchants \cup {Operating} -> Int]
  /\ \A u \in Students \cup Merchants : OldFunds[u] \in 0 .. MaxBalance

Users   == Students \cup Merchants
Holders == Users \cup {Operating}

VARIABLE funds  \* User.verifiedBalanceKobo

FundsTypeOK ==
  /\ funds \in [Holders -> Int]
  /\ \A u \in Users : funds[u] >= 0

FundsInit == funds = OldFunds

Move(from, to, amount) == [funds EXCEPT ![from] = @ - amount, ![to] = @ + amount]
=============================================================================
