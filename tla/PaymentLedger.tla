--------------------------- MODULE PaymentLedger ---------------------------
(***************************************************************************)
(* What the server promises of offline payments, whatever phones, retries, *)
(* polls, key moves and recoveries do: a payment is one transfer, made     *)
(* whole or not at all, made at most once, within the payer's balance and  *)
(* the payee's cap, and one sequence number of a payer pays once.          *)
(*                                                                         *)
(* Settlement implements this specification; Till builds on it.            *)
(***************************************************************************)
EXTENDS Naturals

CONSTANTS
  Users,
  Payments,        \* records with fields sender, to, seq and amount
  Credits,         \* top-ups, records with fields user and amount
  InitialBalance,
  MaxBalance       \* MAX_USER_BALANCE_KOBO

VARIABLES
  balance,         \* what every user has
  settled,         \* the payments that were made
  credited         \* the top-ups that were credited

ledgerVars == <<balance, settled, credited>>

LedgerInit ==
  /\ balance = InitialBalance
  /\ settled = {}
  /\ credited = {}

NumberUsed(e) == \E p \in settled : p.sender = e.sender /\ p.seq = e.seq

Fundable(e) == e.amount <= balance[e.sender]

\* Mutant: the cap is not looked at.
Uncapped(e) == TRUE

Fits(e) == balance[e.to] + e.amount <= MaxBalance

Pay(e) ==
  /\ ~NumberUsed(e)
  /\ Fundable(e)
  /\ Fits(e)
  /\ balance' = [balance EXCEPT ![e.sender] = @ - e.amount, ![e.to] = @ + e.amount]
  /\ settled' = settled \cup {e}
  /\ UNCHANGED credited

Credit(c) ==
  /\ c \notin credited
  /\ balance[c.user] + c.amount <= MaxBalance
  /\ balance' = [balance EXCEPT ![c.user] = @ + c.amount]
  /\ credited' = credited \cup {c}
  /\ UNCHANGED settled

LedgerNext == (\E e \in Payments : Pay(e)) \/ (\E c \in Credits : Credit(c))

LedgerSpec == LedgerInit /\ [][LedgerNext]_ledgerVars
=============================================================================
