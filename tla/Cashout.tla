------------------------------ MODULE Cashout ------------------------------
(***************************************************************************)
(* CashoutService: a merchant asks for its whole balance, an admin approves*)
(* and the amount is reserved in the operating account, and the money is   *)
(* sent through the gateway or paid by hand.  A payout that fails is       *)
(* refunded, by three different handlers.                                  *)
(*                                                                         *)
(* The gateway is external: it may accept a payout although the call       *)
(* fails, and sends each outcome's webhook any number of times.  Fees are  *)
(* recorded for accounting and move no money: they are in PayoutFees.      *)
(***************************************************************************)
EXTENDS Funds

CONSTANTS
  Cashouts,    \* Cashout row ids
  Requesters,  \* requests for a cashout in flight at once (bound)
  Modes,       \* CASHOUT_PAYOUT_MODE of the servers: "manual", "korapay_api"
  MinGross,    \* MIN_CASHOUT_GROSS_KOBO
  MinTransfer  \* MIN_KORAPAY_TRANSFER_KOBO

ASSUME CashoutAssumption ==
  /\ Modes \subseteq {"manual", "korapay_api"}
  /\ MinGross \in Nat \ {0}
  /\ MinTransfer \in Nat

VARIABLES
  cashouts,    \* Cashout rows
  refunds,     \* ledger rows of refunds, by the suffix of their reference
  requesters,  \* what each request in flight has read
  payouts,     \* how far approveCashout has got with the payout of a row
  gateway      \* the gateway's side of a payout

cashoutVars == <<cashouts, refunds, requesters, payouts, gateway>>

NoCashout  == [status |-> "NONE"]
CashoutRow == [status : {"PENDING", "PROCESSING", "COMPLETED", "FAILED"},
               merchant : Merchants, gross : Nat \ {0}, manual : BOOLEAN]

NoRequester == [stage |-> "idle"]
Requester   == {NoRequester}
                 \cup [stage : {"read", "clear"}, merchant : Merchants, gross : Nat \ {0}]

CashoutTypeOK ==
  /\ cashouts \in [Cashouts -> CashoutRow \cup {NoCashout}]
  /\ refunds \subseteq [cashout : Cashouts, by : {"rev", "webhook_fail", "manual_cancel"}]
  /\ requesters \in [Requesters -> Requester]
  /\ payouts \in [Cashouts -> {"idle", "ready", "sent", "threw"}]
  /\ gateway \in [Cashouts -> {"none", "accepted", "paid", "failed"}]

CashoutInit ==
  /\ cashouts = [c \in Cashouts |-> NoCashout]
  /\ refunds = {}
  /\ requesters = [q \in Requesters |-> NoRequester]
  /\ payouts = [c \in Cashouts |-> "idle"]
  /\ gateway = [c \in Cashouts |-> "none"]

-----------------------------------------------------------------------------
\* calculateOnetoFeeKobo: 250 basis points.
OnetoFee(gross) == (gross * 250) \div 10000

\* assertCashoutMinimums
LargeEnough(gross) == gross >= MinGross /\ gross - OnetoFee(gross) >= MinTransfer

Open(m) == {c \in Cashouts : /\ cashouts[c].status \in {"PENDING", "PROCESSING"}
                             /\ cashouts[c].merchant = m}

RequestRead(q, m) ==
  /\ requesters[q] = NoRequester
  /\ LargeEnough(funds[m])
  /\ requesters' = [requesters EXCEPT ![q] =
       [stage |-> "read", merchant |-> m, gross |-> funds[m]]]
  /\ UNCHANGED <<funds, cashouts, refunds, payouts, gateway>>

RequestCheck(q) ==
  /\ requesters[q].stage = "read"
  /\ requesters' = [requesters EXCEPT ![q] =
       IF Open(@.merchant) = {} THEN [@ EXCEPT !.stage = "clear"] ELSE NoRequester]
  /\ UNCHANGED <<funds, cashouts, refunds, payouts, gateway>>

RequestCreate(q, c) ==
  /\ requesters[q].stage = "clear"
  /\ cashouts[c] = NoCashout
  /\ cashouts' = [cashouts EXCEPT ![c] =
       [status |-> "PENDING", merchant |-> requesters[q].merchant,
        gross |-> requesters[q].gross, manual |-> FALSE]]
  /\ requesters' = [requesters EXCEPT ![q] = NoRequester]
  /\ UNCHANGED <<funds, refunds, payouts, gateway>>

\* Mutant: the balance is not looked at again.
AlwaysCovered(c) == TRUE

Covered(c) == funds[cashouts[c].merchant] >= cashouts[c].gross

\* approveCashout: the transaction that reserves the amount.  The payout that
\* follows, if the server pays through the gateway, is not part of it.
ApproveCashout(c, mode) ==
  /\ cashouts[c].status = "PENDING"
  /\ LargeEnough(cashouts[c].gross)
  /\ Covered(c)
  /\ cashouts' = [cashouts EXCEPT ![c].status = "PROCESSING", ![c].manual = (mode = "manual")]
  /\ funds' = Move(cashouts[c].merchant, Operating, cashouts[c].gross)
  /\ payouts' = [payouts EXCEPT ![c] = IF mode = "manual" THEN "idle" ELSE "ready"]
  /\ UNCHANGED <<refunds, requesters, gateway>>

-----------------------------------------------------------------------------
\* Mutants: the status is not looked at; the operating account is not charged.
AnyRow(c) == cashouts[c].status \in {"PROCESSING", "COMPLETED", "FAILED"}
RefundFromNowhere(c) == [funds EXCEPT ![cashouts[c].merchant] = @ + cashouts[c].gross]

\* The condition of every update that ends a cashout.
Processing(c) == cashouts[c].status = "PROCESSING"

MoneyBack(c) == Move(Operating, cashouts[c].merchant, cashouts[c].gross)

\* The update of the status, guarded by it, with the refund and its ledger rows
\* in one transaction.
Refund(c, suffix) ==
  /\ Processing(c)
  /\ cashouts' = [cashouts EXCEPT ![c].status = "FAILED"]
  /\ refunds' = refunds \cup {[cashout |-> c, by |-> suffix]}
  /\ funds' = MoneyBack(c)

Complete(c) ==
  /\ Processing(c)
  /\ cashouts' = [cashouts EXCEPT ![c].status = "COMPLETED"]
  /\ UNCHANGED <<funds, refunds>>

\* initiateKorapayPayout: the call succeeds, fails, or fails for the caller only.
SendPayout(c) ==
  /\ payouts[c] = "ready" /\ Processing(c)
  /\ \/ /\ gateway' = [gateway EXCEPT ![c] = "accepted"]
        /\ payouts' = [payouts EXCEPT ![c] = "sent"]
     \/ /\ gateway' \in {gateway, [gateway EXCEPT ![c] = "accepted"]}
        /\ payouts' = [payouts EXCEPT ![c] = "threw"]
  /\ UNCHANGED <<funds, cashouts, refunds, requesters>>

\* The answer is recorded, or recording it throws, inside the same try.
RecordPayout(c) ==
  /\ payouts[c] = "sent"
  /\ payouts' \in {[payouts EXCEPT ![c] = "idle"], [payouts EXCEPT ![c] = "threw"]}
  /\ UNCHANGED <<funds, cashouts, refunds, requesters, gateway>>

\* The catch clause: only a cashout that is still PROCESSING is refunded.
RefundPayout(c) ==
  /\ payouts[c] = "threw"
  /\ \/ Refund(c, "rev")
     \/ ~Processing(c) /\ UNCHANGED <<funds, cashouts, refunds>>
  /\ payouts' = [payouts EXCEPT ![c] = "idle"]
  /\ UNCHANGED <<requesters, gateway>>

\* The server restarts, or the refund's transaction fails: nothing comes back
\* to this payout (recoverStuckCashouts only logs it).
ForgetPayout(c) ==
  /\ payouts[c] # "idle"
  /\ payouts' = [payouts EXCEPT ![c] = "idle"]
  /\ UNCHANGED <<funds, cashouts, refunds, requesters, gateway>>

GatewaySettles(c) ==
  /\ gateway[c] = "accepted"
  /\ gateway' \in {[gateway EXCEPT ![c] = "paid"], [gateway EXCEPT ![c] = "failed"]}
  /\ UNCHANGED <<funds, cashouts, refunds, requesters, payouts>>

\* handlePayoutWebhook; a duplicate or late one changes nothing.
PayoutHook(c) ==
  /\ \/ gateway[c] = "paid" /\ Complete(c)
     \/ gateway[c] = "failed" /\ Refund(c, "webhook_fail")
  /\ UNCHANGED <<requesters, payouts, gateway>>

MarkManualPaid(c) ==
  /\ cashouts[c] # NoCashout /\ cashouts[c].manual
  /\ Complete(c)
  /\ UNCHANGED <<requesters, payouts, gateway>>

CancelManual(c) ==
  /\ cashouts[c] # NoCashout /\ cashouts[c].manual
  /\ Refund(c, "manual_cancel")
  /\ UNCHANGED <<requesters, payouts, gateway>>

CashoutStep ==
  \/ \E q \in Requesters :
       \/ \E m \in Merchants : RequestRead(q, m)
       \/ RequestCheck(q)
       \/ \E c \in Cashouts : RequestCreate(q, c)
  \/ \E c \in Cashouts :
       \/ \E mode \in Modes : ApproveCashout(c, mode)
       \/ SendPayout(c) \/ RecordPayout(c) \/ RefundPayout(c) \/ ForgetPayout(c)
       \/ GatewaySettles(c)
       \/ PayoutHook(c)
       \/ MarkManualPaid(c)
       \/ CancelManual(c)

-----------------------------------------------------------------------------
\* A cashout that failed was refunded by exactly one of the three handlers, and
\* no other was: the unique index does not see it, for each has its own suffix.
RefundedOnce ==
  \A c \in Cashouts :
    Cardinality({r \in refunds : r.cashout = c}) = IF cashouts[c].status = "FAILED" THEN 1 ELSE 0

\* COMPLETED and FAILED are final, whatever webhooks and admins do later.
CashoutFinal ==
  [][\A c \in Cashouts :
       cashouts[c].status \in {"COMPLETED", "FAILED"}
         => cashouts'[c].status = cashouts[c].status]_cashouts

\* A merchant is not refunded a payout that the gateway makes
\* (cashout.service.ts:408).
PaidNotRefunded == \A r \in refunds : gateway[r.cashout] # "paid"
=============================================================================
