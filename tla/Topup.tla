------------------------------- MODULE Topup -------------------------------
(***************************************************************************)
(* TopupService: a student pays at the gateway's checkout, and the money   *)
(* is credited when the gateway confirms it.  The confirmation is asked    *)
(* for by the student's status poll and by the gateway's webhook, each at  *)
(* any time and any number of times; both read the PENDING row, ask the    *)
(* gateway, and act on the row they read.                                  *)
(*                                                                         *)
(* The gateway is external.  It tells the truth about a charge, but the    *)
(* verification and the webhook may each leave fields out.                 *)
(***************************************************************************)
EXTENDS Funds

CONSTANTS
  Topups,     \* PaymentTopup rows, with fields user and amount
  Reports,    \* what the gateway can say of a successful charge
  Finalizers  \* webhooks and polls in flight at once (bound)

None == -1    \* a field the gateway leaves out, or fills with what is no amount

Report == [gross : Nat,                                     \* what the student paid
           amount : Nat \cup {None}, paid : Nat \cup {None}, fee : Nat \cup {None},
           hookPaid : Nat \cup {None}, hookFee : Nat \cup {None}]

\* What the gateway says was paid was paid; the amount it confirms without
\* saying what was paid was paid.
Truthful(r) ==
  /\ r.paid \in {None, r.gross}
  /\ r.hookPaid \in {None, r.gross}
  /\ r.paid = None => r.amount <= r.gross

ASSUME TopupAssumption ==
  /\ \A t \in Topups : t.user \in Students /\ t.amount \in Nat \ {0}
  /\ Reports \subseteq Report
  /\ \A r \in Reports : Truthful(r)

VARIABLES
  charges,     \* the gateway's side of a top-up
  topups,      \* PaymentTopup.status; NONE is the absence of the row
  credits,     \* top-ups that have their ledger rows
  finalizers   \* what each webhook or poll in flight has read

topupVars == <<charges, topups, credits, finalizers>>

Unpaid == [state |-> "open"]
Failed == [state |-> "failed"]
Charge == {Unpaid, Failed} \cup [state : {"success"}, report : Reports]

NoCall == [stage |-> "idle"]
Finalizer ==
  {NoCall}
    \cup [stage : {"started"}, topup : Topups, hook : BOOLEAN]
    \cup [stage : {"credit", "refuse"}, topup : Topups]

TopupTypeOK ==
  /\ charges \in [Topups -> Charge]
  /\ topups \in [Topups -> {"NONE", "PENDING", "SUCCESS", "FAILED"}]
  /\ credits \subseteq Topups
  /\ finalizers \in [Finalizers -> Finalizer]

TopupInit ==
  /\ charges = [t \in Topups |-> Unpaid]
  /\ topups = [t \in Topups |-> "NONE"]
  /\ credits = {}
  /\ finalizers = [f \in Finalizers |-> NoCall]

-----------------------------------------------------------------------------
FirstKnown(a, b) == IF a # None THEN a ELSE b

\* A webhook's fields stand in for those the verification leaves out.
GrossPaid(r, hook)    == FirstKnown(r.paid, IF hook THEN r.hookPaid ELSE None)
ProcessorFee(r, hook) == FirstKnown(r.fee, IF hook THEN r.hookFee ELSE None)

\* Mutant: the amount of the charge is believed, whatever was paid.
AmountMatches(t, r, hook) == r.amount = t.amount

\* extractVerifiedCreditAmountKobo: the report vouches for the amount of t.
Vouched(t, r, hook) ==
  LET paid == GrossPaid(r, hook)
      fee  == ProcessorFee(r, hook)
  IN  \/ /\ paid = None
         /\ r.amount = t.amount
      \/ /\ paid # None /\ fee = None
         /\ r.amount \in {None, paid}
         /\ paid = t.amount
      \/ /\ paid # None /\ fee # None
         /\ r.amount \in {None, paid, paid - fee}
         /\ paid - fee = t.amount

Initiate(t) ==
  /\ topups[t] = "NONE"
  /\ topups' = [topups EXCEPT ![t] = "PENDING"]
  /\ UNCHANGED <<funds, charges, credits, finalizers>>

\* The student pays, or the charge fails.
ChargeEnds(t) ==
  /\ topups[t] # "NONE"
  /\ charges[t] = Unpaid
  /\ \/ charges' = [charges EXCEPT ![t] = Failed]
     \/ \E r \in Reports :
          charges' = [charges EXCEPT ![t] = [state |-> "success", report |-> r]]
  /\ UNCHANGED <<funds, topups, credits, finalizers>>

Start(f, call) == finalizers[f] = NoCall /\ finalizers' = [finalizers EXCEPT ![f] = call]
Stop(f)        == finalizers' = [finalizers EXCEPT ![f] = NoCall]

\* The webhook charge.failed finds the row PENDING.
FailedChargeHook(f, t) ==
  /\ topups[t] = "PENDING"
  /\ charges[t] = Failed
  /\ Start(f, [stage |-> "refuse", topup |-> t])
  /\ UNCHANGED <<funds, charges, topups, credits>>

\* A status poll, or the webhook charge.success, finds the row PENDING.
StartFinalizing(f, t, hook) ==
  /\ topups[t] = "PENDING"
  /\ hook => charges[t].state = "success"
  /\ Start(f, [stage |-> "started", topup |-> t, hook |-> hook])
  /\ UNCHANGED <<funds, charges, topups, credits>>

\* verifyTransaction: GET /charges/:reference; FinalizerFails is its failure.
Verification(t) == charges[t]

Verify(f) ==
  /\ finalizers[f].stage = "started"
  /\ LET t == finalizers[f].topup
         charge == Verification(t)
         goOn(stage) == finalizers' = [finalizers EXCEPT ![f] = [stage |-> stage, topup |-> t]]
     IN \/ charge = Unpaid /\ Stop(f)
        \/ charge = Failed /\ goOn("refuse")
        \/ /\ charge.state = "success"
           /\ goOn(IF Vouched(t, charge.report, finalizers[f].hook) THEN "credit" ELSE "refuse")
  /\ UNCHANGED <<funds, charges, topups, credits>>

\* Two updates that mark the row FAILED by reference alone.
Refuse(f) ==
  /\ finalizers[f].stage = "refuse"
  /\ topups' = [topups EXCEPT ![finalizers[f].topup] = "FAILED"]
  /\ Stop(f)
  /\ UNCHANGED <<funds, charges, credits>>

\* creditVerifiedPendingTopup: the transaction looks at the row again.
CreditPending(f) ==
  /\ finalizers[f].stage = "credit"
  /\ LET t == finalizers[f].topup
         capped == funds[t.user] + t.amount > MaxBalance
     IN \/ /\ topups[t] # "PENDING"
           /\ UNCHANGED <<funds, topups, credits>>
        \/ /\ topups[t] = "PENDING" /\ capped
           /\ topups' = [topups EXCEPT ![t] = "FAILED"]
           /\ UNCHANGED <<funds, credits>>
        \/ /\ topups[t] = "PENDING" /\ ~capped
           /\ topups' = [topups EXCEPT ![t] = "SUCCESS"]
           /\ credits' = credits \cup {t}
           /\ funds' = Move(Operating, t.user, t.amount)
  /\ Stop(f)
  /\ UNCHANGED charges

\* The gateway does not answer, the transaction aborts or the server restarts.
FinalizerFails(f) ==
  /\ finalizers[f] # NoCall
  /\ Stop(f)
  /\ UNCHANGED <<funds, charges, topups, credits>>

TopupStep ==
  \/ \E t \in Topups : Initiate(t) \/ ChargeEnds(t)
  \/ \E f \in Finalizers, t \in Topups :
       FailedChargeHook(f, t) \/ (\E hook \in BOOLEAN : StartFinalizing(f, t, hook))
  \/ \E f \in Finalizers : Verify(f) \/ Refuse(f) \/ CreditPending(f) \/ FinalizerFails(f)

-----------------------------------------------------------------------------
\* A student is credited only what was really paid at the gateway, whichever
\* of its fields the gateway leaves out, and whoever asked.
CreditedWasPaid ==
  \A t \in credits :
    charges[t].state = "success" /\ charges[t].report.gross >= t.amount
=============================================================================
