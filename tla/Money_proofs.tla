---------------------------- MODULE Money_proofs ----------------------------
(***************************************************************************)
(* What one step can do to top-ups and cashouts, for any number of rows,   *)
(* webhooks, polls and requests in flight: the lemmas that the proofs of   *)
(* the treasury and of the screens share.                                  *)
(*                                                                         *)
(* PaidForCredit is what a finalizer that is about to credit has verified. *)
(* It stays true because the gateway does not change its mind about a      *)
(* charge.                                                                 *)
(***************************************************************************)
EXTENDS Topup, Cashout, TLAPS

\* A step of the top-ups, or one of something else.
TopupMoves == TopupStep \/ UNCHANGED topupVars

\* Money moved between two accounts leaves every user with what it had or more
\* than it is asked for.
LEMMA MoveTypes ==
  ASSUME FundsTypeOK, NEW from \in Holders, NEW to \in Holders, from # to,
         NEW amount \in Nat, from \in Users => funds[from] >= amount,
         funds' = Move(from, to, amount)
  PROVE  FundsTypeOK'
<1>1. funds[from] \in Int /\ funds[to] \in Int
  BY DEF FundsTypeOK
<1>2. /\ funds'[from] = funds[from] - amount
      /\ funds'[to] = funds[to] + amount
      /\ \A u \in Holders \ {from, to} : funds'[u] = funds[u]
      /\ funds' \in [Holders -> Int]
  BY <1>1 DEF Move, FundsTypeOK
<1>3. ASSUME NEW u \in Users
      PROVE  funds'[u] >= 0
  <2>1. u \in Holders /\ funds[u] >= 0 /\ funds[u] \in Int
    BY DEF FundsTypeOK, Holders
  <2>2. CASE u = from
    BY <2>1, <2>2, <1>1, <1>2
  <2>3. CASE u = to
    BY <2>1, <2>3, <1>1, <1>2
  <2>4. CASE u \notin {from, to}
    BY <2>1, <2>4, <1>2
  <2> QED
    BY <2>2, <2>3, <2>4
<1> QED
  BY <1>2, <1>3 DEF FundsTypeOK

LEMMA FinalizerFields ==
  ASSUME TopupTypeOK, NEW f \in Finalizers, finalizers[f] # NoCall
  PROVE  /\ finalizers[f].topup \in Topups
         /\ finalizers[f].stage \in {"started", "credit", "refuse"}
<1>1. finalizers[f] \in Finalizer
  BY DEF TopupTypeOK
<1> QED
  BY <1>1 DEF Finalizer

LEMMA ChargeFields ==
  ASSUME TopupTypeOK, NEW t \in Topups
  PROVE  /\ charges[t].state \in {"open", "failed", "success"}
         /\ charges[t].state = "success" =>
              charges[t] # Unpaid /\ charges[t].report \in Reports
<1>1. charges[t] \in Charge
  BY DEF TopupTypeOK
<1> QED
  BY <1>1 DEF Charge, Unpaid, Failed

-----------------------------------------------------------------------------
(* The types of top-ups.                                                    *)

LEMMA TopupStepTypes ==
  ASSUME FundsTypeOK, TopupTypeOK, TopupStep
  PROVE  FundsTypeOK' /\ TopupTypeOK'
<1>1. ASSUME NEW t \in Topups, Initiate(t)
      PROVE  FundsTypeOK' /\ TopupTypeOK'
  BY <1>1 DEF Initiate, FundsTypeOK, TopupTypeOK
<1>2. ASSUME NEW t \in Topups, ChargeEnds(t)
      PROVE  FundsTypeOK' /\ TopupTypeOK'
  <2>1. charges' \in [Topups -> Charge]
    <3>1. CASE charges' = [charges EXCEPT ![t] = Failed]
      BY <3>1 DEF TopupTypeOK, Charge
    <3>2. ASSUME NEW r \in Reports,
                 charges' = [charges EXCEPT ![t] = [state |-> "success", report |-> r]]
          PROVE  charges' \in [Topups -> Charge]
      BY <3>2 DEF TopupTypeOK, Charge
    <3> QED
      BY <1>2, <3>1, <3>2 DEF ChargeEnds
  <2> QED
    BY <1>2, <2>1 DEF ChargeEnds, FundsTypeOK, TopupTypeOK
<1>3. ASSUME NEW f \in Finalizers, NEW t \in Topups, FailedChargeHook(f, t)
      PROVE  FundsTypeOK' /\ TopupTypeOK'
  <2>1. [stage |-> "refuse", topup |-> t] \in Finalizer
    BY DEF Finalizer
  <2> QED
    BY <1>3, <2>1 DEF FailedChargeHook, Start, FundsTypeOK, TopupTypeOK
<1>4. ASSUME NEW f \in Finalizers, NEW t \in Topups, NEW hook \in BOOLEAN,
             StartFinalizing(f, t, hook)
      PROVE  FundsTypeOK' /\ TopupTypeOK'
  <2>1. [stage |-> "started", topup |-> t, hook |-> hook] \in Finalizer
    BY DEF Finalizer
  <2> QED
    BY <1>4, <2>1 DEF StartFinalizing, Start, FundsTypeOK, TopupTypeOK
<1>5. ASSUME NEW f \in Finalizers, Verify(f) \/ Refuse(f) \/ CreditPending(f) \/ FinalizerFails(f)
      PROVE  FundsTypeOK' /\ TopupTypeOK'
  <2> DEFINE t == finalizers[f].topup
  <2>1. finalizers[f] # NoCall
    BY <1>5 DEF Verification, Verify, Refuse, CreditPending, FinalizerFails, NoCall
  <2>2. t \in Topups
    BY <2>1, FinalizerFields
  <2>3. NoCall \in Finalizer /\ \A s \in {"credit", "refuse"} : [stage |-> s, topup |-> t] \in Finalizer
    BY <2>2 DEF Finalizer
  <2>4. CASE Verify(f)
    <3>1. \/ Stop(f)
          \/ \E s \in {"credit", "refuse"} :
               finalizers' = [finalizers EXCEPT ![f] = [stage |-> s, topup |-> t]]
      BY <2>4 DEF Verification, Verify
    <3>2. finalizers' \in [Finalizers -> Finalizer]
      BY <2>3, <3>1 DEF Stop, TopupTypeOK
    <3> QED
      BY <2>4, <3>2 DEF Verification, Verify, FundsTypeOK, TopupTypeOK
  <2>5. CASE Refuse(f)
    BY <2>2, <2>3, <2>5 DEF Refuse, Stop, FundsTypeOK, TopupTypeOK
  <2>6. CASE CreditPending(f)
    <3>1. FundsTypeOK'
      <4>1. CASE funds' = Move(Operating, t.user, t.amount)
        BY <2>2, <4>1, MoveTypes, FundsAssumption, TopupAssumption DEF Users, Holders
      <4>2. CASE UNCHANGED funds
        BY <4>2 DEF FundsTypeOK
      <4> QED
        BY <2>6, <4>1, <4>2 DEF CreditPending
    <3>2. /\ topups' \in [Topups -> {"NONE", "PENDING", "SUCCESS", "FAILED"}]
          /\ credits' \subseteq Topups
      BY <2>2, <2>6 DEF CreditPending, TopupTypeOK
    <3> QED
      BY <2>3, <2>6, <3>1, <3>2 DEF CreditPending, Stop, TopupTypeOK
  <2>7. CASE FinalizerFails(f)
    BY <2>3, <2>7 DEF FinalizerFails, Stop, FundsTypeOK, TopupTypeOK
  <2> QED
    BY <1>5, <2>4, <2>5, <2>6, <2>7
<1> QED
  BY <1>1, <1>2, <1>3, <1>4, <1>5 DEF TopupStep

-----------------------------------------------------------------------------
(* What was verified stays true until it is acted upon.                     *)

PaidFor(t) == charges[t].state = "success" /\ charges[t].report.gross >= t.amount

PaidForCredit ==
  \A f \in Finalizers : finalizers[f].stage = "credit" => PaidFor(finalizers[f].topup)

\* What extractVerifiedCreditAmountKobo accepts was really paid.
LEMMA VouchedIsPaid ==
  ASSUME NEW t \in Topups, NEW r \in Reports, NEW hook \in BOOLEAN, Vouched(t, r, hook)
  PROVE  r.gross >= t.amount
<1>1. /\ r.gross \in Nat
      /\ r.amount \in Nat \cup {None} /\ r.paid \in Nat \cup {None} /\ r.fee \in Nat \cup {None}
      /\ r.hookPaid \in Nat \cup {None} /\ r.hookFee \in Nat \cup {None}
      /\ t.amount \in Nat \ {0}
      /\ Truthful(r)
  BY TopupAssumption DEF Report
<1> DEFINE gross == GrossPaid(r, hook)
           fee   == ProcessorFee(r, hook)
<1>2. gross \in {None, r.gross} /\ (gross = None => r.paid = None)
  BY <1>1 DEF GrossPaid, FirstKnown, Truthful
<1>3. fee \in Nat \cup {None}
  BY <1>1 DEF ProcessorFee, FirstKnown
<1>4. \/ gross = None /\ r.amount = t.amount
      \/ gross # None /\ gross = t.amount
      \/ gross # None /\ fee # None /\ gross - fee = t.amount
  BY DEF Vouched
<1> QED
  BY <1>1, <1>2, <1>3, <1>4 DEF Truthful, None

LEMMA ChargesAreFinal ==
  ASSUME TopupTypeOK, TopupMoves, NEW t \in Topups, PaidFor(t)
  PROVE  PaidFor(t)'
<1>1. CASE UNCHANGED charges
  BY <1>1 DEF PaidFor
<1>2. ASSUME NEW u \in Topups, ChargeEnds(u)
      PROVE  PaidFor(t)'
  <2>1. t # u
    BY <1>2, ChargeFields DEF ChargeEnds, PaidFor, TopupTypeOK, Unpaid
  <2>2. charges'[t] = charges[t]
    BY <1>2, <2>1 DEF ChargeEnds, TopupTypeOK
  <2> QED
    BY <2>2 DEF PaidFor
<1>3. UNCHANGED charges \/ \E u \in Topups : ChargeEnds(u)
  BY DEF TopupMoves, topupVars, TopupStep, Initiate, FailedChargeHook,
         StartFinalizing, Verify, Refuse, CreditPending, FinalizerFails
<1> QED
  BY <1>1, <1>2, <1>3

\* A webhook or poll begins, ends or verifies; nothing else moves it.
LEMMA FinalizerMoves ==
  ASSUME TopupTypeOK, TopupMoves,
         NEW f \in Finalizers, finalizers'[f] # finalizers[f]
  PROVE  \/ Start(f, finalizers'[f]) /\ finalizers'[f].stage \in {"started", "refuse"}
         \/ Stop(f)
         \/ Verify(f)
<1>1. TopupStep
  BY DEF TopupMoves, topupVars
<1>2. ASSUME NEW t \in Topups, Initiate(t) \/ ChargeEnds(t)
      PROVE  FALSE
  BY <1>2 DEF Initiate, ChargeEnds
<1>3. ASSUME NEW g \in Finalizers, NEW t \in Topups, FailedChargeHook(g, t)
      PROVE  Start(f, finalizers'[f]) /\ finalizers'[f].stage \in {"started", "refuse"}
  BY <1>3 DEF FailedChargeHook, Start, TopupTypeOK
<1>4. ASSUME NEW g \in Finalizers, NEW t \in Topups, NEW hook \in BOOLEAN,
             StartFinalizing(g, t, hook)
      PROVE  Start(f, finalizers'[f]) /\ finalizers'[f].stage \in {"started", "refuse"}
  BY <1>4 DEF StartFinalizing, Start, TopupTypeOK
<1>5. ASSUME NEW g \in Finalizers, Refuse(g) \/ CreditPending(g) \/ FinalizerFails(g)
      PROVE  Stop(f)
  BY <1>5 DEF Refuse, CreditPending, FinalizerFails, Stop, TopupTypeOK
<1>6. ASSUME NEW g \in Finalizers, Verify(g)
      PROVE  Verify(f)
  <2>1. f = g
    BY <1>6 DEF Verification, Verify, Stop, TopupTypeOK
  <2> QED
    BY <1>6, <2>1
<1> QED
  BY <1>1, <1>2, <1>3, <1>4, <1>5, <1>6 DEF TopupStep

\* A step brings one finalizer to the stage "credit", and only with a verified
\* charge, or leaves those that are there alone.
LEMMA CreditStageEntered ==
  ASSUME TopupTypeOK, PaidForCredit, TopupMoves,
         NEW f \in Finalizers, finalizers'[f].stage = "credit"
  PROVE  finalizers'[f].topup \in Topups /\ PaidFor(finalizers'[f].topup)
<1>1. CASE finalizers'[f] = finalizers[f]
  BY <1>1, FinalizerFields DEF PaidForCredit, TopupTypeOK, NoCall
<1>2. CASE Verify(f) /\ charges[finalizers[f].topup].state = "success"
  <2> DEFINE t == finalizers[f].topup
             r == charges[t].report
  <2>1. finalizers[f] # NoCall
    BY <1>2 DEF Verification, Verify, NoCall
  <2>2. t \in Topups /\ r \in Reports
    BY <1>2, <2>1, FinalizerFields, ChargeFields DEF TopupTypeOK
  <2>3. finalizers[f].hook \in BOOLEAN
    BY <1>2 DEF Verification, Verify, TopupTypeOK, Finalizer, NoCall
  <2>4. \E s \in {"credit", "refuse"} :
          /\ finalizers' = [finalizers EXCEPT ![f] = [stage |-> s, topup |-> t]]
          /\ s = "credit" => Vouched(t, r, finalizers[f].hook)
    BY <1>2 DEF Verification, Verify, Unpaid, Failed
  <2>5. Vouched(t, r, finalizers[f].hook) /\ finalizers'[f].topup = t
    BY <2>4 DEF TopupTypeOK
  <2> QED
    BY <1>2, <2>2, <2>3, <2>5, VouchedIsPaid DEF PaidFor
<1>3. CASE finalizers'[f] # finalizers[f]
  <2>1. \/ Start(f, finalizers'[f]) /\ finalizers'[f].stage \in {"started", "refuse"}
        \/ Stop(f)
        \/ Verify(f)
    BY <1>3, FinalizerMoves DEF TopupTypeOK
  <2>2. ~Stop(f)
    BY DEF Stop, TopupTypeOK, NoCall
  <2>3. Verify(f)
    BY <2>1, <2>2
  <2>4. charges[finalizers[f].topup].state = "success"
    BY <2>2, <2>3 DEF Verification, Verify, TopupTypeOK
  <2> QED
    BY <1>2, <2>3, <2>4
<1> QED
  BY <1>1, <1>3

LEMMA CreditedIsPaidStep ==
  ASSUME TopupTypeOK, PaidForCredit, CreditedWasPaid, TopupMoves
  PROVE  PaidForCredit' /\ CreditedWasPaid'
<1>1. PaidForCredit'
  <2>1. ASSUME NEW f \in Finalizers, finalizers'[f].stage = "credit",
               NEW t, t = finalizers'[f].topup
        PROVE  PaidFor(t)'
    <3>1. t \in Topups /\ PaidFor(t)
      BY <2>1, CreditStageEntered
    <3> QED
      BY <3>1, ChargesAreFinal
  <2> QED
    BY <2>1 DEF PaidForCredit, PaidFor
<1>2. ASSUME NEW t \in credits'
      PROVE  PaidFor(t)'
  <2>1. CASE t \in credits
    BY <2>1, ChargesAreFinal DEF CreditedWasPaid, PaidFor, TopupTypeOK
  <2>2. ASSUME NEW f \in Finalizers, CreditPending(f), t = finalizers[f].topup
        PROVE  PaidFor(t)'
    <3>1. t \in Topups /\ PaidFor(t)
      BY <2>2, FinalizerFields DEF CreditPending, PaidForCredit, TopupTypeOK, NoCall
    <3> QED
      BY <3>1, ChargesAreFinal
  <2>3. t \in credits \/ \E f \in Finalizers : CreditPending(f) /\ t = finalizers[f].topup
    <3>1. CASE UNCHANGED credits
      BY <3>1
    <3>2. ASSUME NEW f \in Finalizers, CreditPending(f)
          PROVE  t \in credits \/ t = finalizers[f].topup
      BY <3>2 DEF CreditPending
    <3>3. UNCHANGED credits \/ \E f \in Finalizers : CreditPending(f)
      BY DEF TopupMoves, topupVars, TopupStep, Initiate, ChargeEnds,
             FailedChargeHook, StartFinalizing, Verify, Refuse, FinalizerFails
    <3> QED
      BY <3>1, <3>2, <3>3
  <2> QED
    BY <2>1, <2>2, <2>3
<1> QED
  BY <1>1, <1>2 DEF CreditedWasPaid, PaidFor

-----------------------------------------------------------------------------
(* The types of cashouts.                                                   *)

LEMMA CashoutFields ==
  ASSUME CashoutTypeOK, NEW c \in Cashouts
  PROVE  /\ cashouts[c].status \in {"NONE", "PENDING", "PROCESSING", "COMPLETED", "FAILED"}
         /\ cashouts[c].status = "NONE" <=> cashouts[c] = NoCashout
         /\ cashouts[c] # NoCashout =>
              /\ cashouts[c] \in CashoutRow
              /\ cashouts[c].merchant \in Merchants
              /\ cashouts[c].gross \in Nat \ {0}
<1>1. cashouts[c] \in CashoutRow \cup {NoCashout}
  BY DEF CashoutTypeOK
<1> QED
  BY <1>1 DEF CashoutRow, NoCashout

LEMMA RequesterFields ==
  ASSUME CashoutTypeOK, NEW q \in Requesters, requesters[q].stage # "idle"
  PROVE  /\ requesters[q] \in [stage : {"read", "clear"}, merchant : Merchants, gross : Nat \ {0}]
         /\ requesters[q].merchant \in Merchants
         /\ requesters[q].gross \in Nat \ {0}
<1>1. requesters[q] \in Requester
  BY DEF CashoutTypeOK
<1> QED
  BY <1>1 DEF Requester, NoRequester

LEMMA RefundTypes ==
  ASSUME FundsTypeOK, CashoutTypeOK, NEW c \in Cashouts,
         NEW suffix \in {"rev", "webhook_fail", "manual_cancel"}, Refund(c, suffix)
  PROVE  /\ FundsTypeOK'
         /\ cashouts' \in [Cashouts -> CashoutRow \cup {NoCashout}]
         /\ refunds' \subseteq [cashout : Cashouts, by : {"rev", "webhook_fail", "manual_cancel"}]
<1>1. /\ cashouts[c] \in CashoutRow
      /\ cashouts[c].merchant \in Merchants /\ cashouts[c].gross \in Nat
  BY CashoutFields DEF Refund, Processing
<1>2. FundsTypeOK'
  BY <1>1, MoveTypes, FundsAssumption DEF Refund, MoneyBack, Users, Holders
<1>3. [cashouts[c] EXCEPT !.status = "FAILED"] \in CashoutRow
  BY <1>1 DEF CashoutRow
<1> QED
  BY <1>2, <1>3 DEF Refund, CashoutTypeOK

LEMMA CompleteTypes ==
  ASSUME FundsTypeOK, CashoutTypeOK, NEW c \in Cashouts, Complete(c)
  PROVE  FundsTypeOK' /\ cashouts' \in [Cashouts -> CashoutRow \cup {NoCashout}]
<1>1. cashouts[c] \in CashoutRow
  BY CashoutFields DEF Complete, Processing
<1>2. [cashouts[c] EXCEPT !.status = "COMPLETED"] \in CashoutRow
  BY <1>1 DEF CashoutRow
<1> QED
  BY <1>2 DEF Complete, CashoutTypeOK, FundsTypeOK

LEMMA RequestTypes ==
  ASSUME FundsTypeOK, CashoutTypeOK, NEW q \in Requesters,
         \/ \E m \in Merchants : RequestRead(q, m)
         \/ RequestCheck(q)
         \/ \E c \in Cashouts : RequestCreate(q, c)
  PROVE  FundsTypeOK' /\ CashoutTypeOK'
<1>1. ASSUME NEW m \in Merchants, RequestRead(q, m)
      PROVE  FundsTypeOK' /\ CashoutTypeOK'
  <2>1. funds[m] \in Nat \ {0}
    <3>1. funds[m] \in Int /\ funds[m] >= MinGross
      BY <1>1 DEF RequestRead, LargeEnough, FundsTypeOK, Users, Holders
    <3> QED
      BY <3>1, CashoutAssumption
  <2>2. [stage |-> "read", merchant |-> m, gross |-> funds[m]] \in Requester
    BY <2>1 DEF Requester
  <2> QED
    BY <1>1, <2>2 DEF RequestRead, FundsTypeOK, CashoutTypeOK
<1>2. CASE RequestCheck(q)
  <2>1. requesters[q] \in [stage : {"read", "clear"}, merchant : Merchants, gross : Nat \ {0}]
    BY <1>2, RequesterFields DEF RequestCheck
  <2>2. [requesters[q] EXCEPT !.stage = "clear"] \in Requester /\ NoRequester \in Requester
    BY <2>1 DEF Requester
  <2>3. requesters' \in [Requesters -> Requester]
    BY <1>2, <2>2 DEF RequestCheck, CashoutTypeOK
  <2> QED
    BY <1>2, <2>3 DEF RequestCheck, FundsTypeOK, CashoutTypeOK
<1>3. ASSUME NEW c \in Cashouts, RequestCreate(q, c)
      PROVE  FundsTypeOK' /\ CashoutTypeOK'
  <2>1. requesters[q].merchant \in Merchants /\ requesters[q].gross \in Nat \ {0}
    BY <1>3, RequesterFields DEF RequestCreate
  <2>2. [status |-> "PENDING", merchant |-> requesters[q].merchant,
         gross |-> requesters[q].gross, manual |-> FALSE] \in CashoutRow
    BY <2>1 DEF CashoutRow
  <2>3. NoRequester \in Requester
    BY DEF Requester
  <2> QED
    BY <1>3, <2>2, <2>3 DEF RequestCreate, FundsTypeOK, CashoutTypeOK
<1> QED
  BY <1>1, <1>2, <1>3

LEMMA PayoutTypes ==
  ASSUME FundsTypeOK, CashoutTypeOK, NEW c \in Cashouts,
         SendPayout(c) \/ RecordPayout(c) \/ RefundPayout(c) \/ ForgetPayout(c)
  PROVE  FundsTypeOK' /\ CashoutTypeOK'
<1>1. CASE SendPayout(c)
  BY <1>1 DEF SendPayout, FundsTypeOK, CashoutTypeOK
<1>2. CASE RecordPayout(c)
  BY <1>2 DEF RecordPayout, FundsTypeOK, CashoutTypeOK
<1>3. CASE RefundPayout(c)
  <2>1. CASE Refund(c, "rev")
    BY <1>3, <2>1, RefundTypes DEF RefundPayout, CashoutTypeOK
  <2>2. CASE UNCHANGED <<funds, cashouts, refunds>>
    BY <1>3, <2>2 DEF RefundPayout, FundsTypeOK, CashoutTypeOK
  <2> QED
    BY <1>3, <2>1, <2>2 DEF RefundPayout
<1>4. CASE ForgetPayout(c)
  BY <1>4 DEF ForgetPayout, FundsTypeOK, CashoutTypeOK
<1> QED
  BY <1>1, <1>2, <1>3, <1>4

LEMMA DecisionTypes ==
  ASSUME FundsTypeOK, CashoutTypeOK, NEW c \in Cashouts,
         \/ \E mode : ApproveCashout(c, mode)
         \/ GatewaySettles(c) \/ PayoutHook(c) \/ MarkManualPaid(c) \/ CancelManual(c)
  PROVE  FundsTypeOK' /\ CashoutTypeOK'
<1>1. ASSUME NEW mode, ApproveCashout(c, mode)
      PROVE  FundsTypeOK' /\ CashoutTypeOK'
  <2>1. /\ cashouts[c] \in CashoutRow
        /\ cashouts[c].merchant \in Merchants /\ cashouts[c].gross \in Nat
    BY <1>1, CashoutFields DEF ApproveCashout
  <2>2. FundsTypeOK'
    BY <1>1, <2>1, MoveTypes, FundsAssumption DEF ApproveCashout, Covered, Users, Holders
  <2>3. [cashouts[c] EXCEPT !.status = "PROCESSING", !.manual = (mode = "manual")] \in CashoutRow
    BY <2>1 DEF CashoutRow
  <2>4. cashouts' = [cashouts EXCEPT ![c] =
          [cashouts[c] EXCEPT !.status = "PROCESSING", !.manual = (mode = "manual")]]
    BY <1>1 DEF ApproveCashout
  <2>5. cashouts' \in [Cashouts -> CashoutRow \cup {NoCashout}]
    BY <2>3, <2>4 DEF CashoutTypeOK
  <2> QED
    BY <1>1, <2>2, <2>5 DEF ApproveCashout, CashoutTypeOK
<1>2. CASE GatewaySettles(c)
  BY <1>2 DEF GatewaySettles, FundsTypeOK, CashoutTypeOK
<1>3. CASE PayoutHook(c)
  <2>1. CASE Complete(c)
    BY <1>3, <2>1, CompleteTypes DEF PayoutHook, Complete, CashoutTypeOK
  <2>2. CASE Refund(c, "webhook_fail")
    BY <1>3, <2>2, RefundTypes DEF PayoutHook, CashoutTypeOK
  <2> QED
    BY <1>3, <2>1, <2>2 DEF PayoutHook
<1>4. CASE MarkManualPaid(c)
  BY <1>4, CompleteTypes DEF MarkManualPaid, Complete, CashoutTypeOK
<1>5. CASE CancelManual(c)
  BY <1>5, RefundTypes DEF CancelManual, CashoutTypeOK
<1> QED
  BY <1>1, <1>2, <1>3, <1>4, <1>5

LEMMA CashoutStepTypes ==
  ASSUME FundsTypeOK, CashoutTypeOK, CashoutStep
  PROVE  FundsTypeOK' /\ CashoutTypeOK'
BY RequestTypes, PayoutTypes, DecisionTypes DEF CashoutStep
=============================================================================
