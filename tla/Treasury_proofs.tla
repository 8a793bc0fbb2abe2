-------------------------- MODULE Treasury_proofs --------------------------
(***************************************************************************)
(* Safety of top-ups and cashouts for any number of users, rows, webhooks, *)
(* polls and requests in flight.                                           *)
(*                                                                         *)
(* The inductive invariant is the types, what a finalizer that is about to *)
(* credit has verified (PaidForCredit of Money_proofs), and which refund a *)
(* row has (RefundRows).                                                   *)
(***************************************************************************)
EXTENDS Treasury, Money_proofs, FiniteSums

LEMMA TreasuryInitTypes ==
  TreasuryInit => TreasuryTypeOK
<1> SUFFICES ASSUME TreasuryInit
             PROVE  TreasuryTypeOK
  OBVIOUS
<1>1. FundsTypeOK
  BY FundsAssumption DEF TreasuryInit, FundsInit, FundsTypeOK, Users, Holders
<1>2. TopupTypeOK
  BY DEF TreasuryInit, TopupInit, TopupTypeOK, Charge, Finalizer
<1>3. CashoutTypeOK
  BY DEF TreasuryInit, CashoutInit, CashoutTypeOK, Requester
<1> QED
  BY <1>1, <1>2, <1>3 DEF TreasuryInit, TreasuryTypeOK

LEMMA TreasuryNextTypes ==
  TreasuryTypeOK /\ [TreasuryNext]_treasuryVars => TreasuryTypeOK'
<1> SUFFICES ASSUME TreasuryTypeOK, [TreasuryNext]_treasuryVars
             PROVE  TreasuryTypeOK'
  OBVIOUS
<1> USE DEF TreasuryTypeOK
<1>1. CASE TopupStep /\ UNCHANGED <<cashoutVars, paid>>
  BY <1>1, TopupStepTypes DEF cashoutVars, CashoutTypeOK
<1>2. CASE CashoutStep /\ UNCHANGED <<topupVars, paid>>
  BY <1>2, CashoutStepTypes DEF topupVars, TopupTypeOK
<1>3. ASSUME NEW p \in Payments, Pay(p)
      PROVE  TreasuryTypeOK'
  <2>1. FundsTypeOK'
    BY <1>3, MoveTypes, TreasuryAssumption, FundsAssumption DEF Pay, Users, Holders
  <2> QED
    BY <1>3, <2>1 DEF Pay, topupVars, cashoutVars, TopupTypeOK, CashoutTypeOK
<1>4. CASE UNCHANGED treasuryVars
  BY <1>4 DEF treasuryVars, topupVars, cashoutVars, FundsTypeOK, TopupTypeOK, CashoutTypeOK
<1> QED
  BY <1>1, <1>2, <1>3, <1>4 DEF TreasuryNext

\* Every row, call and balance has its type, and no user's balance is ever
\* negative: an approval looks at the balance again in its own transaction.
THEOREM TreasuryTypes == TreasurySpec => []TreasuryTypeOK
BY TreasuryInitTypes, TreasuryNextTypes, PTL DEF TreasurySpec

\* No student is credited more than was paid at the gateway, for any overlap of
\* polls and webhooks and whatever the gateway leaves out.
THEOREM CreditedIsPaid == TreasurySpec => []CreditedWasPaid
<1>1. TreasuryInit => PaidForCredit /\ CreditedWasPaid
  BY DEF TreasuryInit, TopupInit, PaidForCredit, CreditedWasPaid, NoCall
<1>2. /\ TreasuryTypeOK /\ PaidForCredit /\ CreditedWasPaid
      /\ [TreasuryNext]_treasuryVars
      => PaidForCredit' /\ CreditedWasPaid'
  <2>1. [TreasuryNext]_treasuryVars => TopupMoves
    BY DEF TreasuryNext, treasuryVars, TopupMoves, Pay
  <2> QED
    BY <2>1, CreditedIsPaidStep DEF TreasuryTypeOK
<1> QED
  BY <1>1, <1>2, TreasuryTypes, PTL DEF TreasurySpec

-----------------------------------------------------------------------------
(* A status that ends a cashout is written once, with the refund it means.  *)

RefundsOf(c) == {r \in refunds : r.cashout = c}

RefundRows ==
  \A c \in Cashouts :
    IF cashouts[c].status = "FAILED" THEN \E row : RefundsOf(c) = {row} ELSE RefundsOf(c) = {}

\* The steps that touch a cashout, by the status they find and leave.
LEMMA CashoutMoves ==
  ASSUME CashoutTypeOK, [TreasuryNext]_treasuryVars, NEW c \in Cashouts
  PROVE  \/ cashouts'[c] = cashouts[c] /\ RefundsOf(c)' = RefundsOf(c)
         \/ /\ cashouts[c].status \in {"NONE", "PENDING", "PROCESSING"}
            /\ cashouts'[c].status \in {"PENDING", "PROCESSING", "COMPLETED"}
            /\ UNCHANGED refunds
         \/ \E suffix : Refund(c, suffix)
<1> DEFINE Kept  == cashouts'[c] = cashouts[c] /\ RefundsOf(c)' = RefundsOf(c)
           Moved == /\ cashouts[c].status \in {"NONE", "PENDING", "PROCESSING"}
                    /\ cashouts'[c].status \in {"PENDING", "PROCESSING", "COMPLETED"}
                    /\ UNCHANGED refunds
<1>1. CASE UNCHANGED <<cashouts, refunds>>
  BY <1>1 DEF RefundsOf
<1>2. ASSUME NEW q \in Requesters, NEW d \in Cashouts, RequestCreate(q, d)
      PROVE  Kept \/ Moved
  <2>1. CASE d = c
    BY <1>2, <2>1 DEF RequestCreate, CashoutTypeOK, NoCashout
  <2>2. CASE d # c
    BY <1>2, <2>2 DEF RequestCreate, CashoutTypeOK, RefundsOf
  <2> QED
    BY <2>1, <2>2
<1>3. ASSUME NEW d \in Cashouts, NEW mode \in Modes, ApproveCashout(d, mode)
      PROVE  Kept \/ Moved
  <2>1. CASE d = c
    <3>1. cashouts[c] \in CashoutRow
      BY <1>3, <2>1, CashoutFields DEF ApproveCashout
    <3>2. cashouts'[c] = [cashouts[c] EXCEPT !.status = "PROCESSING", !.manual = (mode = "manual")]
      BY <1>3, <2>1 DEF ApproveCashout, CashoutTypeOK
    <3>3. cashouts'[c].status = "PROCESSING"
      BY <3>1, <3>2 DEF CashoutRow
    <3> QED
      BY <1>3, <2>1, <3>3 DEF ApproveCashout
  <2>2. CASE d # c
    BY <1>3, <2>2 DEF ApproveCashout, CashoutTypeOK, RefundsOf
  <2> QED
    BY <2>1, <2>2
<1>4. ASSUME NEW d \in Cashouts, Complete(d)
      PROVE  Kept \/ Moved
  <2>1. CASE d = c
    <3>1. cashouts[c] \in CashoutRow
      BY <1>4, <2>1, CashoutFields DEF Complete, Processing
    <3>2. cashouts'[c] = [cashouts[c] EXCEPT !.status = "COMPLETED"]
      BY <1>4, <2>1 DEF Complete, CashoutTypeOK
    <3> QED
      BY <1>4, <2>1, <3>1, <3>2 DEF Complete, Processing, CashoutRow
  <2>2. CASE d # c
    BY <1>4, <2>2 DEF Complete, CashoutTypeOK, RefundsOf
  <2> QED
    BY <2>1, <2>2
<1>5. ASSUME NEW d \in Cashouts, NEW suffix, Refund(d, suffix)
      PROVE  Kept \/ Refund(c, suffix)
  <2>1. CASE d # c
    <3>1. cashouts'[c] = cashouts[c]
      BY <1>5, <2>1 DEF Refund, CashoutTypeOK
    <3>2. RefundsOf(c)' = RefundsOf(c)
      BY <1>5, <2>1 DEF Refund, RefundsOf
    <3> QED
      BY <3>1, <3>2
  <2> QED
    BY <1>5, <2>1
<1>6. \/ UNCHANGED <<cashouts, refunds>>
      \/ \E q \in Requesters, d \in Cashouts : RequestCreate(q, d)
      \/ \E d \in Cashouts : \/ \E mode \in Modes : ApproveCashout(d, mode)
                             \/ Complete(d)
                             \/ \E suffix : Refund(d, suffix)
  BY DEF TreasuryNext, treasuryVars, cashoutVars, Pay, CashoutStep, RequestRead, RequestCheck,
         SendPayout, RecordPayout, RefundPayout, ForgetPayout, GatewaySettles, PayoutHook,
         MarkManualPaid, CancelManual
<1> QED
  BY <1>1, <1>2, <1>3, <1>4, <1>5, <1>6

LEMMA RefundRowsStep ==
  ASSUME CashoutTypeOK, RefundRows, [TreasuryNext]_treasuryVars
  PROVE  RefundRows'
<1> SUFFICES ASSUME NEW c \in Cashouts
             PROVE  (IF cashouts[c].status = "FAILED"
                     THEN \E row : RefundsOf(c) = {row} ELSE RefundsOf(c) = {})'
  BY DEF RefundRows
<1>1. CASE cashouts'[c] = cashouts[c] /\ RefundsOf(c)' = RefundsOf(c)
  BY <1>1 DEF RefundRows
<1>2. CASE /\ cashouts[c].status \in {"NONE", "PENDING", "PROCESSING"}
           /\ cashouts'[c].status \in {"PENDING", "PROCESSING", "COMPLETED"}
           /\ UNCHANGED refunds
  <2>1. RefundsOf(c) = {} /\ RefundsOf(c)' = RefundsOf(c)
    BY <1>2 DEF RefundRows, RefundsOf
  <2> QED
    BY <1>2, <2>1
<1>3. ASSUME NEW suffix, Refund(c, suffix)
      PROVE  RefundsOf(c)' = {[cashout |-> c, by |-> suffix]} /\ cashouts'[c].status = "FAILED"
  <2>1. RefundsOf(c) = {}
    BY <1>3 DEF Refund, Processing, RefundRows
  <2>2. RefundsOf(c)' = {[cashout |-> c, by |-> suffix]}
    BY <1>3, <2>1 DEF Refund, RefundsOf
  <2>3. cashouts[c] \in CashoutRow
    BY <1>3, CashoutFields DEF Refund, Processing
  <2>4. cashouts'[c].status = "FAILED"
    BY <1>3, <2>3 DEF Refund, CashoutTypeOK, CashoutRow
  <2> QED
    BY <2>2, <2>4
<1> QED
  BY <1>1, <1>2, <1>3, CashoutMoves

\* One refund of each cashout that failed and none of any other, whichever of
\* the catch clause, the webhook and the administrator come first or together.
THEOREM RefundsOnce == TreasurySpec => []RefundedOnce
<1>1. TreasuryInit => RefundRows
  BY DEF TreasuryInit, CashoutInit, RefundRows, RefundsOf, NoCashout
<1>2. TreasuryTypeOK /\ RefundRows /\ [TreasuryNext]_treasuryVars => RefundRows'
  BY RefundRowsStep DEF TreasuryTypeOK
<1>3. RefundRows => RefundedOnce
  BY FS_EmptySet, FS_Singleton DEF RefundRows, RefundedOnce, RefundsOf
<1> QED
  BY <1>1, <1>2, <1>3, TreasuryTypes, PTL DEF TreasurySpec

\* No webhook, no admin and no late catch clause changes a cashout that ended.
THEOREM CashoutsAreFinal == TreasurySpec => CashoutFinal
<1>1. ASSUME CashoutTypeOK, [TreasuryNext]_treasuryVars, NEW c \in Cashouts,
             cashouts[c].status \in {"COMPLETED", "FAILED"}
      PROVE  cashouts'[c].status = cashouts[c].status
  BY <1>1, CashoutMoves DEF Refund, Processing
<1>2. TreasuryTypeOK /\ [TreasuryNext]_treasuryVars
      => [\A c \in Cashouts :
            cashouts[c].status \in {"COMPLETED", "FAILED"}
              => cashouts'[c].status = cashouts[c].status]_cashouts
  BY <1>1 DEF TreasuryTypeOK
<1> QED
  BY <1>2, TreasuryTypes, PTL DEF TreasurySpec, CashoutFinal
-----------------------------------------------------------------------------
(* The books.  A credit and a payment are made once, so that each sum grows *)
(* by what the account gained or lost in the same step.                     *)

CreditsTo(s) == {t \in credits : t.user = s}
PaidBy(s)    == {p \in paid : p.from = s}
PaidTo(m)    == {p \in paid : p.to = m}
Made         == {c \in Cashouts : cashouts[c].status # "NONE"}

\* Tables only ever hold finitely many rows.
FiniteRows ==
  /\ IsFiniteSet(credits)
  /\ IsFiniteSet(paid)
  /\ IsFiniteSet(refunds)
  /\ IsFiniteSet(Made)

\* A top-up that was credited is not open to be credited again: a poll that
\* fails it afterwards leaves it FAILED.
CreditedIsClosed == \A t \in credits : topups[t] \in {"SUCCESS", "FAILED"}

Records == TreasuryTypeOK /\ RefundRows /\ FiniteRows /\ CreditedIsClosed

LEMMA MoveEffect ==
  ASSUME FundsTypeOK, NEW from \in Holders, NEW to \in Holders, from # to,
         NEW amount \in Nat, funds' = Move(from, to, amount)
  PROVE  /\ funds'[from] = funds[from] - amount
         /\ funds'[to] = funds[to] + amount
         /\ \A u \in Holders \ {from, to} : funds'[u] = funds[u]
         /\ SumFunction(funds') = SumFunction(funds)
<1>1. \A u \in Holders : funds[u] \in Int
  BY DEF FundsTypeOK
<1>2. IsFiniteSet(Users) /\ IsFiniteSet(Holders)
  BY FundsAssumption, FS_AddElement DEF Holders, Users
<1>3. /\ funds \in [Holders -> Int] /\ funds' \in [Holders -> Int] /\ amount \in Int
      /\ funds'[from] = funds[from] - amount
      /\ funds'[to] = funds[to] + amount
      /\ \A u \in Holders \ {from, to} : funds'[u] = funds[u]
  BY <1>1 DEF Move, FundsTypeOK
<1> QED
  BY <1>2, <1>3, TotalMove

\* Every step that touches money, and what it does to the rows that explain it.
Credits(t) ==
  /\ t \notin credits
  /\ credits' = credits \cup {t}
  /\ topups[t] = "PENDING" /\ topups' = [topups EXCEPT ![t] = "SUCCESS"]
  /\ funds[t.user] + t.amount <= MaxBalance
  /\ funds' = Move(Operating, t.user, t.amount)
  /\ UNCHANGED <<paid, cashouts, refunds>>

Approves(c) ==
  /\ cashouts[c].status = "PENDING"
  /\ \E mode \in Modes : ApproveCashout(c, mode)
  /\ UNCHANGED <<paid, credits, topups>>

Refunds(c) ==
  /\ \E suffix \in {"rev", "webhook_fail", "manual_cancel"} : Refund(c, suffix)
  /\ UNCHANGED <<paid, credits, topups>>

Creates(c) ==
  /\ cashouts[c] = NoCashout
  /\ \E m \in Merchants, gross \in Nat \ {0} :
       cashouts' = [cashouts EXCEPT ![c] =
         [status |-> "PENDING", merchant |-> m, gross |-> gross, manual |-> FALSE]]
  /\ UNCHANGED <<funds, paid, credits, topups, refunds>>

Completes(c) == Complete(c) /\ UNCHANGED <<paid, credits, topups>>

\* No row moves but that of a top-up that is not credited by the step.
TopupMarked ==
  /\ UNCHANGED <<funds, paid, credits, cashouts, refunds>>
  /\ \A t \in Topups : \/ topups'[t] = topups[t]
                       \/ topups[t] = "NONE" /\ topups'[t] = "PENDING"
                       \/ topups'[t] = "FAILED"

LEMMA TreasuryMoves ==
  ASSUME TreasuryTypeOK, CreditedIsClosed, [TreasuryNext]_treasuryVars
  PROVE  \/ TopupMarked
         \/ \E t \in Topups : Credits(t)
         \/ \E p \in Payments : Pay(p)
         \/ \E c \in Cashouts : Approves(c) \/ Refunds(c) \/ Creates(c) \/ Completes(c)
<1> USE DEF TreasuryTypeOK
<1>1. CASE TopupStep /\ UNCHANGED <<cashoutVars, paid>>
  <2>1. ASSUME NEW t \in Topups, Initiate(t) \/ ChargeEnds(t)
        PROVE  TopupMarked
    BY <1>1, <2>1 DEF Initiate, ChargeEnds, TopupMarked, cashoutVars, TopupTypeOK
  <2>2. ASSUME NEW f \in Finalizers, NEW t \in Topups,
               FailedChargeHook(f, t) \/ (\E hook \in BOOLEAN : StartFinalizing(f, t, hook))
        PROVE  TopupMarked
    BY <1>1, <2>2 DEF FailedChargeHook, StartFinalizing, TopupMarked, cashoutVars
  <2>3. ASSUME NEW f \in Finalizers, Verify(f) \/ FinalizerFails(f)
        PROVE  TopupMarked
    BY <1>1, <2>3 DEF Verify, FinalizerFails, TopupMarked, cashoutVars
  <2>4. ASSUME NEW f \in Finalizers, Refuse(f)
        PROVE  TopupMarked
    BY <1>1, <2>4 DEF Refuse, TopupMarked, cashoutVars, TopupTypeOK
  <2>5. ASSUME NEW f \in Finalizers, CreditPending(f)
        PROVE  TopupMarked \/ \E t \in Topups : Credits(t)
    <3> DEFINE t == finalizers[f].topup
    <3>1. t \in Topups
      BY <2>5, FinalizerFields DEF CreditPending, NoCall
    <3>2. CASE UNCHANGED <<funds, topups, credits>>
      BY <1>1, <3>2 DEF TopupMarked, cashoutVars
    <3>3. CASE /\ topups' = [topups EXCEPT ![t] = "FAILED"]
               /\ UNCHANGED <<funds, credits>>
      BY <1>1, <3>3 DEF TopupMarked, cashoutVars, TopupTypeOK
    <3>4. CASE /\ topups[t] = "PENDING" /\ ~ (funds[t.user] + t.amount > MaxBalance)
               /\ topups' = [topups EXCEPT ![t] = "SUCCESS"]
               /\ credits' = credits \cup {t}
               /\ funds' = Move(Operating, t.user, t.amount)
      <4>1. t \notin credits
        BY <3>4 DEF CreditedIsClosed
      <4>2. funds[t.user] \in Int /\ t.amount \in Int /\ MaxBalance \in Int
        BY <3>1, TopupAssumption, FundsAssumption DEF FundsTypeOK, Holders, Users
      <4>3. funds[t.user] + t.amount <= MaxBalance
        BY <3>4, <4>2
      <4>4. Credits(t)
        BY <1>1, <3>4, <4>1, <4>3 DEF Credits, cashoutVars
      <4> QED
        BY <3>1, <4>4
    <3> QED
      BY <2>5, <3>2, <3>3, <3>4 DEF CreditPending
  <2> QED
    BY <1>1, <2>1, <2>2, <2>3, <2>4, <2>5 DEF TopupStep
<1>2. CASE CashoutStep /\ UNCHANGED <<topupVars, paid>>
  <2>1. ASSUME NEW q \in Requesters, (\E m \in Merchants : RequestRead(q, m)) \/ RequestCheck(q)
        PROVE  TopupMarked
    BY <1>2, <2>1 DEF RequestRead, RequestCheck, TopupMarked, topupVars
  <2>2. ASSUME NEW q \in Requesters, NEW c \in Cashouts, RequestCreate(q, c)
        PROVE  Creates(c)
    <3>1. requesters[q].merchant \in Merchants /\ requesters[q].gross \in Nat \ {0}
      BY <2>2, RequesterFields DEF RequestCreate, NoRequester
    <3> QED
      BY <1>2, <2>2, <3>1 DEF RequestCreate, Creates, topupVars
  <2>3. ASSUME NEW c \in Cashouts, NEW mode \in Modes, ApproveCashout(c, mode)
        PROVE  Approves(c)
    BY <1>2, <2>3 DEF Approves, ApproveCashout, topupVars
  <2>4. ASSUME NEW c \in Cashouts, SendPayout(c) \/ RecordPayout(c) \/ ForgetPayout(c) \/ GatewaySettles(c)
        PROVE  TopupMarked
    BY <1>2, <2>4 DEF SendPayout, RecordPayout, ForgetPayout, GatewaySettles, TopupMarked, topupVars
  <2>5. ASSUME NEW c \in Cashouts, RefundPayout(c)
        PROVE  TopupMarked \/ Refunds(c)
    BY <1>2, <2>5 DEF RefundPayout, TopupMarked, Refunds, topupVars
  <2>6. ASSUME NEW c \in Cashouts, PayoutHook(c) \/ MarkManualPaid(c) \/ CancelManual(c)
        PROVE  Completes(c) \/ Refunds(c)
    BY <1>2, <2>6 DEF PayoutHook, MarkManualPaid, CancelManual, Completes, Refunds, topupVars
  <2> QED
    BY <1>2, <2>1, <2>2, <2>3, <2>4, <2>5, <2>6 DEF CashoutStep
<1>3. CASE UNCHANGED treasuryVars
  BY <1>3 DEF treasuryVars, topupVars, cashoutVars, TopupMarked
<1> QED
  BY <1>1, <1>2, <1>3 DEF TreasuryNext

\* A cashout is reserved for one merchant while its amount is out of the account.
IsReserved(c) == cashouts[c].status \in {"PROCESSING", "COMPLETED"}

LEMMA ReservedRows ==
  ASSUME Records, NEW m \in Merchants
  PROVE  /\ IsFiniteSet(Reserved(m)) /\ IsFiniteSet(RefundsTo(m))
         /\ [c \in Reserved(m) |-> cashouts[c].gross] \in [Reserved(m) -> Nat]
         /\ [r \in RefundsTo(m) |-> cashouts[r.cashout].gross] \in [RefundsTo(m) -> Nat]
         /\ CashedOut(m) \in Nat /\ Refunded(m) \in Nat
<1>1. IsFiniteSet(Reserved(m)) /\ IsFiniteSet(RefundsTo(m))
  <2>1. Reserved(m) \subseteq Made /\ RefundsTo(m) \subseteq refunds
    BY DEF Reserved, RefundsTo, Made
  <2> QED
    BY <2>1, FS_Subset DEF Records, FiniteRows
<1>2. \A c \in Reserved(m) : cashouts[c].gross \in Nat
  BY CashoutFields DEF Reserved, Records, TreasuryTypeOK
<1>3. \A r \in RefundsTo(m) : cashouts[r.cashout].gross \in Nat
  <2>1. SUFFICES ASSUME NEW r \in refunds
                 PROVE  cashouts[r.cashout].gross \in Nat
    BY DEF RefundsTo
  <2>2. r.cashout \in Cashouts
    BY DEF Records, TreasuryTypeOK, CashoutTypeOK
  <2>3. cashouts[r.cashout].status = "FAILED"
    BY <2>2 DEF Records, RefundRows, RefundsOf
  <2> QED
    BY <2>2, <2>3, CashoutFields DEF Records, TreasuryTypeOK
<1> QED
  BY <1>1, <1>2, <1>3, TotalIsNat DEF CashedOut, Refunded

LEMMA CashedOutSame ==
  ASSUME NEW m, \A c \in Cashouts : cashouts'[c] = cashouts[c] \/ ~ (IsReserved(c) \/ IsReserved(c)')
                                      \/ /\ IsReserved(c) /\ IsReserved(c)'
                                         /\ cashouts'[c].merchant = cashouts[c].merchant
                                         /\ cashouts'[c].gross = cashouts[c].gross
  PROVE  CashedOut(m)' = CashedOut(m)
<1>1. Reserved(m)' = Reserved(m)
  BY DEF Reserved, IsReserved
<1>2. \A c \in Reserved(m) : cashouts'[c].gross = cashouts[c].gross
  BY DEF Reserved, IsReserved
<1>3. [c \in Reserved(m)' |-> cashouts'[c].gross] = [c \in Reserved(m) |-> cashouts[c].gross]
  BY <1>1, <1>2
<1> QED
  BY <1>3 DEF CashedOut

\* One more row is out of the account of its merchant.
LEMMA CashedOutAdd ==
  ASSUME Records, NEW d \in Cashouts, ~ IsReserved(d), IsReserved(d)', cashouts'[d].gross \in Nat,
         \A c \in Cashouts \ {d} : cashouts'[c] = cashouts[c], NEW m \in Merchants
  PROVE  CashedOut(m)' = IF cashouts'[d].merchant = m
                           THEN CashedOut(m) + cashouts'[d].gross ELSE CashedOut(m)
<1> DEFINE f == [c \in Reserved(m) |-> cashouts[c].gross]
           S == Reserved(m)
<1>1. IsFiniteSet(S) /\ f \in [S -> Nat]
  BY ReservedRows
<1>2. CASE cashouts'[d].merchant = m
  <2>1. Reserved(m)' = S \cup {d} /\ d \notin S
    BY <1>2 DEF Reserved, IsReserved
  <2> DEFINE h == [c \in S \cup {d} |-> cashouts'[c].gross]
  <2>2. \A c \in S : h[c] = f[c] /\ h[c] \in Nat
    BY <1>1, <2>1 DEF Reserved
  <2>3. h[d] = cashouts'[d].gross
    OBVIOUS
  <2>4. f \in [S -> Int]
    BY <1>1
  <2>5. h \in [S \cup {d} -> Int]
    BY <2>2, <2>3
  <2>6. CashedOut(m) = SumFunction(f) /\ CashedOut(m)' = SumFunction(h)
    BY <2>1 DEF CashedOut
  <2> HIDE DEF S, f, h
  <2>7. SumFunction(h) = SumFunction(f) + h[d]
    BY <1>1, <2>1, <2>2, <2>4, <2>5, TotalAdd
  <2> QED
    BY <1>2, <2>3, <2>6, <2>7
<1>3. CASE cashouts'[d].merchant # m
  <2>1. Reserved(m)' = Reserved(m) /\ d \notin Reserved(m)
    BY <1>3 DEF Reserved, IsReserved
  <2>2. [c \in Reserved(m)' |-> cashouts'[c].gross] = [c \in Reserved(m) |-> cashouts[c].gross]
    BY <2>1 DEF Reserved
  <2> QED
    BY <1>3, <2>2 DEF CashedOut
<1> QED
  BY <1>2, <1>3

\* One row less.
LEMMA CashedOutRemove ==
  ASSUME Records, NEW d \in Cashouts, IsReserved(d), ~ IsReserved(d)',
         \A c \in Cashouts \ {d} : cashouts'[c] = cashouts[c], NEW m \in Merchants
  PROVE  CashedOut(m)' = IF cashouts[d].merchant = m
                           THEN CashedOut(m) - cashouts[d].gross ELSE CashedOut(m)
<1> DEFINE f == [c \in Reserved(m) |-> cashouts[c].gross]
           S == Reserved(m)'
<1>1. IsFiniteSet(Reserved(m)) /\ f \in [Reserved(m) -> Nat]
  BY ReservedRows
<1>2. CASE cashouts[d].merchant = m
  <2>1. Reserved(m) = S \cup {d} /\ d \notin S /\ IsFiniteSet(S)
    <3>1. Reserved(m) = S \cup {d} /\ d \notin S
      BY <1>2 DEF Reserved, IsReserved
    <3> QED
      BY <1>1, <3>1, FS_Subset
  <2> DEFINE h == [c \in S |-> cashouts'[c].gross]
  <2>2. \A c \in S : h[c] = f[c] /\ h[c] \in Nat
    BY <1>1, <2>1 DEF Reserved
  <2>3. h \in [S -> Nat] /\ h \in [S -> Int] /\ f \in [S \cup {d} -> Int]
    BY <1>1, <2>1, <2>2
  <2>4. f[d] = cashouts[d].gross /\ f[d] \in Nat
    BY <1>1, <2>1
  <2>5. CashedOut(m) = SumFunction(f) /\ CashedOut(m)' = SumFunction(h)
    BY DEF CashedOut
  <2> HIDE DEF S, f, h
  <2>6. SumFunction(h) \in Nat
    BY <2>1, <2>3, TotalIsNat
  <2>7. SumFunction(f) = SumFunction(h) + f[d]
    BY <2>1, <2>2, <2>3, TotalAdd
  <2> QED
    BY <1>2, <2>4, <2>5, <2>6, <2>7
<1>3. CASE cashouts[d].merchant # m
  <2>1. Reserved(m)' = Reserved(m) /\ d \notin Reserved(m)
    BY <1>3 DEF Reserved, IsReserved
  <2>2. [c \in Reserved(m)' |-> cashouts'[c].gross] = [c \in Reserved(m) |-> cashouts[c].gross]
    BY <2>1 DEF Reserved
  <2> QED
    BY <1>3, <2>2 DEF CashedOut
<1> QED
  BY <1>2, <1>3

LEMMA SumOfAdd ==
  ASSUME NEW S, IsFiniteSet(S), NEW x, x \notin S, \A y \in S \cup {x} : y.amount \in Nat
  PROVE  Sum(S) \in Nat /\ Sum(S \cup {x}) = Sum(S) + x.amount
<1> DEFINE f == [y \in S |-> y.amount]
           h == [y \in S \cup {x} |-> y.amount]
<1>1. f \in [S -> Nat] /\ f \in [S -> Int] /\ h \in [S \cup {x} -> Int]
  OBVIOUS
<1>2. h[x] = x.amount /\ \A y \in S : h[y] = f[y]
  OBVIOUS
<1>3. Sum(S) = SumFunction(f) /\ Sum(S \cup {x}) = SumFunction(h)
  BY DEF Sum
<1> HIDE DEF f, h
<1> QED
  BY <1>1, <1>2, <1>3, TotalAdd, TotalIsNat

LEMMA RefundRowsFail ==
  ASSUME Records, NEW r \in refunds
  PROVE  r.cashout \in Cashouts /\ cashouts[r.cashout].status = "FAILED"
<1>1. r.cashout \in Cashouts
  BY DEF Records, TreasuryTypeOK, CashoutTypeOK
<1> QED
  BY <1>1 DEF Records, RefundRows, RefundsOf

LEMMA RefundedSame ==
  ASSUME Records, NEW m, refunds' = refunds,
         \A c \in Cashouts : cashouts[c].status = "FAILED" => cashouts'[c] = cashouts[c]
  PROVE  Refunded(m)' = Refunded(m)
<1>1. \A r \in refunds : cashouts'[r.cashout] = cashouts[r.cashout]
  BY RefundRowsFail
<1>2. RefundsTo(m)' = RefundsTo(m)
  BY <1>1 DEF RefundsTo
<1>3. [r \in RefundsTo(m)' |-> cashouts'[r.cashout].gross]
        = [r \in RefundsTo(m) |-> cashouts[r.cashout].gross]
  BY <1>1, <1>2 DEF RefundsTo
<1> QED
  BY <1>3 DEF Refunded

LEMMA RefundedAdd ==
  ASSUME Records, NEW d \in Cashouts, NEW suffix, Refund(d, suffix), NEW m \in Merchants
  PROVE  Refunded(m)' = IF cashouts[d].merchant = m
                          THEN Refunded(m) + cashouts[d].gross ELSE Refunded(m)
<1> DEFINE S == RefundsTo(m)
           f == [r \in S |-> cashouts[r.cashout].gross]
           row == [cashout |-> d, by |-> suffix]
<1>1. /\ cashouts[d] \in CashoutRow /\ cashouts[d].gross \in Nat
      /\ refunds' = refunds \cup {row} /\ row.cashout = d
      /\ \A c \in Cashouts \ {d} : cashouts'[c] = cashouts[c]
      /\ cashouts'[d] = [cashouts[d] EXCEPT !.status = "FAILED"]
  BY CashoutFields DEF Refund, Processing, Records, TreasuryTypeOK, CashoutTypeOK
<1>2. cashouts'[d].merchant = cashouts[d].merchant /\ cashouts'[d].gross = cashouts[d].gross
  BY <1>1 DEF CashoutRow
<1>3. \A r \in refunds : r.cashout \in Cashouts \ {d}
  BY RefundRowsFail DEF Refund, Processing
<1>4. \A r \in refunds : cashouts'[r.cashout] = cashouts[r.cashout]
  BY <1>1, <1>3
<1>5. row \notin refunds
  BY <1>1, <1>3
<1>6. IsFiniteSet(S) /\ f \in [S -> Nat] /\ Refunded(m) \in Nat
  BY ReservedRows
<1> HIDE DEF row
<1>7. CASE cashouts[d].merchant = m
  <2>1. RefundsTo(m)' = S \cup {row} /\ row \notin S
    BY <1>1, <1>2, <1>4, <1>5, <1>7 DEF RefundsTo
  <2> DEFINE h == [r \in S \cup {row} |-> cashouts'[r.cashout].gross]
  <2>2. \A r \in S : h[r] = f[r] /\ h[r] \in Nat
    BY <1>4, <1>6 DEF RefundsTo
  <2>3. h[row] = cashouts[d].gross
    BY <1>1, <1>2
  <2>4. f \in [S -> Int] /\ h \in [S \cup {row} -> Int]
    BY <1>1, <1>6, <2>2, <2>3
  <2>5. Refunded(m) = SumFunction(f) /\ Refunded(m)' = SumFunction(h)
    BY <2>1 DEF Refunded
  <2> HIDE DEF S, f, h
  <2>6. SumFunction(h) = SumFunction(f) + h[row]
    BY <1>6, <2>1, <2>2, <2>4, TotalAdd
  <2> QED
    BY <1>7, <2>3, <2>5, <2>6
<1>8. CASE cashouts[d].merchant # m
  <2>1. RefundsTo(m)' = RefundsTo(m)
    BY <1>1, <1>2, <1>4, <1>8 DEF RefundsTo
  <2>2. [r \in RefundsTo(m)' |-> cashouts'[r.cashout].gross] = f
    BY <1>4, <2>1 DEF RefundsTo
  <2> QED
    BY <1>8, <2>2 DEF Refunded
<1> QED
  BY <1>7, <1>8

LEMMA RecordsStep ==
  ASSUME Records, [TreasuryNext]_treasuryVars
  PROVE  Records'
<1> USE DEF Records
<1>1. TreasuryTypeOK' /\ RefundRows'
  BY TreasuryNextTypes, RefundRowsStep DEF TreasuryTypeOK
<1>2. CASE TopupMarked
  <2>1. Made' = Made
    BY <1>2 DEF TopupMarked, Made
  <2>2. CreditedIsClosed'
    BY <1>2 DEF TopupMarked, CreditedIsClosed, TreasuryTypeOK, TopupTypeOK
  <2> QED
    BY <1>1, <1>2, <2>1, <2>2 DEF FiniteRows, TopupMarked
<1>3. ASSUME NEW t \in Topups, Credits(t)
      PROVE  Records'
  <2>1. Made' = Made /\ IsFiniteSet(credits')
    BY <1>3, FS_AddElement DEF Credits, Made, FiniteRows
  <2>2. CreditedIsClosed'
    BY <1>3 DEF Credits, CreditedIsClosed, TreasuryTypeOK, TopupTypeOK
  <2> QED
    BY <1>1, <1>3, <2>1, <2>2 DEF FiniteRows, Credits
<1>4. ASSUME NEW p \in Payments, Pay(p)
      PROVE  Records'
  <2>1. Made' = Made /\ IsFiniteSet(paid')
    BY <1>4, FS_AddElement DEF Pay, Made, FiniteRows, cashoutVars
  <2>2. CreditedIsClosed'
    BY <1>4 DEF Pay, CreditedIsClosed, topupVars
  <2> QED
    BY <1>1, <1>4, <2>1, <2>2 DEF FiniteRows, Pay, topupVars, cashoutVars
<1>5. ASSUME NEW c \in Cashouts, Approves(c) \/ Refunds(c) \/ Creates(c) \/ Completes(c)
      PROVE  Records'
  <2>1. Made' \subseteq Made \cup {c}
    BY <1>5 DEF Approves, ApproveCashout, Refunds, Refund, Creates, Completes, Complete, Made,
                TreasuryTypeOK, CashoutTypeOK
  <2>2. IsFiniteSet(Made')
    <3>1. IsFiniteSet(Made \cup {c})
      BY FS_AddElement DEF FiniteRows
    <3> QED
      BY <2>1, <3>1, FS_Subset
  <2>3. IsFiniteSet(refunds')
    BY <1>5, FS_AddElement DEF Approves, ApproveCashout, Refunds, Refund, Creates, Completes,
                               Complete, FiniteRows
  <2>4. UNCHANGED <<credits, paid, topups>>
    BY <1>5 DEF Approves, Refunds, Creates, Completes
  <2> QED
    BY <1>1, <2>2, <2>3, <2>4 DEF FiniteRows, CreditedIsClosed
<1> QED
  BY <1>2, <1>3, <1>4, <1>5, TreasuryMoves

-----------------------------------------------------------------------------
LEMMA HoldersDiffer ==
  /\ Students \subseteq Holders /\ Merchants \subseteq Holders /\ Operating \in Holders
  /\ \A s \in Students, m \in Merchants : s # m
  /\ \A s \in Students : s # Operating
  /\ \A m \in Merchants : m # Operating
BY FundsAssumption DEF Holders, Users

LEMMA SumIsTyped ==
  ASSUME Records, NEW S, S \subseteq credits \/ S \subseteq paid
  PROVE  IsFiniteSet(S) /\ Sum(S) \in Nat /\ \A x \in S : x.amount \in Nat
<1>1. IsFiniteSet(S)
  BY FS_Subset DEF Records, FiniteRows
<1>2. \A x \in S : x.amount \in Nat
  BY TopupAssumption, TreasuryAssumption DEF Records, TreasuryTypeOK, TopupTypeOK
<1>3. [x \in S |-> x.amount] \in [S -> Nat]
  BY <1>2
<1> QED
  BY <1>1, <1>2, <1>3, TotalIsNat DEF Sum

LEMMA BooksTyped ==
  ASSUME Records
  PROVE  /\ \A s \in Students : /\ Sum(CreditsTo(s)) \in Nat /\ Sum(PaidBy(s)) \in Nat
                                /\ funds[s] \in Int /\ OldFunds[s] \in Int
         /\ \A m \in Merchants : /\ Sum(PaidTo(m)) \in Nat
                                 /\ CashedOut(m) \in Nat /\ Refunded(m) \in Nat
                                 /\ funds[m] \in Int /\ OldFunds[m] \in Int
         /\ MaxBalance \in Nat
<1>1. \A s : CreditsTo(s) \subseteq credits /\ PaidBy(s) \subseteq paid /\ PaidTo(s) \subseteq paid
  BY DEF CreditsTo, PaidBy, PaidTo
<1>2. \A h \in Holders : funds[h] \in Int /\ OldFunds[h] \in Int
  BY FundsAssumption DEF Records, TreasuryTypeOK, FundsTypeOK, Holders, Users
<1> QED
  BY <1>1, <1>2, SumIsTyped, ReservedRows, HoldersDiffer, FundsAssumption

\* A credit or a payment adds its amount to the sums it belongs to.
LEMMA CreditSums ==
  ASSUME Records, NEW t \in Topups, t \notin credits, credits' = credits \cup {t}, NEW s \in Students
  PROVE  Sum(CreditsTo(s))' = IF t.user = s THEN Sum(CreditsTo(s)) + t.amount ELSE Sum(CreditsTo(s))
<1>1. CreditsTo(s) \subseteq credits /\ t \notin CreditsTo(s) /\ t.amount \in Nat
  BY TopupAssumption DEF CreditsTo
<1>2. CreditsTo(s)' = IF t.user = s THEN CreditsTo(s) \cup {t} ELSE CreditsTo(s)
  BY DEF CreditsTo
<1>3. Sum(CreditsTo(s) \cup {t}) = Sum(CreditsTo(s)) + t.amount
  BY <1>1, SumIsTyped, SumOfAdd
<1> QED
  BY <1>2, <1>3

LEMMA PaymentSums ==
  ASSUME Records, NEW p \in Payments, p \notin paid, paid' = paid \cup {p}, NEW u
  PROVE  /\ Sum(PaidBy(u))' = IF p.from = u THEN Sum(PaidBy(u)) + p.amount ELSE Sum(PaidBy(u))
         /\ Sum(PaidTo(u))' = IF p.to = u THEN Sum(PaidTo(u)) + p.amount ELSE Sum(PaidTo(u))
<1>1. /\ PaidBy(u) \subseteq paid /\ PaidTo(u) \subseteq paid
      /\ p \notin PaidBy(u) /\ p \notin PaidTo(u) /\ p.amount \in Nat
  BY TreasuryAssumption DEF PaidBy, PaidTo
<1>2. /\ PaidBy(u)' = IF p.from = u THEN PaidBy(u) \cup {p} ELSE PaidBy(u)
      /\ PaidTo(u)' = IF p.to = u THEN PaidTo(u) \cup {p} ELSE PaidTo(u)
  BY DEF PaidBy, PaidTo
<1>3. Sum(PaidBy(u) \cup {p}) = Sum(PaidBy(u)) + p.amount
  BY <1>1, SumIsTyped, SumOfAdd
<1>4. Sum(PaidTo(u) \cup {p}) = Sum(PaidTo(u)) + p.amount
  BY <1>1, SumIsTyped, SumOfAdd
<1> QED
  BY <1>2, <1>3, <1>4

\* The three equations of BooksBalance, with the sums named.
Books ==
  /\ \A s \in Students : funds[s] = OldFunds[s] + Sum(CreditsTo(s)) - Sum(PaidBy(s))
  /\ \A m \in Merchants : funds[m] = OldFunds[m] + Sum(PaidTo(m)) - CashedOut(m)
  /\ SumFunction(funds) = SumFunction(OldFunds)

LEMMA BooksAre ==
  Books <=> BooksBalance
BY DEF Books, BooksBalance, CreditsTo, PaidBy, PaidTo

LEMMA CreditBooks ==
  ASSUME Records, Books, BalanceCapped, NEW t \in Topups, Credits(t)
  PROVE  Books' /\ BalanceCapped'
<1>1. t.user \in Students /\ t.amount \in Nat
  BY TopupAssumption
<1>2. /\ funds'[t.user] = funds[t.user] + t.amount
      /\ \A u \in Holders \ {Operating, t.user} : funds'[u] = funds[u]
      /\ SumFunction(funds') = SumFunction(funds)
  BY <1>1, HoldersDiffer, MoveEffect DEF Credits, Records, TreasuryTypeOK
<1>3. \A s \in Students : s # t.user => funds'[s] = funds[s]
  BY <1>2, HoldersDiffer
<1>4. \A m \in Merchants : funds'[m] = funds[m]
  BY <1>1, <1>2, HoldersDiffer
<1>5. \A m \in Merchants : CashedOut(m)' = CashedOut(m) /\ Refunded(m)' = Refunded(m)
  BY CashedOutSame, RefundedSame DEF Credits
<1>6. \A u : PaidBy(u)' = PaidBy(u) /\ PaidTo(u)' = PaidTo(u)
  BY DEF Credits, PaidBy, PaidTo
<1>7. Books'
  BY <1>1, <1>2, <1>3, <1>4, <1>5, <1>6, CreditSums, BooksTyped DEF Books, Credits
<1>8. BalanceCapped'
  BY <1>1, <1>2, <1>3, <1>4, <1>5 DEF BalanceCapped, Credits
<1> QED
  BY <1>7, <1>8

LEMMA PaymentBooks ==
  ASSUME Records, Books, BalanceCapped, NEW p \in Payments, Pay(p)
  PROVE  Books' /\ BalanceCapped'
<1>1. p.from \in Students /\ p.to \in Merchants /\ p.amount \in Nat
  BY TreasuryAssumption
<1>2. /\ funds'[p.from] = funds[p.from] - p.amount
      /\ funds'[p.to] = funds[p.to] + p.amount
      /\ \A u \in Holders \ {p.from, p.to} : funds'[u] = funds[u]
      /\ SumFunction(funds') = SumFunction(funds)
  BY <1>1, HoldersDiffer, MoveEffect DEF Pay, Records, TreasuryTypeOK
<1>3. \A s \in Students : s # p.from => funds'[s] = funds[s]
  BY <1>1, <1>2, HoldersDiffer
<1>4. \A m \in Merchants : m # p.to => funds'[m] = funds[m]
  BY <1>1, <1>2, HoldersDiffer
<1>5. \A m \in Merchants : CashedOut(m)' = CashedOut(m) /\ Refunded(m)' = Refunded(m)
  BY CashedOutSame, RefundedSame DEF Pay, cashoutVars
<1>6. \A s : CreditsTo(s)' = CreditsTo(s)
  BY DEF Pay, CreditsTo, topupVars
<1>7. Books'
  <2>1. ASSUME NEW s \in Students
        PROVE  funds'[s] = OldFunds[s] + Sum(CreditsTo(s))' - Sum(PaidBy(s))'
    BY <1>1, <1>2, <1>3, <1>6, PaymentSums, BooksTyped DEF Books, Pay
  <2>2. ASSUME NEW m \in Merchants
        PROVE  funds'[m] = OldFunds[m] + Sum(PaidTo(m))' - CashedOut(m)'
    BY <1>1, <1>2, <1>4, <1>5, PaymentSums, BooksTyped DEF Books, Pay
  <2> QED
    BY <1>2, <2>1, <2>2 DEF Books
<1>8. BalanceCapped'
  <2>1. \A s \in Students : funds'[s] <= MaxBalance
    BY <1>1, <1>2, <1>3, BooksTyped DEF BalanceCapped
  <2>2. \A m \in Merchants : funds'[m] <= MaxBalance + Refunded(m)'
    BY <1>1, <1>2, <1>4, <1>5, BooksTyped DEF BalanceCapped, Pay, Fits
  <2> QED
    BY <2>1, <2>2 DEF BalanceCapped
<1> QED
  BY <1>7, <1>8

\* The amount leaves the merchant's account when the cashout is reserved.
LEMMA ApprovalBooks ==
  ASSUME Records, Books, BalanceCapped, NEW c \in Cashouts, Approves(c)
  PROVE  Books' /\ BalanceCapped'
<1> DEFINE m == cashouts[c].merchant
           a == cashouts[c].gross
<1>1. cashouts[c] \in CashoutRow /\ m \in Merchants /\ a \in Nat
  BY CashoutFields DEF Approves, ApproveCashout, Records, TreasuryTypeOK
<1>2. /\ cashouts'[c].status = "PROCESSING"
      /\ cashouts'[c].merchant = m /\ cashouts'[c].gross = a
      /\ \A d \in Cashouts \ {c} : cashouts'[d] = cashouts[d]
      /\ refunds' = refunds
  BY <1>1 DEF Approves, ApproveCashout, Records, TreasuryTypeOK, CashoutTypeOK, CashoutRow
<1>3. /\ funds'[m] = funds[m] - a
      /\ \A u \in Holders \ {m, Operating} : funds'[u] = funds[u]
      /\ SumFunction(funds') = SumFunction(funds)
  BY <1>1, HoldersDiffer, MoveEffect DEF Approves, ApproveCashout, Records, TreasuryTypeOK
<1>4. \A s \in Students : funds'[s] = funds[s]
  BY <1>1, <1>3, HoldersDiffer
<1>5. \A n \in Merchants : n # m => funds'[n] = funds[n]
  BY <1>1, <1>3, HoldersDiffer
<1>6. ~ IsReserved(c) /\ IsReserved(c)'
  BY <1>2 DEF Approves, ApproveCashout, IsReserved
<1>7. \A n \in Merchants : CashedOut(n)' = IF m = n THEN CashedOut(n) + a ELSE CashedOut(n)
  BY <1>1, <1>2, <1>6, CashedOutAdd
<1>8. \A n \in Merchants : Refunded(n)' = Refunded(n)
  BY <1>2, RefundedSame DEF Approves, ApproveCashout
<1>9. \A u : CreditsTo(u)' = CreditsTo(u) /\ PaidBy(u)' = PaidBy(u) /\ PaidTo(u)' = PaidTo(u)
  BY DEF Approves, CreditsTo, PaidBy, PaidTo
<1> HIDE DEF m, a
<1>10. Books'
  <2>1. \A n \in Merchants : funds'[n] = OldFunds[n] + Sum(PaidTo(n))' - CashedOut(n)'
    BY <1>1, <1>3, <1>5, <1>7, <1>9, BooksTyped DEF Books
  <2> QED
    BY <1>3, <1>4, <1>9, <2>1 DEF Books
<1>11. BalanceCapped'
  BY <1>1, <1>3, <1>4, <1>5, <1>8, BooksTyped DEF BalanceCapped
<1> QED
  BY <1>10, <1>11

\* And comes back with the refund, which is added to what refunds have brought.
LEMMA RefundBooks ==
  ASSUME Records, Books, BalanceCapped, NEW c \in Cashouts, Refunds(c)
  PROVE  Books' /\ BalanceCapped'
<1> DEFINE m == cashouts[c].merchant
           a == cashouts[c].gross
<1>1. cashouts[c] \in CashoutRow /\ m \in Merchants /\ a \in Nat
  BY CashoutFields DEF Refunds, Refund, Processing, Records, TreasuryTypeOK
<1>2. /\ cashouts'[c].status = "FAILED"
      /\ \A d \in Cashouts \ {c} : cashouts'[d] = cashouts[d]
  BY <1>1 DEF Refunds, Refund, Records, TreasuryTypeOK, CashoutTypeOK, CashoutRow
<1>3. /\ funds'[m] = funds[m] + a
      /\ \A u \in Holders \ {m, Operating} : funds'[u] = funds[u]
      /\ SumFunction(funds') = SumFunction(funds)
  BY <1>1, HoldersDiffer, MoveEffect DEF Refunds, Refund, MoneyBack, Records, TreasuryTypeOK
<1>4. \A s \in Students : funds'[s] = funds[s]
  BY <1>1, <1>3, HoldersDiffer
<1>5. \A n \in Merchants : n # m => funds'[n] = funds[n]
  BY <1>1, <1>3, HoldersDiffer
<1>6. IsReserved(c) /\ ~ IsReserved(c)'
  BY <1>2 DEF Refunds, Refund, Processing, IsReserved
<1>7. \A n \in Merchants : CashedOut(n)' = IF m = n THEN CashedOut(n) - a ELSE CashedOut(n)
  BY <1>1, <1>2, <1>6, CashedOutRemove
<1>8. \A n \in Merchants : Refunded(n)' = IF m = n THEN Refunded(n) + a ELSE Refunded(n)
  BY RefundedAdd DEF Refunds
<1>9. \A u : CreditsTo(u)' = CreditsTo(u) /\ PaidBy(u)' = PaidBy(u) /\ PaidTo(u)' = PaidTo(u)
  BY DEF Refunds, CreditsTo, PaidBy, PaidTo
<1> HIDE DEF m, a
<1>10. Books'
  <2>1. \A n \in Merchants : funds'[n] = OldFunds[n] + Sum(PaidTo(n))' - CashedOut(n)'
    BY <1>1, <1>3, <1>5, <1>7, <1>9, BooksTyped DEF Books
  <2> QED
    BY <1>3, <1>4, <1>9, <2>1 DEF Books
<1>11. BalanceCapped'
  BY <1>1, <1>3, <1>4, <1>5, <1>8, BooksTyped DEF BalanceCapped
<1> QED
  BY <1>10, <1>11

\* A step that moves no money leaves the amounts that are out as they were.
LEMMA QuietBooks ==
  ASSUME Records, Books, BalanceCapped,
         TopupMarked \/ \E c \in Cashouts : Creates(c) \/ Completes(c)
  PROVE  Books' /\ BalanceCapped'
<1>1. \A m \in Merchants : CashedOut(m)' = CashedOut(m)
  <2>1. CASE TopupMarked
    BY <2>1, CashedOutSame DEF TopupMarked
  <2>2. ASSUME NEW c \in Cashouts, Creates(c)
        PROVE  \A m \in Merchants : CashedOut(m)' = CashedOut(m)
    <3>1. \A d \in Cashouts : \/ cashouts'[d] = cashouts[d]
                              \/ ~ IsReserved(d) /\ ~ IsReserved(d)'
      BY <2>2 DEF Creates, IsReserved, NoCashout, Records, TreasuryTypeOK, CashoutTypeOK
    <3> QED
      BY <3>1, CashedOutSame
  <2>3. ASSUME NEW c \in Cashouts, Completes(c)
        PROVE  \A m \in Merchants : CashedOut(m)' = CashedOut(m)
    <3>1. cashouts[c] \in CashoutRow
      BY <2>3, CashoutFields DEF Completes, Complete, Processing, Records, TreasuryTypeOK
    <3>2. \A d \in Cashouts :
            \/ cashouts'[d] = cashouts[d]
            \/ /\ IsReserved(d) /\ IsReserved(d)'
               /\ cashouts'[d].merchant = cashouts[d].merchant
               /\ cashouts'[d].gross = cashouts[d].gross
      BY <2>3, <3>1 DEF Completes, Complete, Processing, IsReserved, CashoutRow, Records,
                        TreasuryTypeOK, CashoutTypeOK
    <3> QED
      BY <3>2, CashedOutSame
  <2> QED
    BY <2>1, <2>2, <2>3
<1>2. \A m \in Merchants : Refunded(m)' = Refunded(m)
  <2>1. refunds' = refunds
    BY DEF TopupMarked, Creates, Completes, Complete
  <2>2. \A c \in Cashouts : cashouts[c].status = "FAILED" => cashouts'[c] = cashouts[c]
    BY DEF TopupMarked, Creates, Completes, Complete, Processing, NoCashout, Records,
           TreasuryTypeOK, CashoutTypeOK
  <2> QED
    BY <2>1, <2>2, RefundedSame
<1>3. UNCHANGED <<funds, credits, paid>>
  BY DEF TopupMarked, Creates, Completes, Complete
<1> QED
  BY <1>1, <1>2, <1>3 DEF Books, BalanceCapped, CreditsTo, PaidBy, PaidTo

LEMMA BooksInit ==
  TreasuryInit => Records /\ Books /\ BalanceCapped
<1> SUFFICES ASSUME TreasuryInit
             PROVE  Records /\ Books /\ BalanceCapped
  OBVIOUS
<1> USE DEF TreasuryInit
<1>1. TreasuryTypeOK
  BY TreasuryInitTypes
<1>2. credits = {} /\ paid = {} /\ refunds = {} /\ Made = {} /\ funds = OldFunds
  BY DEF TopupInit, CashoutInit, FundsInit, Made, NoCashout
<1>3. Records
  BY <1>1, <1>2, FS_EmptySet DEF Records, RefundRows, RefundsOf, FiniteRows, CreditedIsClosed,
                                CashoutInit, NoCashout
<1>4. Sum({}) = 0
  BY TotalEmpty DEF Sum
<1>5. \A m \in Merchants : CashedOut(m) = 0
  <2>1. \A m : Reserved(m) = {}
    BY DEF Reserved, CashoutInit, NoCashout
  <2> QED
    BY <2>1, TotalEmpty DEF CashedOut
<1>6. \A u : CreditsTo(u) = {} /\ PaidBy(u) = {} /\ PaidTo(u) = {}
  BY <1>2 DEF CreditsTo, PaidBy, PaidTo
<1>7. Books
  <2>1. \A u : Sum(CreditsTo(u)) = 0 /\ Sum(PaidBy(u)) = 0 /\ Sum(PaidTo(u)) = 0
    BY <1>4, <1>6
  <2> QED
    BY <1>2, <1>3, <1>5, <2>1, BooksTyped DEF Books
<1>8. BalanceCapped
  <2>1. \A u \in Users : funds[u] \in Nat /\ funds[u] <= MaxBalance
    BY <1>2, FundsAssumption DEF Users
  <2> QED
    BY <1>3, <2>1, BooksTyped DEF BalanceCapped, Users
<1> QED
  BY <1>3, <1>7, <1>8

LEMMA BooksStep ==
  Records /\ Books /\ BalanceCapped /\ [TreasuryNext]_treasuryVars
    => Records' /\ Books' /\ BalanceCapped'
BY RecordsStep, CreditBooks, PaymentBooks, ApprovalBooks, RefundBooks, QuietBooks, TreasuryMoves
   DEF Records

\* Every account is what its top-ups, payments and cashouts say, and the sum of
\* all accounts is what it was, however approvals, webhooks, polls, failed payouts
\* and payments overlap: no money is made or lost.
THEOREM BooksAlwaysBalance == TreasurySpec => []BooksBalance
BY BooksInit, BooksStep, BooksAre, PTL DEF TreasurySpec

\* Only refunds bring an account above the cap.
THEOREM OnlyRefundsPassCap == TreasurySpec => []BalanceCapped
BY BooksInit, BooksStep, PTL DEF TreasurySpec
=============================================================================
