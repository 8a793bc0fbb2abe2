----------------------------- MODULE Screens_proofs -----------------------------
(***************************************************************************)
(* What the pages of the admins, the screen of a merchant, the checkout    *)
(* and the transaction history of a student and the fee columns of the     *)
(* cashouts may rely on, and the types of all their state, for any number  *)
(* of them, of cashouts, top-ups, payments, requests, webhooks and polls.  *)
(***************************************************************************)
EXTENDS Screens, Money_proofs, FiniteSums, SequenceTheorems, FunctionTheorems, TLAPS

-----------------------------------------------------------------------------
(* The notices of the cashout page.                                          *)

RefundsOf(c) == {r \in refunds : r.cashout = c}
Cancelled(c) == {[cashout |-> c, by |-> "manual_cancel"]}

\* What a notice of this kind says; stronger than NoticeTrue of an approval, which
\* would also hold of a cashout that is not there yet.
Said(kind, c) ==
  CASE kind = "approve" -> cashouts[c].status \in {"PROCESSING", "COMPLETED", "FAILED"}
    [] kind = "pay"     -> cashouts[c].status = "COMPLETED" /\ RefundsOf(c) = {}
    [] kind = "cancel"  -> cashouts[c].status = "FAILED" /\ RefundsOf(c) = Cancelled(c)

CashoutRows ==
  /\ cashouts = [c \in Cashouts |-> cashouts[c]]
  /\ \A c \in Cashouts : "status" \in DOMAIN cashouts[c]

\* Nothing is refunded before it has failed.
RefundRows == \A c \in Cashouts : cashouts[c].status # "FAILED" => RefundsOf(c) = {}

Done(o) == orders[o].at = "done"

OrdersTrue ==
  /\ orders = [o \in Operators |-> orders[o]]
  /\ \A o \in Operators : orders[o] = Nobody \/ orders[o] \in Orders
  /\ \A o \in Operators : orders[o].at = "read" => orders[o].kind = "pay"
  /\ \A o \in Operators : Done(o) => Said(orders[o].kind, orders[o].cashout)

NoticesTrue ==
  \A n \in told : n.kind \in Kinds /\ n.cashout \in Cashouts /\ Said(n.kind, n.cashout)

PageInv ==
  /\ scene # "cashout page" => told = {}
  /\ scene = "cashout page" => CashoutRows /\ RefundRows /\ OrdersTrue /\ NoticesTrue

LEMMA NoticesFollow == PageInv => NoticeTrue
<1> SUFFICES ASSUME PageInv, NEW n \in told
             PROVE  CASE n.kind = "approve" -> cashouts[n.cashout].status # "PENDING"
                      [] n.kind = "pay"     -> cashouts[n.cashout].status = "COMPLETED" /\ RefundsOf(n.cashout) = {}
                      [] n.kind = "cancel"  -> /\ cashouts[n.cashout].status = "FAILED"
                                               /\ RefundsOf(n.cashout) = Cancelled(n.cashout)
  BY DEF NoticeTrue, RefundsOf, Cancelled
<1>1. n.kind \in Kinds /\ Said(n.kind, n.cashout)
  BY DEF PageInv, NoticesTrue
<1> QED
  BY <1>1 DEF Said, Kinds

LEMMA PageStarts == ScreensInit => PageInv
<1> SUFFICES ASSUME ScreensInit
             PROVE  PageInv
  OBVIOUS
<1>1. told = {} /\ orders = [o \in Operators |-> Nobody]
  BY DEF ScreensInit, CashoutPageInit
<1>2. ASSUME scene = "cashout page"
      PROVE  CashoutRows /\ RefundRows
  <2>1. CashoutInit
    BY <1>2 DEF ScreensInit
  <2>2. refunds = {} /\ cashouts = [c \in Cashouts |-> NoCashout]
    BY <2>1 DEF CashoutInit
  <2>3. CashoutRows
    BY <2>2 DEF NoCashout, CashoutRows
  <2>4. RefundRows
    BY <2>2 DEF RefundRows, RefundsOf
  <2> QED
    BY <2>3, <2>4
<1>3. OrdersTrue /\ NoticesTrue
  BY <1>1 DEF OrdersTrue, NoticesTrue, Done, Nobody
<1> QED
  BY <1>1, <1>2, <1>3 DEF PageInv

\* What a step of the page may do to one cashout.
Kept(c)  == cashouts'[c].status = cashouts[c].status /\ RefundsOf(c)' = RefundsOf(c)
Ahead(c) ==
  /\ RefundsOf(c)' = RefundsOf(c)
  /\ \/ cashouts[c].status = "NONE" /\ cashouts'[c].status = "PENDING"
     \/ cashouts[c].status = "PENDING" /\ cashouts'[c].status = "PROCESSING"
     \/ cashouts[c].status = "PROCESSING" /\ cashouts'[c].status = "COMPLETED"
Failing(c) ==
  /\ cashouts[c].status = "PROCESSING" /\ cashouts'[c].status = "FAILED"
  /\ RefundsOf(c)' = RefundsOf(c) \cup Cancelled(c)
Moves == CashoutRows' /\ \A c \in Cashouts : Kept(c) \/ Ahead(c) \/ Failing(c)

LEMMA MovesKeep ==
  ASSUME CashoutRows, RefundRows, Moves
  PROVE  /\ RefundRows'
         /\ \A c \in Cashouts, kind \in Kinds : Said(kind, c) => Said(kind, c)'
<1>1. ASSUME NEW c \in Cashouts
      PROVE  cashouts'[c].status # "FAILED" => RefundsOf(c)' = {}
  BY <1>1 DEF Moves, Kept, Ahead, Failing, RefundRows
<1>2. ASSUME NEW c \in Cashouts, NEW kind \in Kinds, Said(kind, c)
      PROVE  Said(kind, c)'
  BY <1>2 DEF Moves, Kept, Ahead, Failing, Said, Kinds, Cancelled
<1> QED
  BY <1>1, <1>2 DEF RefundRows

LEMMA StillMoves ==
  ASSUME CashoutRows, UNCHANGED <<cashouts, refunds>>
  PROVE  Moves
BY DEF CashoutRows, Moves, Kept, RefundsOf

LEMMA CreateMoves ==
  ASSUME CashoutRows, NEW q \in Requesters, NEW c \in Cashouts, RequestCreate(q, c)
  PROVE  Moves
<1>1. /\ cashouts' = [d \in Cashouts |-> IF d = c THEN cashouts'[c] ELSE cashouts[d]]
      /\ cashouts'[c].status = "PENDING" /\ "status" \in DOMAIN cashouts'[c]
  BY DEF CashoutRows, RequestCreate
<1>2. UNCHANGED refunds /\ cashouts[c].status = "NONE"
  BY DEF RequestCreate, NoCashout
<1> QED
  BY <1>1, <1>2 DEF CashoutRows, Moves, Kept, Ahead, RefundsOf

\* An update of the status of one row.
LEMMA StatusUpdate ==
  ASSUME CashoutRows, NEW c \in Cashouts, NEW status,
         cashouts' = [cashouts EXCEPT ![c].status = status]
  PROVE  /\ CashoutRows' /\ cashouts'[c].status = status
         /\ \A d \in Cashouts : d # c => cashouts'[d] = cashouts[d]
<1>1. PICK row : row = [cashouts[c] EXCEPT !.status = status]
  OBVIOUS
<1>2. "status" \in DOMAIN row /\ row.status = status
  BY <1>1 DEF CashoutRows
<1>3. cashouts' = [cashouts EXCEPT ![c] = row]
  BY <1>1
<1> QED
  BY <1>2, <1>3 DEF CashoutRows

LEMMA ApproveMoves ==
  ASSUME CashoutRows, NEW c \in Cashouts, NEW mode \in Modes, ApproveCashout(c, mode)
  PROVE  Moves /\ cashouts'[c].status = "PROCESSING"
<1>1. PICK row : row = [cashouts[c] EXCEPT !.status = "PROCESSING", !.manual = (mode = "manual")]
  OBVIOUS
<1>2. "status" \in DOMAIN row /\ row.status = "PROCESSING"
  BY <1>1 DEF CashoutRows
<1>3. cashouts' = [cashouts EXCEPT ![c] = row]
  BY <1>1 DEF ApproveCashout, CashoutRows
<1>4. UNCHANGED refunds /\ cashouts[c].status = "PENDING"
  BY DEF ApproveCashout
<1> QED
  BY <1>2, <1>3, <1>4 DEF CashoutRows, Moves, Kept, Ahead, RefundsOf

LEMMA CompleteMoves ==
  ASSUME CashoutRows, NEW c \in Cashouts, Complete(c)
  PROVE  Moves /\ cashouts'[c].status = "COMPLETED"
BY StatusUpdate DEF Complete, Processing, Moves, Kept, Ahead, RefundsOf

LEMMA CancelMoves ==
  ASSUME CashoutRows, NEW c \in Cashouts, CancelManual(c)
  PROVE  Moves /\ Failing(c)
<1>1. cashouts' = [cashouts EXCEPT ![c].status = "FAILED"] /\ refunds' = refunds \cup Cancelled(c)
  BY DEF CancelManual, Refund, Cancelled
<1>2. \A d \in Cashouts : RefundsOf(d)' = IF d = c THEN RefundsOf(d) \cup Cancelled(c) ELSE RefundsOf(d)
  BY <1>1 DEF RefundsOf, Cancelled
<1> QED
  BY <1>1, <1>2, StatusUpdate DEF CancelManual, Refund, Processing, Moves, Kept, Failing

\* What a step does to the orders and the notices.
OrdersKept ==
  /\ orders' = [o \in Operators |-> orders'[o]]
  /\ \A o \in Operators : orders'[o] = Nobody \/ orders'[o] \in Orders
  /\ \A o \in Operators : orders'[o].at = "read" => orders'[o].kind = "pay"
  /\ \A o \in Operators :
       Done(o)' => \/ orders'[o] = orders[o]
                   \/ Said(orders[o].kind, orders[o].cashout)'

LEMMA OneOrder ==
  ASSUME OrdersTrue, NEW o \in Operators, NEW x, x = Nobody \/ x \in Orders,
         orders' = [orders EXCEPT ![o] = x], x.at = "read" => x.kind = "pay",
         x.at = "done" => Said(x.kind, x.cashout)'
  PROVE  OrdersKept
<1>1. /\ orders' = [p \in Operators |-> orders'[p]] /\ orders'[o] = x
      /\ \A p \in Operators : p # o => orders'[p] = orders[p]
  BY DEF OrdersTrue
<1>2. ASSUME Done(o)'
      PROVE  Said(orders[o].kind, orders[o].cashout)'
  BY <1>1, <1>2 DEF Done, Said
<1> QED
  BY <1>1, <1>2 DEF OrdersTrue, OrdersKept

LEMMA OneOrderMoves ==
  ASSUME OrdersTrue, NEW o \in Operators, orders[o] # Nobody, NEW at \in {"sent", "read", "done", "refused"},
         Ordered(o, at),
         NEW kind, NEW c, kind = orders[o].kind, c = orders[o].cashout,
         at = "read" => kind = "pay", at = "done" => Said(kind, c)'
  PROVE  OrdersKept
<1>1. PICK was : orders[o] = [at |-> was, kind |-> kind, cashout |-> c]
  BY DEF OrdersTrue, Orders
<1>2. kind \in Kinds /\ c \in Cashouts
  BY DEF OrdersTrue, Orders
<1>3. PICK x : x = [at |-> at, kind |-> kind, cashout |-> c]
  OBVIOUS
<1>4. x \in Orders /\ x.at = at /\ x.kind = kind /\ x.cashout = c
  BY <1>2, <1>3 DEF Orders
<1>5. orders' = [orders EXCEPT ![o] = x]
  <2>1. [orders[o] EXCEPT !.at = at] = x
    BY <1>1, <1>3
  <2> QED
    BY <2>1 DEF Ordered
<1> QED
  BY <1>4, <1>5, OneOrder DEF Said

LEMMA OrdersFollow ==
  ASSUME CashoutRows, RefundRows, OrdersTrue, NoticesTrue, Moves, OrdersKept,
         told' = told \/ \E o \in Operators :
           Done(o) /\ told' = told \cup {[kind |-> orders[o].kind, cashout |-> orders[o].cashout]}
  PROVE  OrdersTrue' /\ NoticesTrue'
<1>1. \A c \in Cashouts, kind \in Kinds : Said(kind, c) => Said(kind, c)'
  BY MovesKeep
<1>2. ASSUME NEW o \in Operators, Done(o)
      PROVE  orders[o].kind \in Kinds /\ orders[o].cashout \in Cashouts /\ Said(orders[o].kind, orders[o].cashout)
  BY <1>2 DEF OrdersTrue, Done, Orders, Nobody
<1>3. ASSUME NEW o \in Operators, Done(o)'
      PROVE  Said(orders[o].kind, orders[o].cashout)'
  <2>1. CASE orders'[o] = orders[o]
    <3>1. Done(o)
      BY <1>3, <2>1 DEF Done
    <3>2. PICK kind, c : kind = orders[o].kind /\ c = orders[o].cashout
      OBVIOUS
    <3>3. Said(kind, c)'
      BY <1>1, <1>2, <3>1, <3>2
    <3> QED
      BY <2>1, <3>2, <3>3 DEF Said
  <2> QED
    BY <1>3, <2>1 DEF OrdersKept
<1>4. OrdersTrue'
  BY <1>3 DEF OrdersTrue, OrdersKept
<1>5. ASSUME NEW n \in told'
      PROVE  n.kind \in Kinds /\ n.cashout \in Cashouts /\ Said(n.kind, n.cashout)'
  <2>1. CASE n \in told
    BY <1>1, <2>1 DEF NoticesTrue
  <2>2. CASE n \notin told
    <3>1. PICK o \in Operators : Done(o) /\ n = [kind |-> orders[o].kind, cashout |-> orders[o].cashout]
      BY <1>5, <2>2
    <3> QED
      BY <1>1, <1>2, <3>1
  <2> QED
    BY <2>1, <2>2
<1> QED
  BY <1>4, <1>5 DEF NoticesTrue

LEMMA OrdersSame ==
  ASSUME OrdersTrue, UNCHANGED orders
  PROVE  OrdersKept
BY DEF OrdersTrue, OrdersKept

LEMMA PageStep ==
  ASSUME CashoutRows, RefundRows, OrdersTrue, NoticesTrue, CashoutPageNext
  PROVE  (CashoutRows /\ RefundRows /\ OrdersTrue /\ NoticesTrue)'
<1> DEFINE Told == told' = told \/ \E o \in Operators :
             Done(o) /\ told' = told \cup {[kind |-> orders[o].kind, cashout |-> orders[o].cashout]}
<1>1. ASSUME NEW q \in Requesters, NEW m, RequestRead(q, m) \/ RequestCheck(q), UNCHANGED pageVars
      PROVE  Moves /\ OrdersKept /\ Told
  BY <1>1, StillMoves, OrdersSame DEF RequestRead, RequestCheck, pageVars
<1>2. ASSUME NEW q \in Requesters, NEW c \in Cashouts, RequestCreate(q, c), UNCHANGED pageVars
      PROVE  Moves /\ OrdersKept /\ Told
  BY <1>2, CreateMoves, OrdersSame DEF pageVars
<1>3. ASSUME NEW o \in Operators, LoadOperations(o) \/ ReloadPage(o) \/ OrderFails(o)
      PROVE  Moves /\ OrdersKept /\ Told
  BY <1>3, StillMoves, OrdersSame DEF LoadOperations, ReloadPage, OrderFails, cashoutVars
<1>4. ASSUME NEW o \in Operators, NEW kind \in Kinds, NEW c \in Cashouts, Press(o, kind, c)
      PROVE  Moves /\ OrdersKept /\ Told
  <2>1. PICK x : x = [at |-> "sent", kind |-> kind, cashout |-> c]
    OBVIOUS
  <2>2. x \in Orders /\ x.at = "sent"
    BY <2>1 DEF Orders
  <2>3. orders' = [orders EXCEPT ![o] = x] /\ UNCHANGED <<cashouts, refunds, told>>
    BY <1>4, <2>1 DEF Press, cashoutVars
  <2> QED
    BY <2>2, <2>3, OneOrder, StillMoves
<1>5. ASSUME NEW o \in Operators, OrderSucceeds(o)
      PROVE  Moves /\ OrdersKept /\ Told
  <2>1. Done(o) /\ orders' = [orders EXCEPT ![o] = Nobody] /\ UNCHANGED <<cashouts, refunds>>
    BY <1>5 DEF OrderSucceeds, Done, cashoutVars
  <2>2. OrdersKept
    BY <2>1, OneOrder DEF Nobody
  <2> QED
    BY <1>5, <2>1, <2>2, StillMoves DEF OrderSucceeds
<1>6. ASSUME NEW o \in Operators, OrderDropped(o)
      PROVE  Moves /\ OrdersKept /\ Told
  <2>1. orders' = [orders EXCEPT ![o] = Nobody] /\ UNCHANGED <<cashouts, refunds, told>>
    BY <1>6 DEF OrderDropped, cashoutVars
  <2> QED
    BY <2>1, OneOrder, StillMoves DEF Nobody
<1>7. ASSUME NEW o \in Operators, Approves(o)
      PROVE  Moves /\ OrdersKept /\ Told
  <2>1. PICK kind, c : kind = orders[o].kind /\ c = orders[o].cashout
    OBVIOUS
  <2>2. orders[o] # Nobody /\ kind = "approve" /\ c \in Cashouts
    BY <1>7, <2>1 DEF Approves, Wants, Nobody, OrdersTrue, Orders
  <2>3. PICK mode \in Modes : ApproveCashout(c, mode)
    BY <1>7, <2>1 DEF Approves
  <2>4. Moves /\ cashouts'[c].status = "PROCESSING"
    BY <2>2, <2>3, ApproveMoves
  <2>5. Said(kind, c)'
    BY <2>2, <2>4 DEF Said
  <2>6. Ordered(o, "done") /\ told' = told
    BY <1>7 DEF Approves, Offstage
  <2> QED
    BY <2>1, <2>2, <2>4, <2>5, <2>6, OneOrderMoves
<1>8. ASSUME NEW o \in Operators, MarkReads(o) \/ OrderRefused(o)
      PROVE  Moves /\ OrdersKept /\ Told
  <2>1. PICK kind, c : kind = orders[o].kind /\ c = orders[o].cashout
    OBVIOUS
  <2>2. orders[o] # Nobody
    BY <1>8 DEF MarkReads, OrderRefused, Wants, Nobody
  <2>3. PICK at \in {"read", "refused"} : Ordered(o, at) /\ (at = "read" => kind = "pay")
    BY <1>8, <2>1 DEF MarkReads, OrderRefused, Wants
  <2>4. UNCHANGED <<cashouts, refunds, told>>
    BY <1>8 DEF MarkReads, OrderRefused, Offstage, cashoutVars
  <2> QED
    BY <2>1, <2>2, <2>3, <2>4, OneOrderMoves, StillMoves
<1>9. ASSUME NEW o \in Operators, MarkWrites(o)
      PROVE  Moves /\ OrdersKept /\ Told
  <2>1. PICK kind, c : kind = orders[o].kind /\ c = orders[o].cashout
    OBVIOUS
  <2>2. orders[o] # Nobody /\ kind = "pay" /\ c \in Cashouts /\ told' = told
    BY <1>9, <2>1 DEF MarkWrites, Offstage, Nobody, OrdersTrue, Orders
  <2>3. CASE Complete(c) /\ Ordered(o, "done")
    <3>1. Moves /\ cashouts'[c].status = "COMPLETED"
      BY <2>2, <2>3, CompleteMoves
    <3>2. Said(kind, c)'
      BY <2>2, <2>3, <3>1 DEF Complete, Processing, RefundRows, RefundsOf, Said
    <3> QED
      BY <2>1, <2>2, <2>3, <3>1, <3>2, OneOrderMoves
  <2>4. CASE UNCHANGED <<cashouts, refunds>> /\ Ordered(o, "refused")
    BY <2>1, <2>2, <2>4, OneOrderMoves, StillMoves
  <2> QED
    BY <1>9, <2>1, <2>3, <2>4 DEF MarkWrites, MarksPaid
<1>10. ASSUME NEW o \in Operators, Cancels(o)
       PROVE  Moves /\ OrdersKept /\ Told
  <2>1. PICK kind, c : kind = orders[o].kind /\ c = orders[o].cashout
    OBVIOUS
  <2>2. orders[o] # Nobody /\ kind = "cancel" /\ c \in Cashouts
    BY <1>10, <2>1 DEF Cancels, Wants, Nobody, OrdersTrue, Orders
  <2>3. CancelManual(c) /\ Ordered(o, "done") /\ told' = told
    BY <1>10, <2>1 DEF Cancels, Offstage
  <2>4. Moves /\ Failing(c)
    BY <2>2, <2>3, CancelMoves
  <2>5. RefundsOf(c) = {}
    BY <2>2, <2>4 DEF Failing, RefundRows
  <2>6. Said(kind, c)'
    BY <2>2, <2>4, <2>5 DEF Failing, Said, Cancelled
  <2> QED
    BY <2>1, <2>2, <2>3, <2>4, <2>6, OneOrderMoves
<1>11. Moves /\ OrdersKept /\ Told
  BY <1>1, <1>2, <1>3, <1>4, <1>5, <1>6, <1>7, <1>8, <1>9, <1>10 DEF CashoutPageNext
<1>12. OrdersTrue' /\ NoticesTrue'
  BY <1>11, OrdersFollow
<1> QED
  BY <1>11, <1>12, MovesKeep DEF Moves

LEMMA PageInvStep == PageInv /\ [ScreensNext]_screensVars => PageInv'
<1> SUFFICES ASSUME PageInv, [ScreensNext]_screensVars
             PROVE  PageInv'
  OBVIOUS
<1>1. CASE PlayCashoutPage /\ UNCHANGED scene
  BY <1>1, PageStep DEF PlayCashoutPage, PageInv
<1>2. CASE scene # "cashout page" /\ UNCHANGED <<told, scene>>
  BY <1>2 DEF PageInv
<1>3. CASE UNCHANGED screensVars
  <2>1. UNCHANGED <<scene, cashouts, refunds, orders, told>>
    BY <1>3 DEF screensVars, moneyVars, cashoutVars, pageVars
  <2>2. CASE scene = "cashout page"
    <3>1. Moves /\ OrdersKept
      BY <2>1, <2>2, StillMoves, OrdersSame DEF PageInv
    <3> QED
      BY <2>1, <2>2, <3>1, MovesKeep, OrdersFollow DEF PageInv, Moves
  <2> QED
    BY <2>1, <2>2 DEF PageInv
<1>4. ScreensNext => (PlayCashoutPage /\ UNCHANGED scene) \/ (scene # "cashout page" /\ UNCHANGED <<told, scene>>)
  BY DEF ScreensNext, PlayStatement, PlayMerchantDesk, PlayCashoutScreen, PlayCheckout, PlayPayoutFees, pageVars
<1> QED
  BY <1>1, <1>2, <1>3, <1>4

\* What the page told an admin of a cashout stays true: marked as paid, it is paid and
\* never refunded; cancelled, it is refunded by that order alone and never paid.
THEOREM NoticesAreTrue == ScreensSpec => []NoticeTrue
BY PageStarts, PageInvStep, NoticesFollow, PTL DEF ScreensSpec

-----------------------------------------------------------------------------
(* The payout accounts of the merchant desk.                                 *)

\* What a form takes to be resolved the gateway resolved, or the list has it so.
SoundForm ==
  {f \in Form : /\ f.mode = "create" => f.before = NoRow
                /\ f.mode = "edit" => f.before \in Payout
                /\ f.resolution \in Accounts \cup {NoPayout, f.before}}

\* What a request leaves out is what the list and the form agree on.
SoundCall ==
  {c \in Call : /\ c.shown \in Accounts
                /\ c.mode = "create" => c.listed = NoRow /\ c.change = c.shown
                /\ c.mode = "edit" =>
                     /\ c.listed \in Payout
                     /\ c.change = [k \in DOMAIN NoPayout |-> Field(c.listed[k], c.shown[k])]}

DeskInv ==
  /\ rows \in [Profiles -> Row] /\ seen \in [Admins -> [Profiles -> Row]]
  /\ form \in [Admins -> SoundForm \cup {Closed}]
  /\ banks \in [Admins -> {{}, Banks}]
  /\ asked \in [Admins -> Asked \cup {Nothing}]
  /\ saving \in [Admins -> BOOLEAN]
  /\ calls \in [Admins -> SoundCall \cup {Nothing}]

LEMMA PayoutFields ==
  /\ DOMAIN NoPayout = {"code", "bank", "number", "name"}
  /\ NoPayout \in Payout
  /\ \A f : /\ f = [k \in DOMAIN NoPayout |-> f[k]]
            /\ f["code"] \in Banks \cup {Blank} /\ f["bank"] \in BankNames \cup {Blank}
            /\ f["number"] \in Numbers \cup {Blank} /\ f["name"] \in People \cup {Blank}
            => f \in Payout
BY DEF NoPayout, Payout

LEMMA NoRowIsNone == NoRow \notin Payout
<1>1. "code" \notin DOMAIN NoRow
  BY DEF NoRow
<1>2. \A p \in Payout : "code" \in DOMAIN p
  BY DEF Payout
<1> QED
  BY <1>1, <1>2

LEMMA DeskTypes ==
  ASSUME DeskInv
  PROVE  /\ form \in [Admins -> Form \cup {Closed}]
         /\ calls \in [Admins -> Call \cup {Nothing}]
<1>1. SoundForm \subseteq Form /\ SoundCall \subseteq Call
  BY DEF SoundForm, SoundCall
<1>2. \A a \in Admins : form[a] \in Form \cup {Closed} /\ calls[a] \in Call \cup {Nothing}
  BY <1>1 DEF DeskInv
<1> QED
  BY <1>2 DEF DeskInv

\* A field of an account may be replaced by another value or left out.
LEMMA PayoutWith ==
  ASSUME NEW p \in Payout
  PROVE  /\ \A b \in Banks \cup {Blank} : [p EXCEPT !.code = b] \in Payout
         /\ \A b \in BankNames \cup {Blank} : [p EXCEPT !.bank = b] \in Payout
         /\ \A n \in Numbers \cup {Blank} : [p EXCEPT !.number = n] \in Payout
         /\ [p EXCEPT !.name = Blank] \in Payout
BY DEF Payout

LEMMA FormFields ==
  ASSUME NEW f \in SoundForm
  PROVE  /\ f.values \in Payout /\ f.resolution \in Payout /\ f.before \in Payout \cup {NoRow}
         /\ [f EXCEPT !.loading = FALSE] \in SoundForm
BY DEF SoundForm, Form, Row

LEMMA FormWith ==
  ASSUME NEW f \in SoundForm, NEW p \in Payout
  PROVE  /\ [f EXCEPT !.values = p] \in SoundForm
         /\ p \in Accounts \cup {NoPayout} => [f EXCEPT !.resolution = p] \in SoundForm
BY DEF SoundForm, Form

\* What the gateway resolved is an account, whole.
LEMMA ResolvedIsAccount ==
  ASSUME NEW code \in Banks \cup {Blank}, NEW number \in Numbers \cup {Blank}, Known(code, number)
  PROVE  Resolved(code, number) \in Accounts /\ Resolved(code, number) \in Payout
<1>1. code \in Banks /\ number \in Numbers
  BY DEF Known
<1>2. <<code, number>> \in Banks \X Numbers
  BY <1>1
<1>3. Resolved(code, number) \in Accounts
  <2>1. PICK x : x = <<code, number>>
    OBVIOUS
  <2>2. x \in {y \in Banks \X Numbers : Known(y[1], y[2])} /\ Resolved(x[1], x[2]) = Resolved(code, number)
    BY <1>2, <2>1
  <2> QED
    BY <2>2 DEF Accounts
<1>4. GatewayName[code] \in BankNames /\ Holder[<<code, number>>] \in People \cup {Blank}
  BY <1>1, <1>2, MerchantDeskAssumption
<1>5. Resolved(code, number).name = Holder[<<code, number>>]
  BY Zenon DEF Resolved
<1>6. Resolved(code, number) \in Payout
  BY <1>1, <1>4, <1>5 DEF Resolved, Payout
<1> QED
  BY <1>3, <1>6

\* The effects after a change of the fields leave a form a form.
LEMMA ShownIsForm ==
  ASSUME NEW f \in SoundForm, NEW a \in Admins, banks \in [Admins -> {{}, Banks}]
  PROVE  ForgetResolution(f) \in SoundForm /\ NameBank(f, a) \in SoundForm /\ Shown(f, a) \in SoundForm
<1>1. ASSUME NEW g \in SoundForm
      PROVE  ForgetResolution(g) \in SoundForm
  <2>1. [g.values EXCEPT !.name = Blank] \in Payout /\ NoPayout \in Payout
    BY <1>1, PayoutFields, PayoutWith, FormFields
  <2>2. [g EXCEPT !.resolution = NoPayout] \in SoundForm
    BY <1>1, <2>1, FormWith
  <2>3. [[g EXCEPT !.resolution = NoPayout] EXCEPT !.values = [g.values EXCEPT !.name = Blank]] \in SoundForm
    BY <2>1, <2>2, FormWith
  <2>4. [g EXCEPT !.resolution = NoPayout, !.values.name = Blank]
          = [[g EXCEPT !.resolution = NoPayout] EXCEPT !.values = [g.values EXCEPT !.name = Blank]]
    BY <1>1 DEF SoundForm, Form
  <2> QED
    BY <1>1, <2>3, <2>4 DEF ForgetResolution
<1>2. ASSUME NEW g \in SoundForm
      PROVE  NameBank(g, a) \in SoundForm
  <2>1. g.values.code \in Banks \cup {Blank}
    BY <1>2 DEF SoundForm, Form, Payout
  <2>2. Option(g, a, g.values.code) \in BankNames \cup {Blank}
    <3>1. g.before \in Payout \cup {NoRow} /\ banks[a] \in {{}, Banks}
      BY <1>2, FormFields
    <3>2. g.before # NoRow => g.before.bank \in BankNames \cup {Blank}
      BY <3>1 DEF Payout
    <3>3. \A b \in Banks : ListName[b] \in BankNames
      BY MerchantDeskAssumption
    <3> QED
      BY <3>1, <3>2, <3>3 DEF Option
  <2>3. PICK name \in BankNames \cup {Blank} : name = Option(g, a, g.values.code)
    BY <2>2
  <2>4. [g EXCEPT !.values.bank = name] = [g EXCEPT !.values = [g.values EXCEPT !.bank = name]]
    BY <1>2
  <2>5. [g EXCEPT !.values.bank = name] \in SoundForm
    BY <1>2, <2>3, <2>4, PayoutWith, FormFields, FormWith
  <2> QED
    BY <1>2, <2>3, <2>5 DEF NameBank
<1> QED
  BY <1>1, <1>2 DEF Shown

LEMMA DeskStarts == ScreensInit => DeskInv
<1> SUFFICES ASSUME ScreensInit
             PROVE  DeskInv
  OBVIOUS
<1>1. MerchantDeskInit
  BY DEF ScreensInit
<1>2. rows \in [Profiles -> Row]
  BY <1>1, MerchantDeskAssumption DEF MerchantDeskInit
<1> QED
  BY <1>1, <1>2 DEF MerchantDeskInit, DeskInv

\* The page and its form, which write no row.
LEMMA FormStep ==
  ASSUME DeskInv, NEW a \in Admins,
         \/ \E m \in Profiles : OpenForm(a, m)
         \/ \E b \in Banks : SelectBank(a, b)
         \/ \E n \in Numbers : TypeNumber(a, n)
         \/ CloseForm(a) \/ LoadBanks(a) \/ LoadBanksFails(a) \/ LoadPage(a)
         \/ Resolve(a) \/ ResolveEnds(a) \/ ResolveFails(a)
         \/ Saved(a) \/ SaveFails(a)
  PROVE  DeskInv'
<1> USE DEF DeskInv
<1>1. IsOpen(a) => form[a] \in SoundForm
  BY DEF IsOpen
<1>2. ASSUME NEW f, f \in SoundForm \cup {Closed}, form' = [form EXCEPT ![a] = f] \/ form' = form,
             UNCHANGED rows,
             seen' \in [Admins -> [Profiles -> Row]], banks' \in [Admins -> {{}, Banks}],
             asked' \in [Admins -> Asked \cup {Nothing}], saving' \in [Admins -> BOOLEAN],
             calls' \in [Admins -> SoundCall \cup {Nothing}]
      PROVE  DeskInv'
  BY <1>2
<1>3. CASE \E m \in Profiles : OpenForm(a, m)
  <2>1. PICK m \in Profiles : OpenForm(a, m)
    BY <1>3
  <2>2. seen[a][m] \in Payout \cup {NoRow}
    BY DEF Row
  <2> DEFINE p == IF seen[a][m] = NoRow THEN NoPayout ELSE seen[a][m]
             f == [mode |-> IF seen[a][m] = NoRow THEN "create" ELSE "edit", of |-> m,
                   before |-> seen[a][m], values |-> p,
                   resolution |-> InitialResolution(p), loading |-> TRUE]
  <2>3. p \in Payout /\ InitialResolution(p) \in Payout
    BY <2>2, PayoutFields DEF InitialResolution
  <2>4. f \in Form
    BY <2>2, <2>3 DEF Form, Row
  <2>5. InitialResolution(p) \in {NoPayout, seen[a][m]}
    BY <2>2 DEF InitialResolution, NoPayout
  <2>6. f \in SoundForm
    BY <2>2, <2>4, <2>5 DEF SoundForm
  <2>7. Shown(f, a) \in SoundForm
    BY <2>6, ShownIsForm
  <2>8. form' = [form EXCEPT ![a] = Shown(f, a)] /\ UNCHANGED <<rows, seen, banks, asked, saving, calls>>
    BY <2>1 DEF OpenForm
  <2> HIDE DEF f, p
  <2> QED
    BY <1>2, <2>7, <2>8
<1>4. CASE \E b \in Banks : SelectBank(a, b)
  <2>1. PICK b \in Banks : SelectBank(a, b)
    BY <1>4
  <2>2. PICK f : f = [form[a] EXCEPT !.values = [form[a].values EXCEPT !.code = b]]
    OBVIOUS
  <2>3. f \in SoundForm
    <3>1. form[a] \in SoundForm /\ form[a].values \in Payout
      BY <1>1, <2>1, FormFields DEF SelectBank
    <3>2. [form[a].values EXCEPT !.code = b] \in Payout
      BY <2>1, <3>1, PayoutWith
    <3> QED
      BY <2>2, <3>1, <3>2, FormWith
  <2>4. form' = [form EXCEPT ![a] = Shown(f, a)] /\ UNCHANGED <<rows, seen, banks, asked, saving, calls>>
    BY <2>1, <2>2 DEF SelectBank
  <2> QED
    BY <1>2, <2>3, <2>4, ShownIsForm
<1>5. CASE \E n \in Numbers : TypeNumber(a, n)
  <2>1. PICK n \in Numbers : TypeNumber(a, n)
    BY <1>5
  <2>2. PICK f : f = [form[a] EXCEPT !.values = [form[a].values EXCEPT !.number = n]]
    OBVIOUS
  <2>3. f \in SoundForm
    <3>1. form[a] \in SoundForm /\ form[a].values \in Payout
      BY <1>1, <2>1, FormFields DEF TypeNumber
    <3>2. [form[a].values EXCEPT !.number = n] \in Payout
      BY <2>1, <3>1, PayoutWith
    <3> QED
      BY <2>2, <3>1, <3>2, FormWith
  <2>4. form' = [form EXCEPT ![a] = Shown(f, a)] /\ UNCHANGED <<rows, seen, banks, asked, saving, calls>>
    BY <2>1, <2>2 DEF TypeNumber
  <2> QED
    BY <1>2, <2>3, <2>4, ShownIsForm
<1>6. CASE LoadBanks(a)
  <2> DEFINE loaded == [form[a] EXCEPT !.loading = FALSE]
             code == form[a].values.code
             listed == [loaded EXCEPT !.values = [loaded.values EXCEPT !.bank = ListName[code]]]
  <2>1. form[a] \in SoundForm /\ form[a].values \in Payout
    BY <1>1, <1>6, FormFields DEF LoadBanks
  <2>2. loaded \in SoundForm /\ loaded.values = form[a].values
    BY <2>1, FormFields DEF SoundForm, Form
  <2>3. ASSUME code # Blank
        PROVE  listed \in SoundForm
    <3>1. ListName[code] \in BankNames
      BY <2>1, <2>3, MerchantDeskAssumption DEF Payout
    <3> QED
      BY <2>1, <2>2, <3>1, FormWith, PayoutWith
  <2>4. PICK f : f = IF code = Blank THEN loaded ELSE listed
    OBVIOUS
  <2>5. f \in SoundForm
    BY <2>2, <2>3, <2>4
  <2>6. form' = [form EXCEPT ![a] = ForgetResolution(f)]
    BY <1>6, <2>2, <2>4 DEF LoadBanks
  <2>7. banks' \in [Admins -> {{}, Banks}] /\ UNCHANGED <<rows, seen, asked, saving, calls>>
    BY <1>6 DEF LoadBanks
  <2> QED
    BY <1>2, <2>5, <2>6, <2>7, ShownIsForm
<1>7. CASE LoadBanksFails(a)
  <2>1. [form[a] EXCEPT !.loading = FALSE] \in SoundForm
    BY <1>1, <1>7, FormFields DEF LoadBanksFails
  <2> QED
    BY <1>2, <1>7, <2>1 DEF LoadBanksFails
<1>8. CASE ResolveEnds(a)
  <2> DEFINE result == Resolved(asked[a].code, asked[a].number)
  <2>1. result \in Payout /\ result \in Accounts
    BY <1>8, ResolvedIsAccount DEF ResolveEnds, Asked
  <2>2. PICK f : f = [[form[a] EXCEPT !.values = result] EXCEPT !.resolution = result]
    OBVIOUS
  <2>3. IsOpen(a) => f \in SoundForm
    BY <1>1, <2>1, <2>2, FormWith
  <2>4. form' = IF ~IsOpen(a) THEN form ELSE [form EXCEPT ![a] = Shown(f, a)]
    BY <1>8, <2>2 DEF ResolveEnds
  <2>5. asked' \in [Admins -> Asked \cup {Nothing}] /\ UNCHANGED <<rows, seen, banks, saving, calls>>
    BY <1>8 DEF ResolveEnds
  <2>6. CASE IsOpen(a)
    BY <1>2, <2>3, <2>4, <2>5, <2>6, ShownIsForm
  <2>7. CASE ~IsOpen(a)
    BY <1>2, <2>4, <2>5, <2>7
  <2> QED
    BY <2>6, <2>7
<1>9. CASE ResolveFails(a)
  <2>1. PICK f : f = [[form[a] EXCEPT !.values = [form[a].values EXCEPT !.name = Blank]] EXCEPT !.resolution = NoPayout]
    OBVIOUS
  <2>2. IsOpen(a) => f \in SoundForm
    BY <1>1, <2>1, FormFields, FormWith, PayoutWith, PayoutFields
  <2>3. form' = IF ~IsOpen(a) THEN form ELSE [form EXCEPT ![a] = f]
    BY <1>1, <1>9, <2>1 DEF ResolveFails
  <2>4. asked' \in [Admins -> Asked \cup {Nothing}] /\ UNCHANGED <<rows, seen, banks, saving, calls>>
    BY <1>9 DEF ResolveFails
  <2> QED
    BY <1>2, <2>2, <2>3, <2>4
<1>10. CASE Resolve(a)
  <2>1. form[a].values \in Payout
    BY <1>1, <1>10, FormFields DEF Resolve, CanResolve
  <2>2. form[a].values.code \in Banks /\ form[a].values.number \in Numbers
    BY <1>10, <2>1 DEF Resolve, CanResolve, Payout
  <2> QED
    BY <1>2, <1>10, <2>2 DEF Resolve, Asked
<1>11. CASE CloseForm(a) \/ LoadPage(a)
  <2>1. /\ form' = [form EXCEPT ![a] = Closed] \/ form' = form
        /\ UNCHANGED <<rows, saving, calls>>
    BY <1>11 DEF CloseForm, LoadPage
  <2>2. /\ seen' \in [Admins -> [Profiles -> Row]] /\ banks' \in [Admins -> {{}, Banks}]
        /\ asked' \in [Admins -> Asked \cup {Nothing}]
    BY <1>11 DEF CloseForm, LoadPage
  <2> QED
    BY <1>2, <2>1, <2>2
<1>12. CASE Saved(a) \/ SaveFails(a)
  <2>1. /\ form' = [form EXCEPT ![a] = Closed] \/ form' = form
        /\ UNCHANGED <<rows, banks, asked>>
    BY <1>12 DEF Saved, SaveFails
  <2>2. seen' \in [Admins -> [Profiles -> Row]] /\ saving' \in [Admins -> BOOLEAN]
    BY <1>12 DEF Saved, SaveFails
  <2>3. calls' \in [Admins -> SoundCall \cup {Nothing}]
    BY <1>12 DEF Saved, SaveFails
  <2> QED
    BY <1>2, <2>1, <2>2, <2>3
<1> QED
  BY <1>3, <1>4, <1>5, <1>6, <1>7, <1>8, <1>9, <1>10, <1>11, <1>12

\* The request carries a payout with fields left out.
LEMMA PayloadIsPayout ==
  ASSUME NEW f \in SoundForm
  PROVE  Payload(f) \in Payout
<1>1. f.values \in Payout
  BY FormFields
<1>2. PICK p : p = [k \in DOMAIN NoPayout |-> Field(f.before[k], f.values[k])]
  OBVIOUS
<1>3. /\ p = [k \in DOMAIN NoPayout |-> p[k]]
      /\ \A k \in DOMAIN NoPayout : p[k] = f.values[k] \/ p[k] = Blank
  BY <1>2 DEF Field
<1>4. p \in Payout
  BY <1>1, <1>3, PayoutFields DEF Payout
<1> QED
  BY <1>1, <1>2, <1>4 DEF Payload

\* A form that can be saved shows an account of the gateway: what it took from
\* the list alone is no change.
LEMMA SavedIsAccount ==
  ASSUME NEW f \in SoundForm, IsResolved(f), Payload(f) # NoPayout
  PROVE  f.values \in Accounts
<1>1. /\ f.values = f.resolution /\ f.values # NoPayout /\ f.values \in Payout
      /\ f.resolution \in Accounts \cup {NoPayout, f.before}
  BY FormFields DEF IsResolved, SoundForm
<1>2. f.values # f.before
  <2> SUFFICES ASSUME f.values = f.before
               PROVE  FALSE
    OBVIOUS
  <2>1. f.mode # "create"
    BY <1>1, NoRowIsNone DEF SoundForm
  <2>2. Payload(f) = [k \in DOMAIN NoPayout |-> Blank]
    BY <2>1 DEF Payload, Field
  <2>3. [k \in DOMAIN NoPayout |-> Blank] = NoPayout
    BY DEF NoPayout
  <2> QED
    BY <2>2, <2>3
<1> QED
  BY <1>1, <1>2

\* What the server asks the gateway for is the account the form showed, when the
\* row it read is the one in the list.
LEMMA MeantIsShown ==
  ASSUME NEW c \in SoundCall, c.row = c.listed
  PROVE  Stored(Meant(c)) = c.shown
<1>1. PICK code, number : Known(code, number) /\ c.shown = Resolved(code, number)
  BY DEF SoundCall, Accounts
<1>2. c.shown.code = code /\ c.shown.number = number /\ code # Blank /\ number # Blank
  <2>1. code # Blank /\ number # Blank
    BY <1>1, Zenon DEF Known
  <2>2. Resolved(code, number).code = code /\ Resolved(code, number).number = number
    BY Zenon DEF Resolved
  <2> QED
    BY <1>1, <2>1, <2>2
<1>3. c.mode \in {"create", "edit"} /\ "code" \in DOMAIN NoPayout /\ "number" \in DOMAIN NoPayout
  BY PayoutFields DEF SoundCall, Call
<1>4. CASE c.mode = "create"
  <2>1. c.row = NoRow /\ c.change = c.shown
    BY <1>4 DEF SoundCall
  <2>2. Meant(c)["code"] = code /\ Meant(c)["number"] = number
    BY <1>2, <1>3, <2>1 DEF Meant
  <2> QED
    BY <1>1, <2>2 DEF Stored
<1>5. CASE c.mode = "edit"
  <2>1. c.change = [k \in DOMAIN NoPayout |-> Field(c.listed[k], c.shown[k])] /\ c.row # NoRow
    BY <1>5, NoRowIsNone DEF SoundCall
  <2>2. ASSUME NEW k \in DOMAIN NoPayout, c.shown[k] # Blank
        PROVE  Meant(c)[k] = c.shown[k]
    <3>1. c.change[k] = Field(c.listed[k], c.shown[k])
      BY <2>1
    <3>2. c.change[k] = Blank \/ c.change[k] = c.shown[k]
      BY <3>1 DEF Field
    <3>3. c.change[k] = Blank => c.row[k] = c.shown[k]
      BY <2>2, <3>1 DEF Field
    <3> QED
      BY <2>1, <2>2, <3>2, <3>3 DEF Meant
  <2>3. Meant(c)["code"] = code /\ Meant(c)["number"] = number
    BY <1>2, <1>3, <2>2
  <2> QED
    BY <1>1, <2>3 DEF Stored
<1> QED
  BY <1>3, <1>4, <1>5

\* The server goes on with a request as it was sent.
LEMMA CallStep ==
  ASSUME DeskInv, NEW a \in Admins,
         Save(a) \/ ServerReads(a) \/ CreateWrites(a) \/ UpdateWrites(a) \/ ServerRefuses(a) \/ Ended(a)
  PROVE  DeskInv'
<1> USE DEF DeskInv
<1>1. calls[a] # Nothing => calls[a] \in SoundCall
  OBVIOUS
<1>2. ASSUME NEW c, c \in SoundCall \cup {Nothing}, calls' = [calls EXCEPT ![a] = c],
             saving' \in [Admins -> BOOLEAN], UNCHANGED <<rows, seen, form, banks, asked>>
      PROVE  DeskInv'
  BY <1>2
<1>3. CASE Save(a)
  <2>1. form[a] \in SoundForm /\ IsResolved(form[a]) /\ Payload(form[a]) # NoPayout
    BY <1>3 DEF Save, IsOpen
  <2>2. PICK f : f = form[a]
    OBVIOUS
  <2>3. /\ f.values \in Accounts /\ f.values \in Payout /\ Payload(f) \in Payout
        /\ f.mode \in {"create", "edit"} /\ f.of \in Profiles /\ f.before \in Row
        /\ f.mode = "create" => f.before = NoRow
        /\ f.mode = "edit" => f.before \in Payout
    BY <2>1, <2>2, SavedIsAccount, PayloadIsPayout, FormFields DEF SoundForm, Form
  <2>4. PICK p : p = Payload(f)
    OBVIOUS
  <2>5. PICK c : c = [at |-> "sent", mode |-> f.mode, of |-> f.of, change |-> p, row |-> NoRow,
                      shown |-> f.values, listed |-> f.before]
    OBVIOUS
  <2>6. c \in Call
    BY <2>3, <2>4, <2>5 DEF Call, Change, Row
  <2>7. /\ f.mode = "create" => p = f.values
        /\ f.mode = "edit" => p = [k \in DOMAIN NoPayout |-> Field(f.before[k], f.values[k])]
    BY <2>4 DEF Payload
  <2>8. c \in SoundCall
    BY <2>3, <2>5, <2>6, <2>7 DEF SoundCall
  <2> QED
    BY <1>2, <1>3, <2>2, <2>4, <2>5, <2>8 DEF Save
<1>4. ASSUME NEW pc \in {"read", "saved", "refused"}, calls[a] \in SoundCall
      PROVE  [calls[a] EXCEPT !.at = pc] \in SoundCall
  BY <1>4 DEF SoundCall, Call
<1>5. CASE ServerReads(a)
  <2>1. calls[a] \in SoundCall /\ calls[a].of \in Profiles
    BY <1>1, <1>5 DEF ServerReads, At, SoundCall, Call
  <2>2. rows[calls[a].of] \in Row
    BY <2>1
  <2>3. [calls[a] EXCEPT !.at = "read", !.row = rows[calls[a].of]] \in SoundCall
    BY <2>1, <2>2 DEF SoundCall, Call
  <2>4. \/ calls' = [calls EXCEPT ![a] = [calls[a] EXCEPT !.at = "refused"]]
        \/ calls' = [calls EXCEPT ![a] = [calls[a] EXCEPT !.at = "read", !.row = rows[calls[a].of]]]
    BY <1>5 DEF ServerReads, Goes
  <2>5. [calls[a] EXCEPT !.at = "refused"] \in SoundCall
    BY <1>4, <2>1
  <2> QED
    BY <1>2, <1>5, <2>3, <2>4, <2>5 DEF ServerReads
<1>6. CASE CreateWrites(a) \/ UpdateWrites(a)
  <2>1. PICK c : c = calls[a]
    OBVIOUS
  <2>2. c \in SoundCall /\ Gatewayed(c) /\ rows' = [rows EXCEPT ![c.of] = Stored(Meant(c))] /\ Goes(a, "saved")
    BY <1>1, <1>6, <2>1 DEF CreateWrites, UpdateWrites, At
  <2>3. c.change \in Payout /\ c.row \in Payout \cup {NoRow} /\ c.of \in Profiles
    BY <2>2 DEF SoundCall, Call, Change, Row
  <2>4. Meant(c).code \in Banks \cup {Blank} /\ Meant(c).number \in Numbers \cup {Blank}
    BY <2>3, PayoutFields DEF Meant, Payout
  <2>5. PICK code \in Banks \cup {Blank}, number \in Numbers \cup {Blank} :
          code = Meant(c).code /\ number = Meant(c).number
    BY <2>4
  <2>6. Stored(Meant(c)) = Resolved(code, number) /\ Known(code, number)
    BY <2>2, <2>5 DEF Stored, Gatewayed
  <2>7. Stored(Meant(c)) \in Row
    BY <2>6, ResolvedIsAccount DEF Row
  <2>8. rows' \in [Profiles -> Row]
    BY <2>2, <2>3, <2>7
  <2>9. calls' = [calls EXCEPT ![a] = [calls[a] EXCEPT !.at = "saved"]]
          /\ [calls[a] EXCEPT !.at = "saved"] \in SoundCall
    BY <1>4, <2>1, <2>2 DEF Goes
  <2> QED
    BY <1>6, <2>8, <2>9 DEF CreateWrites, UpdateWrites
<1>7. CASE ServerRefuses(a)
  <2>1. calls' = [calls EXCEPT ![a] = [calls[a] EXCEPT !.at = "refused"]]
          /\ [calls[a] EXCEPT !.at = "refused"] \in SoundCall
    BY <1>1, <1>4, <1>7 DEF ServerRefuses, Goes, At
  <2> QED
    BY <1>2, <1>7, <2>1 DEF ServerRefuses
<1>8. CASE Ended(a)
  BY <1>2, <1>8 DEF Ended
<1> QED
  BY <1>3, <1>5, <1>6, <1>7, <1>8

LEMMA DeskMoves ==
  ASSUME [ScreensNext]_screensVars
  PROVE  MerchantDeskNext \/ UNCHANGED deskVars
BY DEF ScreensNext, PlayStatement, PlayMerchantDesk, PlayCashoutPage, PlayCashoutScreen,
       PlayCheckout, PlayPayoutFees, screensVars

LEMMA DeskStep == DeskInv /\ [ScreensNext]_screensVars => DeskInv'
<1> SUFFICES ASSUME DeskInv, [ScreensNext]_screensVars
             PROVE  DeskInv'
  OBVIOUS
<1>1. CASE MerchantDeskNext
  BY <1>1, FormStep, CallStep DEF MerchantDeskNext
<1>2. CASE UNCHANGED deskVars
  BY <1>2 DEF deskVars, DeskInv
<1> QED
  BY <1>1, <1>2, DeskMoves

\* A request is saved by the write of its own call.
LEMMA SavedByWrite ==
  ASSUME DeskInv, MerchantDeskNext, NEW a \in Admins, At(a, "read"), At(a, "saved")'
  PROVE  CreateWrites(a) \/ UpdateWrites(a)
<1> DEFINE DeskWrite == CreateWrites(a) \/ UpdateWrites(a)
<1>1. /\ calls \in [Admins -> SoundCall \cup {Nothing}]
      /\ calls[a] # Nothing /\ calls[a].at = "read" /\ calls'[a].at = "saved" /\ calls'[a] # Nothing
  BY DEF DeskInv, At
<1>2. ASSUME NEW b \in Admins, UNCHANGED calls \/ \E c : calls' = [calls EXCEPT ![b] = c]
      PROVE  b = a /\ ~UNCHANGED calls
  BY <1>1, <1>2
<1>3. ASSUME NEW b \in Admins,
             \/ \E m \in Profiles : OpenForm(b, m)
             \/ \E k \in Banks : SelectBank(b, k)
             \/ \E n \in Numbers : TypeNumber(b, n)
             \/ CloseForm(b) \/ LoadBanks(b) \/ LoadBanksFails(b) \/ LoadPage(b)
             \/ Resolve(b) \/ ResolveEnds(b) \/ ResolveFails(b) \/ SaveFails(b)
      PROVE  UNCHANGED calls
  BY <1>3 DEF OpenForm, SelectBank, TypeNumber, CloseForm, LoadBanks, LoadBanksFails, LoadPage,
              Resolve, ResolveEnds, ResolveFails, SaveFails
<1>4. ASSUME NEW b \in Admins, Save(b) \/ Saved(b) \/ Ended(b)
      PROVE  DeskWrite
  <2>1. b = a
    BY <1>2, <1>4 DEF Save, Saved, Ended
  <2> QED
    BY <1>1, <1>4, <2>1 DEF Save, Saved, Ended, At
<1>5. ASSUME NEW b \in Admins, ServerReads(b) \/ ServerRefuses(b)
      PROVE  DeskWrite
  <2>1. b = a
    BY <1>2, <1>5 DEF ServerReads, ServerRefuses, Goes
  <2>2. ServerRefuses(a)
    BY <1>1, <1>5, <2>1 DEF ServerReads, At
  <2>3. calls' = [calls EXCEPT ![a] = [calls[a] EXCEPT !.at = "refused"]] /\ calls[a] \in SoundCall
    BY <1>1, <2>2 DEF ServerRefuses, Goes
  <2>4. calls'[a].at = "refused"
    BY <1>1, <2>3 DEF SoundCall, Call
  <2> QED
    BY <1>1, <2>4
<1>6. ASSUME NEW b \in Admins, CreateWrites(b) \/ UpdateWrites(b)
      PROVE  DeskWrite
  <2>1. b = a
    BY <1>2, <1>6 DEF CreateWrites, UpdateWrites, Goes
  <2> QED
    BY <1>6, <2>1
<1> QED
  BY <1>1, <1>2, <1>3, <1>4, <1>5, <1>6 DEF MerchantDeskNext

\* The account a merchant is paid to is the one the admin's form showed at Save,
\* unless the row was not as in the list any more: for any number of admins, lists
\* loaded long ago, late answers and saves without an answer.
THEOREM PayoutsAreAsShown == ScreensSpec => PayoutAsShown
<1>1. DeskInv /\ [ScreensNext]_screensVars =>
        [\A a \in Admins :
           (At(a, "read") /\ At(a, "saved")' /\ calls[a].row = calls[a].listed)
             => rows'[calls[a].of] = calls[a].shown]_deskVars
  <2> SUFFICES ASSUME DeskInv, [ScreensNext]_screensVars, ~UNCHANGED deskVars,
                      NEW a \in Admins, At(a, "read"), At(a, "saved")',
                      calls[a].row = calls[a].listed
               PROVE  rows'[calls[a].of] = calls[a].shown
    OBVIOUS
  <2>1. calls[a] \in SoundCall /\ rows \in [Profiles -> Row]
    BY DEF DeskInv, At
  <2>2. rows' = [rows EXCEPT ![calls[a].of] = Stored(Meant(calls[a]))]
    BY DeskMoves, SavedByWrite DEF CreateWrites, UpdateWrites
  <2>3. calls[a].of \in Profiles /\ Stored(Meant(calls[a])) = calls[a].shown
    BY <2>1, MeantIsShown DEF SoundCall, Call
  <2> QED
    BY <2>1, <2>2, <2>3
<1> QED
  BY <1>1, DeskStarts, DeskStep, PTL DEF ScreensSpec, PayoutAsShown
-----------------------------------------------------------------------------
(* The offers of the cashout screen.                                         *)

There(c) == cashouts[c].status # "NONE"

OwnedRows ==
  /\ CashoutRows
  /\ \A c \in Cashouts : There(c) => "merchant" \in DOMAIN cashouts[c]

\* What a screen s, with the cashouts k it was told of and those that are open, may
\* rely on if no request crossed its last refresh: a list that was read has every
\* open cashout of k, and no offer stands against one.
Reliable(s, k, open) ==
  /\ s.at = "loading" => ~s.busy /\ (s.read => k \cap open \subseteq s.mine)
  /\ s.at = "confirmed" /\ s.active = Nil => k \cap open = {}

Shaped(s) ==
  /\ DOMAIN s = {"at", "amount", "active", "me", "mine", "read", "busy"}
  /\ s.mine \subseteq Cashouts
  /\ s.at # "loading" => ~s.read

OfferInv ==
  /\ OwnedRows
  /\ screen = [m \in Merchants |-> screen[m]]
  /\ known = [m \in Merchants |-> known[m]]
  /\ crossed = [m \in Merchants |-> crossed[m]]
  /\ wish \in [Merchants -> [Requesters -> Cashouts \cup {Nil, "sent", "taken"}]]
  /\ \A m \in Merchants : \A c \in known[m] : c \in Cashouts /\ There(c)
  /\ \A m \in Merchants, q \in Requesters : wish[m][q] \in Cashouts => There(wish[m][q])
  /\ \A m \in Merchants : Shaped(screen[m])
  /\ \A m \in Merchants : ~crossed[m] => Reliable(screen[m], known[m], Open(m))

OffersInv ==
  /\ scene # "cashout screen" => screen = [m \in Merchants |-> Blind]
  /\ scene = "cashout screen" => OfferInv

LEMMA OffersFollow == OffersInv => OfferIsFresh
<1> SUFFICES ASSUME OffersInv, NEW m \in Merchants, Offers(m), ~crossed[m]
             PROVE  known[m] \cap Open(m) = {}
  BY DEF OfferIsFresh
<1>1. screen[m].at = "confirmed" /\ screen[m].active = Nil
  BY DEF Offers
<1>2. scene = "cashout screen"
  <2>1. Blind.at = "unconfirmed"
    BY DEF Blind
  <2>2. screen # [n \in Merchants |-> Blind]
    BY <1>1, <2>1
  <2> QED
    BY <2>2 DEF OffersInv
<1>3. Reliable(screen[m], known[m], Open(m))
  BY <1>2 DEF OffersInv, OfferInv
<1> QED
  BY <1>1, <1>3 DEF Reliable

LEMMA OffersStart == ScreensInit => OffersInv
<1> SUFFICES ASSUME ScreensInit, scene = "cashout screen"
             PROVE  OfferInv
  BY DEF OffersInv, ScreensInit, CashoutScreenInit
<1>1. cashouts = [c \in Cashouts |-> NoCashout]
  BY DEF ScreensInit, CashoutInit
<1>2. OwnedRows
  BY <1>1 DEF OwnedRows, CashoutRows, NoCashout, There
<1>3. /\ screen = [m \in Merchants |-> Blind]
      /\ wish = [m \in Merchants |-> [q \in Requesters |-> Nil]]
      /\ known = [m \in Merchants |-> {}] /\ crossed = [m \in Merchants |-> FALSE]
  BY DEF ScreensInit, CashoutScreenInit
<1>4. Shaped(Blind) /\ \A k, open : Reliable(Blind, k, open)
  BY DEF Shaped, Reliable, Blind
<1>5. \A m \in Merchants, q \in Requesters : wish[m][q] \notin Cashouts
  BY <1>3, CashoutScreenAssumption
<1> QED
  BY <1>2, <1>3, <1>4, <1>5 DEF OfferInv

\* No step removes a cashout, gives it to another merchant, or opens it again.
Steady ==
  /\ OwnedRows'
  /\ \A c \in Cashouts : There(c) =>
       There(c)' /\ \A m \in Merchants : c \in Open(m)' => c \in Open(m)

LEMMA StillSteady ==
  ASSUME OwnedRows, UNCHANGED cashouts
  PROVE  Steady
BY DEF OwnedRows, CashoutRows, Steady, There, Open

LEMMA CreateSteady ==
  ASSUME OwnedRows, NEW q \in Requesters, NEW c \in Cashouts, RequestCreate(q, c)
  PROVE  Steady /\ There(c)'
<1>1. /\ cashouts' = [d \in Cashouts |-> IF d = c THEN cashouts'[c] ELSE cashouts[d]]
      /\ cashouts'[c].status = "PENDING" /\ {"status", "merchant"} \subseteq DOMAIN cashouts'[c]
  BY DEF OwnedRows, CashoutRows, RequestCreate
<1>2. ~There(c)
  BY DEF RequestCreate, NoCashout, There
<1> QED
  BY <1>1, <1>2 DEF OwnedRows, CashoutRows, Steady, There, Open

LEMMA AdminSteady ==
  ASSUME OwnedRows, NEW c \in Cashouts,
         ApproveCashout(c, "manual") \/ MarkManualPaid(c) \/ CancelManual(c)
  PROVE  Steady
<1>1. /\ {"status", "merchant"} \subseteq DOMAIN cashouts[c]
      /\ cashouts[c].status \in {"PENDING", "PROCESSING"}
  BY DEF OwnedRows, CashoutRows, There, ApproveCashout, MarkManualPaid, CancelManual, Complete,
         Refund, Processing
<1>2. PICK row : /\ cashouts' = [cashouts EXCEPT ![c] = row]
                 /\ \/ row = [cashouts[c] EXCEPT !.status = "PROCESSING", !.manual = TRUE]
                    \/ row = [cashouts[c] EXCEPT !.status = "COMPLETED"]
                    \/ row = [cashouts[c] EXCEPT !.status = "FAILED"]
  <2>1. CASE ApproveCashout(c, "manual")
    BY <2>1 DEF ApproveCashout, OwnedRows, CashoutRows
  <2>2. CASE MarkManualPaid(c)
    BY <2>2 DEF MarkManualPaid, Complete
  <2>3. CASE CancelManual(c)
    BY <2>3 DEF CancelManual, Refund
  <2> QED
    BY <2>1, <2>2, <2>3
<1>3. /\ {"status", "merchant"} \subseteq DOMAIN row
      /\ row.status # "NONE" /\ row.merchant = cashouts[c].merchant
  BY <1>1, <1>2
<1>4. cashouts'[c] = row /\ \A d \in Cashouts : d # c => cashouts'[d] = cashouts[d]
  BY <1>2 DEF OwnedRows, CashoutRows
<1>5. OwnedRows'
  <2>1. cashouts' = [d \in Cashouts |-> cashouts'[d]]
    BY <1>2 DEF OwnedRows, CashoutRows
  <2> QED
    BY <1>3, <1>4, <2>1 DEF OwnedRows, CashoutRows, There
<1> QED
  BY <1>1, <1>3, <1>4, <1>5 DEF Steady, There, Open

\* What the screens were told of stays there, and what was reliable stays so.
LEMMA SteadyKeeps ==
  ASSUME OfferInv, Steady, NEW m \in Merchants
  PROVE  /\ \A c \in known[m] : c \in Cashouts /\ There(c)'
         /\ known[m] \cap Open(m)' \subseteq known[m] \cap Open(m)
         /\ ~crossed[m] => Reliable(screen[m], known[m], Open(m)')
<1>1. known[m] \cap Open(m)' \subseteq known[m] \cap Open(m)
  BY DEF OfferInv, Steady
<1>2. \A c \in known[m] : c \in Cashouts /\ There(c)'
  BY DEF OfferInv, Steady
<1>3. ~crossed[m] => Reliable(screen[m], known[m], Open(m))
  BY DEF OfferInv
<1> QED
  BY <1>1, <1>2, <1>3 DEF Reliable

\* A step of the server or of the money, with what a request got from it.
LEMMA ServerOffers ==
  ASSUME OfferInv, Steady, UNCHANGED <<screen, known, crossed>>,
         wish' \in [Merchants -> [Requesters -> Cashouts \cup {Nil, "sent", "taken"}]],
         \A m \in Merchants, q \in Requesters :
           wish'[m][q] \in Cashouts => wish'[m][q] = wish[m][q] \/ There(wish[m][q])'
  PROVE  OfferInv'
<1>1. OwnedRows'
  BY DEF Steady
<1>2. ASSUME NEW m \in Merchants
      PROVE  \A c \in known'[m] : c \in Cashouts /\ There(c)'
  BY <1>2, SteadyKeeps
<1>3. ASSUME NEW m \in Merchants, NEW q \in Requesters, wish'[m][q] \in Cashouts
      PROVE  There(wish[m][q])'
  <2>1. PICK c \in Cashouts : c = wish'[m][q]
    BY <1>3
  <2>2. c = wish[m][q] => There(c)
    BY <1>3, <2>1 DEF OfferInv
  <2>3. There(c)'
    BY <1>3, <2>1, <2>2 DEF Steady, There
  <2> QED
    BY <2>1, <2>3 DEF There
<1>4. ASSUME NEW m \in Merchants
      PROVE  ~crossed'[m] => Reliable(screen[m], known[m], Open(m)')
  BY <1>4, SteadyKeeps
<1> QED
  BY <1>1, <1>2, <1>3, <1>4 DEF OfferInv

\* A step of one screen, which leaves the cashouts alone.
LEMMA ScreenOffers ==
  ASSUME OfferInv, NEW m \in Merchants, NEW s, NEW k, NEW x,
         screen' = [screen EXCEPT ![m] = s], known' = [known EXCEPT ![m] = k],
         crossed' = [crossed EXCEPT ![m] = x], UNCHANGED cashouts,
         \/ wish' = wish
         \/ \E q \in Requesters : \E w \in {Nil, "sent"} : wish' = [wish EXCEPT ![m][q] = w],
         Shaped(s), \A c \in k : c \in Cashouts /\ There(c),
         ~x => Reliable(s, k, Open(m))
  PROVE  OfferInv'
<1>1. \A c : There(c)' = There(c)
  BY DEF There
<1>2. \A n : Open(n)' = Open(n)
  BY DEF Open
<1>3. /\ wish' \in [Merchants -> [Requesters -> Cashouts \cup {Nil, "sent", "taken"}]]
      /\ \A n \in Merchants, q \in Requesters : wish'[n][q] \in Cashouts => wish'[n][q] = wish[n][q]
  <2>1. CASE wish' = wish
    BY <2>1 DEF OfferInv
  <2>2. ASSUME NEW q \in Requesters, NEW w \in {Nil, "sent"}, wish' = [wish EXCEPT ![m][q] = w]
        PROVE  <1>3!1 /\ <1>3!2
    <3>1. wish \in [Merchants -> [Requesters -> Cashouts \cup {Nil, "sent", "taken"}]]
      BY DEF OfferInv
    <3>2. w \notin Cashouts
      BY CashoutScreenAssumption
    <3> HIDE DEF Nil
    <3> QED
      BY <2>2, <3>1, <3>2
  <2> QED
    BY <2>1, <2>2
<1>4. ASSUME NEW n \in Merchants, NEW q \in Requesters, wish'[n][q] \in Cashouts
      PROVE  There(wish[n][q])'
  BY <1>1, <1>3, <1>4 DEF OfferInv
<1>5. ASSUME NEW n \in Merchants
      PROVE  /\ screen'[n] = IF n = m THEN s ELSE screen[n]
             /\ known'[n] = IF n = m THEN k ELSE known[n]
             /\ crossed'[n] = IF n = m THEN x ELSE crossed[n]
  BY <1>5 DEF OfferInv
<1>6. ASSUME NEW n \in Merchants
      PROVE  /\ Shaped(screen'[n])
             /\ \A c \in known'[n] : c \in Cashouts /\ There(c)'
             /\ ~crossed'[n] => Reliable(screen'[n], known'[n], Open(n)')
  <2>1. CASE n = m
    BY <1>1, <1>2, <1>5, <1>6, <2>1
  <2>2. CASE n # m
    BY <1>1, <1>2, <1>5, <1>6, <2>2 DEF OfferInv
  <2> QED
    BY <2>1, <2>2
<1>7. OwnedRows' /\ screen' = [n \in Merchants |-> screen'[n]]
      /\ known' = [n \in Merchants |-> known'[n]] /\ crossed' = [n \in Merchants |-> crossed'[n]]
  BY <1>1 DEF OfferInv, OwnedRows, CashoutRows
<1> QED
  BY <1>3, <1>4, <1>6, <1>7 DEF OfferInv

\* The steps of one screen.
LEMMA ScreenStep ==
  ASSUME OfferInv, NEW m \in Merchants,
         \/ Refresh(m) \/ FetchMe(m) \/ GetCashoutStatus(m) \/ RefreshEnds(m)
         \/ RefreshFails(m) \/ RequestFails(m)
         \/ \E q \in Requesters :
              RequestCashout(m, q) \/ RequestSucceeds(m, q) \/ RequestForgotten(m, q)
  PROVE  OfferInv'
<1> DEFINE old == screen[m]
<1>1. /\ Shaped(old) /\ (\A c \in known[m] : c \in Cashouts /\ There(c))
      /\ ~crossed[m] => Reliable(old, known[m], Open(m))
      /\ known = [known EXCEPT ![m] = known[m]] /\ crossed = [crossed EXCEPT ![m] = crossed[m]]
      /\ screen = [screen EXCEPT ![m] = old]
  BY DEF OfferInv
<1>2. ASSUME NEW w
      PROVE  Shaped([Blind EXCEPT !.busy = w]) /\ \A k, open : Reliable([Blind EXCEPT !.busy = w], k, open)
  <2>1. [Blind EXCEPT !.busy = w].at = "unconfirmed"
    BY DEF Blind
  <2>2. ~[Blind EXCEPT !.busy = w].read /\ [Blind EXCEPT !.busy = w].mine = {}
    BY DEF Blind
  <2>3. DOMAIN [Blind EXCEPT !.busy = w] = {"at", "amount", "active", "me", "mine", "read", "busy"}
    BY DEF Blind
  <2> QED
    BY <2>1, <2>2, <2>3 DEF Shaped, Reliable
<1>3. CASE Refresh(m)
  <2> DEFINE s == [old EXCEPT !.at = "loading"]
  <2>1. s.at = "loading" /\ s.busy = old.busy /\ s.read = old.read /\ s.mine = old.mine /\ Shaped(s)
    BY <1>1 DEF Shaped
  <2>2. ~s.read
    BY <1>1, <1>3, <2>1 DEF Shaped, Refresh
  <2>3. ~old.busy => Reliable(s, known[m], Open(m))
    BY <2>1, <2>2 DEF Reliable
  <2>4. /\ screen' = [screen EXCEPT ![m] = s] /\ crossed' = [crossed EXCEPT ![m] = old.busy]
        /\ UNCHANGED <<known, cashouts, wish>>
    BY <1>3 DEF Refresh, Set, cashoutVars
  <2> HIDE DEF s, old
  <2> QED
    BY <1>1, <2>1, <2>3, <2>4, ScreenOffers
<1>4. CASE FetchMe(m)
  <2> DEFINE s == [old EXCEPT !.me = funds[m]]
  <2>1. /\ s.at = old.at /\ s.busy = old.busy /\ s.read = old.read /\ s.mine = old.mine
        /\ s.active = old.active /\ Shaped(s)
    BY <1>1 DEF Shaped
  <2>2. ~crossed[m] => Reliable(s, known[m], Open(m))
    BY <1>1, <2>1 DEF Reliable
  <2>3. screen' = [screen EXCEPT ![m] = s] /\ UNCHANGED <<known, crossed, cashouts, wish>>
    BY <1>4 DEF FetchMe, Set, cashoutVars
  <2> HIDE DEF s, old
  <2> QED
    BY <1>1, <2>1, <2>2, <2>3, ScreenOffers
<1>5. CASE GetCashoutStatus(m)
  <2> DEFINE s == [old EXCEPT !.read = TRUE, !.mine = Open(m)]
             k == known[m] \cup Open(m)
  <2>1. old.at = "loading"
    BY <1>5 DEF GetCashoutStatus
  <2>2. \A c \in Open(m) : c \in Cashouts /\ There(c)
    BY DEF Open, There
  <2>3. /\ s.at = old.at /\ s.busy = old.busy /\ s.mine = Open(m) /\ Shaped(s)
    BY <1>1, <2>1, <2>2 DEF Shaped
  <2>4. ~crossed[m] => Reliable(s, k, Open(m))
    BY <1>1, <2>1, <2>3 DEF Reliable
  <2>5. /\ screen' = [screen EXCEPT ![m] = s] /\ known' = [known EXCEPT ![m] = k]
        /\ UNCHANGED <<crossed, cashouts, wish>>
    BY <1>5 DEF GetCashoutStatus, Set, UnderWay, cashoutVars
  <2>6. \A c \in k : c \in Cashouts /\ There(c)
    BY <1>1, <2>2
  <2> HIDE DEF s, old, k
  <2> QED
    BY <1>1, <2>3, <2>4, <2>5, <2>6, ScreenOffers
<1>6. CASE RefreshEnds(m)
  <2>1. PICK a \in IF old.mine = {} THEN {Nil} ELSE old.mine :
          screen' = [screen EXCEPT ![m] =
                       [Blind EXCEPT !.at = "confirmed", !.amount = old.me, !.active = a, !.busy = old.busy]]
    BY <1>6 DEF RefreshEnds, Set
  <2> DEFINE s == [Blind EXCEPT !.at = "confirmed", !.amount = old.me, !.active = a, !.busy = old.busy]
  <2>2. s.at = "confirmed" /\ s.active = a /\ Shaped(s)
    BY DEF Shaped, Blind
  <2>3. a = Nil => old.mine = {}
    BY <1>1, <2>1, CashoutScreenAssumption DEF Shaped
  <2>4. ~crossed[m] /\ a = Nil => known[m] \cap Open(m) = {}
    BY <1>1, <1>6, <2>3 DEF Reliable, RefreshEnds
  <2>5. ~crossed[m] => Reliable(s, known[m], Open(m))
    BY <2>2, <2>4 DEF Reliable
  <2>6. screen' = [screen EXCEPT ![m] = s] /\ UNCHANGED <<known, crossed, cashouts, wish>>
    BY <1>6, <2>1 DEF RefreshEnds, cashoutVars
  <2> HIDE DEF s, old
  <2> QED
    BY <1>1, <2>2, <2>5, <2>6, ScreenOffers
<1>7. CASE RefreshFails(m)
  <2> DEFINE s == [Blind EXCEPT !.busy = old.busy]
  <2>1. screen' = [screen EXCEPT ![m] = s] /\ UNCHANGED <<known, crossed, cashouts, wish>>
    BY <1>7 DEF RefreshFails, Set, cashoutVars
  <2>2. Shaped(s) /\ Reliable(s, known[m], Open(m))
    BY <1>2
  <2> HIDE DEF s, old
  <2> QED
    BY <1>1, <2>1, <2>2, ScreenOffers
<1>8. CASE RequestFails(m)
  <2> DEFINE s == [old EXCEPT !.busy = FALSE]
  <2>1. /\ s.at = old.at /\ ~s.busy /\ s.read = old.read /\ s.mine = old.mine
        /\ s.active = old.active /\ Shaped(s)
    BY <1>1 DEF Shaped
  <2>2. ~crossed[m] => Reliable(s, known[m], Open(m))
    BY <1>1, <2>1 DEF Reliable
  <2>3. screen' = [screen EXCEPT ![m] = s] /\ UNCHANGED <<known, crossed, cashouts, wish>>
    BY <1>8 DEF RequestFails, Set, cashoutVars
  <2> HIDE DEF s, old
  <2> QED
    BY <1>1, <2>1, <2>2, <2>3, ScreenOffers
<1>9. ASSUME NEW q \in Requesters, RequestCashout(m, q)
      PROVE  OfferInv'
  <2> DEFINE s == [old EXCEPT !.busy = TRUE]
  <2>1. /\ s.at = old.at /\ s.active = old.active /\ Shaped(s)
    BY <1>1 DEF Shaped
  <2>2. ~crossed[m] => Reliable(s, known[m], Open(m))
    BY <1>1, <1>9, <2>1 DEF Reliable, RequestCashout, Offers
  <2>3. /\ screen' = [screen EXCEPT ![m] = s] /\ UNCHANGED <<known, crossed, cashouts>>
        /\ wish' = [wish EXCEPT ![m][q] = "sent"]
    BY <1>9 DEF RequestCashout, Set, cashoutVars
  <2> HIDE DEF s, old
  <2> QED
    BY <1>1, <2>1, <2>2, <2>3, ScreenOffers
<1>10. ASSUME NEW q \in Requesters, RequestSucceeds(m, q)
       PROVE  OfferInv'
  <2> DEFINE c == wish[m][q]
             s == [old EXCEPT !.busy = FALSE, !.active = c]
             k == known[m] \cup {c}
  <2>1. c \in Cashouts /\ There(c) /\ c # Nil /\ old.busy
    BY <1>10, CashoutScreenAssumption DEF RequestSucceeds, OfferInv
  <2>2. /\ s.at = old.at /\ ~s.busy /\ s.active = c /\ Shaped(s)
    BY <1>1 DEF Shaped
  <2>3. ~crossed[m] => old.at # "loading"
    BY <1>1, <2>1 DEF Reliable
  <2>4. ~crossed[m] => Reliable(s, k, Open(m))
    BY <2>1, <2>2, <2>3 DEF Reliable
  <2>5. /\ screen' = [screen EXCEPT ![m] = s] /\ known' = [known EXCEPT ![m] = k]
        /\ wish' = [wish EXCEPT ![m][q] = Nil] /\ UNCHANGED <<crossed, cashouts>>
    BY <1>10 DEF RequestSucceeds, Set, Answered, cashoutVars
  <2>6. \A d \in k : d \in Cashouts /\ There(d)
    BY <1>1, <2>1
  <2> HIDE DEF s, old, k, c
  <2> QED
    BY <1>1, <2>2, <2>4, <2>5, <2>6, ScreenOffers
<1>11. ASSUME NEW q \in Requesters, RequestForgotten(m, q)
       PROVE  OfferInv'
  <2>1. /\ wish' = [wish EXCEPT ![m][q] = Nil]
        /\ UNCHANGED <<screen, known, crossed, cashouts>>
    BY <1>11 DEF RequestForgotten, Answered, cashoutVars
  <2>2. screen' = [screen EXCEPT ![m] = old]
    BY <1>1, <2>1
  <2> HIDE DEF old
  <2> QED
    BY <1>1, <2>1, <2>2, ScreenOffers
<1> QED
  BY <1>3, <1>4, <1>5, <1>6, <1>7, <1>8, <1>9, <1>10, <1>11

\* What the server does with a request.
LEMMA ServeStep ==
  ASSUME OfferInv, NEW m \in Merchants, NEW q \in Requesters, ServeRequest(m, q),
         UNCHANGED <<screen, known, crossed>>
  PROVE  OfferInv'
<1> DEFINE Wishes == [Merchants -> [Requesters -> Cashouts \cup {Nil, "sent", "taken"}]]
<1>1. wish \in Wishes /\ OwnedRows
  BY DEF OfferInv
<1>2. CASE wish[m][q] = "sent" /\ RequestRead(q, m) /\ wish' = [wish EXCEPT ![m][q] = "taken"]
  <2>1. Steady
    BY <1>1, <1>2, StillSteady DEF RequestRead
  <2>2. \A n \in Merchants, p \in Requesters : wish'[n][p] = "taken" \/ wish'[n][p] = wish[n][p]
    BY <1>1, <1>2
  <2>3. "taken" \notin Cashouts /\ wish' \in Wishes
    BY <1>1, <1>2, CashoutScreenAssumption
  <2> QED
    BY <2>1, <2>2, <2>3, ServerOffers
<1>3. CASE RequestCheck(q) /\ UNCHANGED wish
  <2>1. Steady
    BY <1>1, <1>3, StillSteady DEF RequestCheck
  <2> QED
    BY <1>1, <1>3, <2>1, ServerOffers
<1>4. ASSUME NEW c \in Cashouts, RequestCreate(q, c), wish' = [wish EXCEPT ![m][q] = c]
      PROVE  OfferInv'
  <2>1. Steady /\ There(c)'
    BY <1>1, <1>4, CreateSteady
  <2>2. \A n \in Merchants, p \in Requesters : wish'[n][p] = c \/ wish'[n][p] = wish[n][p]
    BY <1>1, <1>4
  <2>3. wish' \in Wishes
    BY <1>1, <1>4
  <2>4. \A n \in Merchants, p \in Requesters :
          wish'[n][p] \in Cashouts => wish'[n][p] = wish[n][p] \/ There(wish[n][p])'
    BY <2>1, <2>2 DEF There
  <2> QED
    BY <2>1, <2>3, <2>4, ServerOffers
<1> QED
  BY <1>2, <1>3, <1>4 DEF ServeRequest

LEMMA OfferStep ==
  ASSUME OfferInv, CashoutScreenNext
  PROVE  OfferInv'
<1>1. ASSUME NEW m \in Merchants, NEW q \in Requesters, ServeRequest(m, q),
             UNCHANGED <<screen, known, crossed>>
      PROVE  OfferInv'
  BY <1>1, ServeStep
<1>2. ASSUME Steady, UNCHANGED <<screen, wish, known, crossed>>
      PROVE  OfferInv'
  BY <1>2, ServerOffers DEF OfferInv
<1>3. ASSUME NEW c \in Cashouts, UNCHANGED screenVars,
             ApproveCashout(c, "manual") \/ MarkManualPaid(c) \/ CancelManual(c)
      PROVE  OfferInv'
  BY <1>2, <1>3, AdminSteady DEF OfferInv, screenVars
<1>4. ASSUME NEW s \in Students, NEW m \in Merchants, Earn(s, m)
      PROVE  OfferInv'
  BY <1>2, <1>4, StillSteady DEF OfferInv, Earn, cashoutVars
<1> QED
  BY <1>1, <1>3, <1>4, ScreenStep DEF CashoutScreenNext

LEMMA OffersStep ==
  ASSUME OffersInv, [ScreensNext]_screensVars
  PROVE  OffersInv'
<1>1. CASE PlayCashoutScreen /\ UNCHANGED scene
  BY <1>1, OfferStep DEF OffersInv, PlayCashoutScreen
<1>2. CASE UNCHANGED <<scene, screenVars>> /\ (scene = "cashout screen" => UNCHANGED cashouts)
  <2>1. CASE scene = "cashout screen"
    <3>1. OfferInv /\ Steady /\ UNCHANGED <<screen, wish, known, crossed>>
      BY <1>2, <2>1, StillSteady DEF OffersInv, OfferInv, screenVars
    <3>2. OfferInv'
      BY <3>1, ServerOffers DEF OfferInv
    <3> QED
      BY <1>2, <2>1, <3>2 DEF OffersInv
  <2> QED
    BY <1>2, <2>1 DEF OffersInv, screenVars
<1>3. CASE UNCHANGED screensVars
  BY <1>2, <1>3 DEF screensVars, moneyVars, cashoutVars
<1>4. CASE PlayStatement \/ PlayMerchantDesk \/ PlayCashoutPage \/ PlayCheckout \/ PlayPayoutFees
  <2>1. UNCHANGED screenVars /\ scene # "cashout screen"
    BY <1>4 DEF PlayStatement, PlayMerchantDesk, PlayCashoutPage, PlayCheckout, PlayPayoutFees
  <2>2. CASE UNCHANGED scene
    BY <1>2, <2>1, <2>2
  <2>3. UNCHANGED scene \/ UNCHANGED screensVars
    BY DEF ScreensNext
  <2> QED
    BY <1>3, <2>2, <2>3
<1> QED
  BY <1>1, <1>3, <1>4 DEF ScreensNext

\* A merchant's screen offers no cashout while one that the merchant was told of is
\* still open, unless its last refresh began while a request was under way
\* (cashout.tsx, refreshCashoutBalance and getActiveCashoutSummary).
THEOREM OffersAreFresh == ScreensSpec => []OfferIsFresh
<1>1. OffersInv /\ [ScreensNext]_screensVars => OffersInv'
  BY OffersStep
<1>2. ScreensSpec => []OffersInv
  BY OffersStart, <1>1, PTL DEF ScreensSpec
<1> QED
  BY <1>2, OffersFollow, PTL

-----------------------------------------------------------------------------
(* The checkout: the success it shows is one that was credited.             *)

\* Of the rows: SUCCESS is written with the credit, and a credited row exists.
RowsCredited ==
  \A t \in Topups : /\ topups[t] = "SUCCESS" => t \in credits
                    /\ t \in credits => topups[t] # "NONE"

\* A poll is of the top-up on the screen, which does not show a success yet, and
\* SUCCESS is answered of a credited one.
PollGood ==
  /\ poll # NoPoll => On(poll.topup) /\ checkout.status # "success"
  /\ poll.at = "answered" /\ poll.status = "SUCCESS" => poll.topup \in credits

ShownGood ==
  /\ checkout.at = "checkout" => topups[checkout.topup] # "NONE"
  /\ paidFor \subseteq credits
  /\ checkout.at = "checkout" /\ checkout.status = "success" => checkout.topup \in paidFor
  /\ \A t \in paidFor : On(t) => checkout.status = "success"

ServerGood ==
  FundsTypeOK /\ TopupTypeOK /\ PaidForCredit /\ CreditedWasPaid /\ RowsCredited

CheckoutInv ==
  /\ scene # "checkout" => checkout = Amount /\ paidFor = {}
  /\ scene = "checkout" => ServerGood /\ CheckoutTypeOK /\ PollGood /\ ShownGood

LEMMA SuccessFollows == CheckoutInv => SuccessIsCredited
<1>1. CASE scene = "checkout"
  BY <1>1 DEF CheckoutInv, ServerGood, ShownGood, CreditedWasPaid, SuccessIsCredited, PaidFor
<1>2. CASE scene # "checkout"
  BY <1>2 DEF CheckoutInv, SuccessIsCredited, Amount
<1> QED
  BY <1>1, <1>2

LEMMA CheckoutStarts == ScreensInit => CheckoutInv
<1> SUFFICES ASSUME ScreensInit
             PROVE  CheckoutInv
  OBVIOUS
<1>1. FundsInit /\ TopupInit /\ CheckoutInit
  BY DEF ScreensInit
<1>2. FundsTypeOK
  BY <1>1, FundsAssumption DEF FundsInit, FundsTypeOK, Users, Holders
<1>3. TopupTypeOK
  BY <1>1 DEF TopupInit, TopupTypeOK, Charge, Finalizer
<1>4. PaidForCredit /\ CreditedWasPaid /\ RowsCredited
  BY <1>1 DEF TopupInit, PaidForCredit, CreditedWasPaid, RowsCredited, NoCall
<1>5. CheckoutTypeOK /\ PollGood /\ ShownGood
  BY <1>1 DEF CheckoutInit, CheckoutTypeOK, PollGood, ShownGood, Views, Polls, Amount, NoPoll, On
<1> QED
  BY <1>1, <1>2, <1>3, <1>4, <1>5 DEF CheckoutInv, ServerGood, CheckoutInit

-----------------------------------------------------------------------------
(* The server's steps.                                                      *)

RowsStay ==
  /\ credits \subseteq credits'
  /\ \A t \in Topups : topups[t] # "NONE" => topups'[t] # "NONE"

LEMMA RowsStep ==
  ASSUME TopupTypeOK, RowsCredited, TopupMoves
  PROVE  RowsCredited' /\ RowsStay
<1>1. CASE UNCHANGED <<topups, credits>>
  BY <1>1 DEF RowsStay, RowsCredited
<1>2. ASSUME NEW t \in Topups, Initiate(t)
      PROVE  RowsCredited' /\ RowsStay
  BY <1>2 DEF RowsStay, Initiate, RowsCredited, TopupTypeOK
<1>3. ASSUME NEW f \in Finalizers, Refuse(f)
      PROVE  RowsCredited' /\ RowsStay
  BY <1>3 DEF RowsStay, Refuse, RowsCredited, TopupTypeOK
<1>4. ASSUME NEW f \in Finalizers, CreditPending(f)
      PROVE  RowsCredited' /\ RowsStay
  <2>1. finalizers[f].topup \in Topups
    BY <1>4, FinalizerFields DEF CreditPending, NoCall
  <2> QED
    BY <1>4, <2>1 DEF RowsStay, CreditPending, RowsCredited, TopupTypeOK
<1>5. \/ UNCHANGED <<topups, credits>>
      \/ \E t \in Topups : Initiate(t)
      \/ \E f \in Finalizers : Refuse(f) \/ CreditPending(f)
  BY DEF TopupMoves, topupVars, TopupStep, ChargeEnds, FailedChargeHook, StartFinalizing, Verify,
         FinalizerFails
<1> QED
  BY <1>1, <1>2, <1>3, <1>4, <1>5

LEMMA ServerStep ==
  ASSUME ServerGood, TopupStep \/ UNCHANGED <<funds, topupVars>>
  PROVE  ServerGood' /\ RowsStay
<1>1. TopupMoves
  BY DEF TopupMoves
<1>2. FundsTypeOK' /\ TopupTypeOK'
  BY TopupStepTypes DEF ServerGood, FundsTypeOK, TopupTypeOK, topupVars
<1>3. PaidForCredit' /\ CreditedWasPaid'
  BY <1>1, CreditedIsPaidStep DEF ServerGood
<1> QED
  BY <1>1, <1>2, <1>3, RowsStep DEF ServerGood

-----------------------------------------------------------------------------
(* The screen's steps.                                                      *)

ScreenGood == CheckoutTypeOK /\ PollGood /\ ShownGood

LEMMA CheckoutFields ==
  ASSUME checkout \in Views, checkout.at = "checkout"
  PROVE  checkout.topup \in Topups
BY DEF Views, Amount, Starting, Shows

\* The screen, its poll and what it showed are left alone.
LEMMA ScreenKeeps ==
  ASSUME ServerGood, ScreenGood, RowsStay, UNCHANGED checkoutVars
  PROVE  ScreenGood'
<1>1. checkout.at = "checkout" => checkout.topup \in Topups
  BY CheckoutFields DEF ScreenGood, CheckoutTypeOK
<1> QED
  BY <1>1 DEF ScreenGood, CheckoutTypeOK, PollGood, ShownGood, checkoutVars, On, RowsStay

\* The poll goes on.
LEMMA PollKeeps ==
  ASSUME ScreenGood, RowsStay, UNCHANGED <<checkout, paidFor>>,
         poll # NoPoll, poll' \in Polls, poll' # NoPoll, poll'.topup = poll.topup,
         poll'.at = "answered" /\ poll'.status = "SUCCESS" => poll'.topup \in credits'
  PROVE  ScreenGood'
<1>1. checkout.at = "checkout" => checkout.topup \in Topups
  BY CheckoutFields DEF ScreenGood, CheckoutTypeOK
<1> QED
  BY <1>1 DEF ScreenGood, CheckoutTypeOK, PollGood, ShownGood, On, RowsStay

LEMMA PollFields ==
  ASSUME poll \in Polls, poll.at # "nothing"
  PROVE  poll # NoPoll /\ poll.topup \in Topups
BY DEF Polls, NoPoll

\* The server answers the poll.
LEMMA AnswerKeeps ==
  ASSUME ServerGood', ScreenGood, RowsStay, UNCHANGED <<checkout, paidFor>>,
         poll.at # "nothing", NEW status \in {"PENDING", "SUCCESS", "FAILED", "ERROR"},
         Answers(status), status = "SUCCESS" => poll.topup \in credits'
  PROVE  ScreenGood'
<1>1. poll # NoPoll /\ poll.topup \in Topups
  BY PollFields DEF ScreenGood, CheckoutTypeOK
<1>2. poll' = [at |-> "answered", topup |-> poll.topup, status |-> status]
  BY DEF Answers
<1>3. poll' \in Polls /\ poll'.at = "answered" /\ poll'.status = status /\ poll'.topup = poll.topup
  BY <1>1, <1>2 DEF Polls
<1>4. poll' # NoPoll
  BY <1>3 DEF NoPoll
<1> QED
  BY <1>1, <1>3, <1>4, PollKeeps

LEMMA ServesPoll ==
  ASSUME ServerGood, ScreenGood, GetStatusForUser
  PROVE  ServerGood' /\ ScreenGood'
<1>1. poll.at # "nothing" /\ poll # NoPoll /\ poll.topup \in Topups
  <2>1. poll.at # "nothing"
    BY DEF GetStatusForUser
  <2> QED
    BY <2>1, PollFields DEF ScreenGood, CheckoutTypeOK
<1>2. CASE /\ topups[poll.topup] # "PENDING" /\ Answers(topups[poll.topup])
           /\ UNCHANGED <<funds, topupVars, checkout, paidFor>>
  <2>1. ServerGood' /\ RowsStay
    BY <1>2, ServerStep
  <2>2. topups[poll.topup] \in {"SUCCESS", "FAILED"}
    BY <1>1, <1>2 DEF ServerGood, TopupTypeOK, ScreenGood, PollGood, ShownGood, On
  <2>3. topups[poll.topup] = "SUCCESS" => poll.topup \in credits'
    BY <1>1, <2>1 DEF ServerGood, RowsCredited, RowsStay
  <2> QED
    BY <1>1, <1>2, <2>1, <2>2, <2>3, AnswerKeeps
<1>3. ASSUME NEW f \in Finalizers, StartFinalizing(f, poll.topup, FALSE),
             poll' = [at |-> "served", topup |-> poll.topup, by |-> f],
             UNCHANGED <<checkout, paidFor>>
      PROVE  ServerGood' /\ ScreenGood'
  <2>1. TopupStep
    BY <1>1, <1>3 DEF TopupStep
  <2>2. ServerGood' /\ RowsStay
    BY <2>1, ServerStep
  <2>3. poll' \in Polls /\ poll'.at = "served" /\ poll'.topup = poll.topup
    BY <1>1, <1>3 DEF Polls
  <2>4. poll' # NoPoll
    BY <2>3 DEF NoPoll
  <2> QED
    BY <1>1, <1>3, <2>2, <2>3, <2>4, PollKeeps
<1> QED
  BY <1>2, <1>3 DEF GetStatusForUser

\* One step of a finalizer: the poll's own may answer it, with what the row says after.
LEMMA FinalizesPoll ==
  ASSUME ServerGood, ScreenGood, NEW f \in Finalizers, Finalizes(f),
         UNCHANGED <<checkout, paidFor>>
  PROVE  ServerGood' /\ ScreenGood'
<1>1. TopupStep
  BY DEF Finalizes, TopupStep
<1>2. ServerGood' /\ RowsStay
  BY <1>1, ServerStep
<1>3. CASE UNCHANGED poll
  BY <1>2, <1>3, ScreenKeeps DEF checkoutVars
<1>4. ASSUME Mine(f), NEW status \in {"PENDING", "FAILED", "ERROR"}, Answers(status)
      PROVE  ScreenGood'
  BY <1>2, <1>4, AnswerKeeps DEF Mine
<1>5. CASE Mine(f) /\ Answers(LatestStatus(poll.topup))
  <2>1. poll.at # "nothing"
    BY <1>5 DEF Mine
  <2>2. poll.topup \in Topups
    BY <2>1, PollFields DEF ScreenGood, CheckoutTypeOK
  <2>3. topups[poll.topup] # "NONE"
    BY <2>1, <2>2 DEF ScreenGood, PollGood, ShownGood, On, NoPoll
  <2>4. topups'[poll.topup] \in {"PENDING", "SUCCESS", "FAILED"}
    BY <1>2, <2>2, <2>3 DEF ServerGood, TopupTypeOK, RowsStay
  <2>5. topups'[poll.topup] = "SUCCESS" => poll.topup \in credits'
    BY <1>2, <2>2 DEF ServerGood, RowsCredited
  <2> QED
    BY <1>2, <1>5, <2>1, <2>4, <2>5, AnswerKeeps DEF LatestStatus
<1> QED
  BY <1>2, <1>3, <1>4, <1>5 DEF Finalizes

\* The student's steps: the server's rows are left alone but for a new one.
LEMMA StudentSteps ==
  ASSUME ServerGood, ScreenGood,
         \/ HandleTopup \/ TopupRefused \/ ApplyTopupStatus \/ CheckFails \/ Leave
         \/ \E t \in Topups : TopupRequested(t) \/ CheckTopupStatus(t)
  PROVE  ServerGood' /\ ScreenGood'
<1> DEFINE Here == checkout.at = "checkout"
<1>1. Amount \in Views /\ Starting \in Views /\ Amount.at = "amount" /\ Starting.at = "starting"
  BY DEF Views, Amount, Starting
<1>2. \A t \in Topups, s \in {"idle", "pending", "success", "failed"} :
        /\ Shows(t, s) \in Views /\ Shows(t, s).at = "checkout"
        /\ Shows(t, s).topup = t /\ Shows(t, s).status = s
  BY DEF Views, Shows
<1>3. NoPoll \in Polls /\ NoPoll.at = "nothing"
  BY DEF Polls, NoPoll
<1>4. /\ checkout \in Views /\ poll \in Polls /\ paidFor \subseteq Topups
      /\ poll # NoPoll => On(poll.topup) /\ checkout.status # "success"
      /\ poll.at = "answered" /\ poll.status = "SUCCESS" => poll.topup \in credits
      /\ checkout.at = "checkout" => topups[checkout.topup] # "NONE"
      /\ paidFor \subseteq credits
      /\ \A t \in paidFor : On(t) => checkout.status = "success"
  BY DEF ScreenGood, CheckoutTypeOK, PollGood, ShownGood
\* A screen without a top-up, and so without a poll.
<1>5. ASSUME checkout' \in {Amount, Starting}, poll' = NoPoll, UNCHANGED paidFor,
             RowsStay
      PROVE  ScreenGood'
  BY <1>1, <1>3, <1>4, <1>5 DEF ScreenGood, CheckoutTypeOK, PollGood, ShownGood, On, RowsStay
<1>6. ~Here => poll = NoPoll
  BY <1>4 DEF On
<1>7. CASE HandleTopup
  <2>1. ServerGood' /\ RowsStay
    BY <1>7, ServerStep DEF HandleTopup
  <2>2. poll' = NoPoll
    BY <1>1, <1>6, <1>7 DEF HandleTopup
  <2> QED
    BY <1>5, <1>7, <2>1, <2>2 DEF HandleTopup
<1>8. CASE TopupRefused
  <2>1. ServerGood' /\ RowsStay
    BY <1>8, ServerStep DEF TopupRefused
  <2>2. poll' = NoPoll
    BY <1>1, <1>6, <1>8 DEF TopupRefused
  <2> QED
    BY <1>5, <1>8, <2>1, <2>2 DEF TopupRefused
<1>9. CASE Leave
  <2>1. ServerGood' /\ RowsStay
    BY <1>9, ServerStep DEF Leave
  <2> QED
    BY <1>5, <1>9, <2>1 DEF Leave
<1>10. CASE CheckFails
  <2>1. ServerGood' /\ RowsStay
    BY <1>10, ServerStep DEF CheckFails
  <2>2. CheckoutTypeOK' /\ PollGood'
    BY <1>3, <1>4, <1>10 DEF CheckFails, CheckoutTypeOK, PollGood
  <2>3. ShownGood'
    BY <1>10, <2>1 DEF CheckFails, ScreenGood, ShownGood, On, topupVars
  <2> QED
    BY <2>1, <2>2, <2>3 DEF ScreenGood
<1>11. CASE ApplyTopupStatus
  <2> DEFINE t == poll.topup
  <2>1. ServerGood' /\ UNCHANGED <<credits, topups>>
    BY <1>11, ServerStep DEF ApplyTopupStatus, topupVars
  <2>2. poll # NoPoll /\ t \in Topups
    BY <1>4, <1>11, PollFields DEF ApplyTopupStatus
  <2>3. On(t) /\ t \notin paidFor
    BY <1>4, <2>2
  <2>4. \E s \in {"success", "pending", "failed"} :
          /\ checkout' = Shows(t, s)
          /\ s = "success" <=> poll.status = "SUCCESS"
    BY <1>11 DEF ApplyTopupStatus, StatusShown
  <2>5. /\ checkout' \in Views /\ checkout'.at = "checkout" /\ checkout'.topup = t
        /\ checkout'.status = "success" <=> poll.status = "SUCCESS"
    BY <1>2, <2>2, <2>4
  <2>6. CheckoutTypeOK' /\ PollGood'
    BY <1>3, <1>4, <1>11, <2>2, <2>5 DEF ApplyTopupStatus, CheckoutTypeOK, PollGood
  <2>7. ShownGood'
    BY <1>4, <1>11, <2>1, <2>2, <2>3, <2>5 DEF ApplyTopupStatus, ShownGood, On
  <2> QED
    BY <2>1, <2>6, <2>7 DEF ScreenGood
<1>12. ASSUME NEW t \in Topups, TopupRequested(t)
       PROVE  ServerGood' /\ ScreenGood'
  <2>1. TopupStep
    BY <1>12 DEF TopupRequested, TopupStep
  <2>2. ServerGood' /\ RowsStay
    BY <2>1, ServerStep
  <2>3. poll' = NoPoll /\ UNCHANGED paidFor
    BY <1>1, <1>6, <1>12 DEF TopupRequested
  <2>4. t \notin paidFor
    BY <1>4, <1>12 DEF ServerGood, RowsCredited, TopupRequested, Initiate
  <2>5. topups'[t] # "NONE"
    BY <1>12 DEF TopupRequested, Initiate, ServerGood, TopupTypeOK
  <2>6. CASE checkout' = Amount
    BY <1>5, <2>2, <2>3, <2>6
  <2>7. CASE checkout' = Shows(t, "idle")
    BY <1>2, <1>3, <1>4, <2>2, <2>3, <2>4, <2>5, <2>7
       DEF ScreenGood, CheckoutTypeOK, PollGood, ShownGood, On, RowsStay
  <2> QED
    BY <1>12, <2>2, <2>6, <2>7 DEF TopupRequested
<1>13. ASSUME NEW t \in Topups, CheckTopupStatus(t)
       PROVE  ServerGood' /\ ScreenGood'
  <2>1. ServerGood' /\ UNCHANGED <<credits, topups, checkout, paidFor>>
    BY <1>13, ServerStep DEF CheckTopupStatus, topupVars
  <2>2. poll' = [at |-> "sent", topup |-> t] /\ On(t) /\ checkout.status # "success"
    BY <1>13 DEF CheckTopupStatus
  <2>3. poll' \in Polls /\ poll'.at = "sent" /\ poll'.topup = t
    BY <2>2 DEF Polls
  <2>4. CheckoutTypeOK' /\ PollGood' /\ ShownGood'
    BY <2>1, <2>2, <2>3 DEF ScreenGood, CheckoutTypeOK, PollGood, ShownGood, On
  <2> QED
    BY <2>1, <2>4 DEF ScreenGood
<1> QED
  BY <1>7, <1>8, <1>9, <1>10, <1>11, <1>12, <1>13

LEMMA CheckoutStep ==
  ASSUME ServerGood, ScreenGood, CheckoutNext
  PROVE  ServerGood' /\ ScreenGood'
<1>1. ASSUME NEW t \in Topups, PaysHere(t)
      PROVE  ServerGood' /\ ScreenGood'
  <2>1. TopupStep
    BY <1>1 DEF PaysHere, TopupStep
  <2> QED
    BY <1>1, <2>1, ServerStep, ScreenKeeps DEF PaysHere
<1>2. ASSUME NEW f \in Finalizers, NEW t \in Topups, UNCHANGED checkoutVars,
             FailedChargeHook(f, t) \/ \E hook \in BOOLEAN : StartFinalizing(f, t, hook)
      PROVE  ServerGood' /\ ScreenGood'
  <2>1. TopupStep
    BY <1>2 DEF TopupStep
  <2> QED
    BY <1>2, <2>1, ServerStep, ScreenKeeps
<1> QED
  BY <1>1, <1>2, ServesPoll, FinalizesPoll, StudentSteps DEF CheckoutNext

LEMMA CheckoutInvStep ==
  ASSUME CheckoutInv, [ScreensNext]_screensVars
  PROVE  CheckoutInv'
<1>1. CASE PlayCheckout /\ UNCHANGED scene
  BY <1>1, CheckoutStep DEF CheckoutInv, ScreenGood, PlayCheckout
<1>2. CASE UNCHANGED <<scene, checkoutVars, topupVars>> /\ (scene = "checkout" => UNCHANGED funds)
  <2>1. CASE scene = "checkout"
    <3>1. ServerGood' /\ RowsStay
      BY <1>2, <2>1, ServerStep DEF CheckoutInv
    <3> QED
      BY <1>2, <2>1, <3>1, ScreenKeeps DEF CheckoutInv, ScreenGood
  <2> QED
    BY <1>2, <2>1 DEF CheckoutInv, checkoutVars
<1>3. CASE UNCHANGED screensVars
  BY <1>2, <1>3 DEF screensVars, moneyVars
<1>4. CASE PlayStatement \/ PlayMerchantDesk
  BY <1>2, <1>3, <1>4 DEF ScreensNext, PlayStatement, PlayMerchantDesk, moneyVars
<1>5. CASE PlayCashoutPage \/ PlayCashoutScreen \/ PlayPayoutFees
  BY <1>2, <1>3, <1>5 DEF ScreensNext, PlayCashoutPage, PlayCashoutScreen, PlayPayoutFees
<1> QED
  BY <1>1, <1>3, <1>4, <1>5 DEF ScreensNext

\* A student who was shown that a top-up succeeded has paid it and has it in the
\* balance, whatever webhooks and other polls did meanwhile (checkout.tsx,
\* resolveCheckoutStatusState and creditVerifiedPendingTopup).
THEOREM SuccessesAreCredited == ScreensSpec => []SuccessIsCredited
<1>1. CheckoutInv /\ [ScreensNext]_screensVars => CheckoutInv'
  BY CheckoutInvStep
<1>2. ScreensSpec => []CheckoutInv
  BY CheckoutStarts, <1>1, PTL DEF ScreensSpec
<1> QED
  BY <1>2, SuccessFollows, PTL

-----------------------------------------------------------------------------
(* The fee columns of the cashouts.                                          *)

\* A set of numbers that are not negative has a first.
LEMMA MinIsThere ==
  ASSUME NEW S, S \subseteq Nat, S # {}
  PROVE  Min(S) \in S
BY NatMin DEF Min

LEMMA FeeIsAmount ==
  ASSUME NEW m \in Messages
  PROVE  ExtractPayoutFee(m) \in Nat \cup {Unknown}
<1>1. PICK fees : fees = m.layers[IF m.by = "answer" THEN 2 ELSE 1].fees
  OBVIOUS
<1>2. fees \in Seq(Nat \cup {Unknown})
  <2>1. m \in Message /\ Len(m.layers) >= (IF m.by = "answer" THEN 2 ELSE 1)
    BY PayoutFeesAssumption
  <2>2. m.layers \in Seq(Layer) /\ m.layers[IF m.by = "answer" THEN 2 ELSE 1] \in Layer
    BY <2>1 DEF Message
  <2> QED
    BY <1>1, <2>2 DEF Layer
<1>3. PICK readable : readable = {i \in DOMAIN fees : ParseMajorNgnToKobo(fees[i]) # Unknown}
  OBVIOUS
<1>4. ExtractPayoutFee(m) = IF readable = {} THEN Unknown ELSE ParseMajorNgnToKobo(fees[Min(readable)])
  BY <1>1, <1>3 DEF ExtractPayoutFee
<1>5. readable # {} => fees[Min(readable)] \in Nat \cup {Unknown}
  <2>1. DOMAIN fees \subseteq Nat
    BY <1>2
  <2>2. readable # {} => Min(readable) \in DOMAIN fees
    BY <1>3, <2>1, MinIsThere
  <2> QED
    BY <1>2, <2>2
<1>6. \A x \in Nat \cup {Unknown} : ParseMajorNgnToKobo(x) \in Nat \cup {Unknown}
  BY DEF ParseMajorNgnToKobo, Unknown
<1> QED
  BY <1>4, <1>5, <1>6

\* What the messages of H say backs the fee and the bearer of b.
Backed(H, b) ==
  /\ b.fee # Unknown =>
       \E h \in H : ExtractPayoutFee(h.message) # Unknown /\ b.fee = ExtractPayoutFee(h.message)
  /\ b.bearer = "MERCHANT" => \E h \in H : HasDeductionProof(h.message)

\* The final amount is what is left of the transfer.
Priced(c, b) ==
  b.bearer # "UNKNOWN" =>
    /\ TransferAmount(c) \in Nat
    /\ b.net # Unknown =>
         b.net + (IF b.bearer = "MERCHANT" THEN b.fee ELSE 0) = TransferAmount(c)

NamedOf(H) == {h \in H : ExtractPayoutFee(h.message) # Unknown}

FeeRows ==
  /\ cashouts \in [Cashouts -> CashoutRow \cup {NoCashout}]
  /\ payouts = [c \in Cashouts |-> payouts[c]]
  /\ gateway = [c \in Cashouts |-> gateway[c]]
  /\ \A c \in Cashouts : /\ payouts[c] # "idle" \/ gateway[c] # "none" \/ hooks[c] # Silence
                              => cashouts[c] \in CashoutRow
                         /\ payouts[c] = "sent" => answered[c] # Silence

FeeTypes ==
  /\ books \in [Cashouts -> Book]
  /\ answered \in [Cashouts -> Heard]
  /\ hooks \in [Cashouts -> Heard]
  /\ heard \in [Cashouts -> Seq([message : Messages, fresh : BOOLEAN])]

FeesTrue ==
  \A c \in Cashouts :
    /\ Backed(ToSet(heard[c]), books[c]) /\ Priced(c, books[c])
    /\ answered[c] # Silence => Backed(ToSet(heard[c]), answered[c].read)
    /\ hooks[c] # Silence => Backed(ToSet(heard[c]), hooks[c].read)
    /\ NamedOf(ToSet(heard[c])) # {} /\ (\A h \in ToSet(heard[c]) : h.fresh) => books[c].fee # Unknown

FeesInv ==
  /\ FeeTypes /\ FeesTrue
  /\ scene # "payout fees" => books = [c \in Cashouts |-> NewBook]
  /\ scene = "payout fees" => FeeRows

\* What a sequence over a set holds is in the set.
LEMMA ElementsIn ==
  ASSUME NEW T, NEW s \in Seq(T)
  PROVE  ToSet(s) \subseteq T
<1>1. \A i \in DOMAIN s : s[i] \in T
  BY LenProperties, ElementOfSeq
<1> QED
  BY <1>1 DEF ToSet

LEMMA FeesAreTyped == FeeTypes => PayoutFeesTypeOK
<1> SUFFICES ASSUME FeeTypes
             PROVE  PayoutFeesTypeOK
  OBVIOUS
<1>1. \A c \in Cashouts : heard[c] \in Seq([message : Messages, fresh : BOOLEAN])
  BY DEF FeeTypes
<1>2. \A c \in Cashouts : ToSet(heard[c]) \subseteq [message : Messages, fresh : BOOLEAN]
  BY <1>1, ElementsIn
<1> QED
  BY <1>2 DEF FeeTypes, PayoutFeesTypeOK

LEMMA FeesFollow == FeesInv => FeesBacked
<1> SUFFICES ASSUME FeesInv, NEW c \in Cashouts,
                    NEW said, said = {h.message : h \in ToSet(heard[c])},
                    NEW named, named = {m \in said : ExtractPayoutFee(m) # Unknown}
             PROVE  /\ books[c].fee # Unknown => \E m \in named : books[c].fee = ExtractPayoutFee(m)
                    /\ books[c].bearer = "MERCHANT" => \E m \in said : HasDeductionProof(m)
                    /\ FinalShown(c, books[c]) # Unknown =>
                         FinalShown(c, books[c]) + (IF books[c].bearer = "MERCHANT" THEN FeeShown(books[c]) ELSE 0)
                           = TransferAmount(c)
                    /\ named # {} /\ (\A h \in ToSet(heard[c]) : h.fresh) => books[c].fee # Unknown
  BY DEF FeesBacked
<1>1. Backed(ToSet(heard[c]), books[c]) /\ Priced(c, books[c]) /\ books[c] \in Book
  BY DEF FeesInv, FeesTrue, FeeTypes
<1>2. books[c].fee # Unknown => \E m \in named : books[c].fee = ExtractPayoutFee(m)
  BY <1>1 DEF Backed
<1>3. books[c].bearer = "MERCHANT" => \E m \in said : HasDeductionProof(m)
  BY <1>1 DEF Backed
<1>4. FinalShown(c, books[c]) # Unknown =>
        FinalShown(c, books[c]) + (IF books[c].bearer = "MERCHANT" THEN FeeShown(books[c]) ELSE 0)
          = TransferAmount(c)
  <2>1. CASE books[c].bearer = "UNKNOWN"
    BY <2>1 DEF FinalShown
  <2>2. CASE books[c].bearer = "MERCHANT"
    BY <1>1, <2>2 DEF FinalShown, FirstOf, FeeShown, Priced
  <2>3. CASE books[c].bearer = "ONETO" /\ books[c].net # Unknown
    BY <1>1, <2>3 DEF FinalShown, FirstOf, Priced
  <2>4. CASE books[c].bearer = "ONETO" /\ books[c].net = Unknown
    <3>1. FinalShown(c, books[c]) = TransferAmount(c)
      BY <2>4 DEF FinalShown, FirstOf
    <3>2. TransferAmount(c) \in Nat
      BY <1>1, <2>4 DEF Priced
    <3> QED
      BY <2>4, <3>1, <3>2
  <2> QED
    BY <1>1, <2>1, <2>2, <2>3, <2>4 DEF Book
<1>5. named # {} /\ (\A h \in ToSet(heard[c]) : h.fresh) => books[c].fee # Unknown
  <2>1. named # {} => NamedOf(ToSet(heard[c])) # {}
    BY DEF NamedOf
  <2> QED
    BY <2>1 DEF FeesInv, FeesTrue
<1> QED
  BY <1>2, <1>3, <1>4, <1>5

LEMMA NothingSaid ==
  ASSUME NEW c, NEW H
  PROVE  Backed(H, NewBook) /\ Priced(c, NewBook) /\ NewBook \in Book
BY DEF Backed, Priced, NewBook, Book, Unknown

LEMMA FeesStart == ScreensInit => FeesInv
<1> SUFFICES ASSUME ScreensInit
             PROVE  FeesInv
  OBVIOUS
<1>1. PayoutFeesInit
  BY DEF ScreensInit
<1>2. FeeTypes
  BY <1>1, NothingSaid DEF PayoutFeesInit, FeeTypes, Heard
<1>3. FeesTrue
  <2> SUFFICES ASSUME NEW c \in Cashouts
               PROVE  /\ Backed(ToSet(<<>>), NewBook) /\ Priced(c, NewBook)
                      /\ NamedOf(ToSet(<<>>)) = {}
    BY <1>1 DEF PayoutFeesInit, FeesTrue
  <2>1. ToSet(<<>>) = {}
    BY DEF ToSet
  <2> QED
    BY <2>1, NothingSaid DEF NamedOf
<1>4. ASSUME scene = "payout fees"
      PROVE  FeeRows
  <2>1. PayoutReady
    BY <1>4 DEF ScreensInit
  <2>2. PICK c \in Cashouts, m \in Merchants, gross \in Grosses :
          /\ cashouts = [d \in Cashouts |->
               IF d = c THEN [status |-> "PROCESSING", merchant |-> m, gross |-> gross, manual |-> FALSE]
                        ELSE NoCashout]
          /\ payouts = [d \in Cashouts |-> IF d = c THEN "ready" ELSE "idle"]
          /\ gateway = [d \in Cashouts |-> "none"]
    BY <2>1 DEF PayoutReady
  <2>3. [status |-> "PROCESSING", merchant |-> m, gross |-> gross, manual |-> FALSE] \in CashoutRow
    BY PayoutFeesAssumption DEF CashoutRow
  <2> QED
    BY <1>1, <2>2, <2>3 DEF PayoutFeesInit, FeeRows
<1> QED
  BY <1>1, <1>2, <1>3, <1>4 DEF FeesInv, PayoutFeesInit

\* What was said stays said.
LEMMA BackedStays ==
  ASSUME NEW H, NEW G, H \subseteq G, NEW b, Backed(H, b)
  PROVE  Backed(G, b)
BY DEF Backed

\* The columns a handler writes: it adds its message to what was said.
LEMMA AccountedIsBook ==
  ASSUME NEW c \in Cashouts, cashouts[c] \in CashoutRow, NEW read \in Book, NEW m \in Messages
  PROVE  /\ Accounted(c, read, m) \in Book
         /\ Priced(c, Accounted(c, read, m))
         /\ ExtractPayoutFee(m) # Unknown \/ read.fee # Unknown => Accounted(c, read, m).fee # Unknown
<1>1. PICK fee : fee = FirstOf(ExtractPayoutFee(m), read.fee)
  OBVIOUS
<1>2. PICK bearer : bearer = FeeBearer(read, fee, m)
  OBVIOUS
<1>3. PICK deducted : deducted = Deducted(read, fee, m)
  OBVIOUS
<1>4. PICK net : net = NetPayout(c, bearer, deducted, fee)
  OBVIOUS
<1>5. Accounted(c, read, m) = [fee |-> fee, bearer |-> bearer, deducted |-> deducted, net |-> net]
  BY <1>1, <1>2, <1>3, <1>4 DEF Accounted
<1>6. /\ fee \in Nat \cup {Unknown}
      /\ ExtractPayoutFee(m) # Unknown \/ read.fee # Unknown => fee # Unknown
  BY <1>1, FeeIsAmount DEF Book, FirstOf
<1>7. bearer \in {"UNKNOWN", "MERCHANT", "ONETO"} /\ deducted \in {"unknown", "no", "yes"}
  BY <1>2, <1>3 DEF FeeBearer, Deducted, Book
<1>8. TransferAmount(c) \in Nat
  <2>1. cashouts[c].gross \in Nat
    BY DEF CashoutRow
  <2> QED
    BY <2>1 DEF TransferAmount, OnetoFee
<1>9. /\ net \in Nat \cup {Unknown}
      /\ bearer = "MERCHANT" /\ net # Unknown => net + fee = TransferAmount(c)
      /\ bearer = "ONETO" => net = TransferAmount(c)
  BY <1>4, <1>6, <1>7, <1>8 DEF NetPayout
<1>10. Accounted(c, read, m) \in Book
  BY <1>5, <1>6, <1>7, <1>9 DEF Book
<1>11. Priced(c, Accounted(c, read, m))
  BY <1>5, <1>7, <1>8, <1>9 DEF Priced
<1> QED
  BY <1>5, <1>6, <1>10, <1>11

LEMMA AccountedIsBacked ==
  ASSUME NEW c, NEW H, NEW read, Backed(H, read), NEW m, NEW h, h.message = m
  PROVE  Backed(H \cup {h}, Accounted(c, read, m))
<1>1. PICK fee : fee = FirstOf(ExtractPayoutFee(m), read.fee)
  OBVIOUS
<1>2. PICK bearer : bearer = FeeBearer(read, fee, m)
  OBVIOUS
<1>3. Accounted(c, read, m).fee = fee /\ Accounted(c, read, m).bearer = bearer
  BY <1>1, <1>2 DEF Accounted
<1>4. fee # Unknown =>
        \E g \in H \cup {h} : ExtractPayoutFee(g.message) # Unknown /\ fee = ExtractPayoutFee(g.message)
  BY <1>1 DEF FirstOf, Backed
<1>5. bearer = "MERCHANT" => \E g \in H \cup {h} : HasDeductionProof(g.message)
  BY <1>2 DEF FeeBearer, Backed
<1> QED
  BY <1>3, <1>4, <1>5 DEF Backed

\* The amounts that are paid out stay.
SameGross == \A c \in Cashouts : cashouts'[c].gross = cashouts[c].gross

LEMMA PricedStays ==
  ASSUME SameGross, NEW c \in Cashouts, NEW b, Priced(c, b)
  PROVE  Priced(c, b)'
<1>1. TransferAmount(c)' = TransferAmount(c)
  BY DEF SameGross, TransferAmount
<1> QED
  BY <1>1 DEF Priced

\* A handler goes on, ends, or reads the columns now.
ReadsOn(c) ==
  /\ answered'[c] \in {answered[c], Silence} \/ answered'[c].read = books[c]
  /\ hooks'[c] \in {hooks[c], Silence} \/ hooks'[c].read = books[c]

LEMMA FeesKeep ==
  ASSUME FeesTrue, SameGross, UNCHANGED <<books, heard>>, \A c \in Cashouts : ReadsOn(c)
  PROVE  FeesTrue'
<1> SUFFICES ASSUME NEW c \in Cashouts
             PROVE  /\ Backed(ToSet(heard[c]), books[c]) /\ Priced(c, books[c])'
                    /\ answered'[c] # Silence => Backed(ToSet(heard[c]), answered'[c].read)
                    /\ hooks'[c] # Silence => Backed(ToSet(heard[c]), hooks'[c].read)
                    /\ NamedOf(ToSet(heard[c])) # {} /\ (\A h \in ToSet(heard[c]) : h.fresh) => books[c].fee # Unknown
  BY DEF FeesTrue
<1>1. PICK b : b = books[c]
  OBVIOUS
<1>2. Priced(c, b)'
  BY <1>1, PricedStays DEF FeesTrue
<1>3. Priced(c, books[c])'
  BY <1>1, <1>2
<1> QED
  BY <1>3 DEF FeesTrue, ReadsOn

LEMMA FeesWritten ==
  ASSUME FeeTypes, FeesTrue, SameGross,
         NEW c \in Cashouts, cashouts[c] \in CashoutRow,
         NEW told_c \in Heard, told_c # Silence, Backed(ToSet(heard[c]), told_c.read),
         Writes(c, told_c),
         \A d \in Cashouts : answered'[d] \in {answered[d], Silence} /\ hooks'[d] \in {hooks[d], Silence}
  PROVE  /\ FeesTrue' /\ books' \in [Cashouts -> Book]
         /\ heard' \in [Cashouts -> Seq([message : Messages, fresh : BOOLEAN])]
<1>1. told_c.message \in Messages /\ told_c.read \in Book
  BY DEF Heard, Silence
<1>2. PICK b : b = Accounted(c, told_c.read, told_c.message)
  OBVIOUS
<1>3. PICK h : h = [message |-> told_c.message, fresh |-> told_c.read = books[c]]
  OBVIOUS
<1>4. h \in [message : Messages, fresh : BOOLEAN] /\ h.message = told_c.message /\ (h.fresh <=> told_c.read = books[c])
  BY <1>1, <1>3
<1>5. PICK H : H = ToSet(heard[c])
  OBVIOUS
<1>6. PICK heard_c : heard_c = Append(heard[c], h)
  OBVIOUS
<1>7. /\ books' = [books EXCEPT ![c] = b]
      /\ heard' = [heard EXCEPT ![c] = heard_c]
  BY <1>2, <1>3, <1>6 DEF Writes
<1>8. heard[c] \in Seq([message : Messages, fresh : BOOLEAN])
  BY DEF FeeTypes
<1>9. heard_c \in Seq([message : Messages, fresh : BOOLEAN]) /\ ToSet(heard_c) = H \cup {h}
  <2>1. /\ heard_c \in Seq([message : Messages, fresh : BOOLEAN])
        /\ DOMAIN heard_c = DOMAIN heard[c] \cup {Len(heard[c]) + 1}
        /\ \A i \in DOMAIN heard[c] : heard_c[i] = heard[c][i]
        /\ heard_c[Len(heard[c]) + 1] = h
    BY <1>4, <1>6, <1>8
  <2> QED
    BY <1>5, <2>1 DEF ToSet
<1>10. /\ b \in Book /\ Priced(c, b)
       /\ ExtractPayoutFee(h.message) # Unknown \/ told_c.read.fee # Unknown => b.fee # Unknown
  BY <1>1, <1>2, <1>4, AccountedIsBook
<1>11. Backed(H \cup {h}, b)
  BY <1>2, <1>4, <1>5, AccountedIsBacked
<1>12. \A x : Backed(H, x) => Backed(H \cup {h}, x)
  BY BackedStays
<1>13. /\ Backed(H, books[c])
       /\ answered[c] # Silence => Backed(H, answered[c].read)
       /\ hooks[c] # Silence => Backed(H, hooks[c].read)
       /\ NamedOf(H) # {} /\ (\A g \in H : g.fresh) => books[c].fee # Unknown
  BY <1>5 DEF FeesTrue
<1>14. NamedOf(H \cup {h}) # {} /\ (\A g \in H \cup {h} : g.fresh) => b.fee # Unknown
  BY <1>4, <1>10, <1>13 DEF NamedOf
<1>15. books' \in [Cashouts -> Book] /\ heard' \in [Cashouts -> Seq([message : Messages, fresh : BOOLEAN])]
  BY <1>7, <1>9, <1>10 DEF FeeTypes
<1>16. books'[c] = b /\ heard'[c] = heard_c /\ \A d \in Cashouts \ {c} : books'[d] = books[d] /\ heard'[d] = heard[d]
  BY <1>7 DEF FeeTypes
<1>17. ASSUME NEW d \in Cashouts
       PROVE  /\ Backed(ToSet(heard'[d]), books'[d]) /\ Priced(d, books[d])'
              /\ answered'[d] # Silence => Backed(ToSet(heard'[d]), answered'[d].read)
              /\ hooks'[d] # Silence => Backed(ToSet(heard'[d]), hooks'[d].read)
              /\ NamedOf(ToSet(heard'[d])) # {} /\ (\A g \in ToSet(heard'[d]) : g.fresh)
                   => books'[d].fee # Unknown
  <2>1. Priced(d, books[d])'
    <3>1. PICK x : x = books'[d]
      OBVIOUS
    <3>2. Priced(d, x)
      BY <1>10, <1>16, <3>1 DEF FeesTrue
    <3>3. Priced(d, x)'
      BY <3>2, PricedStays
    <3> QED
      BY <3>1, <3>3
  <2>2. CASE d = c
    BY <1>9, <1>11, <1>12, <1>13, <1>14, <1>16, <2>1, <2>2
  <2>3. CASE d # c
    BY <1>16, <2>1, <2>3 DEF FeesTrue
  <2> QED
    BY <2>2, <2>3
<1> QED
  BY <1>15, <1>17 DEF FeesTrue

\* A row that is there stays, with its amount.
RowsGo ==
  /\ cashouts' \in [Cashouts -> CashoutRow \cup {NoCashout}]
  /\ SameGross
  /\ \A c \in Cashouts : cashouts[c] \in CashoutRow => cashouts'[c] \in CashoutRow

LEMMA RowsGoOn ==
  ASSUME FeeRows, NEW c \in Cashouts,
         \/ UNCHANGED cashouts
         \/ Complete(c)
         \/ \E suffix : Refund(c, suffix)
  PROVE  RowsGo
<1>1. CASE UNCHANGED cashouts
  BY <1>1 DEF FeeRows, RowsGo, SameGross
<1>2. CASE Complete(c) \/ \E suffix : Refund(c, suffix)
  <2>1. PICK status \in {"COMPLETED", "FAILED"} : cashouts' = [cashouts EXCEPT ![c].status = status]
    BY <1>2 DEF Complete, Refund
  <2>2. cashouts[c] \in CashoutRow
    BY <1>2 DEF Complete, Refund, Processing, NoCashout, FeeRows
  <2>3. PICK row : row = [cashouts[c] EXCEPT !.status = status]
    OBVIOUS
  <2>4. row \in CashoutRow /\ row.gross = cashouts[c].gross
    BY <2>2, <2>3 DEF CashoutRow
  <2>5. cashouts' = [cashouts EXCEPT ![c] = row]
    BY <2>1, <2>3
  <2> QED
    BY <2>4, <2>5 DEF FeeRows, RowsGo, SameGross
<1> QED
  BY <1>1, <1>2

LEMMA TellsIsHeard ==
  ASSUME FeeTypes, NEW c \in Cashouts, NEW m \in Messages
  PROVE  Tells(c, m) \in Heard /\ Tells(c, m) # Silence /\ Tells(c, m).read = books[c]
<1>1. books[c] \in Book
  BY DEF FeeTypes
<1> QED
  BY <1>1 DEF Tells, Heard, Silence

FeesHold == FeeTypes /\ FeesTrue /\ FeeRows

LEMMA SendsKeeps ==
  ASSUME FeesHold, NEW c \in Cashouts, Sends(c)
  PROVE  FeesHold'
<1> USE DEF FeesHold
<1>1. SendPayout(c) /\ UNCHANGED <<books, hooks, heard, cashouts>>
  BY DEF Sends, SendPayout
<1>2. SameGross /\ payouts[c] = "ready" /\ cashouts[c] \in CashoutRow
  BY <1>1 DEF SameGross, SendPayout, FeeRows
<1>3. \/ payouts'[c] # "sent" /\ UNCHANGED answered
      \/ \E m \in Messages : answered' = [answered EXCEPT ![c] = Tells(c, m)]
  BY DEF Sends
<1>4. /\ answered' \in [Cashouts -> Heard]
      /\ \A d \in Cashouts : ReadsOn(d)
      /\ payouts'[c] = "sent" => answered'[c] # Silence
      /\ \A d \in Cashouts \ {c} : answered'[d] = answered[d]
  <2>1. CASE payouts'[c] # "sent" /\ UNCHANGED answered
    BY <1>1, <2>1 DEF ReadsOn, FeeTypes
  <2>2. ASSUME NEW m \in Messages, answered' = [answered EXCEPT ![c] = Tells(c, m)]
        PROVE  /\ answered' \in [Cashouts -> Heard]
               /\ \A d \in Cashouts : ReadsOn(d)
               /\ answered'[c] # Silence
               /\ \A d \in Cashouts \ {c} : answered'[d] = answered[d]
    BY <1>1, <2>2, TellsIsHeard DEF ReadsOn, FeeTypes
  <2> QED
    BY <1>3, <2>1, <2>2
<1>5. FeeTypes'
  BY <1>1, <1>4 DEF FeeTypes
<1>6. FeesTrue'
  BY <1>1, <1>2, <1>4, FeesKeep
<1>7. FeeRows'
  <2>1. /\ payouts' = [d \in Cashouts |-> payouts'[d]] /\ gateway' = [d \in Cashouts |-> gateway'[d]]
        /\ \A d \in Cashouts \ {c} : payouts'[d] = payouts[d] /\ gateway'[d] = gateway[d]
    BY <1>1 DEF SendPayout, FeeRows
  <2> QED
    BY <1>1, <1>2, <1>4, <2>1 DEF FeeRows
<1> QED
  BY <1>5, <1>6, <1>7

LEMMA RecordsKeeps ==
  ASSUME FeesHold, NEW c \in Cashouts, Records(c)
  PROVE  FeesHold'
<1> USE DEF FeesHold
<1>1. /\ RecordPayout(c) /\ UNCHANGED <<cashouts, gateway, hooks>>
      /\ answered' = [answered EXCEPT ![c] = Silence]
  BY DEF Records, RecordPayout
<1>2. SameGross /\ cashouts[c] \in CashoutRow /\ answered[c] # Silence /\ answered[c] \in Heard
  BY <1>1 DEF SameGross, RecordPayout, FeeRows, FeeTypes
<1>3. /\ payouts' = [d \in Cashouts |-> payouts'[d]] /\ payouts'[c] # "sent"
      /\ \A d \in Cashouts \ {c} : payouts'[d] = payouts[d]
  BY <1>1 DEF RecordPayout, FeeRows
<1>4. /\ answered' \in [Cashouts -> Heard]
      /\ \A d \in Cashouts : answered'[d] \in {answered[d], Silence}
      /\ \A d \in Cashouts \ {c} : answered'[d] = answered[d]
  BY <1>1 DEF FeeTypes, Heard
<1>5. FeeRows'
  BY <1>1, <1>2, <1>3, <1>4 DEF FeeRows
<1>6. CASE Writes(c, answered[c])
  <2>1. PICK told_c : told_c = answered[c]
    OBVIOUS
  <2>2. told_c \in Heard /\ told_c # Silence /\ Backed(ToSet(heard[c]), told_c.read) /\ Writes(c, told_c)
    BY <1>2, <1>6, <2>1 DEF FeesTrue
  <2>3. /\ FeesTrue' /\ books' \in [Cashouts -> Book]
        /\ heard' \in [Cashouts -> Seq([message : Messages, fresh : BOOLEAN])]
    BY <1>1, <1>2, <1>4, <2>2, FeesWritten
  <2> QED
    BY <1>1, <1>4, <1>5, <2>3 DEF FeeTypes
<1>7. CASE UNCHANGED <<books, heard>>
  <2>1. FeesTrue'
    BY <1>1, <1>2, <1>4, <1>7, FeesKeep DEF ReadsOn
  <2> QED
    BY <1>1, <1>4, <1>5, <1>7, <2>1 DEF FeeTypes
<1> QED
  BY <1>6, <1>7 DEF Records

LEMMA HookWritesKeeps ==
  ASSUME FeesHold, NEW c \in Cashouts, HookWrites(c)
  PROVE  FeesHold'
<1> USE DEF FeesHold
<1>1. /\ UNCHANGED <<payouts, gateway, answered>> /\ hooks[c] # Silence
      /\ hooks' = [hooks EXCEPT ![c] = Silence]
      /\ Complete(c) \/ UNCHANGED cashouts
  BY DEF HookWrites
<1>2. RowsGo
  BY <1>1, RowsGoOn
<1>3. cashouts[c] \in CashoutRow /\ hooks[c] \in Heard
  BY <1>1 DEF FeeRows, FeeTypes
<1>4. /\ hooks' \in [Cashouts -> Heard]
      /\ \A d \in Cashouts : hooks'[d] \in {hooks[d], Silence}
  BY <1>1 DEF FeeTypes, Heard
<1>5. FeeRows'
  BY <1>1, <1>2, <1>4 DEF FeeRows, RowsGo
<1>6. CASE Writes(c, hooks[c])
  <2>1. PICK told_c : told_c = hooks[c]
    OBVIOUS
  <2>2. told_c \in Heard /\ told_c # Silence /\ Backed(ToSet(heard[c]), told_c.read) /\ Writes(c, told_c)
    BY <1>1, <1>3, <1>6, <2>1 DEF FeesTrue
  <2>3. /\ FeesTrue' /\ books' \in [Cashouts -> Book]
        /\ heard' \in [Cashouts -> Seq([message : Messages, fresh : BOOLEAN])]
    BY <1>1, <1>2, <1>3, <1>4, <2>2, FeesWritten DEF RowsGo
  <2> QED
    BY <1>1, <1>4, <1>5, <2>3 DEF FeeTypes
<1>7. CASE UNCHANGED <<books, heard>>
  <2>1. FeesTrue'
    BY <1>1, <1>2, <1>4, <1>7, FeesKeep DEF ReadsOn, RowsGo
  <2> QED
    BY <1>1, <1>4, <1>5, <1>7, <2>1 DEF FeeTypes
<1> QED
  BY <1>6, <1>7 DEF HookWrites

\* The steps that write no column: a handler ends or reads, and the payout goes on.
LEMMA QuietKeeps ==
  ASSUME FeesHold, RowsGo, UNCHANGED <<books, heard>>,
         answered' \in [Cashouts -> Heard], hooks' \in [Cashouts -> Heard],
         \A c \in Cashouts : ReadsOn(c),
         payouts' = [c \in Cashouts |-> payouts'[c]], gateway' = [c \in Cashouts |-> gateway'[c]],
         \A c \in Cashouts :
           /\ payouts'[c] # "idle" \/ gateway'[c] # "none" \/ hooks'[c] # Silence
                => cashouts[c] \in CashoutRow
           /\ payouts'[c] = "sent" => answered'[c] # Silence
  PROVE  FeesHold'
<1>1. FeesTrue'
  BY FeesKeep DEF FeesHold, RowsGo
<1>2. FeeTypes'
  BY DEF FeesHold, FeeTypes
<1>3. FeeRows'
  BY DEF FeeRows, RowsGo
<1> QED
  BY <1>1, <1>2, <1>3 DEF FeesHold

LEMMA HookReadsKeeps ==
  ASSUME FeesHold, NEW c \in Cashouts, HookReads(c)
  PROVE  FeesHold'
<1>1. PICK m \in Messages : hooks' = [hooks EXCEPT ![c] = Tells(c, m)]
  BY DEF HookReads
<1>2. UNCHANGED <<cashouts, payouts, gateway, books, answered, heard>> /\ gateway[c] = "paid"
  BY DEF HookReads, cashoutVars
<1>3. RowsGo
  BY <1>2, RowsGoOn DEF FeesHold
<1>4. Tells(c, m) \in Heard /\ Tells(c, m).read = books[c]
  BY TellsIsHeard DEF FeesHold
<1>5. hooks' \in [Cashouts -> Heard] /\ answered' \in [Cashouts -> Heard] /\ \A d \in Cashouts : ReadsOn(d)
  BY <1>1, <1>2, <1>4 DEF FeesHold, FeeTypes, ReadsOn
<1>6. \A d \in Cashouts \ {c} : hooks'[d] = hooks[d]
  BY <1>1 DEF FeesHold, FeeTypes
<1> QED
  BY <1>2, <1>3, <1>5, <1>6, QuietKeeps DEF FeesHold, FeeRows

LEMMA EndsKeep ==
  ASSUME FeesHold, NEW c \in Cashouts,
         \/ Forgets(c)
         \/ HookFails(c)
         \/ RefundPayout(c) /\ UNCHANGED feeVars
         \/ GatewaySettles(c) /\ UNCHANGED feeVars
         \/ FailedHook(c)
  PROVE  FeesHold'
<1>1. UNCHANGED <<books, heard>>
  BY DEF Forgets, HookFails, FailedHook, feeVars
<1>2. RowsGo
  <2>1. UNCHANGED cashouts \/ Complete(c) \/ \E suffix : Refund(c, suffix)
    BY DEF Forgets, ForgetPayout, HookFails, cashoutVars, RefundPayout, GatewaySettles, FailedHook, PayoutHook
  <2> QED
    BY <2>1, RowsGoOn DEF FeesHold
<1>3. /\ \A d \in Cashouts : answered'[d] \in {answered[d], Silence} /\ hooks'[d] \in {hooks[d], Silence}
      /\ answered' \in [Cashouts -> Heard] /\ hooks' \in [Cashouts -> Heard]
  BY DEF Forgets, HookFails, FailedHook, feeVars, FeesHold, FeeTypes, Heard
<1>4. /\ payouts' = [d \in Cashouts |-> payouts'[d]]
      /\ \A d \in Cashouts : /\ payouts'[d] \in {payouts[d], "idle"}
                             /\ payouts'[d] = "sent" => answered'[d] = answered[d]
  <2>1. CASE Forgets(c)
    BY <2>1 DEF Forgets, ForgetPayout, FeesHold, FeeRows, FeeTypes
  <2>2. CASE UNCHANGED <<payouts, answered>>
    BY <2>2 DEF FeesHold, FeeRows
  <2>3. CASE RefundPayout(c) /\ UNCHANGED feeVars
    BY <2>3 DEF RefundPayout, feeVars, FeesHold, FeeRows
  <2> QED
    BY <2>1, <2>2, <2>3 DEF HookFails, cashoutVars, GatewaySettles, FailedHook, PayoutHook, feeVars
<1>5. /\ gateway' = [d \in Cashouts |-> gateway'[d]]
      /\ \A d \in Cashouts : gateway'[d] # "none" => gateway[d] # "none"
  <2>1. CASE GatewaySettles(c)
    BY <2>1 DEF GatewaySettles, FeesHold, FeeRows
  <2>2. CASE UNCHANGED gateway
    BY <2>2 DEF FeesHold, FeeRows
  <2> QED
    BY <2>1, <2>2 DEF Forgets, ForgetPayout, HookFails, cashoutVars, RefundPayout, FailedHook, PayoutHook
<1>6. \A d \in Cashouts :
        /\ payouts'[d] # "idle" \/ gateway'[d] # "none" \/ hooks'[d] # Silence => cashouts[d] \in CashoutRow
        /\ payouts'[d] = "sent" => answered'[d] # Silence
  BY <1>3, <1>4, <1>5 DEF FeesHold, FeeRows
<1> QED
  BY <1>1, <1>2, <1>3, <1>4, <1>5, <1>6, QuietKeeps DEF ReadsOn

\* The other scenes leave the columns as they were first, and what was said.
LEMMA FeesElsewhere ==
  ASSUME FeeTypes, FeesTrue, books = [c \in Cashouts |-> NewBook], UNCHANGED feeVars
  PROVE  FeeTypes' /\ FeesTrue'
<1>1. FeeTypes'
  BY DEF FeeTypes, feeVars
<1>2. FeesTrue'
  <2> SUFFICES ASSUME NEW c \in Cashouts
               PROVE  /\ Backed(ToSet(heard[c]), books[c]) /\ Priced(c, books[c])'
                      /\ answered[c] # Silence => Backed(ToSet(heard[c]), answered[c].read)
                      /\ hooks[c] # Silence => Backed(ToSet(heard[c]), hooks[c].read)
                      /\ NamedOf(ToSet(heard[c])) # {} /\ (\A h \in ToSet(heard[c]) : h.fresh)
                           => books[c].fee # Unknown
    BY DEF FeesTrue, feeVars
  <2>1. books'[c].bearer = "UNKNOWN"
    BY DEF NewBook, feeVars
  <2>2. Priced(c, books[c])'
    BY <2>1 DEF Priced
  <2> QED
    BY <2>2 DEF FeesTrue
<1> QED
  BY <1>1, <1>2

LEMMA FeesStep == FeesInv /\ [ScreensNext]_screensVars => FeesInv'
<1> SUFFICES ASSUME FeesInv, [ScreensNext]_screensVars
             PROVE  FeesInv'
  OBVIOUS
<1>1. CASE PlayPayoutFees /\ UNCHANGED scene
  <2>1. FeesHold
    BY <1>1 DEF FeesInv, FeesHold, PlayPayoutFees
  <2>2. FeesHold'
    BY <1>1, <2>1, SendsKeeps, RecordsKeeps, HookReadsKeeps, HookWritesKeeps, EndsKeep
       DEF PlayPayoutFees, PayoutFeesNext
  <2> QED
    BY <1>1, <2>2 DEF FeesInv, FeesHold, PlayPayoutFees
<1>2. CASE scene # "payout fees" /\ UNCHANGED <<scene, feeVars>>
  <2>1. FeeTypes' /\ FeesTrue'
    BY <1>2, FeesElsewhere DEF FeesInv
  <2> QED
    BY <1>2, <2>1 DEF FeesInv, feeVars
<1>3. CASE scene = "payout fees" /\ UNCHANGED screensVars
  <2>1. UNCHANGED <<scene, books, answered, hooks, heard, cashouts, payouts, gateway>>
    BY <1>3 DEF screensVars, feeVars, moneyVars, cashoutVars
  <2>2. RowsGo
    BY <1>3, <2>1 DEF FeesInv, FeeRows, RowsGo, SameGross
  <2>3. FeesHold'
    BY <1>3, <2>1, <2>2, QuietKeeps DEF FeesInv, FeesHold, FeeTypes, FeeRows, ReadsOn
  <2> QED
    BY <1>3, <2>1, <2>3 DEF FeesInv, FeesHold
<1>4. scene # "payout fees" /\ UNCHANGED screensVars => UNCHANGED <<scene, feeVars>>
  BY DEF screensVars
<1>5. ScreensNext => \/ PlayPayoutFees /\ UNCHANGED scene
                     \/ scene # "payout fees" /\ UNCHANGED <<scene, feeVars>>
  BY DEF ScreensNext, PlayStatement, PlayMerchantDesk, PlayCashoutPage, PlayCashoutScreen, PlayCheckout
<1> QED
  BY <1>1, <1>2, <1>3, <1>4, <1>5

\* What a cashout's row says of the gateway's fee, and what the merchant is told to
\* receive, is backed by what the gateway said, in whatever order the answer to the
\* payout, its webhooks and a restart come; and a fee that was named is not lost
\* unless two handlers wrote at once.
THEOREM FeesAreBacked == ScreensSpec => []FeesBacked
BY FeesStart, FeesStep, FeesFollow, PTL DEF ScreensSpec

-----------------------------------------------------------------------------
(* The transaction history.                                                  *)

\* The entries from k down to c, or down to the first if c is null.
Chain(s, c, k) ==
  /\ k \in 0..MaxEntries /\ c \in 0..k
  /\ s = [i \in 1..(IF c = 0 THEN k ELSE k + 1 - c) |-> k + 1 - i]

\* A first page starts anywhere, the others before the cursor they were asked for,
\* which is still the screen's.
FirstGood(l) ==
  /\ l.at = "sent" => l.from = 0
  /\ l.at = "answered" => \E k \in 0..MaxEntries : Chain(l.page, l.next, k)

MoreGood(l, c) ==
  /\ c # 0
  /\ l.at = "sent" => l.from = c
  /\ l.at = "answered" => Chain(l.page, l.next, c - 1)

LoadsGood ==
  /\ loads \in Seq(Loads)
  /\ \A i \in DOMAIN loads : loads[i].kind = "first" => FirstGood(loads[i])

\* Unless requests were mixed, the list has no gap and the page that is asked for is the
\* one that follows it.
ListGood ==
  /\ \E k \in 0..MaxEntries : Chain(shown, cursor, k)
  /\ \A i \in DOMAIN loads :
       loads[i].kind = "more" => Len(loads) = 1 /\ loading /\ MoreGood(loads[i], cursor)

HistoryGood ==
  /\ StatementTypeOK /\ LoadsGood
  /\ ~mixed => ListGood

HistoryInv ==
  /\ StatementTypeOK
  /\ scene # "statement" => shown = <<>>
  /\ scene = "statement" => HistoryGood

LEMMA ChainSeq ==
  ASSUME NEW s, NEW c, NEW k, Chain(s, c, k)
  PROVE  s \in Seq(1..MaxEntries) /\ c \in 0..MaxEntries
<1>1. k \in Nat /\ c \in Nat /\ k <= MaxEntries /\ c <= k
  BY StatementAssumption DEF Chain
<1>2. PICK n : n = IF c = 0 THEN k ELSE k + 1 - c
  OBVIOUS
<1>6. n \in 0..k
  BY <1>1, <1>2
<1>3. s = [i \in 1..n |-> k + 1 - i]
  BY <1>2 DEF Chain
<1>4. s \in [1..n -> 1..MaxEntries]
  BY <1>1, <1>3, <1>6, StatementAssumption
<1>5. s \in Seq(1..MaxEntries)
  <2>1. n \in Nat
    BY <1>1, <1>6
  <2> QED
    BY <1>4, <2>1, SeqDef
<1> QED
  BY <1>1, <1>5, StatementAssumption

LEMMA ChainJoins ==
  ASSUME NEW s, NEW p, NEW c, NEW n, NEW k, c # 0, Chain(s, c, k), Chain(p, n, c - 1)
  PROVE  Chain(s \o p, n, k)
<1>1. k \in Nat /\ c \in Nat /\ n \in Nat /\ k <= MaxEntries /\ c <= k /\ n <= c - 1 /\ MaxEntries \in Nat
  BY StatementAssumption DEF Chain
<1>2. s \in Seq(1..MaxEntries) /\ p \in Seq(1..MaxEntries)
  BY ChainSeq
<1>3. s = [i \in 1..(k + 1 - c) |-> k + 1 - i]
  BY DEF Chain
<1>4. PICK len : len = IF n = 0 THEN c - 1 ELSE c - n
  OBVIOUS
<1>10. len \in Nat
  BY <1>1, <1>4
<1>5. p = [i \in 1..len |-> c - i]
  <2>1. len = IF n = 0 THEN c - 1 ELSE c - 1 + 1 - n
    BY <1>1, <1>4
  <2>2. \A i \in 1..len : c - 1 + 1 - i = c - i
    BY <1>1
  <2> QED
    BY <2>1, <2>2 DEF Chain
<1>6. Len(s) = k + 1 - c /\ Len(p) = len
  <2>1. k + 1 - c \in Nat
    BY <1>1
  <2>2. Len(s) = k + 1 - c
    BY <1>3, <2>1
  <2>3. Len(p) = len
    BY <1>5, <1>10
  <2> QED
    BY <2>2, <2>3
<1>7. PICK all : all = IF n = 0 THEN k ELSE k + 1 - n
  OBVIOUS
<1>8. Len(s) + Len(p) = all /\ all \in Nat
  BY <1>1, <1>4, <1>6, <1>7
<1>9. s \o p = [i \in 1..all |-> k + 1 - i]
  <2>1. s \o p = [i \in 1..all |-> IF i <= Len(s) THEN s[i] ELSE p[i - Len(s)]]
    <3>1. /\ Len(s \o p) = all /\ s \o p \in Seq(1..MaxEntries)
          /\ \A i \in 1..Len(s) + Len(p) : (s \o p)[i] = IF i <= Len(s) THEN s[i] ELSE p[i - Len(s)]
      BY <1>2, <1>8, ConcatProperties
    <3>2. DOMAIN (s \o p) = 1..all
      BY <1>8, <3>1, LenProperties
    <3>3. s \o p = [i \in 1..all |-> (s \o p)[i]]
      BY <3>1, <3>2, LenProperties
    <3>4. \A i \in 1..all : (s \o p)[i] = IF i <= Len(s) THEN s[i] ELSE p[i - Len(s)]
      BY <1>8, <3>1
    <3> QED
      BY <3>3, <3>4
  <2>2. ASSUME NEW i \in 1..all
        PROVE  (IF i <= Len(s) THEN s[i] ELSE p[i - Len(s)]) = k + 1 - i
    <3>1. CASE i <= Len(s)
      BY <1>1, <1>3, <1>6, <1>8, <3>1
    <3>2. CASE ~(i <= Len(s))
      <4>1. i - Len(s) \in 1..len
        BY <1>1, <1>6, <1>8, <1>10, <3>2
      <4>2. p[i - Len(s)] = c - (i - Len(s))
        BY <1>5, <4>1
      <4> QED
        BY <1>1, <1>6, <3>2, <4>1, <4>2
    <3> QED
      BY <3>1, <3>2
  <2> QED
    BY <2>1, <2>2
<1> QED
  BY <1>1, <1>7, <1>9 DEF Chain

\* A page goes on from the cursor, whatever was written since.
LEMMA PageIsChain ==
  ASSUME written \in 0..MaxEntries, NEW c \in 0..MaxEntries
  PROVE  Chain(PageOf(c), NextCursor(c), BeforeCursor(c))
<1>1. PICK k \in Nat : k = BeforeCursor(c) /\ k <= MaxEntries
  BY StatementAssumption DEF BeforeCursor
<1>2. CASE HasMore(c)
  <2>1. PageSize \in Nat /\ PageSize >= 1 /\ k > PageSize
    BY <1>1, <1>2, StatementAssumption DEF HasMore
  <2>2. PageOf(c) = [i \in 1..PageSize |-> k + 1 - i]
    BY <1>1, <1>2 DEF PageOf, PageLength
  <2>3. Len(PageOf(c)) = PageSize
    BY <2>1, <2>2
  <2>4. Last(PageOf(c)) = k + 1 - PageSize
    BY <2>1, <2>2, <2>3 DEF Last
  <2>5. NextCursor(c) = k + 1 - PageSize
    BY <1>2, <2>4 DEF NextCursor
  <2>6. PageSize = k + 1 - (k + 1 - PageSize) /\ k + 1 - PageSize # 0 /\ k + 1 - PageSize \in 0..k
    BY <1>1, <2>1
  <2>7. PICK n : n = k + 1 - PageSize
    OBVIOUS
  <2>8. Chain(PageOf(c), n, k)
    BY <1>1, <2>2, <2>6, <2>7, StatementAssumption DEF Chain
  <2> QED
    BY <1>1, <2>5, <2>7, <2>8
<1>3. CASE ~HasMore(c)
  <2>1. PageOf(c) = [i \in 1..k |-> k + 1 - i] /\ NextCursor(c) = 0
    BY <1>1, <1>3 DEF PageOf, PageLength, NextCursor
  <2>2. Chain(PageOf(c), 0, k)
    BY <1>1, <2>1, StatementAssumption DEF Chain
  <2> QED
    BY <1>1, <2>1, <2>2
<1> QED
  BY <1>2, <1>3

LEMMA RemovedSeq ==
  ASSUME NEW T, NEW s \in Seq(T), NEW i \in DOMAIN s
  PROVE  /\ RemoveAt(s, i) \in Seq(T)
         /\ Len(RemoveAt(s, i)) = Len(s) - 1
         /\ \A j \in DOMAIN RemoveAt(s, i) : \E l \in DOMAIN s : RemoveAt(s, i)[j] = s[l]
<1>1. i \in 1..Len(s) /\ Len(s) \in Nat
  OBVIOUS
<1>2. PICK a : a = SubSeq(s, 1, i - 1)
  OBVIOUS
<1>3. PICK b : b = SubSeq(s, i + 1, Len(s))
  OBVIOUS
<1>10. a \in Seq(T) /\ b \in Seq(T)
  BY <1>1, <1>2, <1>3, SubSeqProperties
<1>4. Len(a) = i - 1 /\ Len(b) = Len(s) - i
  BY <1>1, <1>2, <1>3, SubSeqProperties
<1>5. \A j \in 1..Len(a) : a[j] = s[j]
  BY <1>1, <1>2, <1>4, SubSeqProperties
<1>6. \A j \in 1..Len(b) : b[j] = s[i + j]
  BY <1>1, <1>3, <1>4, SubSeqProperties
<1>7. PICK r : r = a \o b
  OBVIOUS
<1>8. r \in Seq(T) /\ Len(r) = Len(s) - 1
  BY <1>1, <1>4, <1>7, <1>10, ConcatProperties
<1>9. ASSUME NEW j \in DOMAIN r
      PROVE  \E l \in DOMAIN s : r[j] = s[l]
  <2>1. j \in 1..Len(s) - 1
    BY <1>8, <1>9
  <2>2. CASE j <= i - 1
    <3>1. j \in 1..Len(a) /\ j \in 1..Len(a) + Len(b) /\ j \in DOMAIN s
      BY <1>1, <1>4, <2>1, <2>2
    <3>2. r[j] = a[j]
      BY <1>7, <1>10, <3>1, ConcatProperties
    <3> QED
      BY <1>5, <3>1, <3>2
  <2>3. CASE j > i - 1
    <3>1. r[j] = b[j - Len(a)] /\ j - Len(a) \in 1..Len(b)
      BY <1>1, <1>4, <1>7, <1>10, <2>1, <2>3, ConcatProperties
    <3>2. r[j] = s[i + (j - Len(a))] /\ i + (j - Len(a)) \in 1..Len(s)
      BY <1>1, <1>4, <1>6, <3>1
    <3> QED
      BY <3>2
  <2> QED
    BY <1>1, <2>1, <2>2, <2>3
<1> QED
  BY <1>2, <1>3, <1>7, <1>8, <1>9 DEF RemoveAt

\* Of the sum of a list of rows: the rows of the screen are one for each entry.
LEMMA RowsAreEntries ==
  /\ {r.entry : r \in Rows} = Range(shown) \cup OwnPayments
  /\ IsFiniteSet(Range(shown)) => Cardinality(Rows) = Cardinality({r.entry : r \in Rows})
<1>1. PICK Own : Own = OwnPayments \ Range(shown)
  OBVIOUS
<1>2. /\ ServerRows = {[entry |-> e, source |-> "server", tone |-> "confirmed"] : e \in Range(shown)}
      /\ LocalRows = {[entry |-> p, source |-> "local", tone |-> Tone(own[p])] : p \in Own}
  BY <1>1 DEF ServerRows, LocalRows
<1>3. {r.entry : r \in Rows} = Range(shown) \cup Own
  <2>1. ASSUME NEW r \in Rows
        PROVE  r.entry \in Range(shown) \cup Own
    BY <1>2, <2>1 DEF Rows
  <2>2. ASSUME NEW e \in Range(shown)
        PROVE  \E r \in Rows : r.entry = e
    <3>1. [entry |-> e, source |-> "server", tone |-> "confirmed"] \in Rows
      BY <1>2, <2>2 DEF Rows
    <3> QED
      BY <3>1
  <2>3. ASSUME NEW p \in Own
        PROVE  \E r \in Rows : r.entry = p
    <3>1. [entry |-> p, source |-> "local", tone |-> Tone(own[p])] \in Rows
      BY <1>2, <2>3 DEF Rows
    <3> QED
      BY <3>1
  <2> QED
    BY <2>1, <2>2, <2>3
<1>4. \A r1, r2 \in Rows : r1.entry = r2.entry => r1 = r2
  <2>1. ASSUME NEW r1 \in Rows, NEW r2 \in Rows, r1.entry = r2.entry
        PROVE  r1 = r2
    <3>1. CASE r1 \in ServerRows /\ r2 \in ServerRows
      BY <1>2, <2>1, <3>1
    <3>2. CASE r1 \in LocalRows /\ r2 \in LocalRows
      BY <1>2, <2>1, <3>2
    <3>3. r1 \in ServerRows => r2 \notin LocalRows
      BY <1>1, <1>2, <2>1
    <3>4. r1 \in LocalRows => r2 \notin ServerRows
      BY <1>1, <1>2, <2>1
    <3> QED
      BY <2>1, <3>1, <3>2, <3>3, <3>4 DEF Rows
  <2> QED
    BY <2>1
<1>5. ASSUME IsFiniteSet(Range(shown))
      PROVE  Cardinality(Rows) = Cardinality({r.entry : r \in Rows})
  <2>1. PICK E : E = {r.entry : r \in Rows}
    OBVIOUS
  <2>2. IsFiniteSet(Own)
    BY <1>1, FS_Difference, StatementAssumption
  <2>3. IsFiniteSet(E)
    BY <1>3, <1>5, <2>1, <2>2, FS_Union
  <2>4. PICK f : f = [r \in Rows |-> r.entry]
    OBVIOUS
  <2>5. f \in Bijection(Rows, E)
    BY <1>4, <2>1, <2>4, Fun_IsBij
  <2>6. ExistsBijection(E, Rows)
    BY <2>5, Fun_ExistsBijSymmetric DEF ExistsBijection
  <2> QED
    BY <2>1, <2>3, <2>6, FS_Bijection
<1> QED
  BY <1>1, <1>3, <1>5

LEMMA HistoryFollows == HistoryInv => HistoryWhole
<1> SUFFICES ASSUME HistoryInv, AtTheEnd, shown # <<>>, ~mixed
             PROVE  /\ shown = [i \in 1..shown[1] |-> shown[1] + 1 - i]
                    /\ {r.entry : r \in Rows} = 1..shown[1] \cup OwnPayments
                    /\ Cardinality(Rows) = Cardinality({r.entry : r \in Rows})
  BY DEF HistoryWhole
<1>1. PICK k \in 0..MaxEntries : Chain(shown, cursor, k)
  BY DEF HistoryInv, HistoryGood, ListGood
<1>2. k \in Nat /\ shown = [i \in 1..k |-> k + 1 - i]
  BY <1>1, StatementAssumption DEF Chain, AtTheEnd
<1>3. k # 0
  BY <1>2
<1>4. shown[1] = k
  BY <1>2, <1>3
<1>5. Range(shown) = 1..k
  <2>1. \A e \in Range(shown) : e \in 1..k
    BY <1>2 DEF Range
  <2>2. ASSUME NEW e \in 1..k
        PROVE  e \in Range(shown)
    <3>1. k + 1 - e \in 1..k /\ shown[k + 1 - e] = e
      BY <1>2
    <3> QED
      BY <1>2, <3>1 DEF Range
  <2> QED
    BY <2>1, <2>2
<1>6. IsFiniteSet(1..k)
  BY <1>2, FS_Interval
<1> QED
  BY <1>2, <1>4, <1>5, <1>6, RowsAreEntries

LEMMA HistoryStarts == ScreensInit => HistoryInv
<1> SUFFICES ASSUME ScreensInit
             PROVE  HistoryInv
  OBVIOUS
<1>1. StatementInit
  BY DEF ScreensInit
<1>2. StatementTypeOK
  <2>1. own \in [OwnPayments -> OwnStatus]
    BY <1>1 DEF StatementInit, OwnStatus
  <2>2. 0 \in 0..MaxEntries /\ shown \in Seq(1..MaxEntries) /\ DOMAIN loads = {}
    BY <1>1, StatementAssumption DEF StatementInit
  <2> QED
    BY <1>1, <2>1, <2>2 DEF StatementInit, StatementTypeOK
<1>3. LoadsGood
  BY <1>1 DEF StatementInit, LoadsGood
<1>4. ListGood
  <2>1. Chain(<<>>, 0, 0)
    BY StatementAssumption DEF Chain
  <2> QED
    BY <1>1, <2>1, StatementAssumption DEF StatementInit, ListGood
<1> QED
  BY <1>1, <1>2, <1>3, <1>4 DEF HistoryInv, HistoryGood, StatementInit

LEMMA LoadTypes ==
  ASSUME NEW l \in Loads
  PROVE  /\ l.kind \in {"first", "more"} /\ l.at \in {"sent", "answered"}
         /\ l.at = "sent" => l.from \in 0..MaxEntries
         /\ l.at = "answered" => l.page \in Seq(1..MaxEntries) /\ l.next \in 0..MaxEntries
BY DEF Loads

LEMMA AppendedLoad ==
  ASSUME LoadsGood, NEW l \in Loads, loads' = Append(loads, l)
  PROVE  /\ loads' \in Seq(Loads) /\ Len(loads') = Len(loads) + 1
         /\ \A i \in DOMAIN loads' : loads'[i] = l \/ (i \in DOMAIN loads /\ loads'[i] = loads[i])
<1>1. loads \in Seq(Loads)
  BY DEF LoadsGood
<1>2. loads' \in Seq(Loads) /\ Len(loads') = Len(loads) + 1
  BY <1>1
<1>3. ASSUME NEW i \in DOMAIN loads'
      PROVE  loads'[i] = l \/ (i \in DOMAIN loads /\ loads'[i] = loads[i])
  <2>1. i \in 1..Len(loads) + 1
    BY <1>2, <1>3
  <2>2. i \in 1..Len(loads) \/ i = Len(loads) + 1
    BY <1>1, <2>1
  <2> QED
    BY <1>1, <2>2
<1> QED
  BY <1>2, <1>3

LEMMA AnswerLedgerKeeps ==
  ASSUME HistoryGood, NEW i \in DOMAIN loads, AnswerLedger(i)
  PROVE  HistoryGood'
<1> USE DEF HistoryGood
<1>1. loads[i] \in Loads /\ loads[i].at = "sent" /\ loads[i].from \in 0..MaxEntries
  BY LoadTypes DEF StatementTypeOK, AnswerLedger
<1>2. PICK from \in 0..MaxEntries : from = loads[i].from
  BY <1>1
<1>3. PICK l : l = [kind |-> loads[i].kind, at |-> "answered", page |-> PageOf(from), next |-> NextCursor(from)]
  OBVIOUS
<1>4. Chain(PageOf(from), NextCursor(from), BeforeCursor(from)) /\ BeforeCursor(from) \in 0..MaxEntries
  BY PageIsChain DEF StatementTypeOK, Chain
<1>5. l \in Loads /\ l.kind = loads[i].kind /\ l.at = "answered"
  BY <1>1, <1>3, <1>4, ChainSeq DEF Loads
<1>6. loads' = [loads EXCEPT ![i] = l] /\ UNCHANGED <<written, own, shown, cursor, loading, refreshing, fresh, mixed>>
  BY <1>2, <1>3 DEF AnswerLedger
<1>7. /\ loads' \in Seq(Loads) /\ DOMAIN loads' = DOMAIN loads /\ Len(loads') = Len(loads)
      /\ loads'[i] = l /\ \A j \in DOMAIN loads \ {i} : loads'[j] = loads[j]
  BY <1>5, <1>6 DEF LoadsGood
<1>8. StatementTypeOK'
  BY <1>5, <1>6, <1>7 DEF StatementTypeOK
<1>9. LoadsGood'
  <2>1. FirstGood(l)
    BY <1>3, <1>4 DEF FirstGood
  <2> QED
    BY <1>7, <2>1 DEF LoadsGood
<1>10. ASSUME ~mixed
       PROVE  ListGood'
  <2>1. ListGood
    BY <1>10
  <2>2. loads[i].kind = "more" => Chain(PageOf(from), NextCursor(from), cursor - 1) /\ cursor # 0
    BY <1>1, <1>2, <1>4, <2>1 DEF ListGood, MoreGood, BeforeCursor
  <2>3. l.kind = "more" => MoreGood(l, cursor')
    BY <1>3, <1>6, <2>2 DEF MoreGood
  <2>4. \A j \in DOMAIN loads' : loads'[j].kind = "more" =>
          Len(loads') = 1 /\ loading' /\ MoreGood(loads'[j], cursor')
    <3> SUFFICES ASSUME NEW j \in DOMAIN loads', loads'[j].kind = "more"
                 PROVE  Len(loads') = 1 /\ loading' /\ MoreGood(loads'[j], cursor')
      OBVIOUS
    <3>1. CASE j = i
      BY <1>5, <1>6, <1>7, <2>1, <2>3, <3>1 DEF ListGood
    <3>2. CASE j # i
      <4>1. loads'[j] = loads[j] /\ Len(loads) = 1 /\ loading /\ MoreGood(loads[j], cursor)
        BY <1>7, <2>1, <3>2 DEF ListGood
      <4> QED
        BY <1>6, <1>7, <4>1 DEF MoreGood
    <3> QED
      BY <3>1, <3>2
  <2> QED
    BY <1>6, <2>1, <2>4 DEF ListGood
<1> QED
  BY <1>6, <1>8, <1>9, <1>10

\* A request leaves: unless requests are mixed then, it goes alone or with first pages.
LEMMA LoadFirstKeeps ==
  ASSUME HistoryGood, LoadFirst, fresh' \in BOOLEAN
  PROVE  HistoryGood'
<1> USE DEF HistoryGood
<1>1. PICK l : l = [kind |-> "first", at |-> "sent", from |-> 0]
  OBVIOUS
<1>2. l \in Loads /\ FirstGood(l) /\ l.kind = "first"
  BY <1>1, StatementAssumption DEF Loads, FirstGood
<1>3. /\ loads' = Append(loads, l) /\ refreshing' = TRUE /\ mixed' = (mixed \/ InFlight("more"))
      /\ UNCHANGED <<written, own, shown, cursor, loading>>
  BY <1>1 DEF LoadFirst
<1>4. /\ loads' \in Seq(Loads)
      /\ \A i \in DOMAIN loads' : loads'[i] = l \/ (i \in DOMAIN loads /\ loads'[i] = loads[i])
  BY <1>2, <1>3, AppendedLoad
<1>5. StatementTypeOK'
  <2>1. mixed' \in BOOLEAN
    BY <1>3 DEF InFlight
  <2> QED
    BY <1>2, <1>3, <1>4, <2>1 DEF StatementTypeOK
<1>6. LoadsGood'
  BY <1>2, <1>4 DEF LoadsGood
<1>7. ASSUME ~mixed'
      PROVE  ListGood'
  BY <1>2, <1>3, <1>4, <1>7 DEF ListGood, InFlight
<1> QED
  BY <1>5, <1>6, <1>7

LEMMA EndReachedKeeps ==
  ASSUME HistoryGood, EndReached
  PROVE  HistoryGood'
<1> USE DEF HistoryGood
<1>1. PICK l : l = [kind |-> "more", at |-> "sent", from |-> cursor]
  OBVIOUS
<1>2. l \in Loads /\ l.kind = "more"
  BY <1>1 DEF Loads, StatementTypeOK
<1>3. /\ loads' = Append(loads, l) /\ loading' = TRUE /\ mixed' = (mixed \/ InFlight("first"))
      /\ UNCHANGED <<written, own, shown, cursor, refreshing, fresh>>
      /\ cursor # 0 /\ ~loading
  BY <1>1 DEF EndReached
<1>4. /\ loads' \in Seq(Loads) /\ Len(loads') = Len(loads) + 1
      /\ \A i \in DOMAIN loads' : loads'[i] = l \/ (i \in DOMAIN loads /\ loads'[i] = loads[i])
  BY <1>2, <1>3, AppendedLoad
<1>5. StatementTypeOK'
  <2>1. mixed' \in BOOLEAN
    BY <1>3 DEF InFlight
  <2> QED
    BY <1>2, <1>3, <1>4, <2>1 DEF StatementTypeOK
<1>6. LoadsGood'
  BY <1>2, <1>4 DEF LoadsGood
<1>7. ASSUME ~mixed'
      PROVE  ListGood'
  <2>1. ListGood /\ ~InFlight("first")
    BY <1>3, <1>7
  <2>2. DOMAIN loads = {}
    BY <1>3, <2>1, LoadTypes DEF ListGood, InFlight, LoadsGood, StatementTypeOK
  <2>3. Len(loads) = 0
    BY <2>2 DEF LoadsGood
  <2>4. MoreGood(l, cursor')
    BY <1>1, <1>3 DEF MoreGood
  <2>5. \A i \in DOMAIN loads' : loads'[i] = l
    BY <1>4, <2>2
  <2>6. \A i \in DOMAIN loads' : Len(loads') = 1 /\ loading' /\ MoreGood(loads'[i], cursor')
    BY <1>3, <1>4, <2>3, <2>4, <2>5 DEF MoreGood
  <2> QED
    BY <1>3, <2>1, <2>6 DEF ListGood
<1> QED
  BY <1>5, <1>6, <1>7

LEMMA LoadEndedKeeps ==
  ASSUME HistoryGood, NEW i \in DOMAIN loads, LoadEnded(i)
  PROVE  /\ loads' \in Seq(Loads) /\ Len(loads') = Len(loads) - 1
         /\ loading' = FALSE /\ refreshing' = FALSE
         /\ \A j \in DOMAIN loads' : \E l \in DOMAIN loads : loads'[j] = loads[l]
         /\ LoadsGood'
<1>1. loads \in Seq(Loads)
  BY DEF HistoryGood, LoadsGood
<1>2. /\ loads' \in Seq(Loads) /\ Len(loads') = Len(loads) - 1
      /\ \A j \in DOMAIN loads' : \E l \in DOMAIN loads : loads'[j] = loads[l]
  BY <1>1, RemovedSeq DEF LoadEnded
<1> QED
  BY <1>2 DEF LoadEnded, HistoryGood, LoadsGood

LEMMA LoadFailsKeeps ==
  ASSUME HistoryGood, NEW i \in DOMAIN loads, LoadFails(i)
  PROVE  HistoryGood'
<1> USE DEF HistoryGood
<1>1. /\ loads' \in Seq(Loads) /\ Len(loads') = Len(loads) - 1
      /\ loading' = FALSE /\ refreshing' = FALSE
      /\ \A j \in DOMAIN loads' : \E l \in DOMAIN loads : loads'[j] = loads[l]
      /\ LoadsGood' /\ UNCHANGED <<written, own, shown, cursor, fresh, mixed>>
  BY LoadEndedKeeps DEF LoadFails
<1>2. StatementTypeOK'
  BY <1>1 DEF StatementTypeOK
<1>3. ASSUME ~mixed
      PROVE  ListGood'
  <2>1. ListGood
    BY <1>3
  <2>2. \A j \in DOMAIN loads' : loads'[j].kind # "more"
    <3> SUFFICES ASSUME NEW j \in DOMAIN loads', loads'[j].kind = "more"
                 PROVE  FALSE
      OBVIOUS
    <3>1. Len(loads) = 1
      BY <1>1, <2>1 DEF ListGood
    <3>2. Len(loads') = 0
      BY <1>1, <3>1
    <3> QED
      BY <1>1, <3>2
  <2> QED
    BY <1>1, <2>1, <2>2 DEF ListGood
<1> QED
  BY <1>1, <1>2, <1>3

LEMMA TakePageKeeps ==
  ASSUME HistoryGood, NEW i \in DOMAIN loads, TakePage(i)
  PROVE  HistoryGood'
<1> USE DEF HistoryGood
<1>1. PICK l : l = loads[i]
  OBVIOUS
<1>2. l \in Loads /\ l.at = "answered" /\ l.page \in Seq(1..MaxEntries) /\ l.next \in 0..MaxEntries
      /\ l.kind \in {"first", "more"}
  BY <1>1, LoadTypes DEF StatementTypeOK, TakePage
<1>3. /\ loads' \in Seq(Loads) /\ Len(loads') = Len(loads) - 1
      /\ loading' = FALSE /\ refreshing' = FALSE
      /\ \A j \in DOMAIN loads' : \E k \in DOMAIN loads : loads'[j] = loads[k]
      /\ LoadsGood'
  BY LoadEndedKeeps DEF TakePage
<1>4. /\ shown' = (IF l.kind = "first" THEN <<>> ELSE shown) \o l.page
      /\ cursor' = l.next /\ UNCHANGED <<written, own, fresh>>
      /\ mixed' = (mixed /\ ~(l.kind = "first" /\ Len(loads) = 1))
  BY <1>1 DEF TakePage
<1>5. shown \in Seq(1..MaxEntries) /\ <<>> \in Seq(1..MaxEntries)
  BY DEF StatementTypeOK
<1>6. shown' \in Seq(1..MaxEntries) /\ (l.kind = "first" => shown' = l.page)
  BY <1>2, <1>4, <1>5, ConcatProperties, ConcatEmptySeq
<1>7. StatementTypeOK'
  BY <1>2, <1>3, <1>4, <1>6 DEF StatementTypeOK
<1>8. ASSUME ~mixed'
      PROVE  ListGood'
  <2>1. \/ ListGood
        \/ l.kind = "first" /\ Len(loads) = 1
    BY <1>4, <1>8
  <2>2. \A j \in DOMAIN loads' : loads'[j].kind # "more"
    <3> SUFFICES ASSUME NEW j \in DOMAIN loads', loads'[j].kind = "more"
                 PROVE  FALSE
      OBVIOUS
    <3>1. Len(loads) = 1
      BY <1>3, <2>1 DEF ListGood
    <3>2. Len(loads') = 0
      BY <1>3, <3>1
    <3> QED
      BY <1>3, <3>2
  <2>3. \E k \in 0..MaxEntries : Chain(shown, cursor, k)'
    <3>1. CASE l.kind = "first"
      BY <1>1, <1>2, <1>4, <1>6, <3>1 DEF LoadsGood, FirstGood, Chain
    <3>2. CASE l.kind = "more"
      <4>1. ListGood /\ MoreGood(l, cursor) /\ l.kind # "first"
        BY <1>1, <2>1, <3>2 DEF ListGood
      <4>2. PICK k \in 0..MaxEntries : Chain(shown, cursor, k)
        BY <4>1 DEF ListGood
      <4>3. Chain(shown \o l.page, l.next, k)
        BY <1>2, <4>1, <4>2, ChainJoins DEF MoreGood
      <4>4. shown' = shown \o l.page
        BY <1>4, <4>1
      <4>5. Chain(shown', cursor', k)
        BY <1>4, <4>3, <4>4
      <4> QED
        BY <4>5 DEF Chain
    <3> QED
      BY <1>2, <3>1, <3>2
  <2> QED
    BY <2>2, <2>3 DEF ListGood
<1> QED
  BY <1>3, <1>7, <1>8

\* The steps that neither ask nor answer.
LEMMA RestKeeps ==
  ASSUME HistoryGood,
         \/ WriteEntry
         \/ \E p \in OwnPayments : OwnUpdated(p)
         \/ SessionStale
         \/ UNCHANGED statementVars
  PROVE  HistoryGood'
<1> USE DEF HistoryGood
<1>1. UNCHANGED <<shown, cursor, loading, refreshing, loads, mixed>> /\ fresh' \in BOOLEAN
  BY DEF WriteEntry, OwnUpdated, SessionStale, statementVars, StatementTypeOK
<1>2. written' \in 0..MaxEntries
  BY StatementAssumption DEF WriteEntry, OwnUpdated, SessionStale, statementVars, StatementTypeOK
<1>3. own' \in [OwnPayments -> OwnStatus]
  BY DEF WriteEntry, OwnUpdated, SessionStale, statementVars, StatementTypeOK, OwnStatus
<1>4. StatementTypeOK' /\ LoadsGood'
  BY <1>1, <1>2, <1>3 DEF StatementTypeOK, LoadsGood
<1>5. ~mixed => ListGood'
  BY <1>1 DEF ListGood, MoreGood
<1> QED
  BY <1>1, <1>4, <1>5

LEMMA HistoryStep == HistoryInv /\ [ScreensNext]_screensVars => HistoryInv'
<1> SUFFICES ASSUME HistoryInv, [ScreensNext]_screensVars
             PROVE  HistoryInv'
  OBVIOUS
<1>1. CASE PlayStatement /\ UNCHANGED scene
  <2>1. scene = "statement" /\ HistoryGood
    BY <1>1 DEF HistoryInv, PlayStatement
  <2>2. HistoryGood'
    <3>1. CASE SessionFresh \/ PullToRefresh
      BY <2>1, <3>1, LoadFirstKeeps DEF SessionFresh, PullToRefresh, HistoryGood, StatementTypeOK
    <3> QED
      BY <1>1, <2>1, <3>1, AnswerLedgerKeeps, EndReachedKeeps, LoadFailsKeeps, TakePageKeeps, RestKeeps
         DEF PlayStatement, StatementNext
  <2> QED
    BY <1>1, <2>1, <2>2 DEF HistoryInv, HistoryGood
<1>2. CASE UNCHANGED <<scene, statementVars>>
  <2>1. CASE scene = "statement"
    BY <1>2, <2>1, RestKeeps DEF HistoryInv, HistoryGood
  <2>2. CASE scene # "statement"
    BY <1>2, <2>2 DEF HistoryInv, statementVars, StatementTypeOK
  <2> QED
    BY <2>1, <2>2
<1>3. \/ PlayStatement /\ UNCHANGED scene
      \/ UNCHANGED <<scene, statementVars>>
  BY DEF ScreensNext, PlayMerchantDesk, PlayCashoutPage, PlayCashoutScreen, PlayCheckout, PlayPayoutFees, screensVars
<1> QED
  BY <1>1, <1>2, <1>3

\* When the history says that it ends, it has every entry from the newest it shows down
\* to the first, each once and in order, whatever was written while its pages came,
\* unless a page was asked for while the list was being refreshed.
THEOREM HistoryIsWhole == ScreensSpec => []HistoryWhole
BY HistoryStarts, HistoryStep, HistoryFollows, PTL DEF ScreensSpec

-----------------------------------------------------------------------------
(* The types of all the scenes.                                              *)

LEMMA TypesStart == ScreensInit => ScreensTypeOK
<1> SUFFICES ASSUME ScreensInit
             PROVE  ScreensTypeOK
  OBVIOUS
<1>10. /\ MerchantDeskInit /\ FundsInit /\ TopupInit /\ CashoutPageInit /\ CashoutScreenInit /\ CheckoutInit
       /\ CashoutInit \/ PayoutReady
  BY DEF ScreensInit
<1>1. StatementTypeOK
  BY HistoryStarts DEF HistoryInv
<1>2. MerchantDeskTypeOK
  <2>1. inputs \in [forms : 0..MaxForms, changes : 0..MaxChanges]
    BY <1>10, MerchantDeskAssumption DEF MerchantDeskInit
  <2> QED
    BY <2>1, DeskStarts, DeskTypes DEF DeskInv, MerchantDeskTypeOK
<1>3. FundsTypeOK
  BY <1>10, FundsAssumption DEF FundsInit, FundsTypeOK, Users, Holders
<1>4. CashoutTypeOK
  <2>1. CASE CashoutInit
    BY <2>1 DEF CashoutInit, CashoutTypeOK, Requester
  <2>2. CASE PayoutReady
    <3>1. PICK c \in Cashouts, m \in Merchants, gross \in Grosses :
            /\ cashouts = [d \in Cashouts |->
                 IF d = c THEN [status |-> "PROCESSING", merchant |-> m, gross |-> gross, manual |-> FALSE]
                          ELSE NoCashout]
            /\ payouts = [d \in Cashouts |-> IF d = c THEN "ready" ELSE "idle"]
            /\ refunds = {}
            /\ requesters = [q \in Requesters |-> NoRequester]
            /\ gateway = [d \in Cashouts |-> "none"]
      BY <2>2 DEF PayoutReady
    <3>2. [status |-> "PROCESSING", merchant |-> m, gross |-> gross, manual |-> FALSE] \in CashoutRow
      BY PayoutFeesAssumption DEF CashoutRow
    <3> QED
      BY <3>1, <3>2 DEF CashoutTypeOK, Requester
  <2> QED
    BY <1>10, <2>1, <2>2
<1>5. TopupTypeOK
  BY <1>10 DEF TopupInit, TopupTypeOK, Charge, Finalizer
<1>6. CashoutPageTypeOK
  BY <1>10 DEF CashoutPageInit, CashoutPageTypeOK, Pages, Orders
<1>7. CashoutScreenTypeOK
  <2>1. Blind \in Screen
    BY DEF Blind, Screen
  <2>2. 0 \in 0..Sales
    BY CashoutScreenAssumption
  <2> QED
    BY <1>10, <2>1, <2>2 DEF CashoutScreenInit, CashoutScreenTypeOK
<1>8. CheckoutTypeOK
  BY <1>10 DEF CheckoutInit, CheckoutTypeOK, Views, Polls
<1>9. PayoutFeesTypeOK
  BY FeesStart, FeesAreTyped DEF FeesInv
<1> QED
  BY <1>1, <1>2, <1>3, <1>4, <1>5, <1>6, <1>7, <1>8, <1>9 DEF ScreensTypeOK

LEMMA PageTypes ==
  ASSUME FundsTypeOK, CashoutTypeOK, CashoutPageTypeOK, CashoutPageNext
  PROVE  FundsTypeOK' /\ CashoutTypeOK' /\ CashoutPageTypeOK'
<1>1. ASSUME NEW q \in Requesters,
             \/ \E m \in Merchants : RequestRead(q, m)
             \/ RequestCheck(q)
             \/ \E c \in Cashouts : RequestCreate(q, c),
             UNCHANGED pageVars
      PROVE  FundsTypeOK' /\ CashoutTypeOK' /\ CashoutPageTypeOK'
  BY <1>1, RequestTypes DEF pageVars, CashoutPageTypeOK
<1>2. ASSUME NEW o \in Operators,
             \/ \E kind \in Kinds, c \in Cashouts : Press(o, kind, c)
             \/ LoadOperations(o) \/ ReloadPage(o) \/ OrderSucceeds(o) \/ OrderFails(o) \/ OrderDropped(o)
             \/ Approves(o) \/ MarkReads(o) \/ MarkWrites(o) \/ Cancels(o) \/ OrderRefused(o)
      PROVE  FundsTypeOK' /\ CashoutTypeOK' /\ CashoutPageTypeOK'
  <2>1. page[o] \in Pages /\ orders[o] \in Orders \cup {Nobody}
    BY DEF CashoutPageTypeOK
  <2>2. orders[o].at # "nothing" => orders[o] \in Orders /\ orders[o].cashout \in Cashouts /\ orders[o].kind \in Kinds
    BY <2>1 DEF Orders, Nobody
  <2>3. FundsTypeOK' /\ CashoutTypeOK'
    <3>1. CASE UNCHANGED <<funds, cashoutVars>>
      BY <3>1 DEF FundsTypeOK, CashoutTypeOK, cashoutVars
    <3>2. CASE Approves(o)
      BY <2>2, <3>2, DecisionTypes DEF Approves, Wants
    <3>3. CASE Cancels(o)
      BY <2>2, <3>3, DecisionTypes DEF Cancels, Wants
    <3>4. CASE MarkWrites(o)
      <4>1. PICK c \in Cashouts : c = orders[o].cashout
        BY <2>2, <3>4 DEF MarkWrites
      <4>2. CASE Complete(c)
        BY <3>4, <4>2, CompleteTypes DEF MarkWrites, Complete, CashoutTypeOK
      <4>3. CASE UNCHANGED <<funds, cashouts, refunds>>
        BY <3>4, <4>3 DEF MarkWrites, FundsTypeOK, CashoutTypeOK
      <4> QED
        BY <3>4, <4>1, <4>2, <4>3 DEF MarkWrites, MarksPaid
    <3> QED
      BY <1>2, <3>1, <3>2, <3>3, <3>4 DEF Press, LoadOperations, ReloadPage, OrderSucceeds, OrderFails,
         OrderDropped, MarkReads, OrderRefused
  <2>4. page' \in [Operators -> Pages]
    <3>1. [at |-> "ready", list |-> Operations] \in Pages
      <4>1. Operations \subseteq Listed
        BY DEF Operations, ManualQueue, Listed
      <4> QED
        BY <4>1 DEF Pages
    <3>2. [at |-> "loading", list |-> {}] \in Pages
      BY DEF Pages
    <3>3. \A at \in {"loading", "ready", "working"} : [page[o] EXCEPT !.at = at] \in Pages
      BY <2>1 DEF Pages
    <3>4. \/ UNCHANGED page
          \/ page' = [page EXCEPT ![o] = [at |-> "ready", list |-> Operations]]
          \/ page' = [page EXCEPT ![o] = [at |-> "loading", list |-> {}]]
          \/ \E at \in {"loading", "ready", "working"} : page' = [page EXCEPT ![o] = [page[o] EXCEPT !.at = at]]
      BY <1>2 DEF Press, LoadOperations, ReloadPage, OrderSucceeds, OrderFails, OrderDropped,
         Approves, MarkReads, MarkWrites, Cancels, OrderRefused, Offstage
    <3> QED
      BY <3>1, <3>2, <3>3, <3>4 DEF CashoutPageTypeOK
  <2>5. orders' \in [Operators -> Orders \cup {Nobody}]
    <3>1. \A kind \in Kinds, c \in Cashouts : [at |-> "sent", kind |-> kind, cashout |-> c] \in Orders
      BY DEF Orders
    <3>2. orders[o].at # "nothing" =>
            \A at \in {"read", "done", "refused"} : [orders[o] EXCEPT !.at = at] \in Orders
      BY <2>2 DEF Orders
    <3>3. \/ UNCHANGED orders
          \/ orders' = [orders EXCEPT ![o] = Nobody]
          \/ \E kind \in Kinds, c \in Cashouts :
               orders' = [orders EXCEPT ![o] = [at |-> "sent", kind |-> kind, cashout |-> c]]
          \/ /\ orders[o].at # "nothing"
             /\ \E at \in {"read", "done", "refused"} : orders' = [orders EXCEPT ![o] = [orders[o] EXCEPT !.at = at]]
      BY <1>2 DEF Press, LoadOperations, ReloadPage, OrderSucceeds, OrderFails, OrderDropped,
         Approves, MarkReads, MarkWrites, Cancels, OrderRefused, Ordered, Wants
    <3> QED
      BY <3>1, <3>2, <3>3 DEF CashoutPageTypeOK
  <2>6. told' \subseteq [kind : Kinds, cashout : Cashouts]
    <3>1. CASE UNCHANGED told
      BY <3>1 DEF CashoutPageTypeOK
    <3>2. CASE OrderSucceeds(o)
      BY <2>2, <3>2 DEF OrderSucceeds, CashoutPageTypeOK
    <3> QED
      BY <1>2, <3>1, <3>2 DEF Press, LoadOperations, ReloadPage, OrderFails, OrderDropped,
         Approves, MarkReads, MarkWrites, Cancels, OrderRefused, Offstage
  <2> QED
    BY <2>3, <2>4, <2>5, <2>6 DEF CashoutPageTypeOK
<1> QED
  BY <1>1, <1>2 DEF CashoutPageNext

\* A slot of one merchant's requests changes.
LEMMA WishTypes ==
  ASSUME wish \in [Merchants -> [Requesters -> Cashouts \cup {Nil, "sent", "taken"}]],
         NEW m \in Merchants, NEW q \in Requesters,
         NEW w \in Cashouts \cup {Nil, "sent", "taken"}, wish' = [wish EXCEPT ![m][q] = w]
  PROVE  wish' \in [Merchants -> [Requesters -> Cashouts \cup {Nil, "sent", "taken"}]]
<1>1. PICK f : f = [wish[m] EXCEPT ![q] = w]
  OBVIOUS
<1>2. f \in [Requesters -> Cashouts \cup {Nil, "sent", "taken"}]
  BY <1>1
<1>3. wish' = [wish EXCEPT ![m] = f]
  BY <1>1
<1> QED
  BY <1>2, <1>3

LEMMA ScreenWith ==
  ASSUME NEW s \in Screen
  PROVE  /\ \A at \in {"loading", "confirmed", "unconfirmed"} : [s EXCEPT !.at = at] \in Screen
         /\ \A x \in Nat : [s EXCEPT !.me = x] \in Screen
         /\ \A k \in SUBSET Cashouts : [s EXCEPT !.read = TRUE, !.mine = k] \in Screen
         /\ \A b \in BOOLEAN : [s EXCEPT !.busy = b] \in Screen
         /\ \A c \in Cashouts : [s EXCEPT !.busy = FALSE, !.active = c] \in Screen
         /\ s.me # -1 => s.me \in Nat
         /\ s.busy \in BOOLEAN /\ s.mine \subseteq Cashouts
BY DEF Screen

LEMMA CashoutScreenTypes ==
  ASSUME FundsTypeOK, CashoutTypeOK, CashoutScreenTypeOK, CashoutScreenNext
  PROVE  FundsTypeOK' /\ CashoutTypeOK' /\ CashoutScreenTypeOK'
<1>1. CASE UNCHANGED screenVars /\ \E c \in Cashouts :
             ApproveCashout(c, "manual") \/ MarkManualPaid(c) \/ CancelManual(c)
  BY <1>1, DecisionTypes DEF screenVars, CashoutScreenTypeOK
<1>2. ASSUME NEW s \in Students, NEW m \in Merchants, Earn(s, m)
      PROVE  FundsTypeOK' /\ CashoutTypeOK' /\ CashoutScreenTypeOK'
  <2>1. FundsTypeOK'
    BY <1>2, MoveTypes, FundsAssumption DEF Earn, Users, Holders
  <2>2. sales' \in 0..Sales
    BY <1>2, CashoutScreenAssumption DEF Earn, CashoutScreenTypeOK
  <2> QED
    BY <1>2, <2>1, <2>2 DEF Earn, cashoutVars, CashoutTypeOK, CashoutScreenTypeOK
<1>3. ASSUME NEW m \in Merchants,
             \/ Refresh(m) \/ FetchMe(m) \/ GetCashoutStatus(m)
             \/ RefreshEnds(m) \/ RefreshFails(m) \/ RequestFails(m)
             \/ \E q \in Requesters : RequestCashout(m, q) \/ RequestSucceeds(m, q) \/ RequestForgotten(m, q)
      PROVE  FundsTypeOK' /\ CashoutTypeOK' /\ CashoutScreenTypeOK'
  <2>1. UNCHANGED <<funds, cashoutVars, sales>>
    BY <1>3 DEF Refresh, FetchMe, GetCashoutStatus, RefreshEnds, RefreshFails, RequestFails,
       RequestCashout, RequestSucceeds, RequestForgotten
  <2>2. screen[m] \in Screen /\ Open(m) \subseteq Cashouts
    BY DEF CashoutScreenTypeOK, Open
  <2>3. funds[m] \in Nat
    BY DEF FundsTypeOK, Users, Holders
  <2>4. \E s \in Screen : screen' = [screen EXCEPT ![m] = s] \/ UNCHANGED screen
    <3>1. CASE RefreshEnds(m)
      <4>1. PICK a \in Cashouts \cup {Nil} :
              screen' = [screen EXCEPT ![m] = [Blind EXCEPT !.at = "confirmed", !.amount = screen[m].me,
                                                            !.active = a, !.busy = screen[m].busy]]
        BY <2>2, <3>1, ScreenWith DEF RefreshEnds, Set
      <4>2. screen[m].me \in Nat /\ screen[m].busy \in BOOLEAN
        BY <2>2, <3>1, ScreenWith DEF RefreshEnds
      <4>3. [Blind EXCEPT !.at = "confirmed", !.amount = screen[m].me,
                          !.active = a, !.busy = screen[m].busy] \in Screen
        BY <4>2 DEF Blind, Screen
      <4> QED
        BY <4>1, <4>3
    <3>2. CASE RefreshFails(m)
      <4>1. [Blind EXCEPT !.busy = screen[m].busy] \in Screen
        BY <2>2, ScreenWith DEF Blind, Screen
      <4> QED
        BY <3>2, <4>1 DEF RefreshFails, Set
    <3>3. CASE Refresh(m) \/ FetchMe(m) \/ GetCashoutStatus(m) \/ RequestFails(m)
      BY <2>2, <2>3, <3>3, ScreenWith DEF Refresh, FetchMe, GetCashoutStatus, RequestFails, Set, UnderWay
    <3>4. ASSUME NEW q \in Requesters, RequestCashout(m, q) \/ RequestSucceeds(m, q) \/ RequestForgotten(m, q)
          PROVE  \E s \in Screen : screen' = [screen EXCEPT ![m] = s] \/ UNCHANGED screen
      BY <2>2, <3>4, ScreenWith DEF RequestCashout, RequestSucceeds, RequestForgotten, Set
    <3> QED
      BY <1>3, <3>1, <3>2, <3>3, <3>4
  <2>5. wish' \in [Merchants -> [Requesters -> Cashouts \cup {Nil, "sent", "taken"}]]
    <3>1. CASE UNCHANGED wish
      BY <3>1 DEF CashoutScreenTypeOK
    <3>2. ASSUME NEW q \in Requesters, RequestCashout(m, q) \/ RequestSucceeds(m, q) \/ RequestForgotten(m, q)
          PROVE  wish' \in [Merchants -> [Requesters -> Cashouts \cup {Nil, "sent", "taken"}]]
      <4>1. \E w \in {Nil, "sent"} : wish' = [wish EXCEPT ![m][q] = w]
        BY <3>2 DEF RequestCashout, RequestSucceeds, RequestForgotten, Answered
      <4> QED
        BY <4>1, WishTypes DEF CashoutScreenTypeOK
    <3> QED
      BY <1>3, <3>1, <3>2 DEF Refresh, FetchMe, GetCashoutStatus, RefreshEnds, RefreshFails, RequestFails
  <2>6. known' \in [Merchants -> SUBSET Cashouts]
    <3>1. UNCHANGED known \/ \E k \in SUBSET Cashouts : known' = [known EXCEPT ![m] = @ \cup k]
      BY <1>3, <2>2 DEF Refresh, FetchMe, GetCashoutStatus, RefreshEnds, RefreshFails, RequestFails,
         RequestCashout, RequestSucceeds, RequestForgotten
    <3> QED
      BY <3>1 DEF CashoutScreenTypeOK
  <2>7. crossed' \in [Merchants -> BOOLEAN]
    <3>1. UNCHANGED crossed \/ crossed' = [crossed EXCEPT ![m] = screen[m].busy]
      BY <1>3 DEF Refresh, FetchMe, GetCashoutStatus, RefreshEnds, RefreshFails, RequestFails,
         RequestCashout, RequestSucceeds, RequestForgotten
    <3> QED
      BY <2>2, <3>1, ScreenWith DEF CashoutScreenTypeOK
  <2>8. screen' \in [Merchants -> Screen]
    BY <2>4 DEF CashoutScreenTypeOK
  <2>9. FundsTypeOK' /\ CashoutTypeOK'
    BY <2>1 DEF FundsTypeOK, CashoutTypeOK, cashoutVars
  <2> QED
    BY <2>1, <2>5, <2>6, <2>7, <2>8, <2>9 DEF CashoutScreenTypeOK
<1>4. ASSUME NEW m \in Merchants, NEW q \in Requesters,
             ServeRequest(m, q), UNCHANGED <<screen, known, crossed, sales>>
      PROVE  FundsTypeOK' /\ CashoutTypeOK' /\ CashoutScreenTypeOK'
  <2>1. FundsTypeOK' /\ CashoutTypeOK'
    BY <1>4, RequestTypes DEF ServeRequest
  <2>2. UNCHANGED wish \/ \E w \in Cashouts \cup {Nil, "sent", "taken"} : wish' = [wish EXCEPT ![m][q] = w]
    BY <1>4 DEF ServeRequest
  <2>3. wish' \in [Merchants -> [Requesters -> Cashouts \cup {Nil, "sent", "taken"}]]
    BY <2>2, WishTypes DEF CashoutScreenTypeOK
  <2> QED
    BY <1>4, <2>1, <2>3 DEF CashoutScreenTypeOK
<1> QED
  BY <1>1, <1>2, <1>3, <1>4 DEF CashoutScreenNext

LEMMA FeeMoneyTypes ==
  ASSUME FundsTypeOK, CashoutTypeOK, PayoutFeesNext
  PROVE  FundsTypeOK' /\ CashoutTypeOK'
<1>1. PICK c \in Cashouts :
        \/ SendPayout(c) \/ RecordPayout(c) \/ RefundPayout(c) \/ ForgetPayout(c)
        \/ GatewaySettles(c) \/ PayoutHook(c)
        \/ HookWrites(c)
        \/ UNCHANGED <<funds, cashoutVars>>
  BY DEF PayoutFeesNext, Sends, Records, Forgets, HookReads, HookFails, FailedHook
<1>2. CASE HookWrites(c)
  <2>1. CASE Complete(c)
    BY <1>2, <2>1, CompleteTypes DEF HookWrites, Complete, CashoutTypeOK
  <2>2. CASE UNCHANGED <<funds, cashouts, refunds>>
    BY <1>2, <2>2 DEF HookWrites, FundsTypeOK, CashoutTypeOK
  <2> QED
    BY <1>2, <2>1, <2>2 DEF HookWrites
<1>3. CASE UNCHANGED <<funds, cashoutVars>>
  BY <1>3 DEF cashoutVars, FundsTypeOK, CashoutTypeOK
<1> QED
  BY <1>1, <1>2, <1>3, PayoutTypes, DecisionTypes

LEMMA InputTypes ==
  ASSUME MerchantDeskTypeOK, MerchantDeskNext
  PROVE  inputs' \in [forms : 0..MaxForms, changes : 0..MaxChanges]
<1>1. inputs.forms \in 0..MaxForms /\ inputs.changes \in 0..MaxChanges
  BY DEF MerchantDeskTypeOK
<1>2. Opened \/ Changed \/ UNCHANGED inputs
  BY DEF MerchantDeskNext, OpenForm, SelectBank, TypeNumber, CloseForm, LoadBanks, LoadBanksFails, LoadPage,
     Resolve, ResolveEnds, ResolveFails, Save, Saved, SaveFails, ServerReads, CreateWrites, UpdateWrites,
     ServerRefuses, Ended
<1> QED
  BY <1>1, <1>2, MerchantDeskAssumption DEF Opened, Changed, MerchantDeskTypeOK

TypesInv == ScreensTypeOK /\ HistoryInv /\ DeskInv /\ CheckoutInv /\ FeesInv

LEMMA TypesStep == TypesInv /\ [ScreensNext]_screensVars => TypesInv'
<1> SUFFICES ASSUME TypesInv, [ScreensNext]_screensVars
             PROVE  TypesInv'
  OBVIOUS
<1>1. HistoryInv' /\ DeskInv' /\ CheckoutInv' /\ FeesInv'
  BY HistoryStep, DeskStep, CheckoutInvStep, FeesStep DEF TypesInv
<1>2. StatementTypeOK' /\ PayoutFeesTypeOK'
  <2>1. FeeTypes' /\ StatementTypeOK'
    BY <1>1 DEF HistoryInv, FeesInv
  <2>2. \A c \in Cashouts : heard'[c] \in Seq([message : Messages, fresh : BOOLEAN])
    BY <2>1 DEF FeeTypes
  <2>3. \A c \in Cashouts : ToSet(heard'[c]) \subseteq [message : Messages, fresh : BOOLEAN]
    BY <2>2, ElementsIn
  <2> QED
    BY <2>1, <2>3 DEF FeeTypes, PayoutFeesTypeOK
<1>3. MerchantDeskTypeOK'
  <2>1. MerchantDeskNext \/ UNCHANGED inputs
    BY DEF ScreensNext, PlayStatement, PlayMerchantDesk, PlayCashoutPage, PlayCashoutScreen,
           PlayCheckout, PlayPayoutFees, screensVars, deskVars
  <2>2. inputs' \in [forms : 0..MaxForms, changes : 0..MaxChanges]
    BY <2>1, InputTypes DEF TypesInv, ScreensTypeOK, MerchantDeskTypeOK
  <2>3. form' \in [Admins -> Form \cup {Closed}] /\ calls' \in [Admins -> Call \cup {Nothing}]
    <3>1. SoundForm \subseteq Form /\ SoundCall \subseteq Call
      BY DEF SoundForm, SoundCall
    <3>2. /\ form' \in [Admins -> SoundForm \cup {Closed}]
          /\ calls' \in [Admins -> SoundCall \cup {Nothing}]
      BY <1>1 DEF DeskInv
    <3> QED
      BY <3>1, <3>2
  <2> QED
    BY <1>1, <2>2, <2>3 DEF DeskInv, MerchantDeskTypeOK
<1>4. /\ FundsTypeOK /\ CashoutTypeOK /\ TopupTypeOK
      /\ CashoutPageTypeOK /\ CashoutScreenTypeOK /\ CheckoutTypeOK
  BY DEF TypesInv, ScreensTypeOK
<1>5. /\ FundsTypeOK' /\ CashoutTypeOK' /\ TopupTypeOK'
      /\ CashoutPageTypeOK' /\ CashoutScreenTypeOK' /\ CheckoutTypeOK'
  <2>1. UNCHANGED topupVars => TopupTypeOK'
    BY <1>4 DEF topupVars, TopupTypeOK
  <2>2. UNCHANGED pageVars => CashoutPageTypeOK'
    BY <1>4 DEF pageVars, CashoutPageTypeOK
  <2>3. UNCHANGED screenVars => CashoutScreenTypeOK'
    BY <1>4 DEF screenVars, CashoutScreenTypeOK
  <2>4. UNCHANGED checkoutVars => CheckoutTypeOK'
    BY <1>4 DEF checkoutVars, CheckoutTypeOK
  <2>5. UNCHANGED cashoutVars => CashoutTypeOK'
    BY <1>4 DEF cashoutVars, CashoutTypeOK
  <2>6. UNCHANGED funds => FundsTypeOK'
    BY <1>4 DEF FundsTypeOK
  <2>7. CASE UNCHANGED <<moneyVars, pageVars, screenVars, checkoutVars>>
    BY <2>1, <2>2, <2>3, <2>4, <2>5, <2>6, <2>7 DEF moneyVars
  <2>8. CASE PlayCashoutPage
    BY <1>4, <2>1, <2>3, <2>4, <2>8, PageTypes DEF PlayCashoutPage
  <2>9. CASE PlayCashoutScreen
    BY <1>4, <2>1, <2>2, <2>4, <2>9, CashoutScreenTypes DEF PlayCashoutScreen
  <2>10. CASE PlayCheckout /\ UNCHANGED scene
    BY <1>1, <2>2, <2>3, <2>5, <2>10 DEF PlayCheckout, CheckoutInv, ServerGood
  <2>11. CASE PlayPayoutFees
    BY <1>4, <2>1, <2>2, <2>3, <2>4, <2>11, FeeMoneyTypes DEF PlayPayoutFees
  <2> QED
    BY <2>7, <2>8, <2>9, <2>10, <2>11 DEF ScreensNext, PlayStatement, PlayMerchantDesk, screensVars
<1> QED
  BY <1>1, <1>2, <1>3, <1>5 DEF TypesInv, ScreensTypeOK

\* Every screen, request and row has its type in every scene, and no user's balance is
\* ever negative.
THEOREM ScreensAreTyped == ScreensSpec => []ScreensTypeOK
<1>1. ScreensInit => TypesInv
  BY TypesStart, HistoryStarts, DeskStarts, CheckoutStarts, FeesStart DEF TypesInv
<1>2. TypesInv => ScreensTypeOK
  BY DEF TypesInv
<1> QED
  BY <1>1, <1>2, TypesStep, PTL DEF ScreensSpec

=============================================================================
