------------------------------ MODULE CashoutPage ------------------------------
(***************************************************************************)
(* The cashout page of the admins, who approve, pay at their bank, and mark*)
(* as paid or cancel, each from a list of their own.                       *)
(*                                                                         *)
(* The server is Cashout; of its handlers the one that marks a cashout as  *)
(* paid is here in two steps, as it reads outside a transaction.           *)
(***************************************************************************)
EXTENDS Cashout

CONSTANT Operators  \* admins, each with the page open

VARIABLES
  page,   \* the page of each operator
  orders, \* what each operator asked the server for
  told    \* every notice that a page has shown

pageVars == <<page, orders, told>>

Kinds == {"approve", "pay", "cancel"}

Nobody == [at |-> "nothing"]
Orders  == [at : {"sent", "read", "done", "refused"}, kind : Kinds, cashout : Cashouts]
Listed == [cashout : Cashouts, status : {"PENDING", "PROCESSING"}]
Pages  == [at : {"loading", "ready", "working"}, list : SUBSET Listed]

CashoutPageInit ==
  /\ page = [o \in Operators |-> [at |-> "loading", list |-> {}]]
  /\ orders = [o \in Operators |-> Nobody]
  /\ told = {}

-----------------------------------------------------------------------------
(***************************************************************************)
(* GET /admin/cashouts/operations and the page                             *)
(***************************************************************************)
ManualQueue == {c \in Cashouts : cashouts[c].status = "PROCESSING" /\ cashouts[c].manual}

Operations ==
  {[cashout |-> c, status |-> cashouts[c].status] :
     c \in {d \in Cashouts : cashouts[d].status = "PENDING"} \cup ManualQueue}

LoadOperations(o) ==
  /\ page[o].at = "loading"
  /\ page' \in {[page EXCEPT ![o] = [at |-> "ready", list |-> Operations]],
                [page EXCEPT ![o].at = "ready"]}
  /\ UNCHANGED <<funds, cashoutVars, orders, told>>

\* The page is opened anew.
ReloadPage(o) ==
  /\ page[o].at = "ready"
  /\ page' = [page EXCEPT ![o] = [at |-> "loading", list |-> {}]]
  /\ UNCHANGED <<funds, cashoutVars, orders, told>>

\* A button of the list's row and its dialogue: approve those that are pending, mark
\* as paid or cancel those that are to be paid by hand.
MayPress(o, kind, c) ==
  [cashout |-> c, status |-> IF kind = "approve" THEN "PENDING" ELSE "PROCESSING"] \in page[o].list

Press(o, kind, c) ==
  /\ page[o].at = "ready" /\ MayPress(o, kind, c)
  /\ orders[o] = Nobody
  /\ page' = [page EXCEPT ![o].at = "working"]
  /\ orders' = [orders EXCEPT ![o] = [at |-> "sent", kind |-> kind, cashout |-> c]]
  /\ UNCHANGED <<funds, cashoutVars, told>>

\* The notice, and then the list again.
OrderSucceeds(o) ==
  /\ orders[o].at = "done" /\ page[o].at = "working"
  /\ told' = told \cup {[kind |-> orders[o].kind, cashout |-> orders[o].cashout]}
  /\ page' = [page EXCEPT ![o].at = "loading"]
  /\ orders' = [orders EXCEPT ![o] = Nobody]
  /\ UNCHANGED <<funds, cashoutVars>>

\* Refused, or the answer is lost and the server goes on: the old list stays.
OrderFails(o) ==
  /\ page[o].at = "working"
  /\ page' = [page EXCEPT ![o].at = "ready"]
  /\ UNCHANGED <<funds, cashoutVars, orders, told>>

OrderDropped(o) ==
  /\ orders[o].at \in {"done", "refused"} /\ page[o].at # "working"
  /\ orders' = [orders EXCEPT ![o] = Nobody]
  /\ UNCHANGED <<funds, cashoutVars, page, told>>

-----------------------------------------------------------------------------
(***************************************************************************)
(* approveCashout, markManualCashoutPaid, cancelManualCashout              *)
(***************************************************************************)
Wants(o, kind) == orders[o].at = "sent" /\ orders[o].kind = kind
Ordered(o, at)    == orders' = [orders EXCEPT ![o].at = at]
Offstage       == UNCHANGED <<page, told>>

Approves(o) ==
  /\ Wants(o, "approve")
  /\ \E mode \in Modes : ApproveCashout(orders[o].cashout, mode)
  /\ Ordered(o, "done")
  /\ Offstage

Waiting(c) == Processing(c) /\ cashouts[c].manual

MarkReads(o) ==
  /\ Wants(o, "pay")
  /\ Ordered(o, IF Waiting(orders[o].cashout) THEN "read" ELSE "refused")
  /\ UNCHANGED <<funds, cashoutVars>> /\ Offstage

\* Mutant: the update trusts what was read.
AsRead(c) ==
  /\ cashouts' = [cashouts EXCEPT ![c].status = "COMPLETED"]
  /\ UNCHANGED <<funds, refunds>>

MarksPaid(c) == Complete(c)

MarkWrites(o) ==
  /\ orders[o].at = "read"
  /\ \/ MarksPaid(orders[o].cashout) /\ Ordered(o, "done")
     \/ ~Processing(orders[o].cashout) /\ Ordered(o, "refused") /\ UNCHANGED <<funds, cashouts, refunds>>
  /\ UNCHANGED <<requesters, payouts, gateway>>
  /\ Offstage

\* One serializable transaction.
Cancels(o) ==
  /\ Wants(o, "cancel")
  /\ CancelManual(orders[o].cashout)
  /\ Ordered(o, "done")
  /\ Offstage

\* The status has changed, the money is not there, or the transaction fails.
OrderRefused(o) ==
  /\ orders[o].at \in {"sent", "read"}
  /\ Ordered(o, "refused")
  /\ UNCHANGED <<funds, cashoutVars>> /\ Offstage

-----------------------------------------------------------------------------
CashoutPageNext ==
  \/ \E o \in Operators :
       \/ \E kind \in Kinds, c \in Cashouts : Press(o, kind, c)
       \/ LoadOperations(o) \/ ReloadPage(o) \/ OrderSucceeds(o) \/ OrderFails(o) \/ OrderDropped(o)
       \/ Approves(o) \/ MarkReads(o) \/ MarkWrites(o) \/ Cancels(o) \/ OrderRefused(o)
  \/ /\ \E q \in Requesters : \/ \E m \in Merchants : RequestRead(q, m)
                            \/ RequestCheck(q)
                            \/ \E c \in Cashouts : RequestCreate(q, c)
     /\ UNCHANGED pageVars

CashoutPageTypeOK ==
  /\ page \in [Operators -> Pages]
  /\ orders \in [Operators -> Orders \cup {Nobody}]
  /\ told \subseteq [kind : Kinds, cashout : Cashouts]

\* NoticeTrue: what a page told an operator of a cashout stays so.  A cashout that
\* was "marked as paid" is completed and its merchant never has the money back; one
\* whose "merchant reservation" was "reversed" is refunded once and never completed,
\* although two operators act on lists that may be stale and lose answers
\* (markManualCashoutPaid, cancelManualCashout, PendingCashoutsPage).
NoticeTrue ==
  \A n \in told :
    LET mine == {r \in refunds : r.cashout = n.cashout} IN
    CASE n.kind = "approve" -> cashouts[n.cashout].status # "PENDING"
      [] n.kind = "pay"     -> cashouts[n.cashout].status = "COMPLETED" /\ mine = {}
      [] n.kind = "cancel"  -> /\ cashouts[n.cashout].status = "FAILED"
                               /\ mine = {[cashout |-> n.cashout, by |-> "manual_cancel"]}
=============================================================================
