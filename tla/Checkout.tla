------------------------------- MODULE Checkout -------------------------------
(***************************************************************************)
(* The student's checkout: the screen asks the server for a top-up, shows  *)
(* the gateway's page, and polls the server until it says how the payment  *)
(* ended.  The server is Topup; the poll is one of its finalizers, and the *)
(* webhooks, and the polls of screens that were left, are the others.      *)
(***************************************************************************)
EXTENDS Topup

VARIABLES
  checkout, \* the screen of the student
  poll,     \* checkTopupStatus in flight, and how far it has got
  paidFor   \* top-ups whose success the student was shown

checkoutVars == <<checkout, poll, paidFor>>

Amount  == [at |-> "amount"]
Starting == [at |-> "starting"]
Shows(t, status) == [at |-> "checkout", topup |-> t, status |-> status]
Views   == {Amount, Starting}
             \cup {Shows(t, s) : t \in Topups, s \in {"idle", "pending", "success", "failed"}}

NoPoll == [at |-> "nothing"]
Polls  == {NoPoll}
            \cup [at : {"sent"}, topup : Topups]
            \cup [at : {"served"}, topup : Topups, by : Finalizers]
            \cup [at : {"answered"}, topup : Topups, status : {"PENDING", "SUCCESS", "FAILED", "ERROR"}]

CheckoutInit ==
  /\ checkout = Amount
  /\ poll = NoPoll
  /\ paidFor = {}

-----------------------------------------------------------------------------
(***************************************************************************)
(* The screens: amount.tsx and checkout.tsx                                *)
(***************************************************************************)
HandleTopup ==
  /\ checkout = Amount
  /\ checkout' = Starting
  /\ UNCHANGED <<funds, topupVars, poll, paidFor>>

\* The row is there, and the screen has the page of the gateway, or its answer is
\* lost and the student has only the row.
TopupRequested(t) ==
  /\ checkout = Starting
  /\ Initiate(t)
  /\ checkout' \in {Shows(t, "idle"), Amount}
  /\ UNCHANGED <<poll, paidFor>>

TopupRefused ==
  /\ checkout = Starting
  /\ checkout' = Amount
  /\ UNCHANGED <<funds, topupVars, poll, paidFor>>

On(t) == checkout.at = "checkout" /\ checkout.topup = t

\* The student pays on the gateway's page, and no charge is paid without it.
PaysHere(t) ==
  /\ ChargeEnds(t)
  /\ On(t) \/ charges'[t] = Failed
  /\ UNCHANGED checkoutVars

\* checkTopupStatus: by the button, by either back button, one at a time.
CheckTopupStatus(t) ==
  /\ On(t) /\ checkout.status # "success"
  /\ poll = NoPoll
  /\ poll' = [at |-> "sent", topup |-> t]
  /\ UNCHANGED <<funds, topupVars, checkout, paidFor>>

StatusShown(status) ==
  CASE status = "SUCCESS" -> "success" [] status = "FAILED" -> "failed" [] OTHER -> "pending"

ApplyTopupStatus ==
  /\ poll.at = "answered" /\ poll.status # "ERROR"
  /\ poll' = NoPoll
  /\ checkout' = Shows(poll.topup, StatusShown(poll.status))
  /\ paidFor' = IF poll.status = "SUCCESS" THEN paidFor \cup {poll.topup} ELSE paidFor
  /\ UNCHANGED <<funds, topupVars>>

CheckFails ==
  /\ poll.at = "answered"
  /\ poll' = NoPoll
  /\ UNCHANGED <<funds, topupVars, checkout, paidFor>>

\* Only the dialogues have a way out.  A poll that is in flight answers nobody then.
Leave ==
  /\ checkout.at = "checkout" /\ checkout.status # "idle"
  /\ checkout' = Amount
  /\ poll' = NoPoll
  /\ UNCHANGED <<funds, topupVars, paidFor>>

-----------------------------------------------------------------------------
(***************************************************************************)
(* GET /topup/status/:reference                                            *)
(***************************************************************************)
Answers(status) == poll' = [at |-> "answered", topup |-> poll.topup, status |-> status]

GetStatusForUser ==
  /\ poll.at = "sent"
  /\ \/ /\ topups[poll.topup] # "PENDING"
        /\ Answers(topups[poll.topup])
        /\ UNCHANGED <<funds, topupVars>>
     \/ \E f \in Finalizers :
          /\ StartFinalizing(f, poll.topup, FALSE)
          /\ poll' = [at |-> "served", topup |-> poll.topup, by |-> f]
  /\ UNCHANGED <<checkout, paidFor>>

Mine(f) == poll.at = "served" /\ poll.by = f

\* Mutant: what the gateway confirmed is taken for what the row says.
Confirmed(t) == "SUCCESS"

\* What the transaction left in the row, by whomever.
LatestStatus(t) == topups'[t]

\* One step of a finalizer; the poll's own one answers when it is through.
Finalizes(f) ==
  \/ /\ Verify(f)
     /\ IF Mine(f) /\ finalizers'[f] = NoCall THEN Answers("PENDING") ELSE UNCHANGED poll
  \/ /\ Refuse(f)
     /\ IF Mine(f) THEN Answers("FAILED") ELSE UNCHANGED poll
  \/ /\ CreditPending(f)
     /\ IF Mine(f) THEN Answers(LatestStatus(poll.topup)) ELSE UNCHANGED poll
  \/ /\ FinalizerFails(f)
     /\ IF Mine(f) THEN Answers("ERROR") ELSE UNCHANGED poll

-----------------------------------------------------------------------------
CheckoutNext ==
  \/ HandleTopup \/ TopupRefused \/ ApplyTopupStatus \/ CheckFails \/ Leave \/ GetStatusForUser
  \/ \E t \in Topups : TopupRequested(t) \/ PaysHere(t) \/ CheckTopupStatus(t)
  \/ \E f \in Finalizers : Finalizes(f) /\ UNCHANGED <<checkout, paidFor>>
  \/ /\ \E f \in Finalizers, t \in Topups :
          FailedChargeHook(f, t) \/ \E hook \in BOOLEAN : StartFinalizing(f, t, hook)
     /\ UNCHANGED checkoutVars

CheckoutTypeOK ==
  /\ checkout \in Views
  /\ poll \in Polls
  /\ paidFor \subseteq Topups

\* SuccessIsCredited: a student who was shown TOP UP SUCCESSFUL paid what the
\* top-up is worth and has it in the balance, for as long as the screen says so and after,
\* although the gateway's confirmation, the cap and the webhooks race with the poll that
\* was answered (resolveCheckoutStatusState, creditVerifiedPendingTopup).
SuccessIsCredited ==
  /\ checkout.at = "checkout" /\ checkout.status = "success" => checkout.topup \in paidFor
  /\ \A t \in paidFor : /\ t \in credits
                        /\ charges[t].report.gross >= t.amount
  /\ \A t \in paidFor : On(t) => checkout.status = "success"
=============================================================================
