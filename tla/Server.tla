-------------------------------- MODULE Server --------------------------------
(***************************************************************************)
(* The server as the two phones of an offline payment see it: PaymentLedger*)
(* with the claims being handled, the payments that are written off, and   *)
(* the money that comes and goes beside offline payments.                  *)
(*                                                                         *)
(* A claim passes the checks of its key and its deadline first and is paid *)
(* later, in a transaction that looks at neither again; Settlement shows   *)
(* the steps between.  It lives on when the phone that sent it is gone.    *)
(***************************************************************************)
EXTENDS LocalLedger, FiniteSets

CONSTANTS
  Student, Merchant,
  Cashouts         \* cashouts of the merchant, records with a field amount

ASSUME ServerAssumption ==
  /\ Payments \subseteq [sender : {Student}, to : {Merchant}, phone : Nat \ {0},
                         seq : Nat \ {0}, amount : Nat \ {0}]
  /\ Student # Merchant /\ Users = {Student, Merchant}
  /\ \A c \in Credits : c.user \in Users /\ c.amount \in Nat \ {0}
  /\ \A w \in Cashouts : w.amount \in Nat \ {0}
  /\ Credits \cap Cashouts = {}
  /\ IsFiniteSet(Credits) /\ IsFiniteSet(Cashouts)
  /\ MaxBalance \in Nat /\ InitialBalance \in [Users -> 0 .. MaxBalance]

VARIABLES
  issued,      \* payments that were signed
  closed,      \* payments no claim is taken of any more: too late, or of an old key
  claims,      \* payments of which a claim passed the checks and was not paid yet
  paidOut,     \* cashouts that were taken from the merchant's balance
  returned     \* those of them that failed and were given back

moneyVars  == <<ledgerVars, paidOut, returned>>
serverVars == <<moneyVars, issued, closed, claims>>

ServerInit ==
  /\ LedgerInit
  /\ issued = {}
  /\ closed = {}
  /\ claims = {}
  /\ paidOut = {}
  /\ returned = {}

-----------------------------------------------------------------------------
(***************************************************************************)
(* POST /reconcile                                                         *)
(***************************************************************************)

\* The checks before the transaction.
Admit(e) ==
  /\ e \notin closed
  /\ claims' = claims \cup {e}
  /\ UNCHANGED <<moneyVars, issued, closed>>

\* The transaction.
Commit(e) ==
  /\ e \in claims
  /\ Pay(e)
  /\ claims' = claims \ {e}
  /\ UNCHANGED <<issued, closed, paidOut, returned>>

\* The claim is refused, gives up, or the server restarts.  (Of several claims
\* of one payment some may go on.)
DropClaim(e) ==
  /\ e \in claims
  /\ claims' = claims \ {e}
  /\ UNCHANGED <<moneyVars, issued, closed>>

\* The claim window of a payment ends, or its key may no longer pay.  What
\* passed the checks is not stopped.
Close(e) ==
  /\ e \in issued \ (settled \cup closed)
  /\ closed' = closed \cup {e}
  /\ UNCHANGED <<moneyVars, issued, claims>>

\* What a claim is refused for, before the transaction or in it.
Refusable(e) ==
  /\ e \notin settled
  /\ e \in closed \/ NumberUsed(e) \/ ~Fundable(e) \/ ~Fits(e)

-----------------------------------------------------------------------------
(***************************************************************************)
(* POST /reconcile/status                                                  *)
(***************************************************************************)

\* Mutant: what is not paid yet is taken to be refused.
PaidOrNot(e) == IF e \in settled THEN "reconciled" ELSE "rejected"

\* Mutant: a payment that will not be made is not told.
PaidOrOpen(e) == IF e \in settled THEN "reconciled" ELSE "unknown"

\* A poll does not look for claims that are being handled.
Verdict(e) ==
  IF e \in settled THEN "reconciled"
  ELSE IF e \in closed THEN "rejected" ELSE "unknown"

-----------------------------------------------------------------------------
(***************************************************************************)
(* Money that comes and goes beside offline payments                       *)
(***************************************************************************)
TopUp(c) ==
  /\ Credit(c)
  /\ UNCHANGED <<issued, closed, claims, paidOut, returned>>

\* approveCashout takes the amount from the merchant.
CashOut(w) ==
  /\ w \notin paidOut
  /\ w.amount <= balance[Merchant]
  /\ paidOut' = paidOut \cup {w}
  /\ balance' = [balance EXCEPT ![Merchant] = @ - w.amount]
  /\ UNCHANGED <<settled, credited, returned, issued, closed, claims>>

\* A payout that fails, and a cashout that is cancelled, gives it back: no cap.
GiveBack(w) ==
  /\ w \in paidOut \ returned
  /\ returned' = returned \cup {w}
  /\ balance' = [balance EXCEPT ![Merchant] = @ + w.amount]
  /\ UNCHANGED <<settled, credited, paidOut, issued, closed, claims>>

\* What the merchant received in other ways than by offline payments.
OtherIncome == {c \in credited : c.user = Merchant} \cup returned

ServerStep ==
  \/ \E e \in Payments : Commit(e) \/ DropClaim(e) \/ Close(e)
  \/ \E c \in Credits : TopUp(c)
  \/ \E w \in Cashouts : CashOut(w) \/ GiveBack(w)

ServerTypeOK ==
  /\ settled \subseteq issued /\ issued \subseteq Payments
  /\ closed \subseteq issued /\ claims \subseteq issued
  /\ credited \subseteq Credits
  /\ returned \subseteq paidOut /\ paidOut \subseteq Cashouts
  /\ balance \in [Users -> Nat]
  /\ balance[Student] <= MaxBalance
  /\ balance[Merchant] <= MaxBalance + Total(returned)
=============================================================================
