----------------------------- MODULE LocalLedger -----------------------------
(***************************************************************************)
(* The SQLite table pending_transactions of one phone (ledger/db.ts): the  *)
(* payments a student's phone signed, or a merchant's phone scanned, each  *)
(* with what the phone knows of its fate.  A payment is its transactionId. *)
(***************************************************************************)
EXTENDS PaymentLedger, Integers, FiniteSetsExt, Functions

RowStatus == {"none", "pending", "reconciled", "rejected"}   \* none: no row
Rows      == [Payments -> RowStatus]
EmptyRows == [e \in Payments |-> "none"]

Pending(rows) == {e \in Payments : rows[e] = "pending"}

Total(payments)  == SumFunction([e \in payments |-> e.amount])
SumPending(rows) == Total(Pending(rows))

NextSequence(rows) == 1 + Max({0} \cup {e.seq : e \in {p \in Payments : rows[p] # "none"}})

\* The table has the id as its key: a second insert fails.
Insertable(rows, e) == rows[e] = "none"
Insert(rows, e)     == [rows EXCEPT ![e] = "pending"]

\* updateTransactionStatus for every answer: whatever the row says is
\* overwritten, and a row that is not there is not made.
Update(rows, answers) ==
  [e \in Payments |->
     IF e \in DOMAIN answers /\ answers[e] # "unknown" /\ rows[e] # "none"
       THEN answers[e] ELSE rows[e]]
=============================================================================
