-------------------------------- MODULE Wallet --------------------------------
(***************************************************************************)
(* The student's phone between a signature and its settlement.             *)
(*                                                                         *)
(* The phone spends offline: it signs while its last known balance, less   *)
(* what it signed and does not know to be final, covers the amount.  When  *)
(* it is online a refresh polls the fate of pending payments, batch after  *)
(* batch, and then fetches the balance.  Nothing orders two refreshes: the *)
(* home screen starts one when it is shown, every 30 s, on a pull and when *)
(* it polls for pending payments, and the confirm screen one more.         *)
(*                                                                         *)
(* A request is answered in one step and its answer may take any time to   *)
(* arrive, or get lost.                                                    *)
(***************************************************************************)
EXTENDS Server

CONSTANTS
  MaxPhones,       \* bound: phones the student uses one after the other
  Amounts,         \* what a payment may cost
  Refreshes,       \* refreshes in flight at once (bound)
  Batch            \* payments per request, 50 in the code

ASSUME WalletAssumption ==
  /\ \A e \in Payments : e.phone <= MaxPhones /\ e.amount \in Amounts
  /\ Amounts \subseteq Nat \ {0}
  /\ MaxPhones \in Nat \ {0} /\ Batch \in Nat \ {0}

VARIABLES
  phone,       \* the phone the student uses
  rows,        \* its table of outgoing payments
  stored,      \* its available_balance_kobo, with the payments it accounts for
  refreshes    \* how far every refresh has come

walletVars == <<phone, rows, stored, refreshes>>

None == [made |-> {}]                           \* never synchronised
Snapshot == [available : Nat, made : SUBSET Payments]
Batches(todo) == {b \in SUBSET todo : Cardinality(b) = Min({Batch, Cardinality(todo)})}
Answers(asked) == UNION {[b -> {"reconciled", "rejected", "unknown"}] : b \in SUBSET asked}

Idle == [at |-> "idle"]
Refresh ==
  {Idle, [at |-> "polled"]}
    \cup [at : {"asking"}, todo : SUBSET Payments]
    \cup [at : {"answered"}, todo : SUBSET Payments, answers : Answers(Payments)]
    \cup [at : {"fetched"}, me : Snapshot]

WalletInit ==
  /\ ServerInit
  /\ phone = 1
  /\ rows = EmptyRows
  /\ stored = None
  /\ refreshes = [r \in Refreshes |-> Idle]

-----------------------------------------------------------------------------
(***************************************************************************)
(* Paying: pay/scan, pay/confirm and buildAndSignEnvelope                  *)
(***************************************************************************)

\* Mutant: what is pending is not set aside.
WholeStored == stored.available

Spendable == stored.available - SumPending(rows)

Signed(amount) ==
  [sender |-> Student, to |-> Merchant, phone |-> phone,
   seq |-> NextSequence(rows), amount |-> amount]

\* The PIN unlocked the key.  Whatever the screen read before that, and shows,
\* buildAndSignEnvelope reads the balance and the table now, and from here to
\* the inserted row nothing else runs.
Sign(amount) ==
  /\ stored # None
  /\ Spendable >= amount
  /\ LET e == Signed(amount) IN
       /\ e \in Payments      \* bound
       /\ Insertable(rows, e)
       /\ rows' = Insert(rows, e)
       /\ issued' = issued \cup {e}
  /\ UNCHANGED <<moneyVars, closed, claims, phone, stored, refreshes>>

-----------------------------------------------------------------------------
(***************************************************************************)
(* getStudentBalanceProjection: the poll, the profile, the stored balance  *)
(***************************************************************************)
Advance(r, next) == refreshes' = [refreshes EXCEPT ![r] = next]

Ask(todo) == IF todo = {} THEN [at |-> "polled"] ELSE [at |-> "asking", todo |-> todo]

BeginRefresh(r) ==
  /\ refreshes[r] = Idle
  /\ Advance(r, Ask(Pending(rows)))
  /\ UNCHANGED <<serverVars, phone, rows, stored>>

\* The home screen polls for pending payments when it comes online, and again
\* after a cool-down or when the student asks: a refresh like the others.
SyncOutgoing(r) ==
  /\ Pending(rows) # {}
  /\ BeginRefresh(r)

\* POST /reconcile/status, and what the phone makes of the answer.
AnswerBatch(r) ==
  /\ refreshes[r].at = "asking"
  /\ \E b \in Batches(refreshes[r].todo) :
       Advance(r, [at |-> "answered", todo |-> refreshes[r].todo \ b,
                   answers |-> [e \in b |-> Verdict(e)]])
  /\ UNCHANGED <<serverVars, phone, rows, stored>>

TakeAnswers(r) ==
  /\ refreshes[r].at = "answered"
  /\ rows' = Update(rows, refreshes[r].answers)
  /\ Advance(r, Ask(refreshes[r].todo))
  /\ UNCHANGED <<serverVars, phone, stored>>

\* The poll gives up; what earlier batches brought is kept and the balance is
\* fetched all the same.
PollFails(r) ==
  /\ refreshes[r].at \in {"asking", "answered"}
  /\ Advance(r, [at |-> "polled"])
  /\ UNCHANGED <<serverVars, phone, rows, stored>>

AnswerMe(r) ==
  /\ refreshes[r].at = "polled"
  /\ Advance(r, [at |-> "fetched",
                 me |-> [available |-> balance[Student], made |-> settled]])
  /\ UNCHANGED <<serverVars, phone, rows, stored>>

StoreBalance(r) ==
  /\ refreshes[r].at = "fetched"
  /\ stored' = refreshes[r].me
  /\ Advance(r, Idle)
  /\ UNCHANGED <<serverVars, phone, rows>>

\* The profile does not arrive: the stored balance stays in use.
FetchFails(r) ==
  /\ refreshes[r].at \in {"polled", "fetched"}
  /\ Advance(r, Idle)
  /\ UNCHANGED <<serverVars, phone, rows, stored>>

-----------------------------------------------------------------------------
Forget == refreshes' = [r \in Refreshes |-> Idle]

\* The app is killed: what is in SQLite stays.
KillWallet ==
  /\ Forget
  /\ UNCHANGED <<serverVars, phone, rows, stored>>

\* The student moves to a new phone, whose table starts empty.  No new claim of
\* the old key is paid, for a move places no hold; one that read the key before
\* goes on.  (A recovery places one, and leaves the new phone what it does not
\* reserve: Settlement.)
NewPhone ==
  /\ phone < MaxPhones
  /\ phone' = phone + 1
  /\ rows' = EmptyRows
  /\ stored' = None
  /\ Forget
  /\ closed' = closed \cup (issued \ settled)
  /\ UNCHANGED <<moneyVars, issued, claims>>

WalletStep ==
  \/ \E a \in Amounts : Sign(a)
  \/ \E r \in Refreshes :
       \/ BeginRefresh(r)
       \/ SyncOutgoing(r)
       \/ AnswerBatch(r)
       \/ TakeAnswers(r)
       \/ PollFails(r)
       \/ AnswerMe(r)
       \/ StoreBalance(r)
       \/ FetchFails(r)
  \/ KillWallet
  \/ NewPhone

WalletTypeOK ==
  /\ ServerTypeOK
  /\ phone \in 1 .. MaxPhones
  /\ rows \in Rows
  /\ stored \in Snapshot \cup {None}
  /\ refreshes \in [Refreshes -> Refresh]
=============================================================================
