----------------------------- MODULE Settlement -----------------------------
(***************************************************************************)
(* Offline payments reach the ledger: ReconcileService.                    *)
(*                                                                         *)
(* A student's phone signs an envelope; a merchant's phone scans it and    *)
(* later submits it to POST /reconcile; the student's phone polls the      *)
(* outcome at POST /reconcile/status.  Keys move and accounts are        *)
(* recovered meanwhile (KeyRegistry), and top-ups are credited.            *)
(*                                                                         *)
(* Neither handler is atomic.  reconcileOneInternal reads the clock and the*)
(* sender's key, then the resolution and the balance, then runs one        *)
(* SERIALIZABLE transaction that may abort and be retried.  A poll looks   *)
(* for the debit, then for the resolution, then checks the key and may     *)
(* record the expiry in a transaction.  A batch is one envelope after the  *)
(* other.  An envelope stands for its transactionId, a hash of its draft,  *)
(* so two envelopes are equal iff their ids are.                           *)
(*                                                                         *)
(* The checks that the sender is neither FROZEN nor FLAGGED have no place  *)
(* here: no code gives a student either status (AdminService freezes       *)
(* merchants alone, and nothing writes FLAGGED).                           *)
(***************************************************************************)
EXTENDS KeyRegistry

CONSTANTS
  Envelopes,    \* signed payments, with fields sender, key, to, seq, amount, ts
  Topups,       \* PaymentTopup rows, with fields user and amount
  Calls,        \* reconcile requests in flight at once (bound)
  MaxRetries,   \* attempts at the reconcile transaction, 3 in the code
  MaxBalance,   \* MAX_USER_BALANCE_KOBO
  ClaimWindow,  \* OFFLINE_CLAIM_WINDOW_HOURS
  Skew,         \* CLOCK_SKEW_TOLERANCE_SECONDS
  PhoneDrift,   \* how far a phone's clock is from the server's
  Outages       \* assume the database connection may fail during a call

ASSUME SettlementAssumption ==
  /\ \A e \in Envelopes :
       /\ e.sender \in Students /\ e.to \in Merchants
       /\ e.key \in Keys /\ KeyOwner[e.key] = e.sender
       /\ e.seq \in Nat /\ e.amount \in Nat \ {0} /\ e.ts \in Nat
  /\ \A p \in Topups : p.user \in Users /\ p.amount \in Nat \ {0}
  /\ Envelopes \cap Topups = {}
  /\ MaxRetries \in Nat \ {0}
  /\ MaxBalance \in Nat
  /\ \A u \in Users : InitialBalance[u] <= MaxBalance
  /\ ClaimWindow \in Nat /\ Skew \in Nat /\ PhoneDrift \in Nat
  /\ Outages \in BOOLEAN

VARIABLES
  approved,      \* merchants that are ACTIVE and verified
  ledger,        \* LedgerEntry rows of payments and top-ups
  processed,     \* ProcessedSequence rows, by the transaction they name
  expired,       \* OfflinePaymentResolution rows (EXPIRED_UNCLAIMED)
  topups,        \* PaymentTopup.status
  calls,         \* what each reconcile call in flight has read
  polls,         \* how far the poll of a payment has read (bound: one each)
  signed,        \* envelopes that exist
  merchantView,  \* status of the payment on the merchant's phone
  studentView    \* status of the payment on the student's phone

serverRows  == <<approved, ledger, processed, expired, topups>>
phoneVars   == <<signed, merchantView, studentView>>
paymentVars == <<serverRows, calls, polls, phoneVars>>
vars == <<registryVars, paymentVars>>

Row(x, u, t) == [tx |-> x, user |-> u, type |-> t]
DebitRow(e)  == Row(e, e.sender, "DEBIT")
CreditRow(e) == Row(e, e.to, "CREDIT")
Settled(e)   == {DebitRow(e), CreditRow(e)} \subseteq ledger

Free == [stage |-> "free"]
ReconcileCall ==
  {Free}
    \cup [stage : {"keyRead"}, env : Envelopes, at : Time,
          active : BOOLEAN, covered : BOOLEAN]
    \cup [stage : {"checked"}, env : Envelopes, active : BOOLEAN,
          tries : 0 .. MaxRetries - 1]

PaymentTypeOK ==
  /\ approved \subseteq Merchants
  /\ ledger \subseteq [tx : Envelopes \cup Topups, user : Users, type : {"DEBIT", "CREDIT"}]
  /\ processed \subseteq Envelopes
  /\ expired \subseteq Envelopes
  /\ topups \in [Topups -> {"PENDING", "SUCCESS", "FAILED"}]
  /\ calls \in [Calls -> ReconcileCall]
  /\ polls \in [Envelopes -> {"idle", "noDebit", "noResolution"}]
  /\ signed \subseteq Envelopes
  /\ merchantView \in [Envelopes -> {"pending", "reconciled", "rejected"}]
  /\ studentView \in
       [Envelopes -> {"pending", "reconciled", "expired_unclaimed", "rejected"}]

TypeOK ==
  /\ RegistryTypeOK
  /\ \A u \in Users : balance[u] <= MaxBalance
  /\ PaymentTypeOK

Init ==
  /\ RegistryInit
  /\ approved = Merchants
  /\ ledger = {}
  /\ processed = {}
  /\ expired = {}
  /\ topups = [p \in Topups |-> "PENDING"]
  /\ calls = [c \in Calls |-> Free]
  /\ polls = [e \in Envelopes |-> "idle"]
  /\ signed = {}
  /\ merchantView = [e \in Envelopes |-> "pending"]
  /\ studentView = [e \in Envelopes |-> "pending"]

-----------------------------------------------------------------------------
(***************************************************************************)
(* Checks of the service                                                   *)
(***************************************************************************)

\* getDeviceKeyRejectionReason, and the lookup before it.
KeyRefuses(e, t) ==
  LET row == keys[e.key] IN
    \/ row.status \in {"NONE", "REVOKED"}
    \/ /\ row.status = "VERIFY_ONLY"
       /\ \/ row.retiredAt = Never
          \/ e.ts > row.retiredAt
          \/ row.verifyUntil # Never /\ t > row.verifyUntil

\* What is left of verifyEnvelope for an envelope a phone really signed.
FromTheFuture(e, t) == e.ts > t + Skew

Refused(e, t) == KeyRefuses(e, t) \/ FromTheFuture(e, t)

\* Mutant: the claim window never closes.
NoDeadline(e, t) == FALSE

\* The time is past getClaimDeadlineMs.
TooLate(e, t) == t > e.ts + ClaimWindow

\* Mutant: only the transaction id is looked up.
SameTransaction(e) == processed \cap {e}

\* The ProcessedSequence row with the sender and the sequence number of e.
SequenceOwner(e) == {p \in processed : p.sender = e.sender /\ p.seq = e.seq}

\* Mutant: a used sequence number is taken for a replay.
SequenceUsed(e) == SequenceOwner(e) # {}

\* detectExistingReconcileReplay: the number was used by this very payment.
SettledReplay(e) == e \in SequenceOwner(e) /\ Settled(e)

\* The condition under which recordExpiredUnclaimedIfStillPending inserts.
StillPending(e) == e \notin expired /\ ~Settled(e)

-----------------------------------------------------------------------------
(***************************************************************************)
(* Phones                                                                  *)
(***************************************************************************)

\* The sender's phone signs; its clock is off by at most PhoneDrift.
Sign(e) ==
  /\ e \notin signed
  /\ keys[e.key].status # "NONE"
  /\ e.ts \in now - PhoneDrift .. now + PhoneDrift
  /\ signed' = signed \cup {e}
  /\ UNCHANGED <<registryVars, serverRows, calls, polls, merchantView, studentView>>

\* The answer to the merchant's phone arrives, or is lost on the way.
Answer(e, status) ==
  /\ \/ merchantView' = [merchantView EXCEPT ![e] = status]
     \/ merchantView' = merchantView
  /\ UNCHANGED <<signed, studentView>>

\* The answer to the student's phone, likewise.
AnswerPoll(e, status) ==
  /\ \/ studentView' = [studentView EXCEPT ![e] = status]
     \/ studentView' = studentView
  /\ polls' = [polls EXCEPT ![e] = "idle"]
  /\ UNCHANGED <<signed, merchantView>>

-----------------------------------------------------------------------------
(***************************************************************************)
(* POST /reconcile, one envelope                                           *)
(***************************************************************************)

\* A request that passed JwtAuthGuard, which a frozen merchant's does not.
Submittable(e) == e \in signed /\ merchantView[e] = "pending"

\* Mutant: the key and the signing time are not looked at.
ClaimUnchecked(c, e) ==
  /\ calls[c] = Free
  /\ Submittable(e)
  /\ e.to \in approved
  /\ calls' = [calls EXCEPT ![c] =
       [stage |-> "keyRead", env |-> e, at |-> now, active |-> TRUE,
        covered |-> balance[e.sender] >= e.amount]]
  /\ UNCHANGED <<registryVars, serverRows, polls, phoneVars>>

BeginReconcile(c, e) ==
  /\ calls[c] = Free
  /\ Submittable(e)
  /\ e.to \in approved
  /\ ~Refused(e, now)
  /\ calls' = [calls EXCEPT ![c] =
       [stage |-> "keyRead", env |-> e, at |-> now,
        active |-> keys[e.key].status = "ACTIVE",
        covered |-> balance[e.sender] >= e.amount]]
  /\ UNCHANGED <<registryVars, serverRows, polls, phoneVars>>

\* The merchant was deactivated after the guard let the request pass.
RefuseRecipient(e) ==
  /\ Submittable(e)
  /\ e.to \notin approved
  /\ Answer(e, "rejected")
  /\ UNCHANGED <<registryVars, serverRows, calls, polls>>

RefuseKeyOrTime(e) ==
  /\ Submittable(e)
  /\ e.to \in approved
  /\ Refused(e, now)
  /\ Answer(e, "rejected")
  /\ UNCHANGED <<registryVars, serverRows, calls, polls>>

Finish(c, status) ==
  /\ Answer(calls[c].env, status)
  /\ calls' = [calls EXCEPT ![c] = Free]

\* The balance check before the transaction; for an old key it is made on the
\* sender row read at the beginning.
LooksFunded(call) ==
  IF call.active THEN Available(call.env.sender, call.at) >= call.env.amount
                 ELSE call.covered

ClaimOpen(call) == call.env \notin expired /\ ~TooLate(call.env, call.at)

CheckClaim(c) ==
  /\ calls[c].stage = "keyRead"
  /\ ClaimOpen(calls[c])
  /\ LooksFunded(calls[c])
  /\ calls' = [calls EXCEPT ![c] =
       [stage |-> "checked", env |-> calls[c].env, active |-> calls[c].active, tries |-> 0]]
  /\ UNCHANGED <<registryVars, serverRows, polls, phoneVars>>

RefuseUnfunded(c) ==
  /\ calls[c].stage = "keyRead"
  /\ ClaimOpen(calls[c])
  /\ ~LooksFunded(calls[c])
  /\ Finish(c, "rejected")
  /\ UNCHANGED <<registryVars, serverRows, polls>>

\* The row is there, or the claim is late and another transaction inserted it.
RefuseResolved(c) ==
  /\ calls[c].stage = "keyRead"
  /\ calls[c].env \in expired
  /\ Finish(c, "rejected")
  /\ UNCHANGED <<registryVars, serverRows, polls>>

\* recordExpiredUnclaimedIfStillPending, for a claim that is too late.
ExpireLateClaim(c) ==
  /\ calls[c].stage = "keyRead"
  /\ LET e == calls[c].env IN
       /\ TooLate(e, calls[c].at)
       /\ \/ Settled(e) /\ Finish(c, "reconciled") /\ UNCHANGED expired
          \/ StillPending(e) /\ Finish(c, "rejected") /\ expired' = expired \cup {e}
  /\ UNCHANGED <<registryVars, approved, ledger, processed, topups, polls>>

\* The sequence number is used.  The unique conflict of a transaction that
\* lost a race is resolved the same way.
CommitReplay(c) ==
  /\ calls[c].stage = "checked"
  /\ LET e == calls[c].env IN
       /\ SequenceOwner(e) # {}
       /\ \/ SettledReplay(e) /\ Finish(c, "reconciled")
          \/ ~SettledReplay(e) /\ Finish(c, "rejected")
  /\ UNCHANGED <<registryVars, serverRows, polls>>

\* A key that was ACTIVE as this call read it spends what no hold reserves;
\* an old key spends its hold.
FundedByAccount(call) ==
  call.active /\ Available(call.env.sender, now) >= call.env.amount

\* Mutant: any running hold will do.
AnyHold(call, r) == ~call.active /\ r \in OldestHolds(call.env.key, now)

FundedByHold(call, r) ==
  /\ ~call.active
  /\ r \in OldestHolds(call.env.key, now)
  /\ Remaining(r) >= call.env.amount

Funded(call) ==
  /\ balance[call.env.sender] >= call.env.amount
  /\ FundedByAccount(call) \/ \E r \in Requests : FundedByHold(call, r)

\* Mutant: the balance cap is not looked at.
Uncapped(e) == e.to \in approved

Payable(e) ==
  /\ e.to \in approved
  /\ balance[e.to] + e.amount <= MaxBalance

Draw(call) ==
  \/ call.active /\ UNCHANGED holds
  \/ \E r \in Requests :
       /\ FundedByHold(call, r)
       /\ holds' = [holds EXCEPT ![r].consumed = @ + call.env.amount]

\* Mutant: the sender is not charged.
Gift(e) == [balance EXCEPT ![e.to] = @ + e.amount]

Transfer(e) == [balance EXCEPT ![e.sender] = @ - e.amount, ![e.to] = @ + e.amount]

\* With an outage the commit goes through and its acknowledgement is lost,
\* which the catch clause reports as a rejected envelope.
Settle(c) ==
  /\ calls[c].stage = "checked"
  /\ LET e == calls[c].env IN
       /\ SequenceOwner(e) = {}
       /\ Funded(calls[c])
       /\ Payable(e)
       /\ Draw(calls[c])
       /\ processed' = processed \cup {e}
       /\ ledger' = ledger \cup {DebitRow(e), CreditRow(e)}
       /\ balance' = Transfer(e)
  /\ Finish(c, "reconciled") \/ (Outages /\ Finish(c, "rejected"))
  /\ UNCHANGED <<now, keys, mirror, requests, keyCalls, approved, expired, topups, polls>>

\* The transaction throws and rolls back.
RefuseCommit(c) ==
  /\ calls[c].stage = "checked"
  /\ SequenceOwner(calls[c].env) = {}
  /\ ~(Funded(calls[c]) /\ Payable(calls[c].env))
  /\ Finish(c, "rejected")
  /\ UNCHANGED <<registryVars, serverRows, polls>>

\* A serialization failure (P2034) is retried, MaxRetries attempts in all.
Retry(c) ==
  /\ calls[c].stage = "checked"
  /\ calls[c].tries + 1 < MaxRetries
  /\ calls' = [calls EXCEPT ![c].tries = @ + 1]
  /\ UNCHANGED <<registryVars, serverRows, polls, phoneVars>>

\* The last attempt fails, recording an expiry fails, or the server restarts:
\* the merchant's phone gets no result.
GiveUp(c) ==
  /\ calls[c] # Free
  /\ calls' = [calls EXCEPT ![c] = Free]
  /\ UNCHANGED <<registryVars, serverRows, polls, phoneVars>>

\* Any other database error is reported as a rejected envelope.
InternalError(c) ==
  /\ Outages
  /\ calls[c] # Free
  /\ Finish(c, "rejected")
  /\ UNCHANGED <<registryVars, serverRows, polls>>

-----------------------------------------------------------------------------
(***************************************************************************)
(* POST /reconcile/status, one payment                            *)
(***************************************************************************)

Polling(e) == e \in signed /\ studentView[e] = "pending" /\ polls[e] = "idle"

PollSettled(e) ==
  /\ Polling(e)
  /\ DebitRow(e) \in ledger
  /\ AnswerPoll(e, "reconciled")
  /\ UNCHANGED <<registryVars, serverRows, calls>>

PollNoDebit(e) ==
  /\ Polling(e)
  /\ DebitRow(e) \notin ledger
  /\ polls' = [polls EXCEPT ![e] = "noDebit"]
  /\ UNCHANGED <<registryVars, serverRows, calls, phoneVars>>

PollResolved(e) ==
  /\ polls[e] = "noDebit"
  /\ e \in expired
  /\ AnswerPoll(e, "expired_unclaimed")
  /\ UNCHANGED <<registryVars, serverRows, calls>>

PollNoResolution(e) ==
  /\ polls[e] = "noDebit"
  /\ e \notin expired
  /\ polls' = [polls EXCEPT ![e] = "noResolution"]
  /\ UNCHANGED <<registryVars, serverRows, calls, phoneVars>>

PollRefused(e) ==
  /\ polls[e] = "noResolution"
  /\ Refused(e, now)
  /\ AnswerPoll(e, "rejected")
  /\ UNCHANGED <<registryVars, serverRows, calls>>

\* unknown_pending: the phone keeps the payment pending.
PollTooEarly(e) ==
  /\ polls[e] = "noResolution"
  /\ ~Refused(e, now)
  /\ ~TooLate(e, now)
  /\ AnswerPoll(e, "pending")
  /\ UNCHANGED <<registryVars, serverRows, calls>>

\* The poll fails on the way: the phone changes nothing and polls again.
PollFails(e) ==
  /\ polls[e] # "idle"
  /\ AnswerPoll(e, "pending")
  /\ UNCHANGED <<registryVars, serverRows, calls>>

\* recordExpiredUnclaimedIfStillPending, for a poll.
PollLate(e) ==
  /\ polls[e] = "noResolution"
  /\ ~Refused(e, now)
  /\ TooLate(e, now)
  /\ \/ Settled(e) /\ AnswerPoll(e, "reconciled") /\ UNCHANGED expired
     \/ /\ ~Settled(e)
        /\ e \in expired
        /\ AnswerPoll(e, "expired_unclaimed")
        /\ UNCHANGED expired
     \/ StillPending(e) /\ AnswerPoll(e, "expired_unclaimed") /\ expired' = expired \cup {e}
  /\ UNCHANGED <<registryVars, approved, ledger, processed, topups, calls>>

-----------------------------------------------------------------------------
(***************************************************************************)
(* AdminService.deactivateMerchant and reactivateMerchant, and the credit  *)
(* of a verified top-up (its other side is the operating account).         *)
(***************************************************************************)
DeactivateMerchant(m) ==
  /\ m \in approved
  /\ approved' = approved \ {m}
  /\ UNCHANGED <<registryVars, ledger, processed, expired, topups, calls, polls, phoneVars>>

ReactivateMerchant(m) ==
  /\ m \in Merchants \ approved
  /\ approved' = approved \cup {m}
  /\ UNCHANGED <<registryVars, ledger, processed, expired, topups, calls, polls, phoneVars>>

CreditTopup(p) ==
  /\ topups[p] = "PENDING"
  /\ \/ /\ balance[p.user] + p.amount <= MaxBalance
        /\ topups' = [topups EXCEPT ![p] = "SUCCESS"]
        /\ balance' = [balance EXCEPT ![p.user] = @ + p.amount]
        /\ ledger' = ledger \cup {Row(p, p.user, "CREDIT")}
     \/ /\ balance[p.user] + p.amount > MaxBalance
        /\ topups' = [topups EXCEPT ![p] = "FAILED"]
        /\ UNCHANGED <<balance, ledger>>
  /\ UNCHANGED <<now, keys, mirror, requests, holds, keyCalls, approved, processed,
                 expired, calls, polls, phoneVars>>

-----------------------------------------------------------------------------
ReconcileStep(c) ==
  \/ \E e \in Envelopes : BeginReconcile(c, e)
  \/ CheckClaim(c)
  \/ RefuseUnfunded(c)
  \/ RefuseResolved(c)
  \/ ExpireLateClaim(c)
  \/ CommitReplay(c)
  \/ Settle(c)
  \/ RefuseCommit(c)
  \/ Retry(c)
  \/ GiveUp(c)
  \/ InternalError(c)

PollReads(e) == PollNoDebit(e) \/ PollNoResolution(e) \/ PollTooEarly(e)
PollEnds(e)  == PollSettled(e) \/ PollResolved(e) \/ PollRefused(e) \/ PollLate(e)

PhoneStep(e) ==
  \/ Sign(e)
  \/ RefuseRecipient(e)
  \/ RefuseKeyOrTime(e)
  \/ PollReads(e)
  \/ PollFails(e)
  \/ PollEnds(e)

MerchantStep(m) == DeactivateMerchant(m) \/ ReactivateMerchant(m)

RegistryStep == HandlerStep /\ UNCHANGED paymentVars

TimePasses ==
  /\ Tick
  /\ UNCHANGED <<keyCalls, paymentVars>>

Next ==
  \/ \E c \in Calls : ReconcileStep(c)
  \/ \E e \in Envelopes : PhoneStep(e)
  \/ \E m \in Merchants : MerchantStep(m)
  \/ \E p \in Topups : CreditTopup(p)
  \/ RegistryStep
  \/ TimePasses

\* Time passes; the student's phone polls every 30 s while it has a pending
\* payment, and not every poll fails or has its answer lost.
Fairness ==
  /\ WF_vars(TimePasses)
  /\ \A e \in Envelopes :
       /\ WF_vars(PollReads(e) \/ PollEnds(e))
       /\ SF_vars(PollNoResolution(e))
       /\ SF_vars(PollEnds(e) /\ studentView'[e] # "pending")

Spec     == Init /\ [][Next]_vars
FairSpec == Spec /\ Fairness

-----------------------------------------------------------------------------
(***************************************************************************)
(* Properties                                                              *)
(***************************************************************************)

\* A sequence number of a sender pays once, and a payment is processed exactly
\* when both of its ledger rows exist, whatever copies of it, and whatever
\* other envelopes with its number, are in flight.
NumberPaysOnce ==
  \A p, q \in processed : (p.sender = q.sender /\ p.seq = q.seq) => p = q

ProcessedHasRows ==
  \A e \in Envelopes :
    /\ e \in processed <=> DebitRow(e) \in ledger
    /\ e \in processed <=> CreditRow(e) \in ledger

SettledOnce == NumberPaysOnce /\ ProcessedHasRows

\* Old-key payments take no more from a hold than was held.
HoldNeverOverdrawn ==
  \A r \in Requests : holds[r] # NoHold => holds[r].consumed <= holds[r].held

HoldsOf(u) == {r \in Requests : holds[r] # NoHold /\ KeyOwner[holds[r].old] = u}

\* While a hold runs, the new key cannot spend the money it reserves for
\* payments the old phone made: the balance still covers it.  (A second
\* recovery before the first hold ends holds the same money twice, so the
\* claim is about users with one hold.)
HoldBacked ==
  \A u \in Students, r \in Requests :
    HoldsOf(u) = {r} /\ r \in ActiveHolds(u, now) => Remaining(r) <= balance[u]

Entries(u, t)   == {r \in ledger : r.user = u /\ r.type = t}
EntrySum(u, t)  == SumFunction([r \in Entries(u, t) |-> r.tx.amount])

\* The balance of every user is what the ledger rows make of the first one:
\* no handler writes a balance without its rows, or a row twice.
BalancesFollowRows ==
  \A u \in Users :
    balance[u] = InitialBalance[u] + EntrySum(u, "CREDIT") - EntrySum(u, "DEBIT")

\* A phone told "reconciled" can rely on it.
ReconciledMeansSettled ==
  \A e \in Envelopes :
    (merchantView[e] = "reconciled" \/ studentView[e] = "reconciled") => Settled(e)

\* All of the above, told as one: the service is the ledger of PaymentLedger,
\* and every other step it takes leaves that ledger as it is.
Ledger == INSTANCE PaymentLedger WITH
  Payments <- Envelopes,
  Credits  <- Topups,
  settled  <- {e \in Envelopes : Settled(e)},
  credited <- {p \in Topups : Row(p, p.user, "CREDIT") \in ledger}

IsPaymentLedger == Ledger!LedgerSpec

InFlight(e) == \E c \in Calls : calls[c] # Free /\ calls[c].env = e
Released(e) == studentView[e] \in {"rejected", "expired_unclaimed"}

\* Once the student's phone was told that a payment is refused or expired, and
\* gave its money back, the payment is not made any more, unless a claim was
\* being handled at that moment.  (The phone's clock is taken to be within the
\* server's tolerance: a poll also refuses a payment that was signed in the
\* future, which the future makes payable.  And the claim is about users who do
\* not recover an account: with two reports of one phone in flight the second
\* moves the time at which its key was retired forward; see WrittenOff.)
ReleasedIsSafe ==
  \A e \in Envelopes :
    [](Released(e) /\ ~InFlight(e) /\ ~Settled(e) => []~Settled(e))

\* A handler in flight read the key of e while it was ACTIVE, and will retire it
\* with the time it read.
Retiring(e) == BeingRetired(e.key)

\* The server is done with payment e: it is recorded as expired and no claim of
\* it is past that check, or its key was retired before it, or is no longer
\* verified, and nobody is about to move that time.
WrittenOff(e) ==
  /\ ~Settled(e)
  /\ \/ /\ e \in expired
        /\ \A c \in Calls : ~(calls[c].stage = "checked" /\ calls[c].env = e)
     \/ /\ keys[e.key].status = "VERIFY_ONLY"
        /\ KeyRefuses(e, now)
        /\ ~InFlight(e)
        /\ ~Retiring(e)

\* What ReleasedIsSafe becomes when accounts are recovered.  A student's phone
\* gives money back only for a payment that is written off, unless a claim of
\* it, or a handler that retires its key, is in flight; and a payment that is
\* written off is never made.
ReleaseWritesOff ==
  [][\A e \in Envelopes :
       (/\ Released(e)' /\ ~Released(e)
        /\ ~Settled(e) /\ ~InFlight(e) /\ ~Retiring(e)) => WrittenOff(e)']_vars

WrittenOffForGood ==
  \A e \in Envelopes : [](WrittenOff(e) => []~Settled(e))

\* After the deadline of a payment nothing makes it any more, but a claim that
\* was in flight by then: not a late claim, whose time is looked at again, not a
\* recovery and not a restored balance.
DeadlineCloses ==
  \A e \in Envelopes :
    [](TooLate(e, now) /\ ~InFlight(e) /\ ~Settled(e) => []~Settled(e))

\* The student's phone never reserves money for a payment for ever.
PaymentsResolve ==
  \A e \in Envelopes : e \in signed ~> studentView[e] # "pending"
=============================================================================
