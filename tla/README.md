# Oneto in TLA+

Oneto lets students pay campus merchants without a network. A student's phone
signs an *envelope*, the merchant's phone scans it, and some time later one of
them reaches the server, which moves the money. Between the signature and the
settlement a phone can be lost, stolen or replaced, answers can be lost, copies
of a payment can arrive twice, a deadline can pass, and an account can fill up.
These modules describe what the server does to its rows, what the phones and the
screens do with what they were told, and how codes and keys decide who may do
what, step by step, in every order the handlers can be interleaved.

Line numbers refer to the repository; `PROJECT.json` maps every definition to
the lines it stands for.

## 1. The system

| Part | State it keeps | Operations | In the model |
|---|---|---|---|
| Reconciliation (`backend/src/reconcile`) | `LedgerEntry`, `ProcessedSequence`, `OfflinePaymentResolution`, `User.verifiedBalanceKobo` | `reconcile` (a batch, one envelope after the other), `resolveOutgoingStatus` | `Settlement`, what it promises in `PaymentLedger` |
| Recovery balance (`backend/src/balance`) | `RecoveryBalanceHold` | `getBalanceSnapshot`, `getActiveRecoveryHolds`, `getActiveHoldForOldKey` (reads) | `Accounts` |
| Device keys (`backend/src/auth/keys.controller.ts`) | `UserDeviceKey`, `User.publicKey` | `register`: first key, move to a new phone | `KeyRegistry` |
| Key recovery (`backend/src/recovery`) | `KeyRecoveryRequest`, holds, key statuses | report, cancel, approve, reject | `KeyRegistry` |
| Student phone (`mobile/src/payment`, `mobile/src/ledger`) | outgoing payments, stored balance, sequence counter | sign, refresh (polls and balance) | `Wallet`; the polls with the server's steps in `Settlement` |
| Merchant phone (`mobile/src/api/reconcile.ts`, `mobile/app/(app)/merchant`) | incoming payments, stored balance | scan, submit from two screens, fetch the balance | `Till`; the server as both phones see it in `Server` |
| Phone keys and device transfer (`mobile/src/crypto`, `mobile/app/(onboarding)`) | two slots of the secure store, PIN attempts, a staged key | set up, change PIN, recover, move, promote, wipe | `Vault`, `PhoneKeys` |
| Phone session (`mobile/src/auth`) | token, profile, app state, key in memory | start, sign in, unlock, lock, 401 answers, freshness, sign out | `PhoneState`, `PhoneSession` |
| Top-ups (`backend/src/topup`) | `PaymentTopup`, operating account | initiate, webhook, finalise, credit | `Topup`; its screen in `Checkout` |
| Cashouts (`backend/src/cashout`) | `Cashout`, operating account, fee columns | request, approve, pay out, webhook, pay by hand, cancel | `Cashout`, `PayoutFees`; its screens in `CashoutScreen`, `CashoutPage` |
| Authentication (`backend/src/auth`) | one-time codes in Redis, their locks and limits, stashed sign-ups, sessions | request, verify, sign in, guard | `OneTimeCodes`, `Access` |
| Administration (`backend/src/admin`) | merchants: status, verification, payout details | create, approve, freeze, reactivate, resolve an account | `Access`, `MerchantDesk`; freeze also in `Settlement` |
| Admin web (`admin-web/src`) | what its pages loaded | cashout orders, merchant form | `CashoutPage`, `MerchantDesk` |
| Statement (`backend/src/users`, `mobile/app/(app)/history.tsx`) | none; the screen has a list and a cursor | first page, load more, refresh | `Statement` |
| Gateway client (`backend/src/topup/korapay.service.ts`) | none; the gateway has charges and payouts | verify a charge, send a payout, webhooks | external actions of `Topup`, `Cashout`; parsing of fees in `PayoutFees` |
| Configuration, logging, health, e-mail | none of the payment state | | not modelled |

How they interact: all server parts share one PostgreSQL database. The handlers
are asynchronous functions of one Node process (or several), so two of them
interleave at every `await`, and everything read before a transaction may be
stale inside it. Transactions marked `Serializable` behave as one step;
transactions of the default level and single statements are steps too, guarded
only by what their `WHERE` clause and the unique indexes say. Phones talk to the
server over HTTP: requests are repeated after a lost answer.

What is hard, and which properties are about it, is listed line by line under
`hazards` in `PROJECT.json`. In short:

* **Stale reads.** `register`, `createRecoveryRequest` and
  `cancelRecoveryRequest` decide on rows read outside the transaction that writes.
* **Check before commit.** `reconcileOneInternal` reads the clock, the key, the
  resolution and the balance before its transaction and looks at only some of
  them again.
* **Retries and lost answers.** A payment may be submitted again by a phone that
  never heard, and the transaction is retried after serialization failures.
* **Two sources of authority.** A current key spends the account, an old key only
  a hold; recovery changes which is which while payments are under way.
* **The gateway.** A payout whose call fails may still be made, webhooks come
  late and more than once, and polls and webhooks act on rows they read before
  they asked the gateway.
* **Lists and forms.** A page shows rows it read earlier, from answers that come in
  any order; a late answer may land in another form, under another list.
* **Kills.** The phone's key is several entries of a store that has no
  transactions, and the app may be killed between two of them.
* **Locks that expire.** A verification holds its code by a lock in Redis which may
  expire under it.
* **Time.** The claim deadline (48 h), the verify-only windows (24 h, 48 h) and
  the holds end at instants that requests straddle.

What makes each part correct: a user has one current key and the two tables that
name it agree; a key reported stolen is out of use for good; a payment pays once or never and
the balances are what the ledger says; a hold really reserves; a phone is never
told of a success that is not there, and hears something in the end; what a phone
signs or accepts offline fits the balance and the room that its account has, but for
what came in by other ways meanwhile; a killed app never loses the key the
server trusts; a code opens one session and stands few guesses; a merchant is
admitted only after approval; a student is credited once what was really paid; a
cashout is out of the merchant's account exactly while it is in progress or paid;
and a screen says and offers only what is so.

## 2. The modules

EXTENDS, left to right; below each line the instances for TLC and the proofs.

    Accounts ── KeyRegistry ─────────── Settlement ─ ─ implements ─ ─ PaymentLedger
                MCKeyRegistry           MCSettlement
                                        Settlement_proofs

    PaymentLedger ── LocalLedger ── Server ── Wallet ── Till
                                                        MCTill, Till_proofs

    Vault ── PhoneState ── PhoneSession ── PhoneKeys ── Phone
                                                        MCPhone, Phone_proofs

    OneTimeCodes ── Access
                    MCAccess, Access_proofs

    Funds ──┬── Topup ────┬── Treasury
            └── Cashout ──┘   MCTreasury, Treasury_proofs

    Statement ─────────────────────────┐
    MerchantDesk ──────────────────────┤
    Cashout ── CashoutPage ────────────┼── Screens
    Cashout ── CashoutScreen ──────────┤   MCScreens, Screens_proofs
    Cashout ── PayoutFees ─────────────┤
    Topup ──── Checkout ───────────────┘

`Money_proofs` holds the lemmas on Funds, Topup and Cashout that Treasury_proofs and
Screens_proofs share, `FiniteSums` those on sums over finite sets that all proofs about
money use. `Settlement_proofs` has the proofs about the key registry too.

### Payments on the server

**Accounts** holds the rows several parts share and the pure reads made of them:
`keys` (a row per public key; status `NONE` stands for no row), `mirror`
(`User.publicKey`), `requests`, `holds` (by the request that created each: the
column is unique), `balance` and the server clock `now`. `Available`,
`ActiveHolds`, `OldestHolds` and `Remaining` are the methods of
`RecoveryBalanceService`. `OldestHolds` may be a set: the query orders by
creation time alone.

**KeyRegistry** has one action per database access that matters. `FirstKeyRead`
/ `FirstKeyCommit` and `RotationRead` / `RotationCommit` are the two paths of
`register`; `ReportRead` / `ReportCommit` is `createRecoveryRequest`, `CancelRead`
/ `CancelCommit` is `cancelRecoveryRequest`. What a handler has read waits in
`keyCalls`. `Approve` and `Reject` read and write in one serializable
transaction, so each is one action. `MayActivate` is the pair of unique indexes
(one row per public key; one `ACTIVE` row per user). A step that would break an
index rolls back, which the second disjunct of each commit describes.

**Settlement** adds the payments. An envelope is a record; its fields are what
the server decides by (sender, key, recipient, sequence number, amount,
timestamp). `transactionId` is a hash of the signed draft, so the record is its
own id. One call to `reconcileOneInternal` goes through the stages of `calls[c]`:

| Stage | Code | Actions |
|---|---|---|
| begin | lines 97-219: users, key, clock, signature | `BeginReconcile`, `RefuseRecipient`, `RefuseKeyOrTime` |
| `keyRead` | lines 221-264: resolution, deadline, balance | `CheckClaim`, `RefuseResolved`, `RefuseUnfunded`, `ExpireLateClaim` |
| `checked` | lines 266-449: the transaction and its error handling | `Settle`, `CommitReplay`, `RefuseCommit`, `Retry`, `GiveUp`, `InternalError` |

Reads between which no step of another actor could make a difference are one
step: the rows of sender, recipient and key (nothing is decided by comparing
them), and the resolution with the balance. What a later step uses of a read is
remembered (`at`, `active`, `covered`), everything else is read again where the
code reads it again. `covered` is the pre-check for an old key, made on the
sender's row of line 105.

A poll (`resolveOutgoingStatus`) looks for the debit, then for the resolution,
then reads the key and the clock: `polls[e]` is `idle`, `noDebit` or
`noResolution`. `PollLate` is the transaction of
`recordExpiredUnclaimedIfStillPending`, which `ExpireLateClaim` also runs.

`Settle` writes balances, both ledger rows and the processed number;
`settled` (derived from the rows) is what `PaymentLedger` sees of it.

Phones: `Sign` creates an envelope when the clock of the phone, which may differ
from the server's by `PhoneDrift`, shows its timestamp. `Answer` and `AnswerPoll`
either reach the phone or are lost. The merchant's phone submits a payment as
long as it is pending there (`mobile/src/api/reconcile.ts:27-48`).

**PaymentLedger** is what the settlement service promises, in three variables: a
payment is one transfer, made whole or not at all, at most once, within the payer's
balance and the payee's cap, and one number of a payer pays once; a top-up credits
once, within the cap. `Settlement` implements it (`IsPaymentLedger`: `Ledger ==
INSTANCE PaymentLedger WITH` the balances, the payments with both ledger rows, and
the top-ups credited), checked by TLC and proved.

### The two phones of a payment

**LocalLedger** is the table a phone keeps of its payments (`ledger/db.ts`): the
statuses, insertion, and an update that overwrites without looking.

**Server** is the server as the two phones see it: the balances of `PaymentLedger`, with
the steps between which a phone can notice something. A claim passes the checks of key,
deadline and resolution (`Admit`) and is paid later (`Commit`), in a transaction that looks
at none of them again; it lives on when its request is gone (`DropClaim` ends it unpaid).
`Close` is the deadline, or the key that may no longer pay: it stops the claims to come, and
not those in `claims`. `Verdict` is what a poll answers, which does not look for claims.
`TopUp`, `CashOut` and `GiveBack` change balances beside payments; `GiveBack`, the refund
of a failed or cancelled cashout, has no cap.

**Wallet** is the student's phone. `Sign` spends what the stored
balance less the pending payments covers and takes the next number. Up to two
refreshes (`payment/balance-snapshot.ts`) are in flight: `BeginRefresh` reads
the pending payments, `AnswerBatch`/`TakeAnswers` poll them batch by batch,
`AnswerMe`/`StoreBalance` fetch the balance; each may be lost. The stored balance is
kept with the payments it accounts for (a ghost field). `KillWallet` forgets the
refreshes, `NewPhone` starts with an empty table and a counter of 1.

**Till** adds the merchant's phone: `Scan` with the headroom check, `Submit` with a batch
of what is pending and the batches that are to follow it, `Receive` (the server admits a
payment of the request), `Reconcile` (its answer: `MadeOrBefore`, `Refuse`), `TakeResults`
(writes the answers and sends the next batch), `SyncFails` (drops the rest), the fetches of
the merchant's balance, of which any number may be in flight (`Fetches`), and restarts.
`Settlement` has the steps the server takes to an answer.

### One phone: its keys and its session

**Vault** is the secure store: two slots (active, pending) of four entries each – salt,
sealed key, public key, PIN tries – beside the session token and the cached profile,
written entry by entry; a slot opens only when its salt and its sealed key are of one
sealing. **PhoneState** has the variables: `disk` survives a kill; `app`, `held` (keys in
memory), `job` (the handler under way with the storage writes it has still to do), `tail`
(what a 401 set off) and `flight` (a poll) do not. `Cuts` is what a kill may leave of the
current batch of writes: none, all, one, or all but one of a `Promise.all`.
**PhoneSession** is `auth-provider.tsx`: one action per await of start, sign-in, unlock,
lock, freshness check, profile poll, 401 and 404 answers and sign-out. **PhoneKeys** is key setup, registration, PIN change, recovery, the
move in both roles, promotion and the resets, with the account's rows on the server
(`srv`) and the other phone. **Phone** is the next-state relation and the properties.

One handler runs at a time besides a poll and what a 401 sets off; the buttons are
disabled while one runs.

### Codes and accounts

**OneTimeCodes** is `redis-otp-store.service.ts` and the code part of `auth.service.ts`: rate limit, a
code record with attempts and an expiry, and the verification lock, any of which
may expire between two steps. A verification takes the lock and reads the record,
compares, and writes back or deletes. **Access** adds what codes are for: sign-in of
students and admins, the stashed sign-up of merchants, the creation, approval,
freezing and reactivation of merchants, each a read and a later write by id, the
operator's script, and restarts of the server, which empty the stash.

### Money through the gateway

**Funds** holds the balances that money from and to the gateway moves between.
The operating account is the other side of it, and the only one that may be
negative.

**Topup** is `TopupService`. `finalizers` are the webhooks and status polls in
flight. Each finds the row `PENDING` (`StartFinalizing`, `FailedChargeHook`), asks
the gateway and reaches its verdict (`Verify`; `Vouched` is
`extractVerifiedCreditAmountKobo`), and then writes `FAILED` by reference alone
(`Refuse`, the updates of lines 165, 282 and 329) or runs the serializable
transaction that looks at the row again (`CreditPending`). What the gateway can
say of a charge is a record of `Reports`: what was paid, what the verification says
and what the webhook says, each field possibly left out.

**Cashout** is `CashoutService`. `requestCashout` is three steps, for its three
statements are not in a transaction (`RequestRead`, `RequestCheck`,
`RequestCreate`). `ApproveCashout` is the serializable transaction that takes the
amount from the merchant; the gateway call that follows is `SendPayout`,
`RecordPayout` and the catch clause `RefundPayout`, with `ForgetPayout` for a
restart or an error in between. `PayoutHook`, `MarkManualPaid` and `CancelManual`
are the other three ways a cashout ends. `Refund` is the transaction that three
handlers contain, each with its own suffix of the ledger reference.

**Treasury** composes them with `Pay`, a payment as `Settlement` shows it to be: one
guarded transfer. In Settlement the payment has many steps and one account each
side; here it is one step, and the accounts also fill and empty.

### The screens

**Screens** plays one scene per behaviour; no two scenes share state that both
change while either is open.

* **Statement**: `GET /me/ledger` with its cursor, and the history screen: first load,
  refresh, load more, answers in any order, entries written meanwhile.
* **MerchantDesk**: the admin's merchant form, from two admins with lists of their own:
  banks, "resolve account", edits and saves, and what the server checks and stores.
* **CashoutPage**: the admin's cashout lists and orders over `Cashout`.
* **CashoutScreen**: the merchant's cashout screen over `Cashout`.
* **Checkout**: the student's top-up screen over `Topup`.
* **PayoutFees**: what the row of a cashout says of the gateway's fee, from the answer
  to the payout and the webhook, each of several shapes, in either order.

### What was abstracted

* Amounts and times are small numbers; of the windows only the order matters.
* Signatures: only envelopes a phone really signed are submitted, by their
  recipient. The checks of shape, of signature and of the caller's identity are
  therefore not in the model.
* The 5-minute validity of an envelope is checked by the merchant's phone at the
  scan; the server passes `allowExpiredEnvelope` and uses the claim window.
* A batch is processed one envelope after the other and each envelope has its own
  transaction, so a batch adds only an order to single calls. The answer of each
  is delivered when it is done (the code delivers all at the end of the batch:
  `Answer` may also lose it, after which the phone submits again).
* No handler sets a student FROZEN or FLAGGED (only merchants are frozen, by
  `deactivateMerchant`), so the two checks of the sender's status
  (`reconcile.service.ts:247`, `:288`) refuse nobody and are left out.
* The clock that a move or a report writes as `retiredAt` is read somewhere between the read
  of the key and the commit: the commit takes any time between the two.
* Serializable transactions are single steps that may abort (`Retry`, `GiveUp`);
  reads in them are of the state they commit on.
* `REVOKED` exists in the schema, and the code never writes it.
* The other side of a top-up is the operating account, which `Settlement` leaves
  out and `Treasury` has.
* The gateway: a charge ends once, as paid or failed; an accepted payout ends once,
  as paid or failed; a payout the gateway never accepted is not made. A status it
  cannot classify is an unpaid charge. What it says was paid was paid
  (`Truthful`). A student sees the checkout only after the row exists, so a charge
  ends after `Initiate`.
* Fees are recorded for accounting and move no money between accounts: `PayoutFees`
  has the columns, `Cashout` only that Oneto's fee decides the minimum.
* Merchants of `Treasury` are verified and active: their freezing is in
  `Settlement`.
* Servers with different payout modes may run (`Modes`): the mode is read from the
  environment at start.
* Codes are members of a small set and any of them may be guessed; times of `Access`
  are a few coarse units. Taking the lock and reading the record are one step. The
  recorded times of the rate limit have no type of their own in `AccessTypeOK`.
* A phone's PINs are two; attempts count to a small limit (`LockEvery`, `WipeAt`). The
  QR format and the cipher of a key are left out; a key is a name.
* `Wallet` and `Till`: the PIN unlock before a signature is part of `Sign`; the QR
  codes' time windows are left open (a payment may be scanned at any time); the list
  of known merchants is not modelled. A phone's clock is within the server's tolerance. Of
  several claims of one payment `Server` has one. A new phone is taken by a move, which places
  no hold: no new claim of the old key is admitted. (A recovery places one, and the old
  payments stay payable from it: `Settlement`.)
* `CashoutScreen` reads all open cashouts of the merchant; the code answers the ten latest
  rows (`cashout.service.ts:1191-1195`). More than ten are open only by overlapping requests.
* `MerchantDesk` has the payout fields only. `Statement`: entries have distinct creation
  times and become visible in that order; the local rows are limited to the newest.
* `PayoutFees` has one cashout at a time, one webhook of it in flight, and amounts in
  thousandths of a naira, so that rounding to kobo happens.

## 3. What TLC checks

| Run | Instance | Properties | Result |
|---|---|---|---|
| `keys` | 1 student, 3 keys, 2 requests, 2 handlers, clock 0..3 | `OneActiveKey`, `MirrorNamesActiveKey`, `StolenKeyStopped`, `HoldFollowsApproval`, `KeyLifecycle` | hold; 364,308 states |
| `holds` | 2 payments from 2 phones, a recovery, a key handler, a top-up, 1 call, 2 attempts, clock 0..3 | `TypeOK`, `HoldNeverOverdrawn`, `HoldBacked`, `IsPaymentLedger` | hold; 1,167,670 states |
| `race` | 2 payments with one number, 2 calls, outages, clock 0..2 | `SettledOnce`, `ReconciledMeansSettled` | hold; 81,136 states |
| `live` | 2 payments, one signed late, one with a used number; a key handler, 1 call, outages, clock 0..3 | `PaymentsResolve`, `ReleasedIsSafe` | hold; 23,340 states |
| `treasury` | 1 top-up, 2 payments, 2 cashouts, 2 finalizers, 2 requesters, both modes | `TreasuryTypeOK`, `BooksBalance`, `CreditedWasPaid`, `RefundedOnce`, `BalanceCapped`, `CashoutFinal` | hold; 1,829,734 states |
| `treasury_payout` | same | `PaidNotRefunded` | violated |
| `wallet` | 1 phone of the student, 2 payments, 2 refreshes, 2 submitting screens, batches of 2, a top-up | `TillTypeOK`, `StatusTrue`, `SignedIsCovered` | hold; 1,757,360 states |
| `till_live` | 2 phones of the student, a payment of each with number 1, 1 refresh, 1 submitting screen, 1 fetch of the merchant's balance, batches of 1, a cashout that may fail | `AcceptedFits`, `PhoneCatchesUp`, `AcceptedIsAnswered` | hold; 73,036 states |
| `phone` | 1 key made here, 1 kill, wrong PINs up to the wipe, a move in both roles | `KeyNeverLost`, `StartEnds` | hold; 183,974 states |
| `session` | 2 keys made here, 1 recovery request, polls, the account may be removed | `PhoneTypeOK`, `HeldIsStored` | hold; 1,086,750 states |
| `access` | a person and an admin, 2 requests at once, 2 codes, locks and records that expire | `CodeOpensOnce`, `CodeBurns`, `ActiveWasApproved`, `RolesStay` | hold; 1,294,432 states |
| `screens` | six scenes, see the bounds | `ScreensTypeOK`, `HistoryWhole`, `PayoutAsShown`, `NoticeTrue`, `OfferIsFresh`, `SuccessIsCredited`, `FeesBacked` | hold; 2,075,376 states |

### The properties

Keys: `OneActiveKey` and `MirrorNamesActiveKey` say the two tables agree on one
current key per user under any overlap of handlers. `StolenKeyStopped`: whatever
follows a stolen-phone report - approval, rejection, cancellation, a key move
that read the key before - the reported key stays retired, and once no handler is left
that read it as current, its row does not change any more: what was signed after the time
in it stays refused. (Such a handler may still overwrite that time, see section 4.)
`HoldFollowsApproval`: money is held only by an approved request and behind a key
that is out of use. `KeyLifecycle`: no step of any handler turns a key back.

Payments on the server: `IsPaymentLedger` (every step of the service, whatever it is
in the middle of, is a whole payment, a whole top-up or nothing),
`SettledOnce` (one payment per sequence number and sender, and a processed payment
is one with both ledger rows), `HoldNeverOverdrawn`, `HoldBacked` (the new phone
cannot spend what is held for payments of the old one; stated for users with one
hold), `ReconciledMeansSettled` (no phone is told of a success that is not there),
`PaymentsResolve` (the student's phone does not reserve money for ever) and
`ReleasedIsSafe` (a payment whose money the phone gave back is not made any more; a
claim being handled at that instant is excepted, for the code lets it commit; the
phone's clock must not drift beyond the allowed skew; and the user does not recover an
account, see section 4; `ReleaseWritesOff` and `WrittenOffForGood` are what holds of
those who do).

The two phones: `StatusTrue` (a payment shown as settled is settled, and one the
student's phone shows as refused is never made if no claim of it was being handled,
although an update overwrites whatever was there; a claim that passed its checks before may
still be paid, see section 4), `SignedIsCovered` (a phone whose stored balance accounts for
every payment it knows to be made signs only what the server can pay together with all that
is open), `AcceptedFits` (likewise, what a merchant's phone accepts offline fits under the
cap of its account, but for what was topped up or given back from failed cashouts since its
balance was read, which no phone can know), `PhoneCatchesUp` (once payments stop the
student's phone ends with the server's balance) and `AcceptedIsAnswered` (an accepted
payment gets its answer).

One phone: `KeyNeverLost` (a phone that can open the account's key in one of its slots
can still do so after every write, and every kill between two writes, of a start, a
sign-in, an unlock, an approval, a move and the promotion of a pending key; set-up, PIN
change and recovery, which write a key, and the resets, which delete one, are left out,
and so is the promotion of a key that was not the approved one, see section 4),
`HeldIsStored` (when no handler runs, the key in memory is the one sealed in the active
slot; beside it stands its own public key, if the app was never killed) and `StartEnds`
(a start never hangs at the loading screen).

Codes and accounts: `CodeOpensOnce` (a code is accepted at most once, although the lock may
expire under its holder), `CodeBurns` (no more wrong guesses than the limit are counted
against a code, and one guessed wrong so often opens nothing), `ActiveWasApproved` (a merchant
is active only if an admin approved or created it so) and `RolesStay`.

Money: `BooksBalance` says of every account what it must hold - a student's what it
had, was credited and paid; a merchant's what it had and was paid less the cashouts
in progress or paid - and that no step changes the sum of all accounts
(`AdminService.getReconciliationReport` compares it with zero). `CreditedWasPaid`: no
overlap of polls and webhooks, and no field left out, makes the server credit more
than was paid. `RefundedOnce` and `CashoutFinal`: the three handlers that refund and
the two that complete exclude one another. `BalanceCapped`: an account passes the cap
by no more than its refunds.

Screens: `HistoryWhole` (a statement that says it ends shows every entry once, in
order), `PayoutAsShown` (saving a merchant stores the account that was in the form, its
holder's name included, although a request carries only the fields that differ from a list
loaded long ago and the server takes the rest from its row; unless that row was another by
then, see section 4), `NoticeTrue` (what an admin was
told of an order stays so), `OfferIsFresh` (no cashout is offered while one the merchant
was told of is open, unless the last refresh began while a request was under way),
`SuccessIsCredited` (a student who was shown success paid what the top-up is worth and
was credited it) and `FeesBacked` (a fee in a cashout's row was named by the gateway, a
fee of the merchant was said to be deducted, the amounts add up, and a fee that was
named is not forgotten unless answer and webhook overlap).

### The bounds, and why they are enough

* `keys`: three keys are an old one, a new one and a third that a second handler
  brings in between; two handlers and the admin are every pair of overlapping
  requests with a decision between them. Users do not share rows, so one student
  is enough. No key is registered at first, so that all keys, requests and
  handlers are interchangeable and the symmetry is sound.
* Clock 0..3 with windows 1 and 2 has an instant before, at and after the end of
  each window that begins at 0, and one inside the second.
* `holds` starts both balances at 1: the student can afford only the small
  payment, a top-up of 2 takes the account to the cap (3), a recovery before or
  after it holds 1 or 3, and the merchant's account can take a payment of 2 but
  not both. With two attempts a transaction is retried and given up.
* `race` has two different payments of one phone with one number, which is the
  collision to fear, and two calls: two copies of one payment or one of each.
  Its student has 3, enough for both, and the cap (4) leaves room for both.
* `treasury`: two cashouts of one merchant are two overlapping requests for one
  balance, or a request after a refund; two payments of 1 give it twice something
  to cash out. Two finalizers are a poll and a webhook, or two of either. The
  student starts 1 below a cap of 2 and tops up by 2: the credit fails before it has
  paid and succeeds after. The three reports are a charge with every field, one
  where poll and webhook see different fields, and one that was underpaid.
* `wallet`: two payments of 2 of a student who has 3 and is topped up by 1, so that both
  fit or one does; a merchant with 1 and a cap of 4 has room for one of them. Two
  refreshes and two submitting screens overlap in every way, with claims that outlive their
  request and the deadline. One batch holds both payments.
* `till_live` has two phones that both count from 1: one of the two payments can never be
  made, and the merchant must hear of it. Batches of 1 make a submission of both two
  requests, of which the second may never be sent. A cashout of 2 empties the merchant's
  account, leaves room for a payment, and may be given back afterwards, over the cap.
* `holds` has one payment of the old key, so one on each hold; that several draw on one
  hold is covered by the theorem `HoldsSuffice`, for any number.
* `phone`: one kill at any write, for the next start completes or undoes what it
  finds; one key made here besides the one of the other phone gives set-up, recovery
  and the move in both roles. The PIN locks after 1 wrong guess and wipes after 2.
* `session` has two keys, so that a pending one may replace an active one while
  another handler holds it in memory, and no kill.
* `access`: two overlapping requests for one address beside the admin; two codes, so
  that a code may be replaced under a verification; two failures before a code burns;
  times 0..1 with every deadline inside.
* `screens`: pages of 2 and 5 entries, of which 3 are payments of the phone's own, give
  three pages, and 2 loads at once is a load-more beside a refresh; 2 admins, 1 merchant
  whose first row is absent or was typed at sign-up under another name, 2 banks with
  2 numbers, 2 forms and 2 changes; 2 cashouts, a request at a time, 1 sale between; 2
  top-ups, 2 finalizers, 4 reports; messages on a payout with the fee in either place,
  missing, or without proof of who bears it.
* Bounds by name: `MaxTime`, `MaxNow` (clocks), `Calls`, `KeyCalls`, `Refreshes`,
  `Screens`, `Fetches`, `Finalizers`, `Requesters`, `MaxLoads` (requests in flight), `Requests`, `Envelopes`,
  `Payments`, `Cashouts`, `Topups` (rows), `MaxKeys`, `MaxRequests`, `MaxKills`,
  `Polls`, `MayVanish`, `TransferOffered` (what a phone's life contains), `MaxPhones`,
  `MaxCodes`, `MaxEntries`, `MaxForms`, `MaxChanges`, `Sales`.
  `CHECK_DEADLOCK FALSE` because the system may stop: all payments final and the
  clock at its bound, or nobody asking for anything.

### Fairness

`PaymentsResolve` is checked under (`ReleasedIsSafe` needs none of it):

* the clock advances (weak fairness of `TimePasses`);
* a phone with a pending payment goes on polling: `home.tsx:258-270` refreshes on
  focus and every 30 s, and a refresh polls all pending payments (weak fairness of
  the poll's reads and answers, per payment);
* not every poll fails on the way, and not every answer to a poll is lost (strong
  fairness of reaching the key check, and of an answer that ends the payment).

Nothing is assumed of the merchant's phone, of a claim in flight or of a key
handler: a claim may stay in flight for ever. The deadline is what makes
`PaymentsResolve` true, and a mutant without it breaks the run.

`PhoneCatchesUp` and `AcceptedIsAnswered` assume that a refresh begins (weak fairness)
and that not every poll, answer or balance is lost (strong fairness), and the same of
home's submissions; that the deadline of a payment comes (weak fairness of `Close`); nothing
of the success screen, which submits once, and nothing of a claim, which may be in flight
for ever. That home submits again rests on the app after a network error, which
reruns the submission when the phone is online, and on the merchant after an error of
the server: then nothing is retried until the screen is opened again, a payment is
scanned, or Sync Now is pressed (`home.tsx:492-540`).

`StartEnds` assumes that a handler that has begun goes on (`WF(Continue)`): storage
answers, and requests end after their timeout.

## 4. Where the code and its documents disagree, and what else the models show

One run ends in a violation on purpose, `treasury_payout`: when the call to the
gateway fails although the gateway accepted the payout, the merchant is refunded and
paid (`cashout.service.ts:786`). The others below were met while modelling and shape
the properties: each says where a property had to stop.

Keys and payments on the server:

* A key move that read the old key before a stolen-phone report committed overwrites
  the time of the report (`keys.controller.ts:159`). A payment signed between the two times
  is then accepted, although "Payments signed after the report time must be rejected"
  (`docs/key-recovery-policy.md:269`). A report that read the key before a move, or before
  another report, does the same (`recovery.service.ts:197`). `StolenKeyStopped` promises a
  fixed time only from the moment no such handler is left.
* A cancellation may overwrite an approval: the request is then CANCELLED with its keys
  moved and its hold placed (`recovery.service.ts:265`).
* A payment recorded as expired can still settle: the settling transaction does not
  look at the resolution again (`reconcile.service.ts:273`; the tests expect the
  opposite of two calls in sequence, `reconcile.service.spec.ts:1373`). A poll may answer
  `expired_unclaimed`, or that the key is refused, while such a claim is past its checks; the
  student's phone then writes `rejected`, never asks again (`sync-outgoing.ts:71-76`), and
  the payment is made. This is the claim in flight that `ReleasedIsSafe` and `StatusTrue`
  except.
* A report of a stolen phone writes the old key's `retiredAt` by id, with the time it read
  before, whatever became of the key meanwhile (`recovery.service.ts:197`). With two
  reports of one phone overlapping and the first one approved in between, the second
  moves `retiredAt` forward: a payment signed between the two times, which a poll refused
  and whose money the phone gave back, is payable again, from the hold of the approval.
  TLC finds it in 14 steps with two key handlers; `ReleasedIsSafe` is therefore about users without a recovery.
* A settled payment submitted again after a lost answer is refused when the rest of
  the balance does not cover its amount (`reconcile.service.ts:259`).
* After a move to a new phone no payment of the old phone can be claimed, because only
  recovery creates the hold such a payment needs (`reconcile.service.ts:312`).
* A comment says the server tracks numbers per public key (`mobile/src/ledger/db.ts:196-199`);
  the schema makes them unique per user (`schema.prisma:243`), and the server answers
  accordingly (`reconcile.service.ts:715-724`): a reinstalled phone that counts from 1
  again signs payments with numbers that are taken.

Phones:

* The start keeps the user out of the app "until support approves the new key" only if
  there is no active key (`auth-provider.tsx:345`); with both slots filled the app opens
  with the active one.
* A comment says that after a crash between the entries of a slot `hasKeypair()` returns
  false and the user onboards again (`keypair-store.ts:182-184`). That is so of an empty
  slot. A PIN change overwrites a full one: killed after the salt, the slot looks whole
  and no PIN opens it. `KeyNeverLost` leaves the PIN change out for this reason.
* A set-up that is tried again after its registration failed writes a second key over the
  full slot, entry by entry (`generating-keys.tsx:123-138`). Killed after the sealed key,
  the slot opens to the second key and names the first one's public key, which the same
  comment excludes. `HeldIsStored` promises the public key only of an app that was never
  killed, and `KeyNeverLost` leaves the set-up out.
* "Activate" asks whether the latest request is APPROVED and whether a pending key is
  there, and not whether the one is for the other (`recovery-pending.tsx:141-170`): with
  an older request approved and a newer key waiting, it puts the newer, unapproved key in
  the place of the account's. `Replaced` excepts that step from `KeyNeverLost`.
* A lock that meets the wipe of a testing key leaves the app `locked` without a key; an
  unlock that finishes after another handler leaves a key in memory; a late 401 clears
  a fresh token; after a cancelled request or a wipe at the PIN limit the status stays
  `recovery_pending` without a pending key; wrong guesses at the old PIN in "change
  PIN" are not counted; `completeOnboarding` does nothing when a 401 locked the app
  during the promotion, so the staged key stays in memory. None of them signs with a
  key that is not stored, once the handler has ended.
* With two overlapping refreshes an older balance may be stored over a newer one: the
  phone knows of a payment that the balance does not account for, and signs more than it
  has (`build-envelope.ts:17`). `SignedIsCovered` is about a balance that accounts for
  the payments the phone knows of.
* The merchant's row may say `rejected` of a payment that a request of the other screen
  made. `StatusTrue` therefore promises of the merchant's phone only what is shown as
  settled.
* A failed cashout is given back without looking at the cap (`cashout.service.ts:826`), also
  after the merchant's phone read its balance: payments accepted offline may then be refused,
  within the cap as they were when they were scanned. `AcceptedFits` allows for exactly that
  amount.

Codes and accounts:

* The check for a pending sign-up runs before the code is drawn and sent, the stash is
  written after it (`merchant-auth.service.ts:80`, `:98`): a second request that overlaps
  the first replaces its details.
* A student's account made between the two queries of a merchant's verification gets a
  merchant profile and stays STUDENT (`merchant-auth.service.ts:129`). The verification
  of a merchant's code as a student leaves the stash.
* An approval that read before a freeze overwrites the freeze; a frozen merchant that
  was never verified can neither be approved nor reactivated; the operator's script
  makes ACTIVE merchants without `verifiedAt`. `ActiveWasApproved` counts the script's.
* Deleting an expired record may delete a fresh code written in between.

Top-ups, cashouts, screens:

* The update that writes FAILED after a verdict does not look at the row again and may
  overwrite the SUCCESS of a credit that came first (`topup.service.ts:165`, `:282`,
  `:329`). The checkout may then say "No balance was added" of a credited top-up. A
  `charge.failed` webhook is final even if the charge is paid later. EXPIRED is never
  written.
* When the answer to a payout and its webhook overlap, a fee may be overwritten by null
  (`cashout.service.ts:774`), and a later message without proof turns the bearer
  MERCHANT back into ONETO (`cashout.service.ts:170-187`).
* A load-more that overlaps a refresh may lose an entry of the history under "END OF
  HISTORY" (`history.tsx:92`): `HistoryWhole` excepts that overlap (`mixed`). Entries
  with one creation time at a page boundary are skipped.
* Two admins with stale lists can store a combination of bank and number that neither
  saw, if the gateway knows it; `PayoutAsShown` is about rows that were as the list had
  them. A late answer to "resolve account" lands in the form of another merchant
  (`MerchantFormModal.tsx:304`), which counts it only if
  bank and number agree; details only typed at sign-up are shown as resolved;
  a bank whose name differs between the list and the resolution cannot be saved.
* After a lost answer to a cancellation a stale list still shows the cashout as to be
  paid. A double tap, or a lost answer and a retry, can create two PENDING cashouts;
  `OfferIsFresh` excepts a list that a request of the screen's own crossed.
* A failed logout call of the admin page leaves the cookie while the page shows the
  login.

## 5. What is proved

TLAPS proves the following for any sets of users, keys, payments, requests, codes
and handlers, any windows and any amounts, from the named assumptions on the
constants only (`...Assumption` in the module that declares them).

`Settlement_proofs`, of the key registry:

* `RegistryTypes`: `RegistrySpec => [](RegistryTypeOK /\ NamedRowsExist)`. The two
  are one inductive invariant: an update by id has the type of its row only if
  the row exists.
* `OneTrustedKey`, `MirrorIsTrue`: the two key tables agree. `OneActiveKey` alone is inductive
  given the types, because every insertion of an `ACTIVE` row goes through
  `MayActivate`; `MirrorNamesActiveKey` needs it, since writing the mirror for a
  new key would otherwise leave an older `ACTIVE` key unnamed.
* `KeysGoForward`: `KeyLifecycle`, from the lemma `KeyStatusStep` on what one step
  can do to one key.
* `StolenKeysStop`: `StolenKeyStopped`. A report names a key that was `ACTIVE` when it was
  read (`RequestOrigin`), the commit retires it, and by `KeyStatusStep` no retired key
  returns (`StolenKeyRetired` is an invariant). Its row is written only by handlers that read
  it `ACTIVE`, and none begins with a retired key (`RetiredRowStep`, `RetiringStep`); an
  approval copies the times it finds.
* `HoldsAreApproved`: `HoldFollowsApproval`. A request that was approved once may be
  overwritten by a cancellation, so the invariant is about what an approval did: its
  key is out of use and `KeyStatusStep` keeps it so.

`Settlement_proofs`, of the payments:

* `SettlementTypes`: `TypeOK`, that is: no balance is negative and none exceeds
  the cap, with any number of calls in flight. The guards of `Settle` and
  `CreditTopup` are evaluated on the state they commit on, which is what the
  proof uses of serializability.
* `PaysOnce`: `SettledOnce`. The strengthening is `ProcessedHasRows`: without it a
  ledger row without its sequence number could be paid again.
* `ReconciledIsTrue`: `ReconciledMeansSettled`. It rests on ledger rows never
  being removed and on each of the five places that answer `reconciled`.
* `HoldsSuffice`: `HoldNeverOverdrawn`, from the guard on what remains of a hold.
* `ImplementsPaymentLedger`: `Spec => Ledger!LedgerSpec`. `Settle` maps to `Pay`, the
  top-up to `Credit`, and every other step, of any handler, to a stutter. It needs
  `SettledOnce` and the types: a number is unused in `Settle` because every ledger
  row has its processed number.
* `KeysHoldAmongPayments`: the key properties, `StolenKeyStopped` included, hold of `Spec`, whose key steps are those
  of the registry with the payments' steps between.
* `HeldMoneyIsThere`: `HoldBacked`, inductive given the types and `HoldFollowsApproval`.
  An approval holds no more than the balance; a payment of the new key leaves what
  `Available` leaves; a payment of the old phone takes as much from the hold as from the
  balance. Time may only end a hold.
* `WrittenOffIsFinal`: `WrittenOffForGood`, with recoveries. The invariant is the predicate
  `WrittenOff` itself. Its first half is stable because the first check of every claim
  looks at the expiry (`NoClaimOfExpired`); its second because a retired key's row keeps
  its times: an approval copies those of a stolen key, and a move or a report begins only
  with an `ACTIVE` key (`RefusedByKeyStep`, `RetiringStep`).
* `ReleasesAreSafe`: `ReleaseWritesOff`. A payment polled was signed in time
  (`SignedInTime`), so with `PhoneDrift <= Skew` a refusal comes from the key alone.
* `ReleasedStaysUnpaid`: `ReleasedIsSafe`, from `Requests = {}` and `PhoneDrift <= Skew`.
  Without reports a key is retired by a move, which leaves the account another `ACTIVE`
  key (`Succession`), so no second move of the same key commits and the exception for a
  handler in flight is not needed.
* `DeadlineIsFinal`: `DeadlineCloses`, with recoveries and any clock drift. The invariant is
  that every claim in flight began after the deadline and is still at its first check
  (`OnlyLateClaims`), which compares the deadline with the time the claim began.
* `RowsExplainBalances`: `BalancesFollowRows`, every balance is the first one with the
  ledger's CREDIT rows added and its DEBIT rows taken off. It rests on `SettledOnce` and on
  pending top-ups having no row: a row that is written is new. (No run has it; on the
  instance of `holds` TLC finds it true.)

`Treasury_proofs`:

* `TreasuryTypes`: `TreasuryTypeOK`. That no balance is negative rests on the guards
  that the approval and the payment evaluate in their own transactions.
* `CreditedIsPaid`: `CreditedWasPaid`. The strengthening is `PaidForCredit`: a
  finalizer that is about to credit has a charge that was paid (`Money_proofs`, which
  `Screens_proofs` uses too). `VouchedIsPaid`
  shows it of the verdict, for every combination of fields, and `ChargesAreFinal`
  that it stays true until the transaction runs.
* `RefundsOnce`: `RefundedOnce`. The strengthening is `RefundRows`, which names the
  one refund of a failed cashout; the count follows. `CashoutMoves` says what one
  step can do to one cashout.
* `CashoutsAreFinal`: `CashoutFinal`, from `CashoutMoves`.
* `BooksAlwaysBalance`: `BooksBalance`. One lemma for each kind of step (a credit, a
  payment, an approval, a refund) says how it changes the funds and the sets that are summed;
  `FiniteSums` says what one more member does to a sum. That a credit and a refund are
  made once makes their members new.
* `OnlyRefundsPassCap`: `BalanceCapped`. Credits and payments are compared with the cap
  when they commit; a refund adds as much to the sum of the refunds as to the balance.

`FiniteSums` has what these proofs, and those of `HoldBacked` and of the phones' promises,
need of sums over finite sets: the library's fold takes an element chosen
first, and the lemmas show that any order gives the same sum (`SumRemove`), what adding,
changing and moving an amount does, and that a part is no more than the whole. They go by
the least counterexample, on the cardinality, for induction theorems are out of reach.

`Access_proofs`:

* `AccessTypes`: the invariant is `UsersGood`, `CallsGood` (what a request in flight
  carries; a row staged for a write is one that may be written, `StagedRow`) and
  `StoreGood`.
* `CodesOpenOnce` and `CodesBurn`: `CodeOpensOnce` and `CodeBurns`. The strengthening `CodesTraced`
  follows a code from its draw to its record to the session it opened: a code being
  saved is in no record and in no other request, a stored one is in one record, which
  counts its wrong guesses, and none of these was accepted. The lock is not used in the
  proof, for it may be lost: what the code rests on is that one script compares the record
  with the one that was read and deletes or counts.
* `ActiveIsApproved`: `ActiveWasApproved`, from `UsersGood` and `StagedRow`: a row that
  waits to be written as ACTIVE had its approval when it was read.
* `RolesAreKept`: `RolesStay`, an action property of every request that writes a user.

`Till_proofs`:

* `PhonesAreTyped`: `TillTypeOK`, inductive with `Known` and what else `TablesInv` says:
  every row, answer, submission and claim is of a payment that was signed. The merchant's
  balance passes the cap by no more than what was given back.
* `SignedIsPayable` and `AcceptedHasRoom`: `SignedIsCovered` and `AcceptedFits`. A balance
  that is stored or on its way (`SnapshotsInv`) differs from the server's by the payments
  made since, and the merchant's also by the other income since; each of those payments has
  a row on the phone (`PayerKnows`, `PayeeKnows`). Cashouts only make room. So a
  phone that knows of no such payment still counts each as pending, and only the signing
  step and the scan have to be looked at.
* `TillKeepsLedger`: `Spec => LedgerInit /\ [][LedgerNext \/ cashouts]_ledgerVars`. The server
  the two phones talk to is the `PaymentLedger` that `Settlement` implements, and the
  merchant's cashouts and their refunds.
* `StatusIsTrue`: `StatusTrue`, with any number of refreshes and payments. The
  inductive invariant is `TruthInv`: every answer on its way to a refresh or a submission
  is true (`RefreshesTrue`, `SyncsTrue`), and so are the rows written from them
  (`RowsTrue`): what is reconciled is settled, what the student's phone has as rejected is
  closed. An answer stays true because settled payments stay settled and closed ones stay
  closed (`Grows`); and of a closed payment no claim begins (`ClaimsMove`), so without one in
  flight it is never made (`SettledMoves`).

`Screens_proofs`:

* `NoticesAreTrue`: `NoticeTrue`. The invariant `PageInv` says that a cashout that has not failed has no
  refund, that what an order has done is so whether or not the admin was told, and that
  only "mark as paid" reads its row before it writes it. `Moves` is what any step may do
  to one cashout.
* `PayoutsAreAsShown`: `PayoutAsShown`. The invariant `DeskInv` follows an account from the
  form to the row: a form takes to be resolved only what the gateway knows or what the list
  had (`SoundForm`), and a request leaves out only what the list and the form agree on
  (`SoundCall`). So on a row that is as the list had it, what the server puts together is
  what the form showed (`MeantIsShown`).
* `OffersAreFresh`: `OfferIsFresh`. The invariant `OfferInv` says that a list that a refresh
  has read names every open cashout the merchant was told of, unless a request crossed the
  refresh (`Reliable`), and that what a merchant was told of has a row. `Steady` is what it
  needs of the server: no step removes a cashout, gives it to another merchant or opens it
  again.
* `SuccessesAreCredited`: `SuccessIsCredited`. The invariant joins that of `CreditedIsPaid`
  with what connects it to the screen: SUCCESS is written with the credit
  (`RowsCredited`), a poll in flight is of the top-up on the screen, which shows no success
  yet, and SUCCESS is answered of a credited top-up only (`PollGood`).
* `FeesAreBacked`: `FeesBacked`. `FeesTrue` says that the columns of the row, and what the
  handlers of the answer and of the webhook have read of them, are backed by messages the
  gateway sent, and that a fee that was named is there if every handler so far wrote over
  what it had read.
* `HistoryIsWhole`: `HistoryWhole`, for any number of entries and any page size. The list on
  the screen is a stretch of the statement without holes, and a cursor or an answer on its
  way begins where the list ends, unless a refresh crossed it (`mixed`).
* `ScreensAreTyped`: `ScreensTypeOK`, from the invariants above and those of `Money_proofs`,
  scene by scene.

`Phone_proofs`:

* `PhoneIsTyped`, `HeldKeyIsStored` and `KeyIsKept`: `PhoneTypeOK`, `HeldIsStored` and
  `KeyNeverLost`, for any number of keys, PINs, kills, requests and polls. The properties are
  about states between handlers, or about one write; but a handler stopped at an await is
  known only by the writes it has still to make. So the invariant `PhoneInv` is the types
  (`PhoneTypes`: also of the programs of writes) and `PhoneSafe`:
  * `WritesSafe` says, for every kind of handler and either slot, what its remaining writes do
    to the slot: spare it, erase it, seal the same key again, or bring it to a given content;
  * `KeysSafe` follows the key a handler carries from where it was opened or made;
  * `MemorySafe` relates the keys in memory to the slots and to the handler that is about to
    change either;
  * `WorldSafe` says what 401 answers may still write, and that only the removal of the
    account lets an answer delete a slot.

  A kill leaves part of a batch (`Cuts`), a later step the rest of it; both are cases of one
  lemma on what any part of a batch of writes does to a slot (`StoredKeeps`,
  `BatchKeepsKey`). TLC checked `PhoneSafe` on five instances, of 0.1 to 2.3 million states,
  before it was proved.

The assumptions on the constants that the proofs use are those the code or the database
gives: keys have one owner; amounts are positive, windows and bounds natural numbers; the
users of `Treasury` and the payments a phone's own history starts with are finitely many,
as rows of a table are (that the other sets that are summed are finite is proved);
balances begin within the cap; credits and cashouts are finitely many; the absent
value `None` is no key, seal or row.

Only model-checked are the liveness properties, which the proof system does not
reach: `PaymentsResolve`, `PhoneCatchesUp`, `AcceptedIsAnswered` and `StartEnds`. Every invariant and every action property of a run is proved.

## 6. The plan

Done: every part of section 1 but the last, and the proofs above. Next, in this order:

1. **Treasury's `Pay`** as a step of `PaymentLedger`, so that the two money models are
   joined by a theorem and not only by their guards.
2. **What can be proved towards the liveness properties**: `DeadlineIsFinal` is the half of
   `PaymentsResolve` that is safety; that a poll after the deadline finds a guard that ends
   the payment can be stated without ENABLED and proved too.
3. **The OTP store in memory**, which the server uses without Redis, as a second
   implementation of what `OneTimeCodes` promises.

### Not modelled

* Configuration, logging, health checks, the Redis and Prisma clients, validation of
  request bodies and the global rate limiter: they decide nothing about the state.
* E-mail: that a code was sent matters only for a merchant's sign-up, and is there
  modelled as a step that may fail.
* Cryptography: signatures, canonical form, ciphers, tokens. An envelope that is
  submitted is one a phone signed. CSRF and origin checks come before any state.
* The in-memory OTP store (tests and development), support messages, the merchant list,
  the numbers of the admin's overview.
* `PendingMerchantsPage`: its route redirects to the merchants page.
  `RecoveryRequestsPage` lists and posts the decisions that `KeyRegistry` has.
* Screens that only display, and layout. A student's home screen is `Wallet`'s refreshes,
  the merchant's is `Till`'s submissions.
* On a phone: signing into an account that was removed, and two 401 answers handled at
  once.
* A second press of a button before it is disabled, double calls of `onEndReached`, and
  more than one check of a checkout at a time.
