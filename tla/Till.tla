--------------------------------- MODULE Till ---------------------------------
(***************************************************************************)
(* The merchant's phone, and the whole of an offline payment: the student's*)
(* phone signs (Wallet), the merchant's phone scans and keeps the payment, *)
(* and later submits what it keeps to the server (Server).                 *)
(*                                                                         *)
(* Two screens submit: home, once at a time, and the success screen after  *)
(* a scan, which does not look whether anybody is at it.  Home fetches the *)
(* merchant's balance when it is shown, every 30 s, on a pull and after it *)
(* submitted, and nothing orders these fetches.                            *)
(***************************************************************************)
EXTENDS Wallet

CONSTANTS
  Screens,     \* submissions in flight at once: "home", and others
  Fetches      \* GET /me in flight at once (bound)

VARIABLES
  till,        \* the merchant's table of incoming payments
  verified,    \* verifiedBalanceKobo, with what it accounts for
  syncs,       \* how far every submission has come
  profiles     \* how far every GET /me has come

tillVars == <<till, verified, syncs, profiles>>
vars     == <<serverVars, walletVars, tillVars>>

ASSUME ScreensAssumption == "home" \in Screens

Resting == [at |-> "resting"]
Sync ==
  {Resting}
    \cup [at : {"submitted"}, todo : SUBSET Payments, rest : SUBSET Payments,
          answers : Answers(Payments)]
NotAsked == [at |-> "notAsked"]
Profile  ==
  [available : Nat, made : SUBSET Payments, other : SUBSET (Credits \cup Cashouts)]
Fetch    == {NotAsked} \cup [at : {"fetched"}, me : Profile]

\* What GET /me answers now.
Me == [available |-> balance[Merchant], made |-> settled, other |-> OtherIncome]

Init ==
  /\ WalletInit
  /\ till = EmptyRows
  /\ verified = Me
  /\ syncs = [s \in Screens |-> Resting]
  /\ profiles = [f \in Fetches |-> NotAsked]

-----------------------------------------------------------------------------
(***************************************************************************)
(* merchant/scan-envelope                                                  *)
(***************************************************************************)

\* Mutant: what is scanned and not settled does not count.
RoomAlone(e) == verified.available + e.amount <= MaxBalance

\* assertIncomingWithinRegulatoryHeadroom.
Headroom(e) == verified.available + SumPending(till) + e.amount <= MaxBalance

Scan(e) ==
  /\ e \in issued
  /\ Headroom(e)
  /\ Insertable(till, e)
  /\ till' = Insert(till, e)
  /\ UNCHANGED <<serverVars, walletVars, verified, syncs, profiles>>

-----------------------------------------------------------------------------
(***************************************************************************)
(* syncPendingEnvelopes and POST /reconcile                                *)
(***************************************************************************)
Sending(batch, rest) ==
  [at |-> "submitted", todo |-> batch, rest |-> rest, answers |-> <<>>]

\* What is pending now goes out in batches, one request after the other.
Submit(s) ==
  /\ syncs[s] = Resting
  /\ Pending(till) # {}
  /\ \E b \in Batches(Pending(till)) :
       syncs' = [syncs EXCEPT ![s] = Sending(b, Pending(till) \ b)]
  /\ UNCHANGED <<serverVars, walletVars, till, verified, profiles>>

\* The server gets to a payment of the request.
Receive(s, e) ==
  /\ syncs[s] # Resting
  /\ e \in syncs[s].todo
  /\ Admit(e)
  /\ UNCHANGED <<walletVars, tillVars>>

AndAlso(answers, e, status) ==
  [f \in DOMAIN answers \cup {e} |-> IF f = e THEN status ELSE answers[f]]

Answered(s, e, status) ==
  syncs' = [syncs EXCEPT ![s].todo = @ \ {e}, ![s].answers = AndAlso(@, e, status)]

\* One payment of the request is made, was made before, or is refused.
MadeOrBefore(s, e) ==
  /\ e \in settled
  /\ Answered(s, e, "reconciled")

\* Mutant: too little money is no answer.
RefuseLater(s, e) ==
  /\ Refusable(e)
  /\ Answered(s, e, IF Fundable(e) THEN "rejected" ELSE "unknown")

Refuse(s, e) ==
  /\ Refusable(e)
  /\ Answered(s, e, "rejected")

Reconcile(s) ==
  /\ syncs[s] # Resting
  /\ \E e \in syncs[s].todo : MadeOrBefore(s, e) \/ Refuse(s, e)
  /\ UNCHANGED <<serverVars, walletVars, till, verified, profiles>>

TakeResults(s) ==
  /\ syncs[s] # Resting
  /\ syncs[s].todo = {}
  /\ till' = Update(till, syncs[s].answers)
  /\ \/ /\ syncs[s].rest = {}
        /\ syncs' = [syncs EXCEPT ![s] = Resting]
     \/ /\ syncs[s].rest # {}
        /\ \E b \in Batches(syncs[s].rest) :
             syncs' = [syncs EXCEPT ![s] = Sending(b, syncs[s].rest \ b)]
  /\ UNCHANGED <<serverVars, walletVars, verified, profiles>>

\* The request or its answer is lost, wherever the server is with it, and with
\* it the batches that were to follow.
SyncFails(s) ==
  /\ syncs[s] # Resting
  /\ syncs' = [syncs EXCEPT ![s] = Resting]
  /\ UNCHANGED <<serverVars, walletVars, till, verified, profiles>>

-----------------------------------------------------------------------------
(***************************************************************************)
(* The merchant's balance: refreshData of the home screen                  *)
(***************************************************************************)

AnswerProfile(f) ==
  /\ profiles[f] = NotAsked
  /\ profiles' = [profiles EXCEPT ![f] = [at |-> "fetched", me |-> Me]]
  /\ UNCHANGED <<serverVars, walletVars, till, verified, syncs>>

TakeProfile(f) ==
  /\ profiles[f] # NotAsked
  /\ verified' = profiles[f].me
  /\ profiles' = [profiles EXCEPT ![f] = NotAsked]
  /\ UNCHANGED <<serverVars, walletVars, till, syncs>>

ProfileFails(f) ==
  /\ profiles[f] # NotAsked
  /\ profiles' = [profiles EXCEPT ![f] = NotAsked]
  /\ UNCHANGED <<serverVars, walletVars, till, verified, syncs>>

KillTill ==
  /\ syncs' = [s \in Screens |-> Resting]
  /\ profiles' = [f \in Fetches |-> NotAsked]
  /\ UNCHANGED <<serverVars, walletVars, till, verified>>

-----------------------------------------------------------------------------
TillStep ==
  \/ \E e \in Payments : Scan(e)
  \/ \E s \in Screens : Submit(s) \/ Reconcile(s) \/ TakeResults(s) \/ SyncFails(s)
  \/ \E f \in Fetches : AnswerProfile(f) \/ TakeProfile(f) \/ ProfileFails(f)
  \/ KillTill

Next ==
  \/ WalletStep /\ UNCHANGED tillVars
  \/ TillStep
  \/ \E s \in Screens, e \in Payments : Receive(s, e)
  \/ ServerStep /\ UNCHANGED <<walletVars, tillVars>>

\* Time passes, so that no payment stays open for ever (PaymentsResolve of
\* Settlement), and requests are made again and again and do not fail for ever.
\* The home screen refreshes every 30 s, and submits when there is more to
\* submit and when it comes online again; after an answer that is an error it is
\* the merchant who submits, by Sync Now, the next scan or opening the screen.
\* (That a claim is ever paid is not assumed, nor anything of the success screen,
\* which submits once.)
Fairness ==
  /\ \A r \in Refreshes :
       /\ WF_vars(BeginRefresh(r) /\ UNCHANGED tillVars)
       /\ SF_vars(AnswerBatch(r) /\ UNCHANGED tillVars)
       /\ SF_vars(TakeAnswers(r) /\ UNCHANGED tillVars)
       /\ SF_vars(AnswerMe(r) /\ UNCHANGED tillVars)
       /\ SF_vars(StoreBalance(r) /\ UNCHANGED tillVars)
  /\ WF_vars(Submit("home"))
  /\ \A e \in Payments : WF_vars(Close(e) /\ UNCHANGED <<walletVars, tillVars>>)
  /\ SF_vars(Reconcile("home"))
  /\ SF_vars(TakeResults("home"))

Spec     == Init /\ [][Next]_vars
FairSpec == Spec /\ Fairness

-----------------------------------------------------------------------------
(***************************************************************************)
(* Properties                                                              *)
(***************************************************************************)

\* Every table, request in flight and snapshot has its type, the student's
\* balance is within the cap, and the merchant's above it by no more than what
\* failed cashouts gave back.
TillTypeOK ==
  /\ WalletTypeOK
  /\ till \in Rows
  /\ verified \in Profile
  /\ syncs \in [Screens -> Sync]
  /\ profiles \in [Fetches -> Fetch]

\* What a phone knows to be final is so, in whatever order overlapping polls
\* and submissions are answered: a payment shown as reconciled was made, and one
\* that the student's phone shows as refused stays unpaid and unclaimed, unless
\* a claim of it was being handled.  (Such a claim may still be paid, and the
\* phone that gave the money back does not ask again; and a merchant's row may
\* say rejected of a payment that another request made.  The phone's clock is
\* taken to be within the server's tolerance, and no report of a lost phone to
\* overlap another: see ReleasedIsSafe and WrittenOff of Settlement.)
StatusTrue ==
  /\ [](\A e \in Payments :
         rows[e] = "reconciled" \/ till[e] = "reconciled" => e \in settled)
  /\ [][\A e \in Payments :
         (rows[e] = "rejected" /\ e \notin claims \cup settled)
           => e \notin (claims \cup settled)']_vars

\* A balance and a table together account for every payment that was made.
Accounted(table, made) == settled \ Pending(table) \subseteq made
Owed(table) == Pending(table) \ settled

\* A student's phone whose stored balance accounts for every payment made that
\* is not pending in its table signs only what the server can pay together with
\* everything else that is pending: a merchant who accepts it offline gets the
\* money.
SignedIsCovered ==
  [][\A e \in Payments :
       (rows[e] = "none" /\ rows'[e] = "pending" /\ Accounted(rows, stored.made))
         => Total(Owed(rows)') <= balance[Student]]_vars

\* Likewise a merchant's phone accepts only what its account has room for, but
\* for what came in otherwise since its balance was fetched: a top-up, or a
\* failed cashout that was given back whatever the cap.
AcceptedFits ==
  [][\A e \in Payments :
       (till[e] = "none" /\ till'[e] = "pending" /\ Accounted(till, verified.made))
         => balance[Merchant] + Total(Owed(till)')
              <= MaxBalance + Total(OtherIncome \ verified.other)]_vars

\* The phones learn the truth: once the student has stopped paying and the
\* server is quiet, the student's phone has the server's balance and reserves
\* no money any more.
CaughtUp ==
  /\ stored # None
  /\ stored.available = balance[Student]
  /\ Pending(rows) = {}

PhoneCatchesUp == <>[]CaughtUp

\* A payment the merchant accepted gets its answer.
AcceptedIsAnswered == \A e \in Payments : till[e] = "pending" ~> till[e] # "pending"
=============================================================================
