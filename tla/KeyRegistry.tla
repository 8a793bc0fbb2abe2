----------------------------- MODULE KeyRegistry -----------------------------
(***************************************************************************)
(* Device keys and account recovery: KeysController.register (first key and*)
(* move to a new phone) and RecoveryService (report, cancel, approve,      *)
(* reject).                                                                *)
(*                                                                         *)
(* register, createRecoveryRequest and cancelRecoveryRequest decide on rows*)
(* they read before their writing statement or transaction begins, so each *)
(* is a read step and a commit step with any other step in between.        *)
(* approveRecoveryRequest and rejectRecoveryRequest read and write in one  *)
(* SERIALIZABLE transaction and are one step.  A request that fails        *)
(* changes no row; where it fails before its commit it is not a step.      *)
(***************************************************************************)
EXTENDS Accounts

CONSTANTS
  KeyCalls,        \* HTTP requests in flight at once (bound)
  Registered,      \* keys already ACTIVE when the model starts
  InitialBalance,  \* verified balance of every user when the model starts
  RotationWindow,  \* VERIFY_ONLY_WINDOW_MS of keys.controller.ts, 24 h
  RecoveryWindow   \* RECOVERY_VERIFY_ONLY_WINDOW_MS, 48 h

ASSUME KeyRegistryAssumption ==
  /\ Registered \subseteq Keys
  /\ \A j, k \in Registered : KeyOwner[j] = KeyOwner[k] => j = k
  /\ InitialBalance \in [Users -> Nat]
  /\ RotationWindow \in Nat
  /\ RecoveryWindow \in Nat

VARIABLE keyCalls  \* what each handler in flight has read

registryVars == <<accountVars, keyCalls>>

Idle == [op |-> "idle"]
KeyCall ==
  {Idle}
    \cup [op : {"first"},  new : Keys]
    \cup [op : {"rotate"}, old : Keys, new : Keys, at : Time]
    \cup [op : {"report"}, old : Keys, new : Keys, at : Time, stolen : BOOLEAN]
    \cup [op : {"cancel"}, req : Requests]

RegistryTypeOK == AccountsTypeOK /\ keyCalls \in [KeyCalls -> KeyCall]

RegistryInit ==
  /\ now = 0
  /\ balance = InitialBalance
  /\ keys = [k \in Keys |-> IF k \in Registered THEN FreshKey ELSE NoKey]
  /\ mirror = [u \in Students |->
                 IF \E k \in Registered : KeyOwner[k] = u
                   THEN CHOOSE k \in Registered : KeyOwner[k] = u ELSE NoKey]
  /\ requests = [r \in Requests |-> NoRequest]
  /\ holds = [r \in Requests |-> NoHold]
  /\ keyCalls = [c \in KeyCalls |-> Idle]

Begin(c, call) == keyCalls[c] = Idle /\ keyCalls' = [keyCalls EXCEPT ![c] = call]
End(c)         == keyCalls' = [keyCalls EXCEPT ![c] = Idle]

Retired(at, until) ==
  [status |-> "VERIFY_ONLY", retiredAt |-> at, verifyUntil |-> until]

-----------------------------------------------------------------------------
(***************************************************************************)
(* POST /auth/keys/register                                                *)
(***************************************************************************)

\* The user has no ACTIVE key and the public key is new.
FirstKeyRead(c, k) ==
  /\ ActiveKeys(KeyOwner[k]) = {}
  /\ keys[k].status = "NONE"
  /\ Begin(c, [op |-> "first", new |-> k])
  /\ UNCHANGED accountVars

\* The user has an ACTIVE key, and the phone that holds it signed the new one.
RotationRead(c, k) ==
  \E old \in ActiveKeys(KeyOwner[k]) :
    /\ keys[k].status = "NONE"
    /\ Begin(c, [op |-> "rotate", old |-> old, new |-> k, at |-> now])
    /\ UNCHANGED accountVars

\* Mutants: the index is missing; the mirror is not written.
NoActiveKeyIndex(k, gone) == keys[k].status = "NONE"
StaleMirror(k) == mirror

\* A row for key k may be inserted as ACTIVE: publicKey is unique, and a
\* partial unique index allows a user one ACTIVE key besides those in `gone`.
MayActivate(k, gone) ==
  /\ keys[k].status = "NONE"
  /\ ActiveKeys(KeyOwner[k]) \subseteq gone

MirrorOn(k) == [mirror EXCEPT ![KeyOwner[k]] = k]

FirstKeyCommit(c) ==
  /\ keyCalls[c].op = "first"
  /\ LET k == keyCalls[c].new IN
       \/ /\ MayActivate(k, {})
          /\ keys' = [keys EXCEPT ![k] = FreshKey]
          /\ mirror' = MirrorOn(k)
       \/ /\ ~MayActivate(k, {})
          /\ UNCHANGED <<keys, mirror>>
  /\ End(c)
  /\ UNCHANGED <<now, balance, requests, holds>>

\* The old key's retiredAt is a clock read between the key and this commit.
RotationCommit(c) ==
  /\ keyCalls[c].op = "rotate"
  /\ LET old == keyCalls[c].old
         k   == keyCalls[c].new
         at  == keyCalls[c].at
     IN \/ /\ MayActivate(k, {old})
           /\ \E t \in at .. now :
                keys' = [keys EXCEPT ![old] = Retired(t, t + RotationWindow), ![k] = FreshKey]
           /\ mirror' = MirrorOn(k)
        \/ /\ ~MayActivate(k, {old})
           /\ UNCHANGED <<keys, mirror>>
  /\ End(c)
  /\ UNCHANGED <<now, balance, requests, holds>>

-----------------------------------------------------------------------------
(***************************************************************************)
(* RecoveryService                                                         *)
(***************************************************************************)

FreeRequests == {r \in Requests : requests[r] = NoRequest}

\* createRecoveryRequest up to its transaction.  The last conjunct keeps a
\* row id for every report in flight (bound).
ReportRead(c, k, stolen) ==
  /\ PendingRequests(KeyOwner[k]) = {}
  /\ keys[k].status = "NONE"
  /\ \E old \in ActiveKeys(KeyOwner[k]) :
       Begin(c, [op |-> "report", old |-> old, new |-> k, at |-> now, stolen |-> stolen])
  /\ Cardinality(FreeRequests) > Cardinality({d \in KeyCalls : keyCalls[d].op = "report"})
  /\ UNCHANGED accountVars

\* A stolen or compromised phone loses its signing authority at the report, of
\* which t is the clock that createRecoveryRequest read.
KeysAfterReport(call, t) ==
  IF call.stolen THEN [keys EXCEPT ![call.old] = Retired(t, t + RecoveryWindow)]
                 ELSE keys

\* The transaction of createRecoveryRequest.  A second PENDING request of the
\* user breaks the partial unique index, and the pending one is returned.
ReportCommit(c) ==
  /\ keyCalls[c].op = "report"
  /\ LET call == keyCalls[c] IN
       \/ /\ PendingRequests(KeyOwner[call.old]) = {}
          /\ \E r \in FreeRequests :
               requests' = [requests EXCEPT ![r] =
                 [status |-> "PENDING", old |-> call.old, new |-> call.new,
                  stolen |-> call.stolen]]
          /\ \E t \in call.at .. now : keys' = KeysAfterReport(call, t)
       \/ /\ PendingRequests(KeyOwner[call.old]) # {}
          /\ UNCHANGED <<requests, keys>>
  /\ End(c)
  /\ UNCHANGED <<now, balance, mirror, holds>>

CancelRead(c, r) ==
  /\ requests[r].status = "PENDING"
  /\ Begin(c, [op |-> "cancel", req |-> r])
  /\ UNCHANGED accountVars

\* The update of cancelRecoveryRequest, by id alone.
CancelCommit(c) ==
  /\ keyCalls[c].op = "cancel"
  /\ requests' = [requests EXCEPT ![keyCalls[c].req].status = "CANCELLED"]
  /\ End(c)
  /\ UNCHANGED <<now, balance, keys, mirror, holds>>

\* What approval requires of the old key, and what it leaves in its row.
OldKeyRestrictable(r) ==
  LET row == keys[requests[r].old] IN
    IF requests[r].stolen
      THEN row.status = "VERIFY_ONLY" /\ row.retiredAt # Never
      ELSE row.status = "ACTIVE"

\* Mutants: the old key keeps its authority; its row is deleted; a stolen key is
\* retired once more, as of now.
KeptKey(r)     == keys[requests[r].old]
DeletedKey(r)  == NoKey
RetiredAnew(r) == Retired(now, now + RecoveryWindow)

OldKeyAfterApproval(r) ==
  LET row == keys[requests[r].old] IN
    IF ~requests[r].stolen
      THEN Retired(now, now + RecoveryWindow)
      ELSE Retired(row.retiredAt,
              IF row.verifyUntil # Never THEN row.verifyUntil
                                         ELSE row.retiredAt + RecoveryWindow)

\* A hold of the whole verified balance, which only the old key may draw on.
HoldOnApproval(r) ==
  LET held == balance[KeyOwner[requests[r].old]] IN
    IF held = 0 THEN NoHold
    ELSE [old |-> requests[r].old, held |-> held, consumed |-> 0,
          until |-> now + RecoveryWindow, since |-> now]

Approve(r) ==
  /\ requests[r].status = "PENDING"
  /\ OldKeyRestrictable(r)
  /\ MayActivate(requests[r].new, {requests[r].old})
  /\ keys' = [keys EXCEPT ![requests[r].old] = OldKeyAfterApproval(r),
                          ![requests[r].new] = FreshKey]
  /\ mirror' = MirrorOn(requests[r].new)
  /\ requests' = [requests EXCEPT ![r].status = "APPROVED"]
  /\ holds' = [holds EXCEPT ![r] = HoldOnApproval(r)]
  /\ UNCHANGED <<now, balance, keyCalls>>

\* A stolen key stays VERIFY_ONLY: rejecting the request restores nothing.
Reject(r) ==
  /\ requests[r].status = "PENDING"
  /\ requests' = [requests EXCEPT ![r].status = "REJECTED"]
  /\ UNCHANGED <<now, balance, keys, mirror, holds, keyCalls>>

-----------------------------------------------------------------------------
KeyStep(c) ==
  \/ \E k \in Keys : FirstKeyRead(c, k)
  \/ \E k \in Keys : RotationRead(c, k)
  \/ \E k \in Keys, stolen \in BOOLEAN : ReportRead(c, k, stolen)
  \/ \E r \in Requests : CancelRead(c, r)
  \/ FirstKeyCommit(c)
  \/ RotationCommit(c)
  \/ ReportCommit(c)
  \/ CancelCommit(c)

AdminStep(r) == Approve(r) \/ Reject(r)

HandlerStep ==
  \/ \E c \in KeyCalls : KeyStep(c)
  \/ \E r \in Requests : AdminStep(r)

RegistryNext ==
  \/ HandlerStep
  \/ Tick /\ UNCHANGED keyCalls

RegistrySpec == RegistryInit /\ [][RegistryNext]_registryVars

-----------------------------------------------------------------------------
(***************************************************************************)
(* Properties                                                              *)
(***************************************************************************)

\* What a handler in flight or a request row names is still there: rows are
\* never deleted, so acting on an old read never touches a missing row.  (The
\* part of the inductive invariant that the types need.)
NamedRowsExist ==
  /\ \A c \in KeyCalls : keyCalls[c].op = "cancel" => requests[keyCalls[c].req] # NoRequest
  /\ \A c \in KeyCalls : keyCalls[c].op \in {"rotate", "report"} =>
       keys[keyCalls[c].old].status # "NONE"
  /\ \A r \in Requests : requests[r] # NoRequest => keys[requests[r].old].status # "NONE"

\* A user never has two ACTIVE keys, whatever registrations, moves and
\* approvals overlap (UserDeviceKey's partial unique index is the only guard
\* that sees both transactions).
OneActiveKey ==
  \A j, k \in Keys :
    (/\ KeyOwner[j] = KeyOwner[k]
     /\ keys[j].status = "ACTIVE"
     /\ keys[k].status = "ACTIVE") => j = k

\* User.publicKey names the ACTIVE key whenever there is one, although three
\* handlers write the two tables.
MirrorNamesActiveKey ==
  \A k \in Keys : keys[k].status = "ACTIVE" => mirror[KeyOwner[k]] = k

\* A handler in flight read the key ACTIVE and will write to its row.
BeingRetired(k) ==
  \E c \in KeyCalls : keyCalls[c].op \in {"rotate", "report"} /\ keyCalls[c].old = k

\* A report, whatever has become of it, calls the phone of the key stolen.
ReportedStolen(k) ==
  \E r \in Requests : requests[r] # NoRequest /\ requests[r].stolen /\ requests[r].old = k

\* The row of a key reported stolen, between the steps.
StolenKeyRetired ==
  \A k \in Keys : ReportedStolen(k) =>
    /\ keys[k].status = "VERIFY_ONLY"
    /\ keys[k].retiredAt <= now
    /\ keys[k].verifyUntil # Never

\* The key of a phone that was reported stolen is retired, whatever becomes of
\* the report: approved, rejected, cancelled, or raced by a move or by another
\* report.  And once no handler is left that read the key while it was ACTIVE,
\* nothing touches its row any more, so that what was signed after the time in
\* it is refused for good.  (Until then such a handler may overwrite that time
\* by the one it read itself: a payment signed between the two is taken,
\* although docs/key-recovery-policy.md:269 has "Payments signed after the
\* report time must be rejected".)
StolenKeyStopped ==
  /\ []StolenKeyRetired
  /\ [][\A k \in Keys : (ReportedStolen(k) /\ ~BeingRetired(k))
         => keys'[k] = keys[k] /\ ~BeingRetired(k)']_registryVars

\* Money is held only behind a key that can no longer sign, by a request that
\* was approved (a late cancellation may have rewritten its status).
HoldFollowsApproval ==
  \A r \in Requests : holds[r] # NoHold =>
    /\ requests[r] # NoRequest
    /\ requests[r].status \in {"APPROVED", "CANCELLED"}
    /\ requests[r].old = holds[r].old
    /\ keys[holds[r].old].status = "VERIFY_ONLY"

\* A key goes forward only, unregistered to ACTIVE to VERIFY_ONLY: no step
\* removes a row or gives a retired key back its authority.
KeyLifecycle ==
  [][\A k \in Keys :
       /\ keys[k].status = "VERIFY_ONLY" => keys'[k].status = "VERIFY_ONLY"
       /\ keys[k].status = "ACTIVE" => keys'[k].status \in {"ACTIVE", "VERIFY_ONLY"}
       /\ keys[k].status = "NONE" => keys'[k].status \in {"NONE", "ACTIVE"}]_keys
=============================================================================
