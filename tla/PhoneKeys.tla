----------------------------- MODULE PhoneKeys -----------------------------
(***************************************************************************)
(* Keys of the phone: the first one, a changed PIN, recovery by support,   *)
(* transfer from or to another phone, and the local resets.                *)
(***************************************************************************)
EXTENDS PhoneSession

CONSTANT TransferOffered  \* ENABLE_OLD_PHONE_APPROVAL of the build

\* completeOnboarding does nothing outside onboarding and recovery.
CompleteOnboarding(key) ==
  IF app.status \in Enrolling
  THEN /\ held' = [key |-> key, staged |-> None]
       /\ app' = Authed(TRUE)
  ELSE UNCHANGED <<held, app>>

----------------------------------------------------------------------------
\* Setup (pin-setup.tsx, generating-keys.tsx).  The new key is saved in the
\* active slot before the server is asked.
SetupOffered == app.status = "onboarding"

Setup ==
  /\ Idle /\ SetupOffered /\ made < MaxKeys
  /\ \E pin \in Pins :
       Start("setup", "register", SaveSlot("active", made + 1, made + 1, pin), made + 1, made + 1)
  /\ made' = made + 1
  /\ UNCHANGED <<disk, app, held, tail, flight, srv, sigs, kills>>

Register ==
  /\ At("setup", "register") /\ Admitted
  /\ \/ /\ TakesFirst(job.key)
        /\ srv' = Activated(job.key)
        /\ Then("done", <<>>) \/ Finish   \* Finish: the answer is lost
     \/ /\ srv.active # None /\ ActiveThere
        /\ Then("stage", MoveSlot(disk.active, "active", "pending"))
        /\ UNCHANGED srv
  /\ UNCHANGED <<disk, app, held, tail, flight, sigs, made, kills>>

\* No connection, an error, or a refusal: the screen says so and the key stays.
RegisterFails ==
  /\ job.kind = "setup" /\ job.at = "register" /\ job.todo = <<>>
  /\ Finish
  /\ NoAlarm \/ (~Admitted /\ Unauthorized)
  /\ UNCHANGED <<disk, app, flight, srv, sigs, made, kills>>

Onboarded ==
  /\ At("setup", "done")
  /\ CompleteOnboarding(job.key)
  /\ Finish
  /\ UNCHANGED <<disk, tail, flight, srv, sigs, made, kills>>

\* Mutant of Stage: a key staged before is kept.
StageOnce ==
  /\ At("setup", "stage")
  /\ held' = IF held.staged = None THEN [held EXCEPT !.staged = job.key] ELSE held
  /\ Finish
  /\ UNCHANGED <<disk, app, tail, flight, srv, sigs, made, kills>>

\* The account has a key elsewhere: the new one waits in the pending slot.
Stage ==
  /\ At("setup", "stage")
  /\ held' = [held EXCEPT !.staged = job.key]
  /\ Finish
  /\ UNCHANGED <<disk, app, tail, flight, srv, sigs, made, kills>>

PinChangeOffered == app.status = "authed"

\* change-pin.tsx: a wrong current PIN changes nothing and is not counted.
ChangePin ==
  /\ Idle /\ PinChangeOffered
  /\ \E old, new \in Pins :
       /\ old # new /\ Opens(disk.active, old)
       /\ StartWriting("changePin", "over",
                       SaveSlot("active", disk.active.blob.key, disk.active.pub, new))
  /\ UNCHANGED <<disk, app, held, tail, flight, srv, sigs, made, kills>>

----------------------------------------------------------------------------
\* Recovery by support (device-linked.tsx, recovery-request.tsx, recovery-pending.tsx).
RecoveryOffered == app.status \in Enrolling

LoadStatus ==
  /\ RecoveryOffered
  /\ \/ Admitted /\ app' = [app EXCEPT !.seen = srv.req] /\ NoAlarm
     \/ ~Admitted /\ app' = [app EXCEPT !.seen = None] /\ Unauthorized
  /\ UNCHANGED <<disk, job, flight, srv, sigs, made, kills>>

RequestOpen == srv.req # None /\ srv.req.status = "PENDING"
LatestId == IF srv.req = None THEN 0 ELSE srv.req.id

Requested(key, stolen) ==
  [srv EXCEPT !.req = [id |-> LatestId + 1, status |-> "PENDING", key |-> key],
              !.active = IF stolen THEN None ELSE @]

\* recovery.service.ts: an open request is returned as it is, whatever its key.
MayRequest(key) ==
  /\ ~RequestOpen /\ LatestId < MaxRequests
  /\ srv.active # None /\ key \notin srv.registered

Request ==
  /\ Idle /\ RecoveryOffered /\ Admitted
  /\ disk.pending.pub # None /\ MayRequest(disk.pending.pub)
  /\ \E stolen \in BOOLEAN : srv' = Requested(disk.pending.pub, stolen)
  /\ UNCHANGED <<disk, app, held, job, tail, flight, sigs, made, kills>>

\* The buttons of recovery-pending.tsx depend on the request it loaded.
Shows(status) == RecoveryOffered /\ app.seen # None /\ app.seen.status = status

\* The server cancels the request the screen shows if it is still open.
Cancel ==
  /\ Idle /\ Shows("PENDING") /\ Admitted
  /\ RequestOpen /\ srv.req.id = app.seen.id
  /\ srv' = [srv EXCEPT !.req.status = "CANCELLED"]
  /\ StartWriting("cancel", "discard", <<>>) \/ job' = job  \* the answer is lost
  /\ UNCHANGED <<disk, app, held, tail, flight, sigs, made, kills>>

Discard ==
  /\ At("cancel", "discard")
  /\ held' = [held EXCEPT !.staged = None]
  /\ Then("reload", WipeSlot("pending"))
  /\ UNCHANGED <<disk, app, tail, flight, srv, sigs, made, kills>>

Reload ==
  /\ At("cancel", "reload")
  /\ app' = [app EXCEPT !.seen = None]
  /\ Finish
  /\ UNCHANGED <<disk, held, tail, flight, srv, sigs, made, kills>>

\* Activation of what the loaded status calls approved.  The staged key needs
\* no PIN; without it the pending slot must open.
Activate ==
  /\ Idle /\ Shows("APPROVED") /\ PendingThere
  /\ \/ /\ held.staged # None
        /\ Start("activate", "promote", <<>>, held.staged, None)
     \/ /\ held.staged = None
        /\ \E pin \in Pins :
             /\ Opens(disk.pending, pin)
             /\ Start("activate", "promote", ClearTries("pending"), disk.pending.blob.key, None)
  /\ UNCHANGED <<disk, app, held, tail, flight, srv, sigs, made, kills>>

MoveOffered == TransferOffered /\ RecoveryOffered

\* A scanned approval must be for the key that waits here.
ApprovalFor(key) == \E s \in sigs : s.new = key

\* A wrong PIN for the pending key; at the cap it is wiped, twice.
WrongPendingPin ==
  /\ Idle /\ held.staged = None
  /\ PendingThere /\ ~Locked(disk.pending)
  /\ Shows("APPROVED") \/ (MoveOffered /\ ApprovalFor(disk.pending.pub))
  /\ \E pin \in Pins : ~Opens(disk.pending, pin)
  /\ StartWriting("wrongPending", "over",
       WrongTry(disk.pending, "pending")
         \o (IF LastTry(disk.pending) THEN WipeSlot("pending") ELSE <<>>))
  /\ UNCHANGED <<disk, app, held, tail, flight, srv, sigs, made, kills>>

----------------------------------------------------------------------------
\* Transfer from the old phone (move-device.tsx, scan-device-approval.tsx).
PendingKey == IF held.staged # None THEN held.staged ELSE disk.pending.pub

ScanApproval ==
  /\ MoveOffered /\ Idle
  /\ PendingKey # None /\ ApprovalFor(PendingKey)
  /\ \/ held.staged # None /\ Start("transfer", "ask", <<>>, held.staged, held.staged)
     \/ /\ held.staged = None
        /\ \E pin \in Pins :
             /\ Opens(disk.pending, pin)
             /\ Start("transfer", "ask", <<>>, disk.pending.blob.key, disk.pending.pub)
  /\ UNCHANGED <<disk, app, held, tail, flight, srv, sigs, made, kills>>

\* activateDeviceApproval: the token is looked at before the server is asked.
\* An invalid signature is the one 401 that does not run the handler.
RegisterMove ==
  /\ At("transfer", "ask") /\ Admitted
  /\ \E s \in sigs :
       /\ s.new = job.pub
       /\ TakesFirst(job.pub) \/ TakesMove(job.pub, s.by)
  /\ srv' = Activated(job.pub)
  /\ Then("promote", <<>>) \/ Finish
  /\ UNCHANGED <<disk, app, held, tail, flight, sigs, made, kills>>

MoveFails ==
  /\ At("transfer", "ask")
  /\ Finish
  /\ NoAlarm \/ (disk.phone.token = "fresh" /\ ~srv.exists /\ Unauthorized)
  /\ UNCHANGED <<disk, app, flight, srv, sigs, made, kills>>

\* promotePendingRecoveryKeypair reads the slot it copies.
Promote ==
  /\ job.kind \in {"activate", "transfer"} /\ job.at = "promote" /\ job.todo = <<>>
  /\ IF PendingThere
     THEN Then("promoted", MoveSlot(disk.pending, "pending", "active"))
     ELSE Finish
  /\ UNCHANGED <<disk, app, held, tail, flight, srv, sigs, made, kills>>

Promoted ==
  /\ job.kind \in {"activate", "transfer"} /\ job.at = "promoted" /\ job.todo = <<>>
  /\ CompleteOnboarding(job.key)
  /\ IF job.kind = "transfer" THEN Then("over", ClearTries("pending")) ELSE Finish
  /\ UNCHANGED <<disk, tail, flight, srv, sigs, made, kills>>

\* approve-new-phone.tsx: this phone signs the key of the account's other one.
ApproveNewPhone ==
  /\ Idle /\ ApprovalOffered /\ Other \notin srv.registered
  /\ \E pin \in Pins :
       /\ Opens(disk.active, pin) /\ disk.active.pub = disk.active.blob.key
       /\ Start("approve", "sign", ClearTries("active"), disk.active.blob.key, None)
  /\ UNCHANGED <<disk, app, held, tail, flight, srv, sigs, made, kills>>

ShowApproval ==
  /\ At("approve", "sign")
  /\ sigs' = sigs \cup {[new |-> Other, by |-> job.key]}
  /\ Finish
  /\ UNCHANGED <<disk, app, held, tail, flight, srv, made, kills>>

----------------------------------------------------------------------------
\* The local resets that settings.tsx and the PIN screen offer for testing.
ResetOffered == UserKnown

ResetApp ==
  /\ Idle /\ ResetOffered
  /\ StartWriting("reset", "reset",
       << Deletes("active") \cup Deletes("pending") \cup {Write("phone", "token", None)} >>)
  /\ UNCHANGED <<disk, app, held, tail, flight, srv, sigs, made, kills>>

ResetDone ==
  /\ At("reset", "reset")
  /\ held' = [key |-> None, staged |-> None]
  /\ disk' = Stored(disk, {Write("phone", "profile", None)})
  /\ app' = Unauthed
  /\ Finish
  /\ UNCHANGED <<tail, flight, srv, sigs, made, kills>>

WipeKey ==
  /\ Idle /\ app.status = "authed"
  /\ StartWriting("wipeKey", "wiped", WipeSlot("active"))
  /\ UNCHANGED <<disk, app, held, tail, flight, srv, sigs, made, kills>>

KeyWiped ==
  /\ At("wipeKey", "wiped")
  /\ held' = [held EXCEPT !.key = None]
  /\ app' = IF app.status = "authed" THEN State("onboarding", FALSE, "unset") ELSE app
  /\ Finish
  /\ UNCHANGED <<disk, tail, flight, srv, sigs, made, kills>>

----------------------------------------------------------------------------
\* The rest of the world: support, the account's other phone, its old phone.
SupportApproves ==
  /\ RequestOpen /\ srv.req.key \notin srv.registered
  /\ srv' = [Activated(srv.req.key) EXCEPT !.req.status = "APPROVED"]
  /\ UNCHANGED <<disk, app, held, job, tail, flight, sigs, made, kills>>

SupportRejects ==
  /\ RequestOpen
  /\ srv' = [srv EXCEPT !.req.status = "REJECTED"]
  /\ UNCHANGED <<disk, app, held, job, tail, flight, sigs, made, kills>>

OtherPhone ==
  /\ srv.exists
  /\ \/ TakesFirst(Other) /\ srv' = Activated(Other)
     \/ /\ \E s \in sigs : s.new = Other /\ TakesMove(Other, s.by)
        /\ srv' = Activated(Other)
     \/ MayRequest(Other) /\ \E stolen \in BOOLEAN : srv' = Requested(Other, stolen)
  /\ srv' # srv
  /\ UNCHANGED <<disk, app, held, job, tail, flight, sigs, made, kills>>

OldPhoneSigns ==
  /\ MoveOffered /\ PendingKey # None
  /\ Other \in srv.registered
  /\ sigs' = sigs \cup {[new |-> PendingKey, by |-> Other]}
  /\ sigs' # sigs
  /\ UNCHANGED <<disk, app, held, job, tail, flight, srv, made, kills>>

----------------------------------------------------------------------------
KeyAnswers == Register \/ RegisterFails \/ Onboarded \/ Stage \/ Discard \/ Reload
              \/ RegisterMove \/ MoveFails \/ Promote \/ Promoted \/ ShowApproval
              \/ ResetDone \/ KeyWiped
KeyStarts == Setup \/ ChangePin \/ LoadStatus \/ Request \/ Cancel \/ Activate
             \/ WrongPendingPin \/ ScanApproval \/ ApproveNewPhone \/ ResetApp \/ WipeKey
Others == SupportApproves \/ SupportRejects \/ OtherPhone \/ OldPhoneSigns
=============================================================================
