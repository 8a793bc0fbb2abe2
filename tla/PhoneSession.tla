--------------------------- MODULE PhoneSession ---------------------------
(***************************************************************************)
(* Start, sign-in, unlocking, locking, and what a 401 or a missing account *)
(* does to the phone (mobile/src/auth/auth-provider.tsx).                  *)
(***************************************************************************)
EXTENDS PhoneState

ActiveThere  == Complete(disk.active)
PendingThere == Complete(disk.pending)

----------------------------------------------------------------------------
\* Start of the app.
BootDecides ==
  CASE ~ActiveThere /\ disk.phone.token = None -> [at |-> "end", app |-> Unauthed]
    [] ~ActiveThere /\ ~PendingThere /\ disk.phone.token # None -> [at |-> "newcomer", app |-> app]
    [] ~ActiveThere /\ PendingThere /\ disk.phone.token # None -> [at |-> "recovering", app |-> app]
    [] ActiveThere /\ disk.phone.token = None ->
         [at |-> "end", app |-> LockedOrUnauthed(Profile, FALSE, "no")]
    [] ActiveThere /\ disk.phone.token # None -> [at |-> "returning", app |-> app]

BootRead ==
  /\ At("boot", "read")
  /\ app' = BootDecides.app
  /\ job' = IF BootDecides.at = "end"
            THEN NoJob
            ELSE [job EXCEPT !.at = BootDecides.at, !.token = disk.phone.token]
  /\ UNCHANGED <<disk, held, tail, flight, srv, sigs, made, kills>>

\* The state the boot reaches once it has a profile; `fetched` if from /me.
BootState(fetched) ==
  CASE job.at = "newcomer"   -> State("onboarding", FALSE, "unset")
    [] job.at = "recovering" -> State("recovery_pending", FALSE, "unset")
    [] job.at = "returning"  ->
         IF fetched
         THEN LockedOrUnauthed(TRUE, job.token = "fresh", "unset")
         ELSE LockedOrUnauthed(TRUE, FALSE, "no")

Booting == job.kind = "boot" /\ job.todo = <<>> /\ job.at \in {"newcomer", "recovering", "returning"}

BootMeOk ==
  /\ Booting /\ Admitted
  /\ disk' = Stored(disk, {Write("phone", "profile", "cached")})
  /\ app' = BootState(TRUE)
  /\ Finish
  /\ UNCHANGED <<held, tail, flight, srv, sigs, made, kills>>

\* Mutant of BootMeFails: a failure without a profile only ends the handler.
BootMeGivesUp ==
  /\ Booting
  /\ IF job.at # "newcomer" /\ Profile THEN app' = BootState(FALSE) ELSE app' = app
  /\ Finish
  /\ NoAlarm \/ (~Admitted /\ Unauthorized)
  /\ UNCHANGED <<disk, flight, srv, sigs, made, kills>>

\* Offline, refused, or an error of the server: a cached profile will do, but
\* a newcomer has none that counts.  The token goes when there is no profile.
BootMeFails ==
  /\ Booting
  /\ IF job.at # "newcomer" /\ Profile
     THEN app' = BootState(FALSE) /\ Finish
     ELSE app' = app /\ Then("dropped", SetToken(None))
  /\ NoAlarm \/ (~Admitted /\ Unauthorized)
  /\ UNCHANGED <<disk, flight, srv, sigs, made, kills>>

BootDropped ==
  /\ At("boot", "dropped")
  /\ app' = Unauthed
  /\ Finish
  /\ UNCHANGED <<disk, held, tail, flight, srv, sigs, made, kills>>

\* resetLocalAuthAfterMissingUser, then unauthed.  The pending slot stays.
ForgetAccount == SetToken(None) \o ClearTries("active") \o WipeSlot("active")

BootMeMissing ==
  /\ Booting /\ ~srv.exists
  /\ Then("gone", ForgetAccount)
  /\ UNCHANGED <<disk, app, held, tail, flight, srv, sigs, made, kills>>

BootGone ==
  /\ At("boot", "gone")
  /\ app' = Unauthed
  /\ held' = [held EXCEPT !.key = None]
  /\ Finish
  /\ UNCHANGED <<disk, tail, flight, srv, sigs, made, kills>>

----------------------------------------------------------------------------
\* The unauthorized handler.
RefusedRead ==
  /\ tail.kind = "refused" /\ tail.at = "read"
  /\ IF PendingThere
     THEN /\ app' = IF UserAtHand THEN State("recovery_pending", FALSE, "unset") ELSE Unauthed
          /\ tail' = NoTail
     ELSE /\ app' = app
          /\ tail' = [tail EXCEPT !.at = IF ActiveThere THEN "lock" ELSE "leave",
                                  !.todo = SetToken(None)]
  /\ UNCHANGED <<disk, held, job, flight, srv, sigs, made, kills>>

RefusedSettle ==
  /\ tail.kind = "refused" /\ tail.at \in {"lock", "leave"} /\ tail.todo = <<>>
  /\ app' = IF tail.at = "lock" THEN LockedOrUnauthed(UserAtHand, FALSE, "no") ELSE Unauthed
  /\ tail' = NoTail
  /\ UNCHANGED <<disk, held, job, flight, srv, sigs, made, kills>>

\* A background refresh: refreshProfileFromServer, the polls of the home screen.
Poll ==
  /\ Polls /\ app.status = "authed" /\ app.fresh /\ flight = None
  /\ flight' = IF disk.phone.token = None THEN "stale" ELSE disk.phone.token
  /\ UNCHANGED <<disk, app, held, job, tail, srv, sigs, made, kills>>

PollAnswered ==
  /\ flight = "fresh" /\ srv.exists
  /\ flight' = None
  /\ disk' = Stored(disk, {Write("phone", "profile", "cached")})
  /\ UNCHANGED <<app, held, job, tail, srv, sigs, made, kills>>

PollFails ==
  /\ flight # None
  /\ flight' = None
  /\ NoAlarm \/ ((flight = "stale" \/ ~srv.exists) /\ Unauthorized)
  /\ UNCHANGED <<disk, app, job, srv, sigs, made, kills>>

PollMissing ==
  /\ flight # None /\ ~srv.exists /\ tail.kind = "none"
  /\ flight' = None
  /\ tail' = [kind |-> "missing", at |-> "gone", todo |-> ForgetAccount]
  /\ UNCHANGED <<disk, app, held, job, srv, sigs, made, kills>>

MissingSettle ==
  /\ tail.kind = "missing" /\ tail.todo = <<>>
  /\ held' = [held EXCEPT !.key = None]
  /\ app' = Unauthed
  /\ tail' = NoTail
  /\ UNCHANGED <<disk, job, flight, srv, sigs, made, kills>>

----------------------------------------------------------------------------
\* Sign-in (sign-in.tsx, verify.tsx): the e-mail screen when nobody is known, the
\* code screen with the known e-mail otherwise.  BOUND: a removed account is not
\* signed in to again.
EmailAsked  == app.status = "unauthed"
ReauthOffered == UserKnown

EnterCode ==
  /\ Idle /\ (EmailAsked \/ ReauthOffered)
  /\ \/ /\ srv.exists
        /\ StartWriting("signIn", "me", SetToken("fresh"))
        /\ NoAlarm
     \/ job' = job /\ Unauthorized   \* a wrong code is answered 401
  /\ UNCHANGED <<disk, app, flight, srv, sigs, made, kills>>

SignInMe ==
  /\ At("signIn", "me")
  /\ \/ Admitted /\ Then("enter", SetToken("fresh")) /\ NoAlarm
     \/ Finish /\ NoAlarm
     \/ ~Admitted /\ Finish /\ Unauthorized
  /\ UNCHANGED <<disk, app, flight, srv, sigs, made, kills>>

SignIn ==
  /\ At("signIn", "enter")
  /\ disk' = Stored(disk, {Write("phone", "profile", "cached")})
  /\ app' = IF PendingThere THEN State("recovery_pending", FALSE, "unset")
            ELSE IF ~ActiveThere THEN State("onboarding", FALSE, "unset")
            ELSE Authed(TRUE)
  /\ Finish
  /\ UNCHANGED <<held, tail, flight, srv, sigs, made, kills>>

----------------------------------------------------------------------------
\* The PIN screen (pin-entry.tsx).
PinAsked == app.status = "locked"
ApprovalOffered == app.status = "authed"

RightPin ==
  /\ Idle /\ PinAsked
  /\ \E pin \in Pins :
       /\ Opens(disk.active, pin)
       /\ Start("unlock", "open", ClearTries("active"), disk.active.blob.key, disk.active.pub)
  /\ UNCHANGED <<disk, app, held, tail, flight, srv, sigs, made, kills>>

\* The store opens, the token is read, and only a locked app is unlocked.
Unlock ==
  /\ At("unlock", "open")
  /\ held' = [held EXCEPT !.key = job.key]
  /\ app' = IF app.status = "locked"
            THEN Authed(IF app.after = "no" THEN FALSE ELSE disk.phone.token = "fresh")
            ELSE app
  /\ Finish
  /\ UNCHANGED <<disk, tail, flight, srv, sigs, made, kills>>

\* A wrong PIN for the active key, on the PIN screen or to approve a new phone.
\* At the cap the slot is wiped twice and the token goes (signOut).
WrongPin ==
  /\ Idle /\ (PinAsked \/ ApprovalOffered)
  /\ Complete(disk.active) /\ ~Locked(disk.active)
  /\ \E pin \in Pins : ~Opens(disk.active, pin)
  /\ IF LastTry(disk.active)
     THEN StartWriting("wrongPin", "signOut",
           WrongTry(disk.active, "active") \o WipeSlot("active") \o SetToken(None))
     ELSE StartWriting("wrongPin", "over", WrongTry(disk.active, "active"))
  /\ UNCHANGED <<disk, app, held, tail, flight, srv, sigs, made, kills>>

SignOut ==
  /\ At("wrongPin", "signOut")
  /\ held' = [held EXCEPT !.key = None]
  /\ app' = IF ActiveThere THEN LockedOrUnauthed(UserKnown, FALSE, "no") ELSE Unauthed
  /\ Finish
  /\ UNCHANGED <<disk, tail, flight, srv, sigs, made, kills>>

\* Jobs whose last await changes nothing but the store.
Over ==
  /\ job.at = "over" /\ job.todo = <<>>
  /\ Finish
  /\ UNCHANGED <<disk, app, held, tail, flight, srv, sigs, made, kills>>

\* More than five minutes in the background.
Lock ==
  /\ app.status = "authed"
  /\ held' = [held EXCEPT !.key = None]
  /\ app' = LockedOrUnauthed(TRUE, app.fresh, "unset")
  /\ UNCHANGED <<disk, job, tail, flight, srv, sigs, made, kills>>

\* The interval that looks at the token while authed.
FreshCheck ==
  /\ app.status = "authed" /\ app.fresh # (disk.phone.token = "fresh")
  /\ app' = [app EXCEPT !.fresh = ~@]
  /\ UNCHANGED <<disk, held, job, tail, flight, srv, sigs, made, kills>>

----------------------------------------------------------------------------
\* Time and the account.  A token does not expire during the sign-in that
\* fetched it.
Age ==
  /\ disk.phone.token = "fresh" /\ job.kind # "signIn"
  /\ disk' = Stored(disk, {Write("phone", "token", "stale")})
  /\ job' = IF job.token = "fresh" THEN [job EXCEPT !.token = "stale"] ELSE job
  /\ flight' = IF flight = "fresh" THEN "stale" ELSE flight
  /\ UNCHANGED <<app, held, tail, srv, sigs, made, kills>>

LockoutEnds ==
  /\ \E s \in {"active", "pending"} :
       /\ Locked(disk[s])
       /\ disk' = [disk EXCEPT ![s].tries.locked = FALSE]
  /\ job.kind = "none"
  /\ UNCHANGED <<app, held, job, tail, flight, srv, sigs, made, kills>>

AccountRemoved ==
  /\ MayVanish /\ srv.exists
  /\ srv' = [srv EXCEPT !.exists = FALSE, !.active = None, !.req = None]
  /\ UNCHANGED <<disk, app, held, job, tail, flight, sigs, made, kills>>

----------------------------------------------------------------------------
BootStep == BootRead \/ BootMeOk \/ BootMeFails \/ BootDropped \/ BootMeMissing \/ BootGone
TailStep == RefusedRead \/ RefusedSettle \/ MissingSettle
PollStep == Poll \/ PollAnswered \/ PollFails \/ PollMissing
=============================================================================
