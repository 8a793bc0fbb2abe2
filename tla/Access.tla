--------------------------------- MODULE Access ---------------------------------
(* Accounts: how one-time codes become accounts, sessions and merchant profiles,  *)
(* and what an admin does to them (auth.service.ts, merchant-auth.service.ts,     *)
(* admin.service.ts, register-merchant.ts).  A request that reads a row, waits    *)
(* and writes is two steps.  Balances and keys of these accounts are the other    *)
(* modules.                                                                       *)
EXTENDS OneTimeCodes

CONSTANTS
    StashTtl,       \* ttlMs of a merchant's pending sign-up
    MaxStash,       \* MAX_MERCHANT_AUTH_STASH_ENTRIES
    Admin,          \* the e-mail of an admin who is signed in from the start
    Asking          \* BOUND: the e-mails codes are asked and entered for

ASSUME AccessAssumption ==
    /\ {StashTtl, MaxStash} \subseteq Nat
    /\ Admin \in Emails /\ Asking \subseteq Emails

VARIABLES
    users,      \* rows of User with their MerchantProfile, by e-mail
    stash,      \* pending sign-ups of merchants, in the memory of the process
    sessions,   \* who may use the admin's endpoints: e-mails with a valid cookie
    scripted    \* accounts made by the operator's script

accounts == <<users, stash, sessions, scripted>>
vars == <<now, issued, store, calls, seen, accounts>>

Roles    == {"STUDENT", "MERCHANT", "ADMIN"}
Statuses == {"PENDING_VERIFICATION", "ACTIVE", "FROZEN", "FLAGGED"}
Profiles == [verified : BOOLEAN]
User     == [role : Roles, status : Statuses, profile : Profiles \cup {None}]

ASSUME NoneAssumption == None \notin Record \cup Profiles \cup User \cup Details \cup Targets


Email(c)   == Target(c)[1]
Exists(e)  == users[e] # None
IsRole(e, r) == Exists(e) /\ users[e].role = r
Stopped(e) == Exists(e) /\ users[e].status \in {"FROZEN", "FLAGGED"}
Free(c)    == At(c, "idle")
Ask(c, kind, t, g) ==
    calls' = [calls EXCEPT ![c] = Call("lock", kind, t, g, now, None)]

\* Admins are entered in the database by hand.
AdminRow == [role |-> "ADMIN", status |-> "ACTIVE", profile |-> None]
AccessInit ==
    /\ StoreInit
    /\ \E others \in SUBSET Asking :
           users = [e \in Emails |-> IF e = Admin \/ e \in others THEN AdminRow ELSE None]
    /\ stash = [e \in Emails |-> None]
    /\ sessions = {Admin}
    /\ scripted = {}

-----------------------------------------------------------------------------
(* Asking for a code.                                                          *)

\* requestOtp: nothing for an admin, who is told the same; else the limit decides.
RequestOtp(c, e) ==
    LET t == <<e, "public">> IN
    /\ Free(c) /\ ~IsRole(e, "ADMIN")
    /\ CheckAndRecord(t)
    /\ IF UnderLimit(t) THEN Draws(c, "student", t, None) ELSE UNCHANGED <<calls, issued>>
    /\ UNCHANGED <<now, record, lock, seen, accounts>>

RequestAdminOtp(c, e) ==
    LET t == <<e, "admin">> IN
    /\ Free(c) /\ IsRole(e, "ADMIN") /\ users[e].status = "ACTIVE"
    /\ CheckAndRecord(t)
    /\ IF UnderLimit(t) THEN Draws(c, "admin", t, None) ELSE UNCHANGED <<calls, issued>>
    /\ UNCHANGED <<now, record, lock, seen, accounts>>

\* cleanupExpiredPendingMerchantProfiles
Swept == [e \in Emails |-> IF stash[e] # None /\ stash[e].until <= now THEN None ELSE stash[e]]

\* requestMerchantOtp, up to the call of the store: one sign-up per e-mail at a time.
RequestMerchantOtp(c, e, d) ==
    LET t == <<e, "public">> IN
    /\ Free(c) /\ ~IsRole(e, "ADMIN")
    /\ stash' = Swept
    /\ IF Swept[e] # None THEN UNCHANGED <<rate, calls, issued>>
       ELSE /\ CheckAndRecord(t)
            /\ IF UnderLimit(t) THEN Draws(c, "merchant", t, d) ELSE UNCHANGED <<calls, issued>>
    /\ UNCHANGED <<now, record, lock, seen, users, sessions, scripted>>

\* The e-mail goes out, or the provider refuses it and the request fails.  A merchant's
\* details are kept only after it, when there is room.
Stashed == Cardinality({e \in Emails : Swept[e] # None})
SendCode(c) ==
    /\ At(c, "send")
    /\ stash' = IF Stashed >= MaxStash THEN Swept
                ELSE [Swept EXCEPT ![Email(c)] =
                          [details |-> calls[c].details, until |-> now + StashTtl]]
    /\ Done(c)
    /\ UNCHANGED <<now, issued, store, seen, users, sessions, scripted>>

SendFails(c) ==
    /\ At(c, "send")
    /\ Done(c)
    /\ UNCHANGED <<now, issued, store, seen, accounts>>

-----------------------------------------------------------------------------
(* Signing in with a code: the right one, an older one, or none that was drawn. *)

Guesses == {Wrong} \cup 1 .. issued

VerifyOtp(c, e, g) ==
    /\ Free(c) /\ ~IsRole(e, "ADMIN")
    /\ Ask(c, "student", <<e, "public">>, g)
    /\ UNCHANGED <<now, issued, store, seen, accounts>>

VerifyAdminOtp(c, e, g) ==
    /\ Free(c) /\ IsRole(e, "ADMIN") /\ users[e].status = "ACTIVE"
    /\ Ask(c, "admin", <<e, "admin">>, g)
    /\ UNCHANGED <<now, issued, store, seen, accounts>>

VerifyMerchantOtp(c, e, g) ==
    /\ Free(c)
    /\ Ask(c, "merchant", <<e, "public">>, g)
    /\ UNCHANGED <<now, issued, store, seen, accounts>>

\* verifyOtp after the store: the first code entered makes the account.
Newcomer(role, profile) == [role |-> role, status |-> "PENDING_VERIFICATION", profile |-> profile]
SignIn(c) ==
    /\ At(c, "account") /\ calls[c].kind = "student"
    /\ users' = IF Exists(Email(c)) THEN users
                ELSE [users EXCEPT ![Email(c)] = Newcomer("STUDENT", None)]
    /\ Done(c)
    /\ UNCHANGED <<now, issued, store, seen, stash, sessions, scripted>>

\* verifyAdminOtp answers with the row it read before the code was compared.
AdminSignIn(c) ==
    /\ At(c, "account") /\ calls[c].kind = "admin"
    /\ sessions' = sessions \cup {Email(c)}
    /\ Done(c)
    /\ UNCHANGED <<now, issued, store, seen, users, stash, scripted>>

SessionEnds(e) ==
    /\ e \in sessions
    /\ sessions' = sessions \ {e}
    /\ UNCHANGED <<now, issued, store, calls, seen, users, stash, scripted>>

\* verifyMerchantOtp after the store: the pending sign-up is looked up, and the
\* transaction reads the account it is for.
Pending(e) == stash[e] # None /\ stash[e].until >= now
MerchantReads(c) ==
    LET e == Email(c) IN
    /\ At(c, "account") /\ calls[c].kind = "merchant"
    /\ IF Pending(e) /\ ~IsRole(e, "STUDENT") /\ ~IsRole(e, "ADMIN")
         THEN /\ Go(c, "profile")
              /\ UNCHANGED stash
         ELSE /\ Done(c)
              /\ stash' = IF Pending(e) THEN stash ELSE [stash EXCEPT ![e] = None]
    /\ UNCHANGED <<now, issued, store, seen, users, sessions, scripted>>

\* It writes by e-mail: a row that has appeared meanwhile is updated.
\* Mutant: the sign-up makes a merchant of whatever account is there.
Promoted(u)    == [u EXCEPT !.role = "MERCHANT", !.profile = [verified |-> @ # None /\ @.verified]]
WithProfile(u) == [u EXCEPT !.profile = [verified |-> @ # None /\ @.verified]]
MerchantSignsUp(c) ==
    LET e == Email(c)
        u == IF Exists(e) THEN users[e] ELSE Newcomer("MERCHANT", None)
    IN  /\ At(c, "profile")
        /\ IF u.status \in {"FROZEN", "FLAGGED"} THEN UNCHANGED <<users, stash>>
           ELSE /\ users' = [users EXCEPT ![e] = WithProfile(u)]
                /\ stash' = [stash EXCEPT ![e] = None]
        /\ Done(c)
        /\ UNCHANGED <<now, issued, store, seen, sessions, scripted>>

SweepExpired ==
    /\ Swept # stash
    /\ stash' = Swept
    /\ UNCHANGED <<now, issued, store, calls, seen, users, sessions, scripted>>

-----------------------------------------------------------------------------
(* What an admin does to merchants.  Every request passes the guards: a session *)
(* in the cookie, of an account that is still an admin's and not stopped.       *)

Admitted == \E a \in sessions : IsRole(a, "ADMIN") /\ ~Stopped(a)
Merchant(e) == IsRole(e, "MERCHANT") /\ users[e].profile # None
Writes(c, kind, e) ==
    calls' = [calls EXCEPT ![c] = Call("write", kind, <<e, "admin">>, Wrong, 0, None)]
AdminAsks(c, kind, e) ==
    /\ Free(c) /\ Admitted
    /\ Writes(c, kind, e)
    /\ UNCHANGED <<now, issued, store, seen, accounts>>

ApproveMerchant(c, e) ==
    /\ Merchant(e) /\ users[e].status = "PENDING_VERIFICATION" /\ ~users[e].profile.verified
    /\ AdminAsks(c, "approve", e)

DeactivateMerchant(c, e) ==
    /\ Merchant(e) /\ users[e].status \notin {"FLAGGED", "FROZEN"}
    /\ AdminAsks(c, "freeze", e)

\* Mutant: a merchant that was never verified is reactivated.
ReactivateAny(c, e) ==
    /\ Merchant(e) /\ users[e].status \notin {"FLAGGED", "ACTIVE"}
    /\ AdminAsks(c, "reactivate", e)

ReactivateMerchant(c, e) ==
    /\ Merchant(e) /\ users[e].status \notin {"FLAGGED", "ACTIVE"} /\ users[e].profile.verified
    /\ AdminAsks(c, "reactivate", e)

\* The gateway is asked for the account of the payout before the row is written.
CreateMerchant(c, e) ==
    /\ ~Exists(e)
    /\ AdminAsks(c, "create", e)
Written(c, u) ==
    CASE calls[c].kind = "approve"    -> [u EXCEPT !.status = "ACTIVE", !.profile.verified = TRUE]
      [] calls[c].kind = "freeze"     -> [u EXCEPT !.status = "FROZEN"]
      [] calls[c].kind = "reactivate" -> [u EXCEPT !.status = "ACTIVE"]
      [] calls[c].kind = "create"     -> [role |-> "MERCHANT", status |-> "ACTIVE",
                                      profile |-> [verified |-> TRUE]]

\* The rows are written by id.  Only a new account can collide, with one made meanwhile.
AdminWrites(c) ==
    LET e == Email(c) IN
    /\ At(c, "write")
    /\ users' = IF calls[c].kind = "create" /\ Exists(e) THEN users
                ELSE [users EXCEPT ![e] = Written(c, users[e])]
    /\ Done(c)
    /\ UNCHANGED <<now, issued, store, seen, stash, sessions, scripted>>

\* The gateway does not know the account, or does not answer.
GatewayRefuses(c) ==
    /\ At(c, "write") /\ calls[c].kind = "create"
    /\ Done(c)
    /\ UNCHANGED <<now, issued, store, seen, accounts>>

-----------------------------------------------------------------------------
(* The operator: the script that registers merchants, and a flag in the         *)
(* database.  A restart loses the requests in flight and the pending sign-ups,  *)
(* not what Redis and the database hold.                                        *)

RegisterMerchant(e) ==
    /\ ~Exists(e)
    /\ users' = [users EXCEPT ![e] = [role |-> "MERCHANT", status |-> "ACTIVE",
                                      profile |-> [verified |-> FALSE]]]
    /\ scripted' = scripted \cup {e}
    /\ UNCHANGED <<now, issued, store, calls, seen, stash, sessions>>

Flag(e) ==
    /\ Merchant(e) /\ users[e].status # "FLAGGED"
    /\ users' = [users EXCEPT ![e].status = "FLAGGED"]
    /\ UNCHANGED <<now, issued, store, calls, seen, stash, sessions, scripted>>

Restart ==
    /\ \E c \in Calls : ~Free(c)
    /\ calls' = [c \in Calls |-> Idle]
    /\ stash' = [e \in Emails |-> None]
    /\ UNCHANGED <<now, issued, store, seen, users, sessions, scripted>>

AccessStep(c) ==
    \/ \E e \in Asking :
         \/ RequestOtp(c, e) \/ RequestAdminOtp(c, e)
         \/ \E d \in Details : RequestMerchantOtp(c, e, d)
         \/ \E g \in Guesses :
               VerifyOtp(c, e, g) \/ VerifyAdminOtp(c, e, g) \/ VerifyMerchantOtp(c, e, g)
    \/ \E e \in Emails :
         \/ ApproveMerchant(c, e) \/ DeactivateMerchant(c, e) \/ ReactivateMerchant(c, e)
         \/ CreateMerchant(c, e)
    \/ SendCode(c) \/ SendFails(c)
    \/ SignIn(c) \/ AdminSignIn(c) \/ MerchantReads(c) \/ MerchantSignsUp(c)
    \/ AdminWrites(c) \/ GatewayRefuses(c)

AccessNext ==
    \/ StoreNext /\ UNCHANGED accounts
    \/ \E c \in Calls : AccessStep(c)
    \/ \E e \in Emails : RegisterMerchant(e) \/ Flag(e) \/ SessionEnds(e)
    \/ SweepExpired \/ Restart

AccessSpec == AccessInit /\ [][AccessNext]_vars

-----------------------------------------------------------------------------
(* Properties.                                                                 *)

Stages == {"idle", "save", "send", "lock", "clean", "compare",
           "account", "profile", "write"}
Kinds  == {"student", "merchant", "admin", "approve", "freeze", "reactivate", "create"}

Request == [pc : Stages, kind : Kinds \cup {None}, target : Targets \cup {None},
            code : Codes \cup {Wrong}, at : Nat, read : Codes \cup {None},
            details : Details \cup {None}]

\* Every row, record, lock and request of the accounts has its type, and a record is never
\* kept with all its tries used.  (The times in rate only keep codes from being sent.)
AccessTypeOK ==
    /\ now \in Nat /\ issued \in 0 .. MaxCodes
    /\ record \in [Targets -> Record \cup {None}]
    /\ \A t \in Targets : record[t] # None => record[t].failed < MaxFailed
    /\ lock \in [Targets -> Calls \cup {None}]
    /\ calls \in [Calls -> Request]
    /\ tries \in [Codes -> Nat] /\ opened \in [Codes -> Nat]
    /\ users \in [Emails -> User \cup {None}]
    /\ stash \in [Emails -> [details : Details, until : Nat] \cup {None}]
    /\ sessions \subseteq Emails /\ scripted \subseteq Emails

\* A code opens an account once: however verifications overlap, run out of their lock, or
\* meet a newer code, one of them at most is accepted ("cannot both consume the same record").
CodeOpensOnce == \A k \in Codes : opened[k] <= 1

\* "burns the OTP after 3 failed attempts": no more guesses than that are ever counted
\* against a code, and a code that was guessed wrong so often opens nothing afterwards.
CodeBurns == \A k \in Codes :
    /\ tries[k] <= MaxFailed
    /\ tries[k] = MaxFailed => opened[k] = 0 /\ \A t \in Targets : record[t] # None => record[t].code # k

\* A merchant whose account is active has been approved by an admin or entered by the
\* operator's script: no mix of sign-ups, freezes, reactivations and approvals that overlap
\* makes one active otherwise.
ActiveWasApproved == \A e \in Emails :
    IsRole(e, "MERCHANT") /\ users[e].status = "ACTIVE" => users[e].profile.verified \/ e \in scripted

\* Whoever signs up or is created first decides what the account is: no later request, of
\* any overlap, removes an account or changes its role.
RolesStay == [][\A e \in Emails : Exists(e) => users'[e] # None /\ users'[e].role = users[e].role]_vars
=============================================================================
