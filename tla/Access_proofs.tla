----------------------------- MODULE Access_proofs -----------------------------
(***************************************************************************)
(* Accounts and one-time codes, for any number of e-mails, requests, codes *)
(* and tries, whatever the clock and Redis do between two steps.           *)
(*                                                                         *)
(* Two invariants are added to the types.  What a request carries from its *)
(* reads to its write stays true (StagedRow), because no step takes a role *)
(* or a verification away (UsersKept).  And a code is in one place at a    *)
(* time (CodesTraced): with the request that is about to save it, in one   *)
(* record, or used up.                                                     *)
(***************************************************************************)
EXTENDS Access, TLAPS

-----------------------------------------------------------------------------
(* Accounts: what every row is, and what a step leaves of it.                *)

\* A merchant has a profile, and an ACTIVE one was approved.
UsersGood ==
  /\ users \in [Emails -> User \cup {None}]
  /\ \A e \in Emails : IsRole(e, "MERCHANT") => users[e].profile \in Profiles
  /\ ActiveWasApproved

\* A row stays, with its role, its profile and the verification of it.
RowKept(u, v) ==
  /\ v # None
  /\ v.role = u.role
  /\ u.profile # None => v.profile # None
  /\ (u.profile # None /\ u.profile.verified = TRUE) => v.profile.verified = TRUE
UsersKept == \A e \in Emails : Exists(e) => RowKept(users[e], users'[e])

\* What a request knows that is about to go on.
StagedRow(r) ==
  /\ r.pc # "idle" => r.target \in Targets
  /\ r.pc = "save" => r.code \in Codes
  /\ r.pc = "send" => r.kind = "merchant"
  /\ (r.pc \in {"save", "send"} /\ r.kind = "merchant") => r.details \in Details
  /\ r.pc \in {"clean", "compare"} => r.read \in Codes
  /\ r.pc = "write" => r.kind \in {"approve", "freeze", "reactivate", "create"}
  /\ (r.pc = "write" /\ r.kind # "create") => Merchant(r.target[1])
  /\ (r.pc = "write" /\ r.kind = "reactivate") => users[r.target[1]].profile.verified = TRUE

CallsGood ==
  /\ calls \in [Calls -> Request]
  /\ \A c \in Calls : StagedRow(calls[c])

StoreGood ==
  /\ now \in Nat /\ issued \in 0 .. MaxCodes
  /\ record \in [Targets -> Record \cup {None}]
  /\ \A t \in Targets : record[t] # None => record[t].failed < MaxFailed
  /\ lock \in [Targets -> Calls \cup {None}]
  /\ tries \in [Codes -> Nat] /\ opened \in [Codes -> Nat]
  /\ stash \in [Emails -> [details : Details, until : Nat] \cup {None}]
  /\ sessions \subseteq Emails /\ scripted \subseteq Emails

AccessInv == UsersGood /\ CallsGood /\ StoreGood

LEMMA TypesFollow == AccessInv => AccessTypeOK
BY DEF AccessInv, UsersGood, CallsGood, StoreGood, AccessTypeOK

\* The e-mail of a request that is under way.
LEMMA EmailOfCall ==
  ASSUME CallsGood, NEW c \in Calls, calls[c].pc # "idle"
  PROVE  Email(c) \in Emails /\ Target(c) \in Targets /\ Email(c) = calls[c].target[1]
<1>1. calls[c].target \in Targets
  BY DEF CallsGood, StagedRow
<1> QED
  BY <1>1 DEF Email, Target, Targets

\* One row written: enough that this row is in order.
LEMMA OneUser ==
  ASSUME UsersGood, NEW e \in Emails, NEW u \in User,
         users' = [users EXCEPT ![e] = u], scripted \subseteq scripted',
         u.role = "MERCHANT" =>
           /\ u.profile \in Profiles
           /\ u.status = "ACTIVE" => u.profile.verified = TRUE \/ e \in scripted',
         Exists(e) => RowKept(users[e], u)
  PROVE  UsersGood' /\ UsersKept
<1>1. users' \in [Emails -> User \cup {None}] /\ users'[e] = u /\ u # None
  BY NoneAssumption DEF UsersGood
<1>2. \A f \in Emails : f # e => users'[f] = users[f]
  BY DEF UsersGood
<1>3. ASSUME NEW f \in Emails, IsRole(f, "MERCHANT")'
      PROVE  /\ users'[f].profile \in Profiles
             /\ users'[f].status = "ACTIVE" => users'[f].profile.verified \/ f \in scripted'
  <2>1. CASE f = e
    BY <1>1, <1>3, <2>1 DEF IsRole, Exists
  <2>2. CASE f # e
    <3>1. users'[f] = users[f] /\ IsRole(f, "MERCHANT")
      BY <1>2, <1>3, <2>2 DEF IsRole, Exists
    <3> QED
      BY <3>1 DEF UsersGood, ActiveWasApproved
  <2> QED
    BY <2>1, <2>2
<1>4. UsersKept
  <2> SUFFICES ASSUME NEW f \in Emails, Exists(f)
               PROVE  RowKept(users[f], users'[f])
    BY DEF UsersKept
  <2>1. CASE f = e
    BY <1>1, <2>1
  <2>2. CASE f # e
    BY <1>2, <2>2 DEF RowKept, Exists
  <2> QED
    BY <2>1, <2>2
<1> QED
  BY <1>1, <1>3, <1>4 DEF UsersGood, ActiveWasApproved, IsRole, Exists

\* No row written.
LEMMA SameUsers ==
  ASSUME UsersGood, users' = users, scripted \subseteq scripted'
  PROVE  UsersGood' /\ UsersKept
BY DEF UsersGood, ActiveWasApproved, IsRole, Exists, UsersKept, RowKept

\* A row that is there is a user's, and a merchant's has a profile.
LEMMA RowFields ==
  ASSUME UsersGood, NEW e \in Emails, Exists(e)
  PROVE  /\ users[e] \in User
         /\ users[e].role \in Roles /\ users[e].status \in Statuses
         /\ users[e].profile \in Profiles \cup {None}
         /\ users[e].role = "MERCHANT" =>
              /\ users[e].profile \in Profiles
              /\ users[e].status = "ACTIVE" => users[e].profile.verified = TRUE \/ e \in scripted
<1>1. users[e] \in User
  BY DEF UsersGood, Exists
<1>2. IsRole(e, "MERCHANT") => users[e].profile \in Profiles
  BY DEF UsersGood
<1>3. IsRole(e, "MERCHANT") /\ users[e].status = "ACTIVE" => users[e].profile.verified \/ e \in scripted
  BY DEF UsersGood, ActiveWasApproved
<1> QED
  BY <1>1, <1>2, <1>3 DEF User, IsRole

LEMMA SignInUsers ==
  ASSUME AccessInv, NEW c \in Calls, SignIn(c)
  PROVE  UsersGood' /\ UsersKept
<1> DEFINE e == Email(c)
           u == Newcomer("STUDENT", None)
<1>1. e \in Emails /\ UsersGood
  BY EmailOfCall DEF SignIn, At, AccessInv
<1>2. CASE Exists(e)
  BY <1>1, <1>2, SameUsers DEF SignIn
<1>3. CASE ~Exists(e)
  <2>1. u \in User /\ u.role # "MERCHANT"
    BY DEF Newcomer, User, Roles, Statuses
  <2>2. users' = [users EXCEPT ![e] = u] /\ scripted' = scripted
    BY <1>3 DEF SignIn
  <2> HIDE DEF u
  <2> QED
    BY <1>1, <1>3, <2>1, <2>2, OneUser
<1> QED
  BY <1>2, <1>3

LEMMA SignUpUsers ==
  ASSUME AccessInv, NEW c \in Calls, MerchantSignsUp(c)
  PROVE  UsersGood' /\ UsersKept
<1> DEFINE e == Email(c)
           u == IF Exists(e) THEN users[e] ELSE Newcomer("MERCHANT", None)
           p == [verified |-> u.profile # None /\ u.profile.verified]
           v == WithProfile(u)
<1>1. e \in Emails /\ UsersGood
  BY EmailOfCall DEF MerchantSignsUp, At, AccessInv
<1>2. CASE u.status \in {"FROZEN", "FLAGGED"}
  BY <1>1, <1>2, SameUsers DEF MerchantSignsUp
<1>3. CASE u.status \notin {"FROZEN", "FLAGGED"}
  <2>1. users' = [users EXCEPT ![e] = v] /\ scripted' = scripted
    BY <1>3 DEF MerchantSignsUp
  <2>2. u \in User
    BY <1>1, RowFields DEF Newcomer, User, Roles, Statuses
  <2>3. /\ v.role = u.role /\ v.status = u.status /\ v.profile = p
        /\ v \in User /\ p \in Profiles
    <3>1. p \in Profiles
      BY <2>2 DEF User, Profiles
    <3> QED
      BY <2>2, <3>1 DEF WithProfile, User
  <2>4. (u.profile # None /\ u.profile.verified = TRUE) => p.verified = TRUE
    OBVIOUS
  <2>5. Exists(e) => RowKept(users[e], v)
    BY <2>3, <2>4, NoneAssumption DEF RowKept
  <2>6. v.role = "MERCHANT" =>
          /\ v.profile \in Profiles
          /\ v.status = "ACTIVE" => v.profile.verified = TRUE \/ e \in scripted'
    <3>1. CASE Exists(e)
      <4>1. u = users[e]
        BY <3>1
      <4>2. u.role = "MERCHANT" =>
              /\ u.profile \in Profiles
              /\ u.status = "ACTIVE" => u.profile.verified = TRUE \/ e \in scripted
        BY <1>1, <3>1, <4>1, RowFields
      <4> HIDE DEF u, v, p
      <4> QED
        BY <2>1, <2>3, <2>4, <4>2, NoneAssumption
    <3>2. CASE ~Exists(e)
      <4>1. u.status = "PENDING_VERIFICATION"
        BY <3>2 DEF Newcomer
      <4> HIDE DEF u, v, p
      <4> QED
        BY <2>3, <4>1
    <3> QED
      BY <3>1, <3>2
  <2> HIDE DEF v
  <2> QED
    BY <1>1, <2>1, <2>3, <2>5, <2>6, OneUser
<1> QED
  BY <1>2, <1>3

\* The four orders of an admin.
LEMMA WrittenRow ==
  ASSUME AccessInv, NEW c \in Calls, At(c, "write"), calls[c].kind # "create"
  PROVE  LET e == Email(c)
             u == users[e]
             v == Written(c, u)
         IN  /\ Exists(e) /\ v \in User /\ v.profile \in Profiles /\ RowKept(u, v)
             /\ v.status = "ACTIVE" => v.profile.verified = TRUE
<1> DEFINE e == Email(c)
           u == users[e]
           p == u.profile
<1>1. e \in Emails /\ UsersGood /\ StagedRow(calls[c]) /\ e = calls[c].target[1]
  BY EmailOfCall DEF At, AccessInv, CallsGood
<1>2. Merchant(e) /\ calls[c].kind \in {"approve", "freeze", "reactivate"}
      /\ (calls[c].kind = "reactivate" => p.verified = TRUE)
  BY <1>1 DEF StagedRow, At
<1>3. Exists(e) /\ u \in User /\ u.role = "MERCHANT" /\ p \in Profiles
  BY <1>1, <1>2, RowFields DEF Merchant, IsRole
<1>4. p = [verified |-> p.verified] /\ p.verified \in BOOLEAN
  BY <1>3 DEF Profiles
<1>5. CASE calls[c].kind = "approve"
  <2> DEFINE v == [role |-> u.role, status |-> "ACTIVE", profile |-> [verified |-> TRUE]]
  <2>1. Written(c, u) = v
    BY <1>3, <1>4, <1>5 DEF Written, User, Profiles
  <2>2. v \in User /\ v.profile \in Profiles /\ v.profile.verified = TRUE
    BY <1>3 DEF User, Roles, Statuses, Profiles
  <2>3. RowKept(u, v)
    BY <2>2, NoneAssumption DEF RowKept
  <2> QED
    BY <1>3, <2>1, <2>2, <2>3
<1>6. CASE calls[c].kind = "freeze"
  <2> DEFINE v == [role |-> u.role, status |-> "FROZEN", profile |-> p]
  <2>1. Written(c, u) = v
    BY <1>3, <1>6 DEF Written, User
  <2>2. v \in User
    BY <1>3 DEF User, Roles, Statuses
  <2>3. RowKept(u, v)
    BY <2>2, NoneAssumption DEF RowKept
  <2> QED
    BY <1>3, <2>1, <2>2, <2>3
<1>7. CASE calls[c].kind = "reactivate"
  <2> DEFINE v == [role |-> u.role, status |-> "ACTIVE", profile |-> p]
  <2>1. Written(c, u) = v
    BY <1>3, <1>7 DEF Written, User
  <2>2. v \in User
    BY <1>3 DEF User, Roles, Statuses
  <2>3. RowKept(u, v)
    BY <2>2, NoneAssumption DEF RowKept
  <2> QED
    BY <1>2, <1>3, <1>7, <2>1, <2>2, <2>3
<1> QED
  BY <1>2, <1>5, <1>6, <1>7

LEMMA AdminUsers ==
  ASSUME AccessInv, NEW c \in Calls, AdminWrites(c)
  PROVE  UsersGood' /\ UsersKept
<1> DEFINE e == Email(c)
           v == Written(c, users[e])
<1>1. e \in Emails /\ UsersGood /\ At(c, "write") /\ scripted' = scripted
  BY EmailOfCall DEF AdminWrites, At, AccessInv
<1>2. CASE calls[c].kind = "create" /\ Exists(e)
  BY <1>1, <1>2, SameUsers DEF AdminWrites
<1>3. CASE calls[c].kind = "create" /\ ~Exists(e)
  <2>1. v = [role |-> "MERCHANT", status |-> "ACTIVE", profile |-> [verified |-> TRUE]]
    BY <1>3 DEF Written
  <2>2. v \in User /\ v.profile \in Profiles /\ v.profile.verified = TRUE
    BY <2>1 DEF User, Roles, Statuses, Profiles
  <2>3. users' = [users EXCEPT ![e] = v]
    BY <1>3 DEF AdminWrites
  <2> HIDE DEF v
  <2> QED
    BY <1>1, <1>3, <2>2, <2>3, OneUser
<1>4. CASE calls[c].kind # "create"
  <2>1. /\ v \in User /\ v.profile \in Profiles /\ RowKept(users[e], v)
        /\ v.status = "ACTIVE" => v.profile.verified = TRUE
    BY <1>1, <1>4, WrittenRow
  <2>2. users' = [users EXCEPT ![e] = v]
    BY <1>4 DEF AdminWrites
  <2> HIDE DEF v
  <2> QED
    BY <1>1, <2>1, <2>2, OneUser
<1> QED
  BY <1>2, <1>3, <1>4

LEMMA ScriptUsers ==
  ASSUME AccessInv, NEW e \in Emails, RegisterMerchant(e)
  PROVE  UsersGood' /\ UsersKept
<1> DEFINE v == [role |-> "MERCHANT", status |-> "ACTIVE", profile |-> [verified |-> FALSE]]
<1>1. v \in User /\ v.profile \in Profiles
  BY DEF User, Roles, Statuses, Profiles
<1>2. users' = [users EXCEPT ![e] = v] /\ scripted' = scripted \cup {e} /\ ~Exists(e) /\ UsersGood
  BY DEF RegisterMerchant, AccessInv
<1> HIDE DEF v
<1> QED
  BY <1>1, <1>2, OneUser

LEMMA FlagUsers ==
  ASSUME AccessInv, NEW e \in Emails, Flag(e)
  PROVE  UsersGood' /\ UsersKept
<1> DEFINE u == users[e]
           v == [role |-> u.role, status |-> "FLAGGED", profile |-> u.profile]
<1>1. UsersGood /\ Exists(e) /\ u.role = "MERCHANT" /\ scripted' = scripted
  BY DEF Flag, Merchant, IsRole, AccessInv
<1>2. u \in User /\ u.profile \in Profiles
  BY <1>1, RowFields
<1>3. v \in User
  BY <1>2 DEF User, Roles, Statuses
<1>4. users' = [users EXCEPT ![e] = v]
  <2>1. [u EXCEPT !.status = "FLAGGED"] = v
    BY <1>2 DEF User
  <2>2. users' = [users EXCEPT ![e] = [u EXCEPT !.status = "FLAGGED"]]
    BY DEF Flag
  <2> QED
    BY <2>1, <2>2
<1>5. RowKept(u, v)
  BY <1>3, NoneAssumption DEF RowKept
<1>6. v.profile \in Profiles /\ v.status # "ACTIVE"
  BY <1>2
<1> HIDE DEF v
<1> QED
  BY <1>1, <1>3, <1>4, <1>5, <1>6, OneUser

\* Only five steps write a row.
LEMMA UsersStep ==
  ASSUME AccessInv, [AccessNext]_vars
  PROVE  UsersGood' /\ UsersKept
<1> DEFINE Same == users' = users /\ scripted' = scripted
<1>1. UsersGood
  BY DEF AccessInv
<1>2. CASE Same
  BY <1>1, <1>2, SameUsers
<1>3. ASSUME NEW c \in Calls, AccessStep(c)
      PROVE  Same \/ SignIn(c) \/ MerchantSignsUp(c) \/ AdminWrites(c)
  BY <1>3 DEF AccessStep, RequestOtp, RequestAdminOtp, RequestMerchantOtp, VerifyOtp, VerifyAdminOtp,
       VerifyMerchantOtp, ApproveMerchant, DeactivateMerchant, ReactivateMerchant, CreateMerchant,
       AdminAsks, SendCode, SendFails, AdminSignIn, MerchantReads, GatewayRefuses, accounts
<1>4. ASSUME NEW e \in Emails, SessionEnds(e)
      PROVE  Same
  BY <1>4 DEF SessionEnds
<1>5. SweepExpired \/ Restart \/ (StoreNext /\ UNCHANGED accounts) \/ UNCHANGED vars => Same
  BY DEF SweepExpired, Restart, accounts, vars
<1> QED
  BY <1>2, <1>3, <1>4, <1>5, SignInUsers, SignUpUsers, AdminUsers, ScriptUsers, FlagUsers DEF AccessNext

-----------------------------------------------------------------------------
(* Requests: what they carry stays true.                                     *)

LEMMA StageKept ==
  ASSUME UsersGood, UsersKept, NEW r \in Request, StagedRow(r)
  PROVE  StagedRow(r)'
<1>1. ASSUME r.pc = "write", r.kind # "create"
      PROVE  Merchant(r.target[1])' /\ (r.kind = "reactivate" => users'[r.target[1]].profile.verified = TRUE)
  <2> DEFINE e == r.target[1]
  <2>1. e \in Emails /\ Merchant(e) /\ (r.kind = "reactivate" => users[e].profile.verified = TRUE)
    BY <1>1 DEF StagedRow, Targets
  <2>2. Exists(e) /\ RowKept(users[e], users'[e]) /\ users[e].role = "MERCHANT" /\ users[e].profile # None
    BY <2>1 DEF Merchant, IsRole, UsersKept
  <2> QED
    BY <2>1, <2>2 DEF RowKept, Merchant, IsRole, Exists
<1> QED
  BY <1>1 DEF StagedRow

LEMMA OneCall ==
  ASSUME CallsGood, UsersGood, UsersKept, NEW c \in Calls, NEW r \in Request,
         StagedRow(r)', calls' = [calls EXCEPT ![c] = r]
  PROVE  CallsGood'
<1>1. calls' \in [Calls -> Request] /\ calls'[c] = r
  BY DEF CallsGood
<1>2. ASSUME NEW d \in Calls
      PROVE  StagedRow(calls[d])'
  <2>1. CASE d = c
    BY <1>1, <2>1 DEF StagedRow, Merchant, IsRole, Exists
  <2>2. CASE d # c
    <3>1. calls'[d] = calls[d] /\ calls[d] \in Request /\ StagedRow(calls[d])
      BY <2>2 DEF CallsGood
    <3>2. PICK q \in Request : q = calls[d]
      BY <3>1
    <3>3. StagedRow(q)
      BY <3>1, <3>2
    <3>4. StagedRow(q)'
      BY <3>3, StageKept
    <3> QED
      BY <3>1, <3>2, <3>4 DEF StagedRow, Merchant, IsRole, Exists
  <2> QED
    BY <2>1, <2>2
<1> QED
  BY <1>1, <1>2 DEF CallsGood

LEMMA SameCalls ==
  ASSUME CallsGood, UsersGood, UsersKept, calls' = calls
  PROVE  CallsGood'
<1>1. ASSUME NEW c \in Calls
      PROVE  StagedRow(calls[c])'
  <2>1. PICK q \in Request : q = calls[c]
    BY DEF CallsGood
  <2>2. StagedRow(q)
    BY <2>1 DEF CallsGood
  <2>3. StagedRow(q)'
    BY <2>2, StageKept
  <2> QED
    BY <2>1, <2>3 DEF StagedRow, Merchant, IsRole, Exists
<1> QED
  BY <1>1 DEF CallsGood

LEMMA Bounds == MaxCodes \in Nat /\ MaxFailed \in Nat \ {0} /\ Ttl \in Nat /\ StashTtl \in Nat
BY StoreAssumption, AccessAssumption

LEMMA IdleRow == Idle \in Request /\ Idle.pc = "idle"
BY DEF Idle, Call, Request, Stages, Wrong

\* A request that ends.
LEMMA DoneCall ==
  ASSUME CallsGood, UsersGood, UsersKept, NEW c \in Calls, Done(c)
  PROVE  CallsGood'
<1>1. StagedRow(Idle)'
  BY DEF StagedRow, Idle, Call
<1> QED
  BY <1>1, IdleRow, OneCall DEF Done

\* A request that draws a code.
LEMMA DrawsCall ==
  ASSUME AccessInv, UsersGood, UsersKept, NEW c \in Calls, NEW t \in Targets,
         NEW kind \in {"student", "merchant", "admin"}, NEW d \in Details \cup {None},
         kind = "merchant" => d \in Details, Draws(c, kind, t, d)
  PROVE  CallsGood'
<1>1. issued + 1 \in Codes
  <2>1. issued < MaxCodes /\ issued \in 0 .. MaxCodes
    BY DEF Draws, AccessInv, StoreGood
  <2> QED
    BY <2>1, Bounds DEF Codes
<1>2. PICK r : r = [pc |-> "save", kind |-> kind, target |-> t, code |-> issued + 1, at |-> 0,
                    read |-> None, details |-> d]
  OBVIOUS
<1>3. r \in Request
  BY <1>1, <1>2 DEF Request, Stages, Kinds
<1>4. calls' = [calls EXCEPT ![c] = r]
  BY <1>2 DEF Draws, Call
<1>5. StagedRow(r)'
  <2>1. /\ r.pc = "save" /\ r.target \in Targets /\ r.code \in Codes
        /\ r.kind = "merchant" => r.details \in Details
    BY <1>1, <1>2
  <2> QED
    BY <2>1 DEF StagedRow
<1> QED
  BY <1>3, <1>4, <1>5, OneCall DEF AccessInv

\* A request that brings a code.
LEMMA AskCall ==
  ASSUME AccessInv, UsersGood, UsersKept, NEW c \in Calls, NEW t \in Targets,
         NEW kind \in {"student", "merchant", "admin"}, NEW g \in Guesses, Ask(c, kind, t, g)
  PROVE  CallsGood'
<1>1. g \in Codes \cup {Wrong} /\ now \in Nat
  BY Bounds DEF AccessInv, StoreGood, Codes, Guesses
<1>2. PICK r : r = [pc |-> "lock", kind |-> kind, target |-> t, code |-> g, at |-> now,
                    read |-> None, details |-> None]
  OBVIOUS
<1>3. r \in Request
  BY <1>1, <1>2 DEF Request, Stages, Kinds
<1>4. calls' = [calls EXCEPT ![c] = r]
  BY <1>2 DEF Ask, Call
<1>5. StagedRow(r)'
  BY <1>2 DEF StagedRow
<1> QED
  BY <1>3, <1>4, <1>5, OneCall DEF AccessInv

\* An admin's request.
LEMMA OrderCall ==
  ASSUME AccessInv, users' = users, UsersKept, NEW c \in Calls, NEW e \in Emails,
         NEW kind \in {"approve", "freeze", "reactivate", "create"}, Writes(c, kind, e),
         kind # "create" => Merchant(e),
         kind = "reactivate" => users[e].profile.verified = TRUE
  PROVE  CallsGood'
<1>1. PICK r : r = [pc |-> "write", kind |-> kind, target |-> <<e, "admin">>, code |-> Wrong, at |-> 0,
                    read |-> None, details |-> None]
  OBVIOUS
<1>2. r \in Request /\ r.target \in Targets /\ r.target[1] = e /\ r.pc = "write" /\ r.kind = kind
  BY <1>1 DEF Request, Stages, Kinds, Targets, Doors
<1>3. calls' = [calls EXCEPT ![c] = r]
  BY <1>1 DEF Writes, Call
<1>4. StagedRow(r)'
  BY <1>2 DEF StagedRow, Merchant, IsRole, Exists
<1> QED
  BY <1>2, <1>3, <1>4, OneCall DEF AccessInv

\* A request that goes on to send its code or to write its profile.
LEMMA GoCall ==
  ASSUME AccessInv, UsersGood, UsersKept, NEW c \in Calls, NEW pc \in {"send", "profile"}, Go(c, pc),
         calls[c].pc # "idle",
         pc = "send" => calls[c].kind = "merchant" /\ calls[c].pc = "save"
  PROVE  CallsGood'
<1>1. calls[c] \in Request /\ StagedRow(calls[c])
  BY DEF AccessInv, CallsGood
<1>2. PICK r : r = [calls[c] EXCEPT !.pc = pc]
  OBVIOUS
<1>3. /\ r \in Request /\ r.pc = pc /\ r.kind = calls[c].kind
      /\ r.target = calls[c].target /\ r.details = calls[c].details
  BY <1>1, <1>2 DEF Request, Stages
<1>4. calls' = [calls EXCEPT ![c] = r]
  BY <1>2 DEF Go
<1>5. StagedRow(r)'
  BY <1>1, <1>3 DEF StagedRow
<1> QED
  BY <1>3, <1>4, <1>5, OneCall DEF AccessInv

\* What a call of the store leaves of its request.
LEMMA StoreCalls ==
  ASSUME AccessInv, UsersGood, UsersKept, NEW c \in Calls, StoreStep(c)
  PROVE  CallsGood'
<1>1. CallsGood /\ calls[c] \in Request /\ StagedRow(calls[c])
  BY DEF AccessInv, CallsGood
<1>2. CASE SaveCode(c)
  <2>1. CASE calls[c].kind = "merchant"
    BY <1>2, <2>1, GoCall DEF SaveCode, At
  <2>2. CASE calls[c].kind # "merchant"
    BY <1>1, <1>2, <2>2, DoneCall DEF SaveCode
  <2> QED
    BY <2>1, <2>2
<1>3. CASE TakeLock(c)
  <2> DEFINE q == record[Target(c)]
  <2>1. CASE lock[Target(c)] # None \/ q = None
    BY <1>1, <1>3, <2>1, DoneCall DEF TakeLock
  <2>2. CASE lock[Target(c)] = None /\ q # None
    <3>1. Target(c) \in Targets /\ q \in Record
      BY <1>3, <2>2, EmailOfCall DEF TakeLock, At, AccessInv, StoreGood
    <3>2. PICK s \in {"clean", "compare"} : s = IF Expired(c, q) THEN "clean" ELSE "compare"
      OBVIOUS
    <3>3. PICK r : r = [calls[c] EXCEPT !.pc = s, !.read = q.code, !.at = 0]
      OBVIOUS
    <3>4. q.code \in Codes
      BY <3>1 DEF Record
    <3>5. r \in Request /\ r.pc = s /\ r.read = q.code /\ r.target = calls[c].target
      <4>1. PICK r1 : r1 = [calls[c] EXCEPT !.pc = s]
        OBVIOUS
      <4>2. r1 \in Request /\ r1.pc = s /\ r1.target = calls[c].target
        BY <1>1, <4>1 DEF Request, Stages
      <4>3. PICK r2 : r2 = [r1 EXCEPT !.read = q.code]
        OBVIOUS
      <4>4. r2 \in Request /\ r2.pc = s /\ r2.target = calls[c].target /\ r2.read = q.code
        BY <3>4, <4>2, <4>3 DEF Request
      <4>5. r = [r2 EXCEPT !.at = 0]
        BY <3>3, <4>1, <4>3
      <4> QED
        BY <4>4, <4>5 DEF Request
    <3>6. calls' = [calls EXCEPT ![c] = r]
      BY <1>3, <2>2, <3>2, <3>3 DEF TakeLock
    <3>7. StagedRow(r)'
      BY <1>3, <3>1, <3>4, <3>5 DEF StagedRow, Target
    <3> QED
      BY <1>1, <3>5, <3>6, <3>7, OneCall
  <2> QED
    BY <2>1, <2>2
<1>4. CASE CleanExpired(c)
  BY <1>1, <1>4, DoneCall DEF CleanExpired
<1>5. CASE Finalize(c)
  <2>1. CASE Done(c)
    BY <1>1, <2>1, DoneCall
  <2>2. CASE Accept(c)
    <3>1. PICK r : r = [calls[c] EXCEPT !.pc = "account", !.code = Wrong, !.read = None]
      OBVIOUS
    <3>2. r \in Request /\ r.pc = "account" /\ r.target = calls[c].target
      <4>1. PICK r1 : r1 = [calls[c] EXCEPT !.pc = "account"]
        OBVIOUS
      <4>2. r1 \in Request /\ r1.pc = "account" /\ r1.target = calls[c].target
        BY <1>1, <4>1 DEF Request, Stages
      <4>3. PICK r2 : r2 = [r1 EXCEPT !.code = Wrong]
        OBVIOUS
      <4>4. r2 \in Request /\ r2.pc = "account" /\ r2.target = calls[c].target
        BY <4>2, <4>3 DEF Request
      <4>5. r = [r2 EXCEPT !.read = None]
        BY <3>1, <4>1, <4>3
      <4> QED
        BY <4>4, <4>5 DEF Request
    <3>3. calls' = [calls EXCEPT ![c] = r]
      BY <2>2, <3>1 DEF Accept
    <3>4. StagedRow(r)'
      BY <1>1, <1>5, <3>2 DEF StagedRow, Finalize, At
    <3> QED
      BY <1>1, <3>2, <3>3, <3>4, OneCall
  <2> QED
    BY <1>5, <2>1, <2>2 DEF Finalize, Count
<1> QED
  BY <1>2, <1>3, <1>4, <1>5 DEF StoreStep

LEMMA AccountCalls ==
  ASSUME AccessInv, UsersGood, UsersKept, NEW c \in Calls, AccessStep(c)
  PROVE  CallsGood'
<1>1. CallsGood
  BY DEF AccessInv
<1>2. CASE Done(c)
  BY <1>1, <1>2, DoneCall
<1>3. CASE calls' = calls
  BY <1>1, <1>3, SameCalls
<1>4. ASSUME NEW e \in Asking
      PROVE  <<e, "public">> \in Targets /\ <<e, "admin">> \in Targets
  BY <1>4, AccessAssumption DEF Targets, Doors
<1>5. ASSUME NEW e \in Asking, RequestOtp(c, e) \/ RequestAdminOtp(c, e)
      PROVE  CallsGood'
  BY <1>3, <1>4, <1>5, DrawsCall DEF RequestOtp, RequestAdminOtp
<1>6. ASSUME NEW e \in Asking, NEW d \in Details, RequestMerchantOtp(c, e, d)
      PROVE  CallsGood'
  BY <1>3, <1>4, <1>6, DrawsCall DEF RequestMerchantOtp
<1>7. ASSUME NEW e \in Asking, NEW g \in Guesses,
             VerifyOtp(c, e, g) \/ VerifyAdminOtp(c, e, g) \/ VerifyMerchantOtp(c, e, g)
      PROVE  CallsGood'
  BY <1>4, <1>7, AskCall DEF VerifyOtp, VerifyAdminOtp, VerifyMerchantOtp
<1>8. ASSUME NEW e \in Emails,
             \/ ApproveMerchant(c, e) \/ DeactivateMerchant(c, e) \/ ReactivateMerchant(c, e)
             \/ CreateMerchant(c, e)
      PROVE  CallsGood'
  <2>1. users' = users
    BY <1>8 DEF ApproveMerchant, DeactivateMerchant, ReactivateMerchant, CreateMerchant, AdminAsks, accounts
  <2>2. CASE ApproveMerchant(c, e)
    BY <2>1, <2>2, OrderCall DEF ApproveMerchant, AdminAsks
  <2>3. CASE DeactivateMerchant(c, e)
    BY <2>1, <2>3, OrderCall DEF DeactivateMerchant, AdminAsks
  <2>4. CASE ReactivateMerchant(c, e)
    <3>1. users[e].profile.verified
      BY <2>4 DEF ReactivateMerchant
    <3>2. users[e].profile.verified = TRUE
      <4>1. Exists(e) /\ users[e].profile \in Profiles
        BY <2>4, RowFields DEF ReactivateMerchant, Merchant, IsRole, AccessInv
      <4>2. users[e].profile.verified \in BOOLEAN
        BY <4>1 DEF Profiles
      <4> QED
        BY <3>1, <4>2
    <3> QED
      BY <2>1, <2>4, <3>2, OrderCall DEF ReactivateMerchant, AdminAsks
  <2>5. CASE CreateMerchant(c, e)
    BY <2>1, <2>5, OrderCall DEF CreateMerchant, AdminAsks
  <2> QED
    BY <1>8, <2>2, <2>3, <2>4, <2>5
<1>9. CASE SendCode(c) \/ SendFails(c) \/ SignIn(c) \/ AdminSignIn(c) \/ MerchantSignsUp(c)
           \/ AdminWrites(c) \/ GatewayRefuses(c)
  BY <1>2, <1>9 DEF SendCode, SendFails, SignIn, AdminSignIn, MerchantSignsUp, AdminWrites, GatewayRefuses
<1>10. CASE MerchantReads(c)
  <2>1. CASE Go(c, "profile")
    BY <1>10, <2>1, GoCall DEF MerchantReads, At
  <2> QED
    BY <1>2, <1>10, <2>1 DEF MerchantReads
<1> QED
  BY <1>5, <1>6, <1>7, <1>8, <1>9, <1>10 DEF AccessStep

LEMMA CallsStep ==
  ASSUME AccessInv, [AccessNext]_vars
  PROVE  CallsGood'
<1>1. UsersGood /\ UsersGood' /\ UsersKept /\ CallsGood
  BY UsersStep DEF AccessInv
<1>2. CASE calls' = calls
  BY <1>1, <1>2, SameCalls
<1>3. ASSUME NEW t \in Targets, RecordGone(t) \/ LockGone(t)
      PROVE  calls' = calls
  BY <1>3 DEF RecordGone, LockGone
<1>4. ASSUME NEW e \in Emails, RegisterMerchant(e) \/ Flag(e) \/ SessionEnds(e)
      PROVE  calls' = calls
  BY <1>4 DEF RegisterMerchant, Flag, SessionEnds
<1>5. Tick \/ SweepExpired \/ UNCHANGED vars => calls' = calls
  BY DEF Tick, SweepExpired, vars
<1>6. CASE Restart
  <2>1. \A c \in Calls : calls'[c] = Idle /\ Idle \in Request /\ Idle.pc = "idle"
    BY <1>6, IdleRow DEF Restart
  <2>2. calls' \in [Calls -> Request]
    BY <1>6, IdleRow DEF Restart
  <2> QED
    BY <2>1, <2>2 DEF CallsGood, StagedRow, Idle, Call
<1> QED
  BY <1>1, <1>2, <1>3, <1>4, <1>5, <1>6, StoreCalls, AccountCalls DEF AccessNext, StoreNext

-----------------------------------------------------------------------------
(* The store, the stash and the sessions.                                    *)

\* What the store keeps of its own.
StoreSame == UNCHANGED <<issued, record, lock, seen>>
StashOK(s) == s \in [Emails -> [details : Details, until : Nat] \cup {None}]
AccountsSame == UNCHANGED <<stash, sessions, scripted>>

LEMMA SweptOK ==
  ASSUME StashOK(stash)
  PROVE  StashOK(Swept)
BY DEF StashOK, Swept

LEMMA StoreOfCalls ==
  ASSUME AccessInv, NEW c \in Calls, StoreStep(c), AccountsSame
  PROVE  StoreGood'
<1>1. /\ Target(c) \in Targets /\ StoreGood /\ StagedRow(calls[c])
      /\ calls[c].pc \in {"save", "lock", "clean", "compare"}
  BY EmailOfCall DEF StoreStep, SaveCode, TakeLock, CleanExpired, Finalize, At, AccessInv, CallsGood
<1>2. CASE SaveCode(c)
  <2>0. PICK drops \in Drops(Target(c)) : record' = [record EXCEPT ![Target(c)] =
          [code |-> calls[c].code, expires |-> now + Ttl, failed |-> 0, drops |-> drops]]
    BY <1>2 DEF SaveCode
  <2> DEFINE r == [code |-> calls[c].code, expires |-> now + Ttl, failed |-> 0, drops |-> drops]
  <2>1. calls[c].code \in Codes /\ drops \in Nat
    BY <1>1, <1>2, Bounds DEF SaveCode, At, StagedRow, Drops, StoreGood, Record
  <2>2. r \in Record /\ r.failed < MaxFailed
    BY <1>1, <2>1, Bounds DEF Record, StoreGood
  <2>3. record' = [record EXCEPT ![Target(c)] = r]
    BY <2>0
  <2> HIDE DEF r
  <2> QED
    BY <1>1, <1>2, <2>2, <2>3 DEF SaveCode, StoreGood, AccountsSame, seen
<1>3. CASE TakeLock(c)
  BY <1>1, <1>3 DEF TakeLock, StoreGood, AccountsSame, seen
<1>4. Unlocked(c) \in [Targets -> Calls \cup {None}]
  BY <1>1 DEF Unlocked, StoreGood
<1>5. CASE CleanExpired(c)
  BY <1>1, <1>4, <1>5 DEF CleanExpired, StoreGood, AccountsSame, seen
<1>6. CASE Finalize(c)
  <2>1. calls[c].read \in Codes /\ lock' = Unlocked(c) /\ now' = now /\ issued' = issued
    BY <1>1, <1>6 DEF Finalize, At, StagedRow
  <2>2. CASE Accept(c)
    BY <1>1, <1>4, <2>1, <2>2 DEF Accept, StoreGood, AccountsSame
  <2>3. CASE Count(c)
    <3> DEFINE q == record[Target(c)]
               r == Blamed(q)
    <3>1. q \in Record
      BY <1>1, <2>3 DEF Count, SameRecord, StoreGood
    <3>2. r \in Record /\ r.failed = q.failed + 1
      BY <3>1 DEF Record, Blamed
    <3>3. record' = [record EXCEPT ![Target(c)] = IF q.failed + 1 >= MaxFailed THEN None ELSE r]
      BY <2>3 DEF Count
    <3>4. q.failed \in Nat
      BY <3>1 DEF Record
    <3>5. tries' \in [Codes -> Nat] /\ opened' = opened
      BY <1>1, <2>1, <2>3 DEF Count, StoreGood
    <3> HIDE DEF r, q
    <3>6. /\ record' \in [Targets -> Record \cup {None}]
          /\ \A t \in Targets : record'[t] # None => record'[t].failed < MaxFailed
      BY <1>1, <3>2, <3>3, <3>4, Bounds DEF StoreGood
    <3> QED
      BY <1>1, <1>4, <2>1, <3>5, <3>6 DEF StoreGood, AccountsSame
  <2>4. CASE UNCHANGED <<record, seen>>
    BY <1>1, <1>4, <2>1, <2>4 DEF StoreGood, AccountsSame, seen
  <2> QED
    BY <1>6, <2>2, <2>3, <2>4 DEF Finalize
<1> QED
  BY <1>2, <1>3, <1>5, <1>6 DEF StoreStep

LEMMA StoreOfAccounts ==
  ASSUME AccessInv, NEW c \in Calls, AccessStep(c)
  PROVE  StoreGood'
<1>1. StoreGood /\ StashOK(stash) /\ StashOK(Swept)
  BY SweptOK DEF AccessInv, StoreGood, StashOK
<1>2. CASE StoreSame /\ now' = now /\ AccountsSame
  BY <1>1, <1>2 DEF StoreGood, StoreSame, AccountsSame, seen
<1>3. ASSUME NEW kind, NEW t, NEW d, issued' = issued \/ Draws(c, kind, t, d)
      PROVE  issued' \in 0 .. MaxCodes
  BY <1>1, <1>3, Bounds DEF Draws, StoreGood
<1>4. ASSUME NEW e \in Asking, RequestOtp(c, e) \/ RequestAdminOtp(c, e)
      PROVE  StoreGood'
  BY <1>1, <1>3, <1>4 DEF RequestOtp, RequestAdminOtp, StoreGood, accounts, seen
<1>5. ASSUME NEW e \in Asking, NEW d \in Details, RequestMerchantOtp(c, e, d)
      PROVE  StoreGood'
  BY <1>1, <1>3, <1>5 DEF RequestMerchantOtp, StoreGood, StashOK, seen
<1>6. ASSUME NEW e \in Asking, NEW g \in Guesses,
             VerifyOtp(c, e, g) \/ VerifyAdminOtp(c, e, g) \/ VerifyMerchantOtp(c, e, g)
      PROVE  StoreGood'
  BY <1>2, <1>6 DEF VerifyOtp, VerifyAdminOtp, VerifyMerchantOtp, store, accounts, StoreSame, AccountsSame
<1>7. ASSUME NEW e \in Emails,
             \/ ApproveMerchant(c, e) \/ DeactivateMerchant(c, e) \/ ReactivateMerchant(c, e)
             \/ CreateMerchant(c, e)
      PROVE  StoreGood'
  BY <1>2, <1>7 DEF ApproveMerchant, DeactivateMerchant, ReactivateMerchant, CreateMerchant, AdminAsks,
       store, accounts, StoreSame, AccountsSame
<1>8. CASE SendCode(c)
  <2>1. Email(c) \in Emails /\ calls[c].details \in Details
    BY <1>8, EmailOfCall DEF SendCode, At, AccessInv, CallsGood, StagedRow
  <2>2. PICK s : s = [details |-> calls[c].details, until |-> now + StashTtl]
    OBVIOUS
  <2>3. s \in [details : Details, until : Nat]
    BY <1>1, <2>1, <2>2, Bounds DEF StoreGood
  <2>4. stash' = IF Stashed >= MaxStash THEN Swept ELSE [Swept EXCEPT ![Email(c)] = s]
    BY <1>8, <2>2 DEF SendCode
  <2>5. StashOK(stash')
    BY <1>1, <2>1, <2>3, <2>4 DEF StashOK
  <2> QED
    BY <1>1, <1>8, <2>5 DEF SendCode, StoreGood, StashOK, store, seen
<1>9. CASE SendFails(c) \/ SignIn(c) \/ AdminWrites(c) \/ GatewayRefuses(c)
  BY <1>2, <1>9 DEF SendFails, SignIn, AdminWrites, GatewayRefuses, store, accounts, StoreSame, AccountsSame
<1>10. CASE AdminSignIn(c)
  <2>1. Email(c) \in Emails
    BY <1>10, EmailOfCall DEF AdminSignIn, At, AccessInv
  <2> QED
    BY <1>1, <1>10, <2>1 DEF AdminSignIn, StoreGood, store, seen
<1>11. CASE MerchantReads(c) \/ MerchantSignsUp(c)
  <2>1. StashOK(stash')
    BY <1>1, <1>11 DEF MerchantReads, MerchantSignsUp, StashOK
  <2> QED
    BY <1>1, <1>11, <2>1 DEF MerchantReads, MerchantSignsUp, StoreGood, StashOK, store, seen
<1> QED
  BY <1>4, <1>5, <1>6, <1>7, <1>8, <1>9, <1>10, <1>11 DEF AccessStep

LEMMA StoreGoodStep ==
  ASSUME AccessInv, [AccessNext]_vars
  PROVE  StoreGood'
<1>1. StoreGood
  BY DEF AccessInv
<1>2. CASE StoreSame /\ now' = now /\ AccountsSame
  BY <1>1, <1>2 DEF StoreGood, StoreSame, AccountsSame, seen
<1>3. CASE StoreNext /\ UNCHANGED accounts
  <2>1. AccountsSame
    BY <1>3 DEF accounts, AccountsSame
  <2>2. ASSUME NEW t \in Targets, RecordGone(t) \/ LockGone(t)
        PROVE  StoreGood'
    BY <1>1, <2>1, <2>2 DEF RecordGone, LockGone, StoreGood, AccountsSame, seen
  <2>3. CASE Tick
    BY <1>1, <2>1, <2>3 DEF Tick, StoreGood, AccountsSame, seen
  <2> QED
    BY <1>3, <2>1, <2>2, <2>3, StoreOfCalls DEF StoreNext
<1>4. ASSUME NEW e \in Emails, RegisterMerchant(e) \/ Flag(e) \/ SessionEnds(e)
      PROVE  StoreGood'
  BY <1>1, <1>4 DEF RegisterMerchant, Flag, SessionEnds, StoreGood, store, seen
<1>5. CASE SweepExpired \/ Restart
  <2>1. StashOK(stash')
    BY <1>1, <1>5, SweptOK DEF SweepExpired, Restart, StashOK, StoreGood
  <2> QED
    BY <1>1, <1>5, <2>1 DEF SweepExpired, Restart, StoreGood, StashOK, store, seen
<1>6. CASE UNCHANGED vars
  BY <1>2, <1>6 DEF vars, store, accounts, StoreSame, AccountsSame
<1> QED
  BY <1>3, <1>4, <1>5, <1>6, StoreOfAccounts DEF AccessNext

-----------------------------------------------------------------------------
(* Codes: each is in one place.                                              *)

Saving(c) == calls[c].pc = "save"
Unused(k) == opened[k] = 0 /\ tries[k] = 0

\* With a request that will save it, ...
SavingTraced ==
  \A c \in Calls : Saving(c) =>
    /\ calls[c].code \in Codes /\ calls[c].code <= issued /\ Unused(calls[c].code)
    /\ \A t \in Targets : record[t] # None => record[t].code # calls[c].code
    /\ \A d \in Calls : Saving(d) /\ calls[d].code = calls[c].code => d = c

\* ... in one record, which counts its wrong guesses, ...
RecordTraced ==
  \A t \in Targets : record[t] # None =>
    /\ record[t].code \in Codes /\ record[t].code <= issued
    /\ opened[record[t].code] = 0 /\ tries[record[t].code] = record[t].failed
    /\ \A s \in Targets : record[s] # None /\ record[s].code = record[t].code => s = t

\* ... or used up, or not drawn yet.
SpentTraced ==
  \A k \in Codes :
    /\ opened[k] <= 1 /\ tries[k] <= MaxFailed
    /\ tries[k] = MaxFailed => opened[k] = 0
    /\ k > issued => Unused(k)

CodesTraced == SavingTraced /\ RecordTraced /\ SpentTraced

LEMMA CodesFollow ==
  ASSUME AccessInv, CodesTraced
  PROVE  CodeOpensOnce /\ CodeBurns
<1>1. \A k \in Codes : opened[k] <= 1 /\ tries[k] <= MaxFailed /\ (tries[k] = MaxFailed => opened[k] = 0)
  BY DEF CodesTraced, SpentTraced
<1>2. ASSUME NEW k \in Codes, tries[k] = MaxFailed, NEW t \in Targets, record[t] # None
      PROVE  record[t].code # k
  <2>1. record[t] \in Record /\ record[t].failed < MaxFailed
    BY <1>2 DEF AccessInv, StoreGood
  <2>2. tries[record[t].code] = record[t].failed
    BY <1>2 DEF CodesTraced, RecordTraced
  <2> QED
    BY <1>2, <2>1, <2>2, Bounds DEF Record
<1> QED
  BY <1>1, <1>2 DEF CodeOpensOnce, CodeBurns

\* A step that draws, saves and verifies nothing: records may go, requests may end.
Quiet ==
  /\ UNCHANGED <<issued, tries, opened>>
  /\ \A t \in Targets : record'[t] = record[t] \/ record'[t] = None
  /\ \A c \in Calls : Saving(c)' => Saving(c) /\ calls'[c].code = calls[c].code

LEMMA QuietCodes ==
  ASSUME CodesTraced, Quiet
  PROVE  CodesTraced'
<1>1. SavingTraced'
  BY DEF CodesTraced, SavingTraced, Quiet, Unused
<1>2. RecordTraced'
  BY DEF CodesTraced, RecordTraced, Quiet
<1>3. SpentTraced'
  BY DEF CodesTraced, SpentTraced, Quiet, Unused
<1> QED
  BY <1>1, <1>2, <1>3 DEF CodesTraced

\* One request is written, and it is not about to save.
LEMMA QuietCall ==
  ASSUME AccessInv, NEW c \in Calls, NEW r, r.pc # "save", calls' = [calls EXCEPT ![c] = r]
  PROVE  \A d \in Calls : Saving(d)' => Saving(d) /\ calls'[d].code = calls[d].code /\ d # c
BY DEF AccessInv, CallsGood, Saving

LEMMA QuietDone ==
  ASSUME AccessInv, NEW c \in Calls, Done(c)
  PROVE  \A d \in Calls : Saving(d)' => Saving(d) /\ calls'[d].code = calls[d].code /\ d # c
BY IdleRow, QuietCall DEF Done

LEMMA QuietGo ==
  ASSUME AccessInv, NEW c \in Calls, NEW pc \in {"send", "profile"}, Go(c, pc)
  PROVE  \A d \in Calls : Saving(d)' => Saving(d) /\ calls'[d].code = calls[d].code /\ d # c
<1>1. PICK r : r = [calls[c] EXCEPT !.pc = pc]
  OBVIOUS
<1>2. calls[c] \in Request
  BY DEF AccessInv, CallsGood
<1>3. r.pc # "save"
  BY <1>1, <1>2 DEF Request
<1>4. calls' = [calls EXCEPT ![c] = r]
  BY <1>1 DEF Go
<1> QED
  BY <1>3, <1>4, QuietCall

\* A code that nobody has had is given to a request.
LEMMA DrawCodes ==
  ASSUME AccessInv, CodesTraced, NEW c \in Calls, NEW kind, NEW t, NEW d, Draws(c, kind, t, d),
         UNCHANGED <<record, seen>>
  PROVE  CodesTraced'
<1> DEFINE k == issued + 1
<1>1. /\ calls \in [Calls -> Request] /\ issued \in 0 .. MaxCodes /\ issued < MaxCodes
      /\ issued' = issued + 1 /\ record' = record /\ tries' = tries /\ opened' = opened
  BY DEF AccessInv, CallsGood, StoreGood, Draws, seen
<1>2. k \in Codes /\ k > issued /\ Unused(k)
  BY <1>1, Bounds DEF Codes, CodesTraced, SpentTraced
<1>3. /\ Saving(c)' /\ calls'[c].code = k
      /\ \A e \in Calls : e # c => calls'[e] = calls[e]
  BY <1>1 DEF Draws, Call, Saving
<1>4. SavingTraced'
  <2> SUFFICES ASSUME NEW e \in Calls, Saving(e)'
               PROVE  /\ calls'[e].code \in Codes /\ calls'[e].code <= issued' /\ Unused(calls[e].code)'
                      /\ \A s \in Targets : record'[s] # None => record'[s].code # calls'[e].code
                      /\ \A f \in Calls : Saving(f)' /\ calls'[f].code = calls'[e].code => f = e
    BY DEF SavingTraced
  <2>1. \A f \in Calls : f # c /\ Saving(f)' =>
           Saving(f) /\ calls'[f].code = calls[f].code /\ calls[f].code \in Codes /\ calls[f].code <= issued
    BY <1>3 DEF CodesTraced, SavingTraced, Saving
  <2>2. CASE e = c
    <3>1. \A s \in Targets : record[s] # None => record[s].code <= issued /\ record[s].code \in Codes
      BY DEF CodesTraced, RecordTraced
    <3> QED
      BY <1>1, <1>2, <1>3, <2>1, <2>2, <3>1 DEF Codes, Unused
  <2>3. CASE e # c
    <3>1. Saving(e) /\ calls'[e] = calls[e]
      BY <1>3, <2>3 DEF Saving
    <3>2. /\ calls[e].code \in Codes /\ calls[e].code <= issued /\ Unused(calls[e].code)
          /\ \A s \in Targets : record[s] # None => record[s].code # calls[e].code
          /\ \A f \in Calls : Saving(f) /\ calls[f].code = calls[e].code => f = e
      BY <3>1 DEF CodesTraced, SavingTraced
    <3>3. \A f \in Calls : Saving(f)' /\ calls'[f].code = calls'[e].code => f = e
      BY <1>1, <1>3, <2>1, <3>1, <3>2 DEF Codes
    <3> QED
      BY <1>1, <3>1, <3>2, <3>3 DEF Codes, Unused
  <2> QED
    BY <2>2, <2>3
<1>5. RecordTraced'
  BY <1>1 DEF CodesTraced, RecordTraced, Codes
<1>6. SpentTraced'
  BY <1>1 DEF CodesTraced, SpentTraced, Unused, Codes
<1> QED
  BY <1>4, <1>5, <1>6 DEF CodesTraced

\* The request hands its code over to the record.
LEMMA SaveCodes ==
  ASSUME AccessInv, CodesTraced, NEW c \in Calls, SaveCode(c)
  PROVE  CodesTraced'
<1> DEFINE k == calls[c].code
           t == Target(c)
<1>0. PICK drops \in Drops(t) : record' = [record EXCEPT ![t] =
        [code |-> k, expires |-> now + Ttl, failed |-> 0, drops |-> drops]]
  BY DEF SaveCode
<1> DEFINE r == [code |-> k, expires |-> now + Ttl, failed |-> 0, drops |-> drops]
<1>1. /\ t \in Targets /\ Saving(c) /\ issued' = issued /\ tries' = tries /\ opened' = opened
      /\ record \in [Targets -> Record \cup {None}] /\ record' = [record EXCEPT ![t] = r]
  BY <1>0, EmailOfCall DEF SaveCode, At, AccessInv, StoreGood, Saving, seen
<1>2. /\ k \in Codes /\ k <= issued /\ Unused(k)
      /\ \A s \in Targets : record[s] # None => record[s].code # k
      /\ \A d \in Calls : Saving(d) /\ calls[d].code = k => d = c
  BY <1>1 DEF CodesTraced, SavingTraced
<1>3. \A d \in Calls : Saving(d)' => Saving(d) /\ calls'[d].code = calls[d].code /\ d # c
  BY QuietGo, QuietDone DEF SaveCode
<1>4. record'[t].code = k /\ record'[t].failed = 0 /\ \A s \in Targets : s # t => record'[s] = record[s]
  BY <1>1
<1> HIDE DEF k, t, r
<1>5. SavingTraced'
  BY <1>1, <1>2, <1>3, <1>4 DEF CodesTraced, SavingTraced, Unused, k
<1>6. RecordTraced'
  BY <1>1, <1>2, <1>4 DEF CodesTraced, RecordTraced, Unused
<1>7. SpentTraced'
  BY <1>1 DEF CodesTraced, SpentTraced, Unused
<1> QED
  BY <1>5, <1>6, <1>7 DEF CodesTraced

\* The record goes with the code it accepts.
LEMMA AcceptCodes ==
  ASSUME AccessInv, CodesTraced, NEW c \in Calls, At(c, "compare"), Accept(c), issued' = issued
  PROVE  CodesTraced'
<1> DEFINE k == calls[c].read
           t == Target(c)
<1>1. /\ t \in Targets /\ record[t] # None /\ record[t].code = k /\ tries' = tries
      /\ record' = [record EXCEPT ![t] = None] /\ opened' = [opened EXCEPT ![k] = @ + 1]
      /\ record \in [Targets -> Record \cup {None}] /\ opened \in [Codes -> Nat]
      /\ record[t].failed < MaxFailed
  BY EmailOfCall DEF At, Accept, SameRecord, AccessInv, StoreGood
<1>2. /\ k \in Codes /\ k <= issued /\ opened[k] = 0 /\ tries[k] < MaxFailed
      /\ \A s \in Targets : record[s] # None /\ record[s].code = k => s = t
  BY <1>1 DEF CodesTraced, RecordTraced
<1>3. \A d \in Calls : Saving(d)' => Saving(d) /\ calls'[d].code = calls[d].code
  <2>1. PICK r : r = [calls[c] EXCEPT !.pc = "account", !.code = Wrong, !.read = None]
    OBVIOUS
  <2>2. calls[c] \in Request
    BY DEF AccessInv, CallsGood
  <2>3. r.pc # "save"
    BY <2>1, <2>2 DEF Request
  <2>4. calls' = [calls EXCEPT ![c] = r]
    BY <2>1 DEF Accept
  <2> QED
    BY <2>3, <2>4, QuietCall
<1>4. /\ opened'[k] = 1 /\ \A j \in Codes : j # k => opened'[j] = opened[j]
      /\ \A s \in Targets : record'[s] # None => record'[s] = record[s] /\ s # t
  BY <1>1, <1>2
<1> HIDE DEF k, t
<1>5. SavingTraced'
  <2>1. \A d \in Calls : Saving(d) => calls[d].code # k /\ calls[d].code \in Codes
    BY <1>1 DEF CodesTraced, SavingTraced
  <2> QED
    BY <1>1, <1>3, <1>4, <2>1 DEF CodesTraced, SavingTraced, Unused
<1>6. RecordTraced'
  BY <1>1, <1>2, <1>4 DEF CodesTraced, RecordTraced
<1>7. SpentTraced'
  <2>1. k \in Nat /\ issued \in Nat /\ MaxFailed \in Nat /\ tries[k] # MaxFailed /\ ~(k > issued)
    <3>1. tries[k] \in Nat /\ issued \in Nat /\ k \in Nat
      BY <1>2, Bounds DEF AccessInv, StoreGood, Codes
    <3> QED
      BY <1>2, <3>1, Bounds
  <2> QED
    BY <1>1, <1>2, <1>4, <2>1 DEF CodesTraced, SpentTraced, Unused
<1> QED
  BY <1>5, <1>6, <1>7 DEF CodesTraced

\* A wrong guess is counted against the record's code.
LEMMA CountCodes ==
  ASSUME AccessInv, CodesTraced, NEW c \in Calls, At(c, "compare"), Count(c), issued' = issued
  PROVE  CodesTraced'
<1> DEFINE k == calls[c].read
           t == Target(c)
           q == record[t]
<1>1. /\ t \in Targets /\ q # None /\ q.code = k /\ opened' = opened
      /\ record' = [record EXCEPT ![t] = IF q.failed + 1 >= MaxFailed THEN None ELSE Blamed(q)]
      /\ tries' = [tries EXCEPT ![k] = @ + 1]
      /\ record \in [Targets -> Record \cup {None}] /\ tries \in [Codes -> Nat]
      /\ q \in Record /\ q.failed < MaxFailed
  BY EmailOfCall DEF At, Count, SameRecord, AccessInv, StoreGood
<1>2. /\ k \in Codes /\ k <= issued /\ opened[k] = 0 /\ tries[k] = q.failed
      /\ \A s \in Targets : record[s] # None /\ record[s].code = k => s = t
  BY <1>1 DEF CodesTraced, RecordTraced
<1>3. \A d \in Calls : Saving(d)' => Saving(d) /\ calls'[d].code = calls[d].code
  BY QuietDone DEF Count
<1>4. Blamed(q).code = k /\ Blamed(q).failed = q.failed + 1 /\ q.failed \in Nat
  BY <1>1 DEF Blamed, Record
<1>5. /\ tries'[k] = q.failed + 1 /\ \A j \in Codes : j # k => tries'[j] = tries[j]
      /\ \A s \in Targets : s # t => record'[s] = record[s]
      /\ record'[t] # None => record'[t].code = k /\ record'[t].failed = q.failed + 1
  BY <1>1, <1>2, <1>4
<1> HIDE DEF k, t, q
<1>6. SavingTraced'
  <2>1. \A d \in Calls : Saving(d) => calls[d].code # k /\ calls[d].code \in Codes
    BY <1>1 DEF CodesTraced, SavingTraced, q
  <2> QED
    BY <1>1, <1>3, <1>5, <2>1 DEF CodesTraced, SavingTraced, Unused, q
<1>7. RecordTraced'
  BY <1>1, <1>2, <1>5 DEF CodesTraced, RecordTraced, q
<1>8. SpentTraced'
  <2>1. k \in Nat /\ issued \in Nat /\ ~(k > issued) /\ tries'[k] <= MaxFailed
    <3>1. issued \in Nat /\ k \in Nat
      BY <1>2, Bounds DEF AccessInv, StoreGood, Codes
    <3> QED
      BY <1>1, <1>2, <1>4, <1>5, <3>1, Bounds
  <2> QED
    BY <1>1, <1>2, <1>5, <2>1 DEF CodesTraced, SpentTraced, Unused
<1> QED
  BY <1>6, <1>7, <1>8 DEF CodesTraced

LEMMA CodesOfStore ==
  ASSUME AccessInv, CodesTraced, NEW c \in Calls, StoreStep(c)
  PROVE  CodesTraced'
<1>1. /\ Target(c) \in Targets /\ record \in [Targets -> Record \cup {None}]
  BY EmailOfCall DEF StoreStep, SaveCode, TakeLock, CleanExpired, Finalize, At, AccessInv, StoreGood
<1>2. CASE TakeLock(c)
  <2>1. CASE Done(c)
    BY <1>2, <2>1, QuietDone, QuietCodes DEF TakeLock, Quiet, seen
  <2>2. CASE ~Done(c)
    <3> DEFINE q == record[Target(c)]
    <3>1. PICK s \in {"clean", "compare"} : s = IF Expired(c, q) THEN "clean" ELSE "compare"
      OBVIOUS
    <3>2. PICK r : r = [calls[c] EXCEPT !.pc = s, !.read = q.code, !.at = 0]
      OBVIOUS
    <3>3. calls[c] \in Request
      BY DEF AccessInv, CallsGood
    <3>4. r.pc # "save"
      BY <3>1, <3>2, <3>3 DEF Request
    <3>5. calls' = [calls EXCEPT ![c] = r]
      BY <1>2, <2>2, <3>1, <3>2 DEF TakeLock
    <3> QED
      BY <1>2, <3>4, <3>5, QuietCall, QuietCodes DEF TakeLock, Quiet, seen
  <2> QED
    BY <2>1, <2>2
<1>3. CASE CleanExpired(c)
  BY <1>1, <1>3, QuietDone, QuietCodes DEF CleanExpired, Quiet, seen
<1>4. CASE Finalize(c)
  <2>1. CASE Done(c) /\ UNCHANGED <<record, seen>>
    BY <1>4, <2>1, QuietDone, QuietCodes DEF Finalize, Quiet, seen
  <2> QED
    BY <1>4, <2>1, AcceptCodes, CountCodes DEF Finalize
<1> QED
  BY <1>2, <1>3, <1>4, SaveCodes DEF StoreStep

LEMMA CodesOfAccounts ==
  ASSUME AccessInv, CodesTraced, NEW c \in Calls, AccessStep(c)
  PROVE  CodesTraced'
<1> DEFINE Still == UNCHANGED <<issued, record, seen>>
<1>1. CASE Still /\ (Done(c) \/ calls' = calls \/ Go(c, "profile"))
  BY <1>1, QuietDone, QuietGo, QuietCodes DEF Quiet, Saving, seen
<1>2. ASSUME NEW pc \in {"lock", "write"}, NEW kind, NEW t, NEW g, NEW at,
             Still, calls' = [calls EXCEPT ![c] = Call(pc, kind, t, g, at, None)]
      PROVE  CodesTraced'
  <2>1. PICK r : r = Call(pc, kind, t, g, at, None)
    OBVIOUS
  <2>2. r.pc # "save"
    BY <2>1 DEF Call
  <2> QED
    BY <1>2, <2>1, <2>2, QuietCall, QuietCodes DEF Quiet, seen
<1>3. ASSUME NEW e \in Asking, RequestOtp(c, e) \/ RequestAdminOtp(c, e)
      PROVE  CodesTraced'
  BY <1>1, <1>3, DrawCodes DEF RequestOtp, RequestAdminOtp
<1>4. ASSUME NEW e \in Asking, NEW d \in Details, RequestMerchantOtp(c, e, d)
      PROVE  CodesTraced'
  BY <1>1, <1>4, DrawCodes DEF RequestMerchantOtp
<1>5. ASSUME NEW e \in Asking, NEW g \in Guesses,
             VerifyOtp(c, e, g) \/ VerifyAdminOtp(c, e, g) \/ VerifyMerchantOtp(c, e, g)
      PROVE  CodesTraced'
  BY <1>2, <1>5 DEF VerifyOtp, VerifyAdminOtp, VerifyMerchantOtp, Ask, store
<1>6. ASSUME NEW e \in Emails,
             \/ ApproveMerchant(c, e) \/ DeactivateMerchant(c, e) \/ ReactivateMerchant(c, e)
             \/ CreateMerchant(c, e)
      PROVE  CodesTraced'
  BY <1>2, <1>6 DEF ApproveMerchant, DeactivateMerchant, ReactivateMerchant, CreateMerchant, AdminAsks,
       Writes, store
<1>7. CASE SendCode(c) \/ SendFails(c) \/ SignIn(c) \/ AdminSignIn(c) \/ MerchantReads(c)
           \/ MerchantSignsUp(c) \/ AdminWrites(c) \/ GatewayRefuses(c)
  BY <1>1, <1>7 DEF SendCode, SendFails, SignIn, AdminSignIn, MerchantReads, MerchantSignsUp, AdminWrites,
       GatewayRefuses, store
<1> QED
  BY <1>3, <1>4, <1>5, <1>6, <1>7 DEF AccessStep

LEMMA CodesStep ==
  ASSUME AccessInv, CodesTraced, [AccessNext]_vars
  PROVE  CodesTraced'
<1>1. CASE UNCHANGED <<issued, record, seen, calls>>
  BY <1>1, QuietCodes DEF Quiet, Saving, seen
<1>2. ASSUME NEW t \in Targets, RecordGone(t) \/ LockGone(t)
      PROVE  CodesTraced'
  <2>1. record \in [Targets -> Record \cup {None}]
    BY DEF AccessInv, StoreGood
  <2> QED
    BY <1>2, <2>1, QuietCodes DEF RecordGone, LockGone, Quiet, Saving, seen
<1>3. ASSUME NEW e \in Emails, RegisterMerchant(e) \/ Flag(e) \/ SessionEnds(e)
      PROVE  CodesTraced'
  BY <1>1, <1>3 DEF RegisterMerchant, Flag, SessionEnds, store
<1>4. CASE Tick \/ SweepExpired \/ UNCHANGED vars
  BY <1>1, <1>4 DEF Tick, SweepExpired, vars, store
<1>5. CASE Restart
  <2>1. \A c \in Calls : ~Saving(c)'
    BY <1>5, IdleRow DEF Restart, Saving
  <2> QED
    BY <1>5, <2>1, QuietCodes DEF Restart, Quiet, store, seen
<1> QED
  BY <1>2, <1>3, <1>4, <1>5, CodesOfStore, CodesOfAccounts DEF AccessNext, StoreNext

-----------------------------------------------------------------------------
(* The theorems.                                                             *)

LEMMA AccessStarts ==
  ASSUME AccessInit
  PROVE  AccessInv /\ CodesTraced
<1>1. PICK others \in SUBSET Asking :
        users = [e \in Emails |-> IF e = Admin \/ e \in others THEN AdminRow ELSE None]
  BY DEF AccessInit
<1>2. AdminRow \in User /\ AdminRow.role = "ADMIN"
  BY DEF AdminRow, User, Roles, Statuses
<1>3. UsersGood
  <2>1. users \in [Emails -> User \cup {None}]
    BY <1>1, <1>2
  <2>2. \A e \in Emails : Exists(e) => users[e] = AdminRow
    BY <1>1 DEF Exists
  <2>3. \A e \in Emails : ~IsRole(e, "MERCHANT")
    BY <1>2, <2>2 DEF IsRole
  <2> QED
    BY <2>1, <2>3 DEF UsersGood, ActiveWasApproved
<1>4. CallsGood /\ \A c \in Calls : ~Saving(c)
  <2>1. \A c \in Calls : calls[c] = Idle /\ Idle \in Request /\ Idle.pc = "idle"
    BY IdleRow DEF AccessInit, StoreInit
  <2>2. calls \in [Calls -> Request]
    BY IdleRow DEF AccessInit, StoreInit
  <2> QED
    BY <2>1, <2>2 DEF CallsGood, StagedRow, Idle, Call, Saving
<1>5. StoreGood
  BY Bounds, AccessAssumption DEF AccessInit, StoreInit, StoreGood
<1>6. CodesTraced
  BY <1>4, Bounds DEF AccessInit, StoreInit, CodesTraced, SavingTraced, RecordTraced, SpentTraced, Unused
<1> QED
  BY <1>3, <1>4, <1>5, <1>6 DEF AccessInv

LEMMA AccessStepInv ==
  AccessInv /\ CodesTraced /\ [AccessNext]_vars => (AccessInv /\ CodesTraced)'
BY UsersStep, CallsStep, StoreGoodStep, CodesStep DEF AccessInv

LEMMA AccessIsInv == AccessSpec => [](AccessInv /\ CodesTraced)
BY AccessStarts, AccessStepInv, PTL DEF AccessSpec

\* Types: every row, record, lock and request is what the code takes it for.
THEOREM AccessTypes == AccessSpec => []AccessTypeOK
BY AccessIsInv, TypesFollow, PTL

\* A code opens one session: locks that run out, records that are replaced and crashes
\* between two calls of Redis included.
THEOREM CodesOpenOnce == AccessSpec => []CodeOpensOnce
BY AccessIsInv, CodesFollow, PTL

\* A code stands no more than MaxFailed wrong guesses, and is gone once it has stood them,
\* whichever requests count at the same time (incrementOtpFailures).
THEOREM CodesBurn == AccessSpec => []CodeBurns
BY AccessIsInv, CodesFollow, PTL

\* No overlap of sign-ups, approvals, freezes and reactivations admits a merchant whom
\* neither an admin nor the operator's script let in.
THEOREM ActiveIsApproved == AccessSpec => []ActiveWasApproved
BY AccessIsInv, PTL DEF AccessInv, UsersGood

\* An account is never removed and never changes its role.
THEOREM RolesAreKept == AccessSpec => RolesStay
<1>1. AccessInv /\ [AccessNext]_vars =>
        [\A e \in Emails : Exists(e) => users'[e] # None /\ users'[e].role = users[e].role]_vars
  BY UsersStep DEF UsersKept, RowKept
<1> QED
  BY <1>1, AccessIsInv, PTL DEF AccessSpec, RolesStay

=============================================================================
