------------------------------ MODULE Accounts ------------------------------
(***************************************************************************)
(* The database rows that device-key registration, account recovery and    *)
(* offline settlement share: the verified balance of every user, the       *)
(* history of device keys, the recovery requests and the balance holds an  *)
(* approved recovery places; with the pure reads RecoveryBalanceService    *)
(* makes of them.                                                          *)
(*                                                                         *)
(* Time is counted in abstract units.  The windows of the code (24 h, 48 h)*)
(* become constants of which only the order matters.                       *)
(***************************************************************************)
EXTENDS Integers, FiniteSets, Functions

CONSTANTS
  Students,    \* users that pay; each owns device keys
  Merchants,   \* users that are paid
  Keys,        \* public keys, every one that is ever generated on a phone
  KeyOwner,    \* the user on whose phone a key was generated
  Requests,    \* KeyRecoveryRequest row ids
  MaxTime      \* bound: the clock stops here

ASSUME AccountsAssumption ==
  /\ Students \cap Merchants = {}
  /\ KeyOwner \in [Keys -> Students]
  /\ MaxTime \in Nat

Users == Students \cup Merchants
Time  == 0 .. MaxTime
Never == -1                      \* a null DateTime column

VARIABLES
  now,       \* the server clock
  balance,   \* User.verifiedBalanceKobo
  keys,      \* UserDeviceKey rows; status NONE is the absence of the row
  mirror,    \* User.publicKey
  requests,  \* KeyRecoveryRequest rows; status NONE is the absence of the row
  holds      \* RecoveryBalanceHold rows, by the request that created them

accountVars == <<now, balance, keys, mirror, requests, holds>>

KeyStatus == {"NONE", "ACTIVE", "VERIFY_ONLY"}   \* no code writes REVOKED
KeyRow    == [status : KeyStatus, retiredAt : Time \cup {Never}, verifyUntil : Int]
NoKey     == [status |-> "NONE", retiredAt |-> Never, verifyUntil |-> Never]
FreshKey  == [status |-> "ACTIVE", retiredAt |-> Never, verifyUntil |-> Never]

NoRequest  == [status |-> "NONE"]
RequestRow == [status : {"PENDING", "APPROVED", "REJECTED", "CANCELLED"},
               old : Keys, new : Keys, stolen : BOOLEAN]

NoHold  == [held |-> 0]
HoldRow == [old : Keys, held : Nat \ {0}, consumed : Nat, until : Int, since : Time]

-----------------------------------------------------------------------------
(***************************************************************************)
(* RecoveryBalanceService                                                  *)
(***************************************************************************)

Remaining(r) == IF holds[r].held > holds[r].consumed
                  THEN holds[r].held - holds[r].consumed ELSE 0

\* The holds of user u that still reserve money at time t.
ActiveHolds(u, t) ==
  {r \in Requests : /\ holds[r] # NoHold
                    /\ KeyOwner[holds[r].old] = u
                    /\ holds[r].until > t
                    /\ Remaining(r) > 0}

HeldBalance(u, t) == SumFunction([r \in ActiveHolds(u, t) |-> Remaining(r)])

\* Mutant: what is held is not set aside.
WholeBalance(u, t) == balance[u]

\* What the current device key of u may spend at time t.
Available(u, t) ==
  IF balance[u] > HeldBalance(u, t) THEN balance[u] - HeldBalance(u, t) ELSE 0

\* The oldest active hold that old key k may draw on (the order of creation
\* is the only order the query asks for).
OldestHolds(k, t) ==
  LET mine == {r \in ActiveHolds(KeyOwner[k], t) : holds[r].old = k}
  IN  {r \in mine : \A s \in mine : holds[r].since <= holds[s].since}

-----------------------------------------------------------------------------
ActiveKeys(u)      == {k \in Keys : KeyOwner[k] = u /\ keys[k].status = "ACTIVE"}
PendingRequests(u) == {r \in Requests : /\ requests[r].status = "PENDING"
                                        /\ KeyOwner[requests[r].old] = u}

AccountsTypeOK ==
  /\ now \in Time
  /\ balance \in [Users -> Nat]
  /\ keys \in [Keys -> KeyRow]
  /\ mirror \in [Students -> Keys \cup {NoKey}]
  /\ requests \in [Requests -> RequestRow \cup {NoRequest}]
  /\ holds \in [Requests -> HoldRow \cup {NoHold}]

Tick ==
  /\ now < MaxTime
  /\ now' = now + 1
  /\ UNCHANGED <<balance, keys, mirror, requests, holds>>
=============================================================================
