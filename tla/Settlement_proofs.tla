-------------------------- MODULE Settlement_proofs --------------------------
(***************************************************************************)
(* Type correctness and safety of the key registry and of settlement, for  *)
(* any number of users, keys, requests, payments, concurrent reconcile     *)
(* calls, polls, key handlers and recoveries.                              *)
(***************************************************************************)
EXTENDS Settlement, FiniteSums, TLAPS

-----------------------------------------------------------------------------
(***************************************************************************)
(* The key registry.  RegistryTypeOK is inductive only together with       *)
(* NamedRowsExist: a cancel that commits writes the status of the row it   *)
(* read before, so that row must still be there.  The step lemmas are      *)
(* about any step of the registry, so that the proofs about settlement     *)
(* can cite them.                                                          *)
(***************************************************************************)

RegistryInv == RegistryTypeOK /\ NamedRowsExist

\* The stored rows of a request and of a call have the fields their tag promises.
LEMMA RequestFields ==
  ASSUME RegistryTypeOK, NEW r \in Requests, requests[r] # NoRequest
  PROVE  /\ requests[r] \in RequestRow
         /\ requests[r].old \in Keys /\ requests[r].new \in Keys
         /\ requests[r].stolen \in BOOLEAN
  BY DEF RegistryTypeOK, AccountsTypeOK, RequestRow

LEMMA CallFields ==
  ASSUME RegistryTypeOK, NEW c \in KeyCalls
  PROVE  /\ keyCalls[c].op \in {"idle", "first", "rotate", "report", "cancel"}
         /\ keyCalls[c].op = "first" => keyCalls[c].new \in Keys
         /\ keyCalls[c].op = "rotate" =>
              keyCalls[c].old \in Keys /\ keyCalls[c].new \in Keys /\ keyCalls[c].at \in Time
         /\ keyCalls[c].op = "report" =>
              /\ keyCalls[c].old \in Keys /\ keyCalls[c].new \in Keys
              /\ keyCalls[c].at \in Time /\ keyCalls[c].stolen \in BOOLEAN
         /\ keyCalls[c].op = "cancel" => keyCalls[c].req \in Requests
<1>1. keyCalls[c] \in KeyCall
  BY DEF RegistryTypeOK
<1>2. CASE keyCalls[c] = Idle
  BY <1>2 DEF Idle
<1>3. CASE keyCalls[c] \in [op : {"first"}, new : Keys]
  BY <1>3
<1>4. CASE keyCalls[c] \in [op : {"rotate"}, old : Keys, new : Keys, at : Time]
  BY <1>4
<1>5. CASE keyCalls[c] \in [op : {"report"}, old : Keys, new : Keys, at : Time, stolen : BOOLEAN]
  BY <1>5
<1>6. CASE keyCalls[c] \in [op : {"cancel"}, req : Requests]
  BY <1>6
<1> QED
  BY <1>1, <1>2, <1>3, <1>4, <1>5, <1>6 DEF KeyCall

LEMMA KeyConstants ==
  /\ NoKey \in KeyRow /\ FreshKey \in KeyRow /\ Idle \in KeyCall
  /\ Time \subseteq Int
  /\ RotationWindow \in Nat /\ RecoveryWindow \in Nat
  BY AccountsAssumption, KeyRegistryAssumption
     DEF NoKey, FreshKey, KeyRow, KeyStatus, Idle, KeyCall, Time, Never

LEMMA RetiredType ==
  ASSUME NEW at \in Time, NEW window \in Nat
  PROVE  Retired(at, at + window) \in KeyRow
  BY KeyConstants DEF Retired, KeyRow, KeyStatus

LEMMA BeginType ==
  ASSUME RegistryTypeOK, NEW c \in KeyCalls, NEW call \in KeyCall, Begin(c, call)
  PROVE  /\ keyCalls' \in [KeyCalls -> KeyCall]
         /\ keyCalls'[c] = call
         /\ \A d \in KeyCalls : d # c => keyCalls'[d] = keyCalls[d]
  BY DEF RegistryTypeOK, Begin

LEMMA EndType ==
  ASSUME RegistryTypeOK, NEW c \in KeyCalls, End(c)
  PROVE  /\ keyCalls' \in [KeyCalls -> KeyCall]
         /\ keyCalls'[c] = Idle
         /\ \A d \in KeyCalls : d # c => keyCalls'[d] = keyCalls[d]
  BY KeyConstants DEF RegistryTypeOK, End

\* A move and a report write the time of some clock between their reads and
\* their commits.
LEMMA CommitClock ==
  ASSUME RegistryTypeOK, NEW c \in KeyCalls, keyCalls[c].op \in {"rotate", "report"},
         NEW t \in keyCalls[c].at .. now
  PROVE  t \in Time /\ t <= now
BY CallFields, AccountsAssumption DEF RegistryTypeOK, AccountsTypeOK, Time

LEMMA RotationWrites ==
  ASSUME NEW c \in KeyCalls, RotationCommit(c)
  PROVE  \/ UNCHANGED <<keys, mirror>>
         \/ \E t \in keyCalls[c].at .. now :
              /\ MayActivate(keyCalls[c].new, {keyCalls[c].old})
              /\ keys' = [keys EXCEPT ![keyCalls[c].old] = Retired(t, t + RotationWindow),
                                      ![keyCalls[c].new] = FreshKey]
              /\ mirror' = MirrorOn(keyCalls[c].new)
BY DEF RotationCommit

LEMMA MirrorType ==
  ASSUME RegistryTypeOK, NEW k \in Keys
  PROVE  MirrorOn(k) \in [Students -> Keys \cup {NoKey}]
  BY DEF RegistryTypeOK, AccountsTypeOK, MirrorOn

\* What every step of the registry keeps: the types and the named rows.  The
\* clock and the balances move elsewhere.
THEOREM HandlerStepInv ==
  ASSUME RegistryInv, HandlerStep
  PROVE  RegistryInv'
<1> USE DEF RegistryInv
<1>1. ASSUME NEW c \in KeyCalls, NEW k \in Keys, FirstKeyRead(c, k)
      PROVE  RegistryInv'
  <2>1. [op |-> "first", new |-> k] \in KeyCall
    BY DEF KeyCall
  <2>2. UNCHANGED accountVars /\ Begin(c, [op |-> "first", new |-> k])
    BY <1>1 DEF FirstKeyRead
  <2>3. RegistryTypeOK'
    BY <2>1, <2>2, BeginType DEF RegistryTypeOK, AccountsTypeOK, accountVars
  <2>4. NamedRowsExist'
    BY <2>1, <2>2, BeginType DEF NamedRowsExist, accountVars
  <2> QED
    BY <2>3, <2>4
<1>2. ASSUME NEW c \in KeyCalls, NEW k \in Keys, RotationRead(c, k)
      PROVE  RegistryInv'
  <2>1. PICK old \in ActiveKeys(KeyOwner[k]) :
          Begin(c, [op |-> "rotate", old |-> old, new |-> k, at |-> now])
    BY <1>2 DEF RotationRead
  <2>2. UNCHANGED accountVars /\ old \in Keys /\ keys[old].status = "ACTIVE"
    BY <1>2 DEF RotationRead, ActiveKeys
  <2>3. [op |-> "rotate", old |-> old, new |-> k, at |-> now] \in KeyCall
    BY <2>2 DEF KeyCall, RegistryTypeOK, AccountsTypeOK
  <2>4. RegistryTypeOK'
    BY <2>1, <2>2, <2>3, BeginType DEF RegistryTypeOK, AccountsTypeOK, accountVars
  <2>5. NamedRowsExist'
    BY <2>1, <2>2, <2>3, BeginType DEF NamedRowsExist, accountVars
  <2> QED
    BY <2>4, <2>5
<1>3. ASSUME NEW c \in KeyCalls, NEW k \in Keys, NEW stolen \in BOOLEAN,
             ReportRead(c, k, stolen)
      PROVE  RegistryInv'
  <2>1. PICK old \in ActiveKeys(KeyOwner[k]) :
          Begin(c, [op |-> "report", old |-> old, new |-> k, at |-> now, stolen |-> stolen])
    BY <1>3 DEF ReportRead
  <2>2. UNCHANGED accountVars /\ old \in Keys /\ keys[old].status = "ACTIVE"
    BY <1>3 DEF ReportRead, ActiveKeys
  <2>3. [op |-> "report", old |-> old, new |-> k, at |-> now, stolen |-> stolen] \in KeyCall
    BY <2>2 DEF KeyCall, RegistryTypeOK, AccountsTypeOK
  <2>4. RegistryTypeOK'
    BY <2>1, <2>2, <2>3, BeginType DEF RegistryTypeOK, AccountsTypeOK, accountVars
  <2>5. NamedRowsExist'
    BY <2>1, <2>2, <2>3, BeginType DEF NamedRowsExist, accountVars
  <2> QED
    BY <2>4, <2>5
<1>4. ASSUME NEW c \in KeyCalls, NEW r \in Requests, CancelRead(c, r)
      PROVE  RegistryInv'
  <2>1. [op |-> "cancel", req |-> r] \in KeyCall
    BY DEF KeyCall
  <2>2. UNCHANGED accountVars /\ Begin(c, [op |-> "cancel", req |-> r])
    BY <1>4 DEF CancelRead
  <2>3. requests[r] # NoRequest
    BY <1>4 DEF CancelRead, NoRequest
  <2>4. RegistryTypeOK'
    BY <2>1, <2>2, BeginType DEF RegistryTypeOK, AccountsTypeOK, accountVars
  <2>5. NamedRowsExist'
    BY <2>1, <2>2, <2>3, BeginType DEF NamedRowsExist, accountVars
  <2> QED
    BY <2>4, <2>5
<1>5. ASSUME NEW c \in KeyCalls, FirstKeyCommit(c)
      PROVE  RegistryInv'
  <2> DEFINE k == keyCalls[c].new
  <2>1. k \in Keys /\ End(c)
    BY <1>5, CallFields DEF FirstKeyCommit
  <2>2. /\ keys' \in [Keys -> KeyRow] /\ mirror' \in [Students -> Keys \cup {NoKey}]
        /\ \A j \in Keys : keys[j].status # "NONE" => keys'[j].status # "NONE"
    <3>1. CASE keys' = [keys EXCEPT ![k] = FreshKey] /\ mirror' = MirrorOn(k)
      BY <3>1, <2>1, KeyConstants, MirrorType DEF RegistryTypeOK, AccountsTypeOK, FreshKey
    <3>2. CASE UNCHANGED <<keys, mirror>>
      BY <3>2 DEF RegistryTypeOK, AccountsTypeOK
    <3> QED
      BY <1>5, <3>1, <3>2 DEF FirstKeyCommit
  <2>3. RegistryTypeOK'
    BY <1>5, <2>1, <2>2, EndType DEF FirstKeyCommit, RegistryTypeOK, AccountsTypeOK
  <2>4. NamedRowsExist'
    BY <1>5, <2>1, <2>2, EndType, CallFields, RequestFields
       DEF FirstKeyCommit, NamedRowsExist, Idle
  <2> QED
    BY <2>3, <2>4
<1>6. ASSUME NEW c \in KeyCalls, RotationCommit(c)
      PROVE  RegistryInv'
  <2> DEFINE k   == keyCalls[c].new
             old == keyCalls[c].old
  <2>1. k \in Keys /\ old \in Keys /\ keyCalls[c].op = "rotate" /\ End(c)
    BY <1>6, CallFields DEF RotationCommit
  <2>3. /\ keys' \in [Keys -> KeyRow] /\ mirror' \in [Students -> Keys \cup {NoKey}]
        /\ \A j \in Keys : keys[j].status # "NONE" => keys'[j].status # "NONE"
    <3>1. CASE \E t \in keyCalls[c].at .. now :
                 /\ keys' = [keys EXCEPT ![old] = Retired(t, t + RotationWindow),
                                         ![k] = FreshKey]
                 /\ mirror' = MirrorOn(k)
      <4>1. PICK t \in keyCalls[c].at .. now :
              /\ keys' = [keys EXCEPT ![old] = Retired(t, t + RotationWindow),
                                      ![k] = FreshKey]
              /\ mirror' = MirrorOn(k)
        BY <3>1
      <4>2. Retired(t, t + RotationWindow) \in KeyRow
        BY <2>1, CommitClock, KeyConstants, RetiredType
      <4> QED
        BY <4>1, <4>2, <2>1, KeyConstants, MirrorType
           DEF RegistryTypeOK, AccountsTypeOK, FreshKey, Retired
    <3>2. CASE UNCHANGED <<keys, mirror>>
      BY <3>2 DEF RegistryTypeOK, AccountsTypeOK
    <3> QED
      BY <1>6, <3>1, <3>2, RotationWrites
  <2>4. RegistryTypeOK'
    BY <1>6, <2>1, <2>3, EndType DEF RotationCommit, RegistryTypeOK, AccountsTypeOK
  <2>5. NamedRowsExist'
    BY <1>6, <2>1, <2>3, EndType, CallFields, RequestFields
       DEF RotationCommit, NamedRowsExist, Idle
  <2> QED
    BY <2>4, <2>5
<1>7. ASSUME NEW c \in KeyCalls, ReportCommit(c)
      PROVE  RegistryInv'
  <2> DEFINE call == keyCalls[c]
  <2>1. /\ call.old \in Keys /\ call.new \in Keys /\ call.at \in Time
        /\ call.stolen \in BOOLEAN /\ End(c) /\ call.op = "report"
    BY <1>7, CallFields DEF ReportCommit
  <2>3. /\ keys' \in [Keys -> KeyRow]
        /\ \A j \in Keys : keys[j].status # "NONE" => keys'[j].status # "NONE"
    <3>1. CASE \E t \in call.at .. now : keys' = KeysAfterReport(call, t)
      <4>1. PICK t \in call.at .. now : keys' = KeysAfterReport(call, t)
        BY <3>1
      <4>2. Retired(t, t + RecoveryWindow) \in KeyRow
        BY <2>1, CommitClock, KeyConstants, RetiredType
      <4> QED
        BY <4>1, <4>2, <2>1 DEF KeysAfterReport, RegistryTypeOK, AccountsTypeOK, Retired
    <3>2. CASE keys' = keys
      BY <3>2 DEF RegistryTypeOK, AccountsTypeOK
    <3> QED
      BY <1>7, <3>1, <3>2 DEF ReportCommit
  <2>4. /\ requests' \in [Requests -> RequestRow \cup {NoRequest}]
        /\ \A r \in Requests : requests[r] # NoRequest => requests'[r] = requests[r]
        /\ \A r \in Requests : requests'[r] # NoRequest =>
             requests'[r] = requests[r] \/ requests'[r].old = call.old
    <3>1. CASE requests' = requests
      BY <3>1 DEF RegistryTypeOK, AccountsTypeOK
    <3>2. CASE \E r \in FreeRequests :
                 requests' = [requests EXCEPT ![r] =
                   [status |-> "PENDING", old |-> call.old, new |-> call.new,
                    stolen |-> call.stolen]]
      <4>1. PICK r \in FreeRequests :
              requests' = [requests EXCEPT ![r] =
                [status |-> "PENDING", old |-> call.old, new |-> call.new,
                 stolen |-> call.stolen]]
        BY <3>2
      <4> QED
        BY <4>1, <2>1 DEF RegistryTypeOK, AccountsTypeOK, FreeRequests, RequestRow
    <3> QED
      BY <1>7, <3>1, <3>2 DEF ReportCommit
  <2>5. RegistryTypeOK'
    BY <1>7, <2>1, <2>3, <2>4, EndType DEF ReportCommit, RegistryTypeOK, AccountsTypeOK
  <2>6. NamedRowsExist'
    BY <1>7, <2>1, <2>3, <2>4, EndType, CallFields, RequestFields
       DEF NamedRowsExist, Idle
  <2> QED
    BY <2>5, <2>6
<1>8. ASSUME NEW c \in KeyCalls, CancelCommit(c)
      PROVE  RegistryInv'
  <2> DEFINE r == keyCalls[c].req
  <2>1. r \in Requests /\ requests[r] # NoRequest /\ End(c)
    BY <1>8, CallFields DEF CancelCommit, NamedRowsExist
  <2>2. requests' = [requests EXCEPT ![r].status = "CANCELLED"]
    BY <1>8 DEF CancelCommit
  <2>3. /\ requests' \in [Requests -> RequestRow \cup {NoRequest}]
        /\ \A s \in Requests : requests[s] # NoRequest <=> requests'[s] # NoRequest
        /\ \A s \in Requests : requests[s] # NoRequest => requests'[s].old = requests[s].old
    BY <2>1, <2>2, RequestFields DEF RegistryTypeOK, AccountsTypeOK, RequestRow, NoRequest
  <2>4. RegistryTypeOK'
    BY <1>8, <2>1, <2>3, EndType DEF CancelCommit, RegistryTypeOK, AccountsTypeOK
  <2>5. NamedRowsExist'
    BY <1>8, <2>1, <2>3, EndType, CallFields, RequestFields
       DEF CancelCommit, NamedRowsExist, Idle
  <2> QED
    BY <2>4, <2>5
<1>9. ASSUME NEW r \in Requests, Approve(r)
      PROVE  RegistryInv'
  <2> DEFINE old == requests[r].old
             new == requests[r].new
             u   == KeyOwner[old]
  <2>0. requests[r] # NoRequest
    BY <1>9 DEF Approve, NoRequest
  <2>1. /\ requests[r] # NoRequest /\ requests[r] \in RequestRow
        /\ old \in Keys /\ new \in Keys /\ requests[r].stolen \in BOOLEAN
        /\ u \in Students /\ balance[u] \in Nat /\ now \in Time
    <3>1. /\ requests[r] \in RequestRow /\ old \in Keys /\ new \in Keys
          /\ requests[r].stolen \in BOOLEAN
      BY <2>0, RequestFields
    <3>2. u \in Students
      BY <3>1, AccountsAssumption
    <3> QED
      BY <2>0, <3>1, <3>2 DEF RegistryTypeOK, AccountsTypeOK, Users
  <2>2. /\ OldKeyAfterApproval(r) \in KeyRow
        /\ OldKeyAfterApproval(r).status = "VERIFY_ONLY"
    <3>1. keys[old] \in KeyRow
      BY <2>1 DEF RegistryTypeOK, AccountsTypeOK
    <3>2. CASE ~requests[r].stolen
      BY <3>2, <2>1, KeyConstants, RetiredType DEF OldKeyAfterApproval, Retired
    <3>3. CASE requests[r].stolen
      <4>1. keys[old].retiredAt \in Time
        BY <1>9, <3>3, <3>1 DEF Approve, OldKeyRestrictable, KeyRow
      <4>2. keys[old].verifyUntil \in Int
        BY <3>1 DEF KeyRow
      <4>3. keys[old].retiredAt + RecoveryWindow \in Int
        BY <4>1, KeyConstants, AccountsAssumption DEF Time
      <4>4. \E until \in Int : OldKeyAfterApproval(r) = Retired(keys[old].retiredAt, until)
        BY <2>1, <3>3, <4>2, <4>3 DEF OldKeyAfterApproval
      <4> QED
        BY <4>1, <4>4 DEF Retired, KeyRow, KeyStatus
    <3> QED
      BY <3>2, <3>3, <2>1
  <2>3. /\ keys' \in [Keys -> KeyRow]
        /\ \A j \in Keys : keys[j].status # "NONE" => keys'[j].status # "NONE"
    BY <1>9, <2>1, <2>2, KeyConstants DEF Approve, RegistryTypeOK, AccountsTypeOK, FreshKey
  <2>4. HoldOnApproval(r) \in HoldRow \cup {NoHold}
    <3>1. CASE balance[u] = 0
      BY <3>1 DEF HoldOnApproval
    <3>2. CASE balance[u] # 0
      <4>1. HoldOnApproval(r) =
              [old |-> old, held |-> balance[u], consumed |-> 0,
               until |-> now + RecoveryWindow, since |-> now]
        BY <3>2 DEF HoldOnApproval
      <4>2. /\ balance[u] \in Nat \ {0} /\ 0 \in Nat
            /\ now + RecoveryWindow \in Int
        BY <2>1, <3>2, KeyConstants, KeyRegistryAssumption DEF Time
      <4> QED
        BY <4>1, <4>2, <2>1 DEF HoldRow
    <3> QED
      BY <3>1, <3>2
  <2>5. requests' = [requests EXCEPT ![r].status = "APPROVED"]
    BY <1>9 DEF Approve
  <2>6. /\ requests' \in [Requests -> RequestRow \cup {NoRequest}]
        /\ \A s \in Requests : requests[s] # NoRequest <=> requests'[s] # NoRequest
        /\ \A s \in Requests : requests[s] # NoRequest => requests'[s].old = requests[s].old
    BY <2>1, <2>5 DEF RegistryTypeOK, AccountsTypeOK, RequestRow, NoRequest
  <2>7. holds' \in [Requests -> HoldRow \cup {NoHold}]
    BY <1>9, <2>4 DEF Approve, RegistryTypeOK, AccountsTypeOK
  <2>8. mirror' \in [Students -> Keys \cup {NoKey}]
    BY <1>9, <2>1, MirrorType DEF Approve
  <2>9. RegistryTypeOK'
    BY <1>9, <2>3, <2>6, <2>7, <2>8 DEF Approve, RegistryTypeOK, AccountsTypeOK
  <2>10. NamedRowsExist'
    BY <1>9, <2>3, <2>6, CallFields, RequestFields DEF Approve, NamedRowsExist
  <2> QED
    BY <2>9, <2>10
<1>10. ASSUME NEW r \in Requests, Reject(r)
       PROVE  RegistryInv'
  <2>1. requests[r] # NoRequest /\ requests[r] \in RequestRow
    BY <1>10, RequestFields DEF Reject, NoRequest
  <2>2. requests' = [requests EXCEPT ![r].status = "REJECTED"]
    BY <1>10 DEF Reject
  <2>3. /\ requests' \in [Requests -> RequestRow \cup {NoRequest}]
        /\ \A s \in Requests : requests[s] # NoRequest <=> requests'[s] # NoRequest
        /\ \A s \in Requests : requests[s] # NoRequest => requests'[s].old = requests[s].old
    BY <2>1, <2>2 DEF RegistryTypeOK, AccountsTypeOK, RequestRow, NoRequest
  <2>4. RegistryTypeOK'
    BY <1>10, <2>3 DEF Reject, RegistryTypeOK, AccountsTypeOK
  <2>5. NamedRowsExist'
    BY <1>10, <2>3, RequestFields DEF Reject, NamedRowsExist
  <2> QED
    BY <2>4, <2>5
<1> QED
  BY <1>1, <1>2, <1>3, <1>4, <1>5, <1>6, <1>7, <1>8, <1>9, <1>10
  DEF HandlerStep, KeyStep, AdminStep

-----------------------------------------------------------------------------
LEMMA RegistryInitInv == RegistryInit => RegistryInv
<1> SUFFICES ASSUME RegistryInit PROVE RegistryInv
  OBVIOUS
<1>1. mirror \in [Students -> Keys \cup {NoKey}]
  BY KeyRegistryAssumption DEF RegistryInit
<1>2. now \in Time /\ balance \in [Users -> Nat] /\ keys \in [Keys -> KeyRow]
  BY KeyConstants, AccountsAssumption, KeyRegistryAssumption DEF RegistryInit, Time
<1>3. /\ requests \in [Requests -> RequestRow \cup {NoRequest}]
      /\ holds \in [Requests -> HoldRow \cup {NoHold}]
      /\ keyCalls \in [KeyCalls -> KeyCall]
  BY KeyConstants DEF RegistryInit
<1>4. NamedRowsExist
  BY DEF RegistryInit, NamedRowsExist, Idle
<1> QED
  BY <1>1, <1>2, <1>3, <1>4 DEF RegistryInv, RegistryTypeOK, AccountsTypeOK

LEMMA TickInv ==
  ASSUME RegistryInv, Tick, UNCHANGED keyCalls
  PROVE  RegistryInv'
<1>1. now' \in Time
  BY AccountsAssumption DEF RegistryInv, RegistryTypeOK, AccountsTypeOK, Tick, Time
<1> QED
  BY <1>1 DEF RegistryInv, RegistryTypeOK, AccountsTypeOK, NamedRowsExist, Tick

\* The rows and the calls of the registry have their types (every handler of
\* KeysController and RecoveryService, in every interleaving).
THEOREM RegistryTypes == RegistrySpec => [](RegistryTypeOK /\ NamedRowsExist)
<1>1. RegistryInit => RegistryInv
  BY RegistryInitInv
<1>2. RegistryInv /\ [RegistryNext]_registryVars => RegistryInv'
  <2> SUFFICES ASSUME RegistryInv, [RegistryNext]_registryVars PROVE RegistryInv'
    OBVIOUS
  <2>1. CASE HandlerStep
    BY <2>1, HandlerStepInv
  <2>2. CASE Tick /\ UNCHANGED keyCalls
    BY <2>2, TickInv
  <2>3. CASE UNCHANGED registryVars
    BY <2>3 DEF registryVars, accountVars, RegistryInv, RegistryTypeOK, AccountsTypeOK,
                NamedRowsExist
  <2> QED
    BY <2>1, <2>2, <2>3 DEF RegistryNext
<1> QED
  BY <1>1, <1>2, PTL DEF RegistrySpec, RegistryInv

-----------------------------------------------------------------------------
\* A key that is ACTIVE after a step was ACTIVE before and nobody else's mirror
\* moved, or the step made it the only ACTIVE key of its owner and its mirror.
LEMMA Activation ==
  ASSUME RegistryInv, HandlerStep, NEW k \in Keys, keys'[k].status = "ACTIVE"
  PROVE  \/ keys[k].status = "ACTIVE" /\ mirror'[KeyOwner[k]] = mirror[KeyOwner[k]]
         \/ /\ mirror'[KeyOwner[k]] = k
            /\ \A j \in Keys : (KeyOwner[j] = KeyOwner[k] /\ j # k)
                               => keys'[j].status # "ACTIVE"
<1> USE DEF RegistryInv
<1>1. ASSUME NEW c \in KeyCalls,
             \/ \E j \in Keys : FirstKeyRead(c, j)
             \/ \E j \in Keys : RotationRead(c, j)
             \/ \E j \in Keys, stolen \in BOOLEAN : ReportRead(c, j, stolen)
             \/ \E r \in Requests : CancelRead(c, r)
             \/ CancelCommit(c)
      PROVE  keys[k].status = "ACTIVE" /\ mirror'[KeyOwner[k]] = mirror[KeyOwner[k]]
  BY <1>1 DEF FirstKeyRead, RotationRead, ReportRead, CancelRead, CancelCommit, accountVars
<1>2. ASSUME NEW c \in KeyCalls, FirstKeyCommit(c)
      PROVE  \/ keys[k].status = "ACTIVE" /\ mirror'[KeyOwner[k]] = mirror[KeyOwner[k]]
             \/ /\ mirror'[KeyOwner[k]] = k
                /\ \A j \in Keys : (KeyOwner[j] = KeyOwner[k] /\ j # k)
                                   => keys'[j].status # "ACTIVE"
  <2> DEFINE new == keyCalls[c].new
  <2>1. new \in Keys
    BY <1>2, CallFields DEF FirstKeyCommit
  <2>2. CASE UNCHANGED <<keys, mirror>>
    BY <2>2
  <2>3. CASE /\ MayActivate(new, {})
             /\ keys' = [keys EXCEPT ![new] = FreshKey] /\ mirror' = MirrorOn(new)
    BY <2>1, <2>3, AccountsAssumption
       DEF MayActivate, ActiveKeys, MirrorOn, FreshKey, RegistryTypeOK, AccountsTypeOK
  <2> QED
    BY <1>2, <2>2, <2>3 DEF FirstKeyCommit
<1>3. ASSUME NEW c \in KeyCalls, RotationCommit(c)
      PROVE  \/ keys[k].status = "ACTIVE" /\ mirror'[KeyOwner[k]] = mirror[KeyOwner[k]]
             \/ /\ mirror'[KeyOwner[k]] = k
                /\ \A j \in Keys : (KeyOwner[j] = KeyOwner[k] /\ j # k)
                                   => keys'[j].status # "ACTIVE"
  <2> DEFINE new == keyCalls[c].new
             old == keyCalls[c].old
  <2>1. new \in Keys /\ old \in Keys
    BY <1>3, CallFields DEF RotationCommit
  <2>2. CASE UNCHANGED <<keys, mirror>>
    BY <2>2
  <2>3. ASSUME NEW t, MayActivate(new, {old}),
               keys' = [keys EXCEPT ![old] = Retired(t, t + RotationWindow),
                                    ![new] = FreshKey],
               mirror' = MirrorOn(new)
        PROVE  \/ keys[k].status = "ACTIVE" /\ mirror'[KeyOwner[k]] = mirror[KeyOwner[k]]
               \/ /\ mirror'[KeyOwner[k]] = k
                  /\ \A j \in Keys : (KeyOwner[j] = KeyOwner[k] /\ j # k)
                                     => keys'[j].status # "ACTIVE"
    BY <2>1, <2>3, AccountsAssumption
       DEF MayActivate, ActiveKeys, MirrorOn, FreshKey, Retired, RegistryTypeOK, AccountsTypeOK
  <2> QED
    BY <1>3, <2>2, <2>3, RotationWrites
<1>4. ASSUME NEW c \in KeyCalls, ReportCommit(c)
      PROVE  keys[k].status = "ACTIVE" /\ mirror'[KeyOwner[k]] = mirror[KeyOwner[k]]
  <2>1. keyCalls[c].old \in Keys /\ UNCHANGED mirror
    BY <1>4, CallFields DEF ReportCommit
  <2>2. CASE keys' = keys
    BY <2>1, <2>2
  <2>3. ASSUME NEW t, keys' = KeysAfterReport(keyCalls[c], t)
        PROVE  keys[k].status = "ACTIVE"
    <3>1. keys' = keys \/ keys' = [keys EXCEPT ![keyCalls[c].old] = Retired(t, t + RecoveryWindow)]
      BY <2>3 DEF KeysAfterReport
    <3>2. keys'[k] = keys[k] \/ keys'[k] = Retired(t, t + RecoveryWindow)
      BY <2>1, <3>1 DEF RegistryTypeOK, AccountsTypeOK
    <3> QED
      BY <3>2 DEF Retired
  <2> QED
    BY <1>4, <2>1, <2>2, <2>3 DEF ReportCommit
<1>5. ASSUME NEW r \in Requests, Approve(r)
      PROVE  \/ keys[k].status = "ACTIVE" /\ mirror'[KeyOwner[k]] = mirror[KeyOwner[k]]
             \/ /\ mirror'[KeyOwner[k]] = k
                /\ \A j \in Keys : (KeyOwner[j] = KeyOwner[k] /\ j # k)
                                   => keys'[j].status # "ACTIVE"
  <2> DEFINE old == requests[r].old
             new == requests[r].new
  <2>1. requests[r] # NoRequest
    BY <1>5 DEF Approve, NoRequest
  <2>2. old \in Keys /\ new \in Keys
    BY <2>1, RequestFields
  <2>3. OldKeyAfterApproval(r).status = "VERIFY_ONLY"
    BY DEF OldKeyAfterApproval, Retired
  <2>4. /\ MayActivate(new, {old})
        /\ keys' = [keys EXCEPT ![old] = OldKeyAfterApproval(r), ![new] = FreshKey]
        /\ mirror' = MirrorOn(new)
    BY <1>5 DEF Approve
  <2> QED
    BY <2>2, <2>3, <2>4, AccountsAssumption
       DEF MayActivate, ActiveKeys, MirrorOn, FreshKey, RegistryTypeOK, AccountsTypeOK
<1>6. ASSUME NEW r \in Requests, Reject(r)
      PROVE  keys[k].status = "ACTIVE" /\ mirror'[KeyOwner[k]] = mirror[KeyOwner[k]]
  BY <1>6 DEF Reject
<1>7. CASE \E c \in KeyCalls : KeyStep(c)
  BY <1>7, <1>1, <1>2, <1>3, <1>4 DEF KeyStep
<1>8. CASE \E r \in Requests : AdminStep(r)
  BY <1>8, <1>5, <1>6 DEF AdminStep
<1> QED
  BY <1>7, <1>8 DEF HandlerStep

LEMMA TrustedKeyStep ==
  ASSUME RegistryInv, OneActiveKey, MirrorNamesActiveKey, HandlerStep
  PROVE  OneActiveKey' /\ MirrorNamesActiveKey'
  BY Activation DEF OneActiveKey, MirrorNamesActiveKey

LEMMA TrustedKeyInit == RegistryInit => OneActiveKey /\ MirrorNamesActiveKey
<1> SUFFICES ASSUME RegistryInit PROVE OneActiveKey /\ MirrorNamesActiveKey
  OBVIOUS
<1>1. \A k \in Keys : keys[k].status = "ACTIVE" => k \in Registered
  BY DEF RegistryInit, NoKey
<1>2. OneActiveKey
  BY <1>1, KeyRegistryAssumption DEF OneActiveKey
<1>3. ASSUME NEW k \in Registered
      PROVE  mirror[KeyOwner[k]] = k
  <2>1. KeyOwner[k] \in Students
    BY AccountsAssumption, KeyRegistryAssumption
  <2>2. mirror[KeyOwner[k]] = CHOOSE j \in Registered : KeyOwner[j] = KeyOwner[k]
    BY <2>1 DEF RegistryInit
  <2> QED
    BY <2>2, KeyRegistryAssumption
<1> QED
  BY <1>1, <1>2, <1>3 DEF MirrorNamesActiveKey

\* One ACTIVE key per user, and User.publicKey names it: the two tables agree
\* after any overlap of first registration, key move, report and approval.
THEOREM OneTrustedKey ==
  RegistrySpec => [](OneActiveKey /\ MirrorNamesActiveKey)
<1> DEFINE Trusted == OneActiveKey /\ MirrorNamesActiveKey
<1>1. RegistryInit => Trusted
  BY TrustedKeyInit
<1>2. RegistryInv /\ Trusted /\ [RegistryNext]_registryVars => Trusted'
  <2> SUFFICES ASSUME RegistryInv, Trusted, [RegistryNext]_registryVars PROVE Trusted'
    OBVIOUS
  <2>1. CASE HandlerStep
    BY <2>1, TrustedKeyStep
  <2>2. CASE Tick /\ UNCHANGED keyCalls
    BY <2>2 DEF Tick, OneActiveKey, MirrorNamesActiveKey
  <2>3. CASE UNCHANGED registryVars
    BY <2>3 DEF registryVars, accountVars, OneActiveKey, MirrorNamesActiveKey
  <2> QED
    BY <2>1, <2>2, <2>3 DEF RegistryNext
<1> QED
  BY <1>1, <1>2, RegistryTypes, PTL DEF RegistrySpec, RegistryInv

\* The key that the payment code finds in User.publicKey is the ACTIVE one.
COROLLARY MirrorIsTrue == RegistrySpec => []MirrorNamesActiveKey
  BY OneTrustedKey, PTL

-----------------------------------------------------------------------------
\* What one handler step may do to the row of key k: a row is inserted only
\* for a key without one, and an existing row is only ever retired.
LEMMA KeyStatusStep ==
  ASSUME RegistryInv, HandlerStep, NEW k \in Keys
  PROVE  \/ keys'[k].status = keys[k].status
         \/ keys[k].status = "NONE" /\ keys'[k].status = "ACTIVE"
         \/ keys[k].status \in {"ACTIVE", "VERIFY_ONLY"} /\ keys'[k].status = "VERIFY_ONLY"
<1> DEFINE Fine == \/ keys'[k].status = keys[k].status
                   \/ keys[k].status = "NONE" /\ keys'[k].status = "ACTIVE"
                   \/ /\ keys[k].status \in {"ACTIVE", "VERIFY_ONLY"}
                      /\ keys'[k].status = "VERIFY_ONLY"
<1> USE DEF RegistryInv
<1>1. keys \in [Keys -> KeyRow]
  BY DEF RegistryTypeOK, AccountsTypeOK
<1>2. ASSUME NEW c \in KeyCalls, FirstKeyCommit(c)
      PROVE  Fine
  <2>1. keyCalls[c].new \in Keys
    BY <1>2, CallFields DEF FirstKeyCommit
  <2>2. \/ keys' = keys
        \/ /\ keys[keyCalls[c].new].status = "NONE"
           /\ keys' = [keys EXCEPT ![keyCalls[c].new] = FreshKey]
    BY <1>2 DEF FirstKeyCommit, MayActivate
  <2> QED
    BY <1>1, <2>1, <2>2 DEF FreshKey
<1>3. ASSUME NEW c \in KeyCalls, RotationCommit(c)
      PROVE  Fine
  <2> DEFINE new == keyCalls[c].new
             old == keyCalls[c].old
  <2>1. new \in Keys /\ old \in Keys
    BY <1>3, CallFields DEF RotationCommit
  <2>2. CASE keys' = keys
    BY <2>2
  <2>3. keys[old].status \in {"ACTIVE", "VERIFY_ONLY"}
    BY <1>3, <2>1 DEF RotationCommit, NamedRowsExist, RegistryTypeOK, AccountsTypeOK, KeyRow, KeyStatus
  <2>4. ASSUME NEW t, MayActivate(new, {old}),
               keys' = [keys EXCEPT ![old] = Retired(t, t + RotationWindow), ![new] = FreshKey]
        PROVE  Fine
    <3>1. keys[new].status = "NONE" /\ new # old
      BY <2>3, <2>4 DEF MayActivate
    <3>2. \/ keys'[k] = keys[k]
          \/ k = old /\ keys'[k] = Retired(t, t + RotationWindow)
          \/ k = new /\ keys'[k] = FreshKey
      BY <1>1, <2>1, <2>4, <3>1
    <3> QED
      BY <2>3, <3>1, <3>2 DEF FreshKey, Retired
  <2> QED
    BY <1>3, <2>2, <2>4, RotationWrites
<1>4. ASSUME NEW c \in KeyCalls, ReportCommit(c)
      PROVE  Fine
  <2> DEFINE old == keyCalls[c].old
  <2>1. old \in Keys
    BY <1>4, CallFields DEF ReportCommit
  <2>2. CASE keys' = keys
    BY <2>2
  <2>3. keys[old].status \in {"ACTIVE", "VERIFY_ONLY"}
    BY <1>4, <2>1 DEF ReportCommit, NamedRowsExist, RegistryTypeOK, AccountsTypeOK, KeyRow, KeyStatus
  <2>4. ASSUME NEW t, keys' = KeysAfterReport(keyCalls[c], t)
        PROVE  Fine
    <3>1. keys'[k] = keys[k] \/ (k = old /\ keys'[k] = Retired(t, t + RecoveryWindow))
      BY <1>1, <2>1, <2>4 DEF KeysAfterReport
    <3> QED
      BY <2>3, <3>1 DEF Retired
  <2> QED
    BY <1>4, <2>2, <2>4 DEF ReportCommit
<1>5. ASSUME NEW r \in Requests, Approve(r)
      PROVE  Fine
  <2> DEFINE new == requests[r].new
             old == requests[r].old
  <2>1. requests[r] # NoRequest
    BY <1>5 DEF Approve, NoRequest
  <2>2. old \in Keys /\ new \in Keys
    BY <2>1, RequestFields
  <2>3. /\ keys[new].status = "NONE"
        /\ keys' = [keys EXCEPT ![old] = OldKeyAfterApproval(r), ![new] = FreshKey]
    BY <1>5 DEF Approve, MayActivate
  <2>4. keys[old].status \in {"ACTIVE", "VERIFY_ONLY"}
    BY <1>5 DEF Approve, OldKeyRestrictable
  <2>5. OldKeyAfterApproval(r).status = "VERIFY_ONLY"
    BY DEF OldKeyAfterApproval, Retired
  <2> QED
    BY <1>1, <2>2, <2>3, <2>4, <2>5 DEF FreshKey
<1>6. ASSUME NEW r \in Requests, Reject(r)
      PROVE  Fine
  BY <1>6 DEF Reject
<1>7. ASSUME NEW c \in KeyCalls,
             \/ \E j \in Keys : FirstKeyRead(c, j)
             \/ \E j \in Keys : RotationRead(c, j)
             \/ \E j \in Keys, stolen \in BOOLEAN : ReportRead(c, j, stolen)
             \/ \E r \in Requests : CancelRead(c, r)
             \/ CancelCommit(c)
      PROVE  Fine
  BY <1>7 DEF FirstKeyRead, RotationRead, ReportRead, CancelRead, CancelCommit, accountVars
<1> QED
  BY <1>2, <1>3, <1>4, <1>5, <1>6, <1>7 DEF HandlerStep, KeyStep, AdminStep

\* A key goes forward only, whatever handlers overlap: nobody deletes a row or
\* hands a retired key its authority back.
THEOREM KeysGoForward == RegistrySpec => KeyLifecycle
<1> DEFINE Forward ==
      \A k \in Keys :
        /\ keys[k].status = "VERIFY_ONLY" => keys'[k].status = "VERIFY_ONLY"
        /\ keys[k].status = "ACTIVE" => keys'[k].status \in {"ACTIVE", "VERIFY_ONLY"}
        /\ keys[k].status = "NONE" => keys'[k].status \in {"NONE", "ACTIVE"}
<1>1. RegistryInv /\ [RegistryNext]_registryVars => [Forward]_keys
  <2> SUFFICES ASSUME RegistryInv, [RegistryNext]_registryVars, keys' # keys
               PROVE  Forward
    OBVIOUS
  <2>1. HandlerStep
    BY DEF RegistryNext, Tick, registryVars, accountVars
  <2> QED
    BY <2>1, KeyStatusStep
<1> QED
  BY <1>1, RegistryTypes, PTL DEF RegistrySpec, RegistryInv, KeyLifecycle

\* A request row is inserted by the commit of a report, and what it says of the
\* report never changes.
LEMMA RequestOrigin ==
  ASSUME RegistryInv, HandlerStep, NEW r \in Requests, requests'[r] # NoRequest
  PROVE  \/ /\ requests[r] # NoRequest
            /\ requests'[r].old = requests[r].old
            /\ requests'[r].stolen = requests[r].stolen
         \/ \E c \in KeyCalls : ReportCommit(c) /\ requests[r] = NoRequest
<1> DEFINE Same == /\ requests[r] # NoRequest
                   /\ requests'[r].old = requests[r].old
                   /\ requests'[r].stolen = requests[r].stolen
<1>1. requests \in [Requests -> RequestRow \cup {NoRequest}]
  BY DEF RegistryInv, RegistryTypeOK, AccountsTypeOK
<1>2. CASE requests' = requests
  BY <1>2
<1>3. ASSUME NEW q \in Requests, NEW status, requests[q] # NoRequest,
             requests' = [requests EXCEPT ![q].status = status]
      PROVE  Same
  <2>1. CASE q = r
    <3>1. requests'[r] = [requests[r] EXCEPT !.status = status]
      BY <1>1, <1>3, <2>1
    <3>2. requests[r] \in RequestRow
      BY <1>1, <1>3, <2>1
    <3> QED
      BY <1>3, <2>1, <3>1, <3>2 DEF RequestRow
  <2>2. CASE q # r
    BY <1>1, <1>3, <2>2
  <2> QED
    BY <2>1, <2>2
<1>4. ASSUME NEW c \in KeyCalls, ReportCommit(c)
      PROVE  Same \/ requests[r] = NoRequest
  <2>1. CASE requests[r] = NoRequest
    BY <2>1
  <2>2. CASE requests[r] # NoRequest
    BY <1>1, <1>4, <2>2 DEF ReportCommit, FreeRequests
  <2> QED
    BY <2>1, <2>2
<1>5. ASSUME NEW c \in KeyCalls, CancelCommit(c)
      PROVE  Same
  <2>1. keyCalls[c].req \in Requests /\ requests[keyCalls[c].req] # NoRequest
    BY <1>5, CallFields DEF CancelCommit, RegistryInv, NamedRowsExist
  <2> QED
    BY <1>5, <2>1, <1>3 DEF CancelCommit
<1>6. ASSUME NEW q \in Requests, AdminStep(q)
      PROVE  Same
  <2>1. requests[q] # NoRequest
    BY <1>6 DEF AdminStep, Approve, Reject, NoRequest
  <2> QED
    BY <1>6, <2>1, <1>3 DEF AdminStep, Approve, Reject
<1>7. ASSUME NEW c \in KeyCalls, KeyStep(c), ~ReportCommit(c), ~CancelCommit(c)
      PROVE  requests' = requests
  BY <1>7 DEF KeyStep, FirstKeyRead, RotationRead, ReportRead, CancelRead, FirstKeyCommit,
              RotationCommit, accountVars
<1> QED
  BY <1>2, <1>4, <1>5, <1>6, <1>7 DEF HandlerStep

\* The clock moves in no handler.
LEMMA ClockOnlyTicks ==
  ASSUME HandlerStep
  PROVE  UNCHANGED now
  BY DEF HandlerStep, KeyStep, AdminStep, FirstKeyRead, RotationRead, ReportRead, CancelRead,
         FirstKeyCommit, RotationCommit, ReportCommit, CancelCommit, Approve, Reject, accountVars

\* What a handler may do to the row of a key that is VERIFY_ONLY: one that read
\* the key while it was ACTIVE writes the time of its own clock, and an approval
\* leaves the time that is there.
LEMMA RetiredRowStep ==
  ASSUME RegistryInv, HandlerStep, NEW k \in Keys, keys[k].status = "VERIFY_ONLY"
  PROVE  \/ keys'[k] = keys[k]
         \/ /\ BeingRetired(k)
            /\ \E t \in Time, window \in Nat :
                 t <= now /\ keys'[k] = Retired(t, t + window)
         \/ /\ keys[k].retiredAt # Never
            /\ keys'[k] = Retired(keys[k].retiredAt,
                            IF keys[k].verifyUntil # Never THEN keys[k].verifyUntil
                              ELSE keys[k].retiredAt + RecoveryWindow)
<1> DEFINE Anew == /\ BeingRetired(k)
                   /\ \E t \in Time, window \in Nat :
                        t <= now /\ keys'[k] = Retired(t, t + window)
           Approved == /\ keys[k].retiredAt # Never
                       /\ keys'[k] = Retired(keys[k].retiredAt,
                                       IF keys[k].verifyUntil # Never THEN keys[k].verifyUntil
                                         ELSE keys[k].retiredAt + RecoveryWindow)
<1> USE DEF RegistryInv
<1>1. keys \in [Keys -> KeyRow]
  BY DEF RegistryTypeOK, AccountsTypeOK
<1>2. ASSUME NEW c \in KeyCalls, FirstKeyCommit(c)
      PROVE  keys'[k] = keys[k]
  <2>1. keyCalls[c].new \in Keys
    BY <1>2, CallFields DEF FirstKeyCommit
  <2> QED
    BY <1>1, <1>2, <2>1 DEF FirstKeyCommit, MayActivate
<1>3. ASSUME NEW c \in KeyCalls, RotationCommit(c)
      PROVE  keys'[k] = keys[k] \/ Anew
  <2> DEFINE new == keyCalls[c].new
             old == keyCalls[c].old
  <2>1. new \in Keys /\ old \in Keys
    BY <1>3, CallFields DEF RotationCommit
  <2>2. CASE keys' = keys
    BY <2>2
  <2>3. ASSUME NEW t \in keyCalls[c].at .. now, MayActivate(new, {old}),
               keys' = [keys EXCEPT ![old] = Retired(t, t + RotationWindow), ![new] = FreshKey]
        PROVE  keys'[k] = keys[k] \/ Anew
    <3>1. new # k
      BY <2>3 DEF MayActivate
    <3>2. CASE old = k
      <4>1. keys'[k] = Retired(t, t + RotationWindow)
        BY <1>1, <2>1, <2>3, <3>1, <3>2
      <4>2. t \in Time /\ t <= now
        BY <1>3, CommitClock DEF RotationCommit
      <4>3. BeingRetired(k)
        BY <1>3, <3>2 DEF RotationCommit, BeingRetired
      <4> QED
        BY <4>1, <4>2, <4>3, KeyConstants
    <3>3. CASE old # k
      BY <1>1, <2>1, <2>3, <3>1, <3>3
    <3> QED
      BY <3>2, <3>3
  <2> QED
    BY <1>3, <2>2, <2>3, RotationWrites
<1>4. ASSUME NEW c \in KeyCalls, ReportCommit(c)
      PROVE  keys'[k] = keys[k] \/ Anew
  <2>1. keyCalls[c].old \in Keys
    BY <1>4, CallFields DEF ReportCommit
  <2>2. CASE keys' = keys
    BY <2>2
  <2>3. ASSUME NEW t \in keyCalls[c].at .. now, keys' = KeysAfterReport(keyCalls[c], t)
        PROVE  keys'[k] = keys[k] \/ Anew
    <3>1. keys'[k] = keys[k]
            \/ (keyCalls[c].old = k /\ keys'[k] = Retired(t, t + RecoveryWindow))
      BY <1>1, <2>1, <2>3 DEF KeysAfterReport
    <3>2. t \in Time /\ t <= now
      BY <1>4, CommitClock DEF ReportCommit
    <3>3. keyCalls[c].old = k => BeingRetired(k)
      BY <1>4 DEF ReportCommit, BeingRetired
    <3> QED
      BY <3>1, <3>2, <3>3, KeyConstants
  <2> QED
    BY <1>4, <2>2, <2>3 DEF ReportCommit
<1>5. ASSUME NEW r \in Requests, Approve(r)
      PROVE  keys'[k] = keys[k] \/ Approved
  <2>1. requests[r] # NoRequest
    BY <1>5 DEF Approve, NoRequest
  <2>2. requests[r].old \in Keys /\ requests[r].new \in Keys
    BY <2>1, RequestFields
  <2>3. /\ requests[r].new # k
        /\ keys' = [keys EXCEPT ![requests[r].old] = OldKeyAfterApproval(r),
                                ![requests[r].new] = FreshKey]
    BY <1>5 DEF Approve, MayActivate
  <2>4. CASE requests[r].old = k
    <3>1. requests[r].stolen /\ keys[k].retiredAt # Never
      BY <1>5, <2>4 DEF Approve, OldKeyRestrictable
    <3>2. keys'[k] = OldKeyAfterApproval(r)
      BY <1>1, <2>2, <2>3, <2>4
    <3> QED
      BY <2>4, <3>1, <3>2 DEF OldKeyAfterApproval
  <2>5. CASE requests[r].old # k
    BY <1>1, <2>2, <2>3, <2>5
  <2> QED
    BY <2>4, <2>5
<1>6. ASSUME NEW r \in Requests, Reject(r)
      PROVE  keys'[k] = keys[k]
  BY <1>6 DEF Reject
<1>7. ASSUME NEW c \in KeyCalls,
             \/ \E j \in Keys : FirstKeyRead(c, j)
             \/ \E j \in Keys : RotationRead(c, j)
             \/ \E j \in Keys, stolen \in BOOLEAN : ReportRead(c, j, stolen)
             \/ \E r \in Requests : CancelRead(c, r)
             \/ CancelCommit(c)
      PROVE  keys'[k] = keys[k]
  BY <1>7 DEF FirstKeyRead, RotationRead, ReportRead, CancelRead, CancelCommit, accountVars
<1>8. keys'[k] = keys[k] \/ Anew \/ Approved
  BY <1>2, <1>3, <1>4, <1>5, <1>6, <1>7 DEF HandlerStep, KeyStep, AdminStep
<1> QED
  BY <1>8

\* Nobody starts to retire a key that is VERIFY_ONLY.
LEMMA RetiringStep ==
  ASSUME RegistryInv, HandlerStep, NEW k \in Keys,
         keys[k].status = "VERIFY_ONLY", ~BeingRetired(k)
  PROVE  ~(\E c \in KeyCalls : keyCalls'[c].op \in {"rotate", "report"} /\ keyCalls'[c].old = k)
<1> USE DEF RegistryInv
<1>1. SUFFICES ASSUME NEW d \in KeyCalls,
                      keyCalls'[d].op \in {"rotate", "report"}, keyCalls'[d].old = k
               PROVE  FALSE
  OBVIOUS
<1>2. keyCalls[d].op \in {"rotate", "report"} => keyCalls[d].old # k
  BY DEF BeingRetired
<1>3. ASSUME NEW c \in KeyCalls, NEW j \in Keys, FirstKeyRead(c, j)
      PROVE  FALSE
  <2>1. [op |-> "first", new |-> j] \in KeyCall
    BY DEF KeyCall
  <2> QED
    BY <1>1, <1>2, <1>3, <2>1, BeginType DEF FirstKeyRead
<1>4. ASSUME NEW c \in KeyCalls, NEW j \in Keys, RotationRead(c, j)
      PROVE  FALSE
  <2>1. PICK old \in ActiveKeys(KeyOwner[j]) :
          Begin(c, [op |-> "rotate", old |-> old, new |-> j, at |-> now])
    BY <1>4 DEF RotationRead
  <2>2. old \in Keys /\ old # k
    BY <2>1 DEF ActiveKeys
  <2>3. [op |-> "rotate", old |-> old, new |-> j, at |-> now] \in KeyCall
    BY <2>2 DEF KeyCall, RegistryTypeOK, AccountsTypeOK
  <2> QED
    BY <1>1, <1>2, <2>1, <2>2, <2>3, BeginType
<1>5. ASSUME NEW c \in KeyCalls, NEW j \in Keys, NEW stolen \in BOOLEAN, ReportRead(c, j, stolen)
      PROVE  FALSE
  <2>1. PICK old \in ActiveKeys(KeyOwner[j]) :
          Begin(c, [op |-> "report", old |-> old, new |-> j, at |-> now, stolen |-> stolen])
    BY <1>5 DEF ReportRead
  <2>2. old \in Keys /\ old # k
    BY <2>1 DEF ActiveKeys
  <2>3. [op |-> "report", old |-> old, new |-> j, at |-> now, stolen |-> stolen] \in KeyCall
    BY <2>2 DEF KeyCall, RegistryTypeOK, AccountsTypeOK
  <2> QED
    BY <1>1, <1>2, <2>1, <2>2, <2>3, BeginType
<1>6. ASSUME NEW c \in KeyCalls, NEW r \in Requests, CancelRead(c, r)
      PROVE  FALSE
  <2>1. [op |-> "cancel", req |-> r] \in KeyCall
    BY DEF KeyCall
  <2> QED
    BY <1>1, <1>2, <1>6, <2>1, BeginType DEF CancelRead
<1>7. ASSUME NEW c \in KeyCalls, End(c)
      PROVE  FALSE
  BY <1>1, <1>2, <1>7, EndType DEF Idle
<1>8. ASSUME NEW r \in Requests, AdminStep(r)
      PROVE  FALSE
  BY <1>1, <1>2, <1>8 DEF AdminStep, Approve, Reject
<1> QED
  BY <1>3, <1>4, <1>5, <1>6, <1>7, <1>8
     DEF HandlerStep, KeyStep, FirstKeyCommit, RotationCommit, ReportCommit, CancelCommit

\* The key of a reported phone is retired by the step that files the report,
\* and stays so, whichever handler acts.
LEMMA StolenKeyStep ==
  ASSUME RegistryInv, StolenKeyRetired, HandlerStep
  PROVE  StolenKeyRetired'
<1> USE DEF RegistryInv
<1>1. SUFFICES ASSUME NEW k \in Keys, NEW r \in Requests, requests'[r] # NoRequest,
                      requests'[r].stolen, requests'[r].old = k
               PROVE  /\ keys'[k].status = "VERIFY_ONLY"
                      /\ keys'[k].retiredAt <= now'
                      /\ keys'[k].verifyUntil # Never
  BY DEF StolenKeyRetired, ReportedStolen
<1>2. now' = now /\ now \in Time
  BY ClockOnlyTicks DEF RegistryTypeOK, AccountsTypeOK
<1>3. keys \in [Keys -> KeyRow] /\ requests \in [Requests -> RequestRow \cup {NoRequest}]
  BY DEF RegistryTypeOK, AccountsTypeOK
<1>4. ASSUME NEW t \in Time, NEW window \in Nat, t <= now, keys'[k] = Retired(t, t + window)
      PROVE  /\ keys'[k].status = "VERIFY_ONLY"
             /\ keys'[k].retiredAt <= now'
             /\ keys'[k].verifyUntil # Never
  BY <1>2, <1>4, AccountsAssumption DEF Retired, Time, Never
<1>5. CASE ReportedStolen(k)
  <2>1. /\ keys[k].status = "VERIFY_ONLY"
        /\ keys[k].retiredAt <= now
        /\ keys[k].verifyUntil # Never
    BY <1>5 DEF StolenKeyRetired
  <2>2. CASE keys'[k] = keys[k]
    BY <1>2, <2>1, <2>2
  <2>3. CASE \E t \in Time, window \in Nat : t <= now /\ keys'[k] = Retired(t, t + window)
    BY <1>4, <2>3
  <2>4. CASE keys'[k] = Retired(keys[k].retiredAt, keys[k].verifyUntil)
    BY <1>2, <2>1, <2>4 DEF Retired
  <2> QED
    BY <2>1, <2>2, <2>3, <2>4, RetiredRowStep
<1>6. CASE ~ReportedStolen(k)
  <2>1. PICK c \in KeyCalls : ReportCommit(c) /\ requests[r] = NoRequest
    BY <1>1, <1>6, RequestOrigin DEF ReportedStolen
  <2> DEFINE row == [status |-> "PENDING", old |-> keyCalls[c].old,
                     new |-> keyCalls[c].new, stolen |-> keyCalls[c].stolen]
  <2>2. PICK q \in Requests, t \in keyCalls[c].at .. now :
          /\ requests' = [requests EXCEPT ![q] = row]
          /\ keys' = KeysAfterReport(keyCalls[c], t)
    <3>1. requests' # requests
      BY <1>1, <2>1
    <3> QED
      BY <2>1, <3>1 DEF ReportCommit, FreeRequests
  <2>3. q = r
    BY <1>1, <1>3, <2>1, <2>2
  <2>4. requests'[r] = row
    BY <1>3, <2>2, <2>3
  <2>5. keyCalls[c].old = k /\ keyCalls[c].stolen
    BY <1>1, <2>4
  <2>6. keys'[k] = Retired(t, t + RecoveryWindow)
    BY <1>3, <2>2, <2>5 DEF KeysAfterReport
  <2>7. t \in Time /\ t <= now
    BY <2>1, CommitClock DEF ReportCommit
  <2> QED
    BY <1>4, <2>6, <2>7, KeyConstants
<1> QED
  BY <1>5, <1>6

\* The clock only moves away from the time a stolen key was retired at.
LEMMA ClockStolen ==
  ASSUME RegistryTypeOK, StolenKeyRetired, Tick
  PROVE  StolenKeyRetired'
<1>1. \A k \in Keys : keys[k].retiredAt \in Int /\ now \in Int
  BY DEF RegistryTypeOK, AccountsTypeOK, KeyRow, Time, Never
<1> QED
  BY <1>1 DEF Tick, StolenKeyRetired, ReportedStolen

\* A key reported stolen that no handler is about to retire keeps its row.
LEMMA StolenRowStays ==
  ASSUME RegistryInv, StolenKeyRetired, HandlerStep, NEW k \in Keys,
         ReportedStolen(k), ~BeingRetired(k)
  PROVE  /\ keys'[k] = keys[k]
         /\ ~(\E c \in KeyCalls : keyCalls'[c].op \in {"rotate", "report"} /\ keyCalls'[c].old = k)
<1>1. keys[k].status = "VERIFY_ONLY" /\ keys[k].verifyUntil # Never
  BY DEF StolenKeyRetired
<1>2. keys[k] \in KeyRow
  BY DEF RegistryInv, RegistryTypeOK, AccountsTypeOK
<1>3. keys'[k] = keys[k] \/ keys'[k] = Retired(keys[k].retiredAt, keys[k].verifyUntil)
  BY <1>1, RetiredRowStep
<1>4. keys'[k] = keys[k]
  BY <1>1, <1>2, <1>3 DEF Retired, KeyRow
<1> QED
  BY <1>1, <1>4, RetiringStep

\* The key of a phone reported stolen is retired whatever becomes of the report,
\* and the time it was retired at stands once no handler is left that read the
\* key while it was ACTIVE.
THEOREM StolenKeysStop == RegistrySpec => StolenKeyStopped
<1> DEFINE Stands == \A k \in Keys : (ReportedStolen(k) /\ ~BeingRetired(k))
                       => keys'[k] = keys[k] /\ ~BeingRetired(k)'
<1>1. RegistryInit => StolenKeyRetired
  BY DEF RegistryInit, StolenKeyRetired, ReportedStolen
<1>2. RegistryInv /\ StolenKeyRetired /\ [RegistryNext]_registryVars => StolenKeyRetired'
  <2> SUFFICES ASSUME RegistryInv, StolenKeyRetired, [RegistryNext]_registryVars
               PROVE  StolenKeyRetired'
    OBVIOUS
  <2>1. CASE HandlerStep
    BY <2>1, StolenKeyStep
  <2>2. CASE Tick /\ UNCHANGED keyCalls
    BY <2>2, ClockStolen DEF RegistryInv
  <2>3. CASE UNCHANGED registryVars
    BY <2>3 DEF registryVars, accountVars, StolenKeyRetired, ReportedStolen
  <2> QED
    BY <2>1, <2>2, <2>3 DEF RegistryNext
<1>3. RegistryInv /\ StolenKeyRetired /\ [RegistryNext]_registryVars => [Stands]_registryVars
  <2> SUFFICES ASSUME RegistryInv, StolenKeyRetired, [RegistryNext]_registryVars,
                      NEW k \in Keys, ReportedStolen(k), ~BeingRetired(k)
               PROVE  keys'[k] = keys[k] /\ ~BeingRetired(k)'
    OBVIOUS
  <2>1. CASE HandlerStep
    BY <2>1, StolenRowStays DEF BeingRetired
  <2>2. CASE UNCHANGED <<keys, keyCalls>>
    BY <2>2 DEF BeingRetired
  <2> QED
    BY <2>1, <2>2 DEF RegistryNext, Tick, registryVars, accountVars
<1> QED
  BY <1>1, <1>2, <1>3, RegistryTypes, PTL DEF RegistrySpec, RegistryInv, StolenKeyStopped

-----------------------------------------------------------------------------
\* What a step leaves of an approved request that holds money: its hold, its
\* old key, and a status that only a late cancellation still rewrites.
LEMMA HeldRequestStep ==
  ASSUME RegistryInv, HandlerStep, HoldFollowsApproval,
         NEW r \in Requests, holds[r] # NoHold
  PROVE  /\ holds'[r] = holds[r]
         /\ requests'[r] # NoRequest
         /\ requests'[r].status \in {"APPROVED", "CANCELLED"}
         /\ requests'[r].old = requests[r].old
<1> DEFINE Kept == /\ holds'[r] = holds[r]
                   /\ requests'[r] # NoRequest
                   /\ requests'[r].status \in {"APPROVED", "CANCELLED"}
                   /\ requests'[r].old = requests[r].old
<1>1. /\ requests \in [Requests -> RequestRow \cup {NoRequest}]
      /\ holds \in [Requests -> HoldRow \cup {NoHold}]
  BY DEF RegistryInv, RegistryTypeOK, AccountsTypeOK
<1>2. /\ requests[r] # NoRequest
      /\ requests[r].status \in {"APPROVED", "CANCELLED"}
  BY DEF HoldFollowsApproval
<1>3. requests[r] \in RequestRow
  BY <1>1, <1>2
<1>4. CASE UNCHANGED <<holds, requests>>
  BY <1>2, <1>4
<1>5. ASSUME NEW c \in KeyCalls, ReportCommit(c)
      PROVE  Kept
  <2>1. requests' = requests
          \/ \E q \in FreeRequests : \E row : requests' = [requests EXCEPT ![q] = row]
    BY <1>5 DEF ReportCommit
  <2>2. r \notin FreeRequests
    BY <1>2 DEF FreeRequests
  <2>3. requests'[r] = requests[r]
    BY <1>1, <2>1, <2>2 DEF FreeRequests
  <2>4. UNCHANGED holds
    BY <1>5 DEF ReportCommit
  <2> QED
    BY <1>2, <2>3, <2>4
<1>6. ASSUME NEW c \in KeyCalls, CancelCommit(c)
      PROVE  Kept
  <2>1. /\ UNCHANGED holds
        /\ requests' = [requests EXCEPT ![keyCalls[c].req].status = "CANCELLED"]
    BY <1>6 DEF CancelCommit
  <2>2. CASE keyCalls[c].req = r
    <3>1. requests'[r] = [requests[r] EXCEPT !.status = "CANCELLED"]
      BY <1>1, <2>1, <2>2
    <3>2. /\ requests'[r] \in RequestRow
          /\ requests'[r].status = "CANCELLED" /\ requests'[r].old = requests[r].old
      BY <1>3, <3>1 DEF RequestRow
    <3> QED
      BY <2>1, <3>2 DEF RequestRow, NoRequest
  <2>3. CASE keyCalls[c].req # r
    BY <1>1, <1>2, <2>1, <2>3
  <2> QED
    BY <2>2, <2>3
<1>7. ASSUME NEW q \in Requests, AdminStep(q)
      PROVE  Kept
  <2>1. requests[q].status = "PENDING"
    BY <1>7 DEF AdminStep, Approve, Reject
  <2>2. q # r
    BY <1>2, <2>1
  <2>3. requests'[r] = requests[r] /\ holds'[r] = holds[r]
    BY <1>1, <1>7, <2>2 DEF AdminStep, Approve, Reject
  <2> QED
    BY <1>2, <2>3
<1>8. ASSUME NEW c \in KeyCalls, KeyStep(c), ~ReportCommit(c), ~CancelCommit(c)
      PROVE  UNCHANGED <<holds, requests>>
  BY <1>8 DEF KeyStep, FirstKeyRead, RotationRead, ReportRead, CancelRead, FirstKeyCommit,
              RotationCommit, accountVars
<1> QED
  BY <1>4, <1>5, <1>6, <1>7, <1>8 DEF HandlerStep

\* A hold is placed by the approval of its request, which retires the old key.
LEMMA HoldOrigin ==
  ASSUME RegistryInv, HandlerStep, NEW r \in Requests,
         holds[r] = NoHold, holds'[r] # NoHold
  PROVE  /\ requests'[r] # NoRequest
         /\ requests'[r].status = "APPROVED"
         /\ requests'[r].old = holds'[r].old
         /\ keys'[holds'[r].old].status = "VERIFY_ONLY"
<1>1. /\ requests \in [Requests -> RequestRow \cup {NoRequest}]
      /\ holds \in [Requests -> HoldRow \cup {NoHold}]
      /\ keys \in [Keys -> KeyRow]
  BY DEF RegistryInv, RegistryTypeOK, AccountsTypeOK
<1>2. ASSUME NEW c \in KeyCalls, KeyStep(c)
      PROVE  UNCHANGED holds
  BY <1>2 DEF KeyStep, FirstKeyRead, RotationRead, ReportRead, CancelRead, FirstKeyCommit,
              RotationCommit, ReportCommit, CancelCommit, accountVars
<1>3. PICK q \in Requests : Approve(q)
  BY <1>2 DEF HandlerStep, AdminStep, Reject
<1>4. q = r
  BY <1>1, <1>3 DEF Approve
<1> DEFINE old == requests[r].old
           new == requests[r].new
<1>5. requests[r] \in RequestRow
  BY <1>1, <1>3, <1>4 DEF Approve, NoRequest
<1>6. old \in Keys /\ new \in Keys
  BY <1>5 DEF RequestRow
<1>7. /\ requests'[r] = [requests[r] EXCEPT !.status = "APPROVED"]
      /\ holds'[r] = HoldOnApproval(r)
      /\ keys' = [keys EXCEPT ![old] = OldKeyAfterApproval(r), ![new] = FreshKey]
  BY <1>1, <1>3, <1>4 DEF Approve
<1>8. holds'[r].old = old
  BY <1>7 DEF HoldOnApproval
<1>9. old # new
  BY <1>3, <1>4 DEF Approve, MayActivate, OldKeyRestrictable
<1>10. keys'[old].status = "VERIFY_ONLY"
  BY <1>1, <1>6, <1>7, <1>9 DEF OldKeyAfterApproval, Retired
<1>11. /\ requests'[r] \in RequestRow
       /\ requests'[r].status = "APPROVED" /\ requests'[r].old = old
  BY <1>5, <1>7 DEF RequestRow
<1> QED
  BY <1>8, <1>10, <1>11 DEF RequestRow, NoRequest

LEMMA HoldFollowsStep ==
  ASSUME RegistryInv, HoldFollowsApproval, HandlerStep
  PROVE  HoldFollowsApproval'
<1>1. ASSUME NEW r \in Requests, holds'[r] # NoHold
      PROVE  /\ requests'[r] # NoRequest
             /\ requests'[r].status \in {"APPROVED", "CANCELLED"}
             /\ requests'[r].old = holds'[r].old
             /\ keys'[holds'[r].old].status = "VERIFY_ONLY"
  <2>1. CASE holds[r] = NoHold
    BY <1>1, <2>1, HoldOrigin
  <2>2. CASE holds[r] # NoHold
    <3>1. /\ requests[r].old = holds[r].old
          /\ keys[holds[r].old].status = "VERIFY_ONLY"
      BY <2>2 DEF HoldFollowsApproval
    <3>2. holds[r].old \in Keys
      BY <2>2 DEF RegistryInv, RegistryTypeOK, AccountsTypeOK, HoldRow
    <3>3. keys'[holds[r].old].status = "VERIFY_ONLY"
      BY <1>1, <3>1, <3>2, KeyStatusStep
    <3> QED
      BY <1>1, <2>2, <3>1, <3>3, HeldRequestStep
  <2> QED
    BY <2>1, <2>2
<1> QED
  BY <1>1 DEF HoldFollowsApproval

\* Money is held only behind a key that can no longer sign, by a request that
\* was approved, whatever other handlers are in flight.
THEOREM HoldsAreApproved == RegistrySpec => []HoldFollowsApproval
<1>1. RegistryInit => HoldFollowsApproval
  BY DEF RegistryInit, HoldFollowsApproval
<1>2. RegistryInv /\ HoldFollowsApproval /\ [RegistryNext]_registryVars => HoldFollowsApproval'
  <2> SUFFICES ASSUME RegistryInv, HoldFollowsApproval, [RegistryNext]_registryVars
               PROVE  HoldFollowsApproval'
    OBVIOUS
  <2>1. CASE HandlerStep
    BY <2>1, HoldFollowsStep
  <2>2. CASE Tick /\ UNCHANGED keyCalls
    BY <2>2 DEF Tick, HoldFollowsApproval
  <2>3. CASE UNCHANGED registryVars
    BY <2>3 DEF registryVars, accountVars, HoldFollowsApproval
  <2> QED
    BY <2>1, <2>2, <2>3 DEF RegistryNext
<1> QED
  BY <1>1, <1>2, RegistryTypes, PTL DEF RegistrySpec, RegistryInv

-----------------------------------------------------------------------------
(***************************************************************************)
(* Settlement.  The inductive invariant is the types, NamedRowsExist of    *)
(* the registry, and SettledOnce: that a poll which finds only the debit   *)
(* may answer "reconciled" rests on debit and credit being written         *)
(* together.                                                               *)
(***************************************************************************)

LEMMA EnvelopeFields ==
  ASSUME NEW e \in Envelopes
  PROVE  /\ e.sender \in Students /\ e.to \in Merchants
         /\ e.sender \in Users /\ e.to \in Users /\ e.sender # e.to
         /\ e.key \in Keys /\ e.amount \in Nat /\ e.amount > 0
  BY SettlementAssumption, AccountsAssumption DEF Users

LEMMA ReconcileCallFields ==
  ASSUME PaymentTypeOK, NEW c \in Calls
  PROVE  /\ calls[c].stage \in {"free", "keyRead", "checked"}
         /\ calls[c] # Free => calls[c].env \in Envelopes
         /\ calls[c].stage # "free" => calls[c] # Free
         /\ calls[c].stage = "checked" =>
              calls[c].active \in BOOLEAN /\ calls[c].tries \in 0 .. MaxRetries - 1
         /\ calls[c].stage = "keyRead" =>
              calls[c].active \in BOOLEAN /\ calls[c].at \in Time
<1>1. calls[c] \in ReconcileCall
  BY DEF PaymentTypeOK
<1>2. CASE calls[c] = Free
  BY <1>2 DEF Free
<1>3. CASE calls[c] \in [stage : {"keyRead"}, env : Envelopes, at : Time,
                         active : BOOLEAN, covered : BOOLEAN]
  BY <1>3 DEF Free
<1>4. CASE calls[c] \in [stage : {"checked"}, env : Envelopes, active : BOOLEAN,
                         tries : 0 .. MaxRetries - 1]
  BY <1>4 DEF Free
<1> QED
  BY <1>1, <1>2, <1>3, <1>4 DEF ReconcileCall

-----------------------------------------------------------------------------
(* The types of the payment side.  An answer reaches a phone or does not.   *)

LEMMA AnswerTypes ==
  ASSUME PaymentTypeOK, NEW e \in Envelopes,
         NEW status \in {"reconciled", "rejected"}, Answer(e, status)
  PROVE  /\ merchantView' \in [Envelopes -> {"pending", "reconciled", "rejected"}]
         /\ UNCHANGED <<signed, studentView>>
  BY DEF PaymentTypeOK, Answer

LEMMA FinishTypes ==
  ASSUME PaymentTypeOK, NEW c \in Calls, calls[c].stage # "free",
         NEW status \in {"reconciled", "rejected"}, Finish(c, status)
  PROVE  /\ merchantView' \in [Envelopes -> {"pending", "reconciled", "rejected"}]
         /\ UNCHANGED <<signed, studentView>>
         /\ calls' \in [Calls -> ReconcileCall]
<1>1. calls[c].env \in Envelopes
  BY ReconcileCallFields
<1>2. calls' \in [Calls -> ReconcileCall]
  BY DEF Finish, PaymentTypeOK, ReconcileCall
<1> QED
  BY <1>1, <1>2, AnswerTypes DEF Finish

LEMMA AnswerPollTypes ==
  ASSUME PaymentTypeOK, NEW e \in Envelopes,
         NEW status \in {"pending", "reconciled", "expired_unclaimed", "rejected"},
         AnswerPoll(e, status)
  PROVE  /\ studentView' \in
              [Envelopes -> {"pending", "reconciled", "expired_unclaimed", "rejected"}]
         /\ polls' \in [Envelopes -> {"idle", "noDebit", "noResolution"}]
         /\ UNCHANGED <<signed, merchantView>>
  BY DEF PaymentTypeOK, AnswerPoll

LEMMA ReconcileTypes ==
  ASSUME PaymentTypeOK, RegistryTypeOK, NEW c \in Calls, ReconcileStep(c)
  PROVE  PaymentTypeOK'
<1>1. ASSUME NEW e \in Envelopes, BeginReconcile(c, e)
      PROVE  PaymentTypeOK'
  <2>1. [stage |-> "keyRead", env |-> e, at |-> now,
         active |-> keys[e.key].status = "ACTIVE",
         covered |-> balance[e.sender] >= e.amount] \in ReconcileCall
    BY DEF ReconcileCall, RegistryTypeOK, AccountsTypeOK
  <2> QED
    BY <1>1, <2>1 DEF BeginReconcile, PaymentTypeOK, serverRows, phoneVars
<1>2. CASE CheckClaim(c)
  <2>1. calls[c].env \in Envelopes /\ calls[c].active \in BOOLEAN
    BY <1>2, ReconcileCallFields DEF CheckClaim
  <2>2. [stage |-> "checked", env |-> calls[c].env, active |-> calls[c].active,
         tries |-> 0] \in ReconcileCall
    BY <2>1, SettlementAssumption DEF ReconcileCall
  <2> QED
    BY <1>2, <2>2 DEF CheckClaim, PaymentTypeOK, serverRows, phoneVars
<1>3. CASE RefuseUnfunded(c) \/ RefuseResolved(c)
  BY <1>3, FinishTypes DEF RefuseUnfunded, RefuseResolved, PaymentTypeOK, serverRows
<1>4. CASE ExpireLateClaim(c)
  <2>1. calls[c].env \in Envelopes /\ calls[c].stage # "free"
    BY <1>4, ReconcileCallFields DEF ExpireLateClaim
  <2>2. expired' \subseteq Envelopes
    BY <1>4, <2>1 DEF ExpireLateClaim, PaymentTypeOK
  <2> QED
    BY <1>4, <2>1, <2>2, FinishTypes DEF ExpireLateClaim, PaymentTypeOK
<1>5. CASE CommitReplay(c) \/ RefuseCommit(c)
  BY <1>5, FinishTypes DEF CommitReplay, RefuseCommit, PaymentTypeOK, serverRows
<1>6. CASE Settle(c)
  <2> DEFINE e == calls[c].env
  <2>1. e \in Envelopes /\ calls[c].stage # "free"
    BY <1>6, ReconcileCallFields DEF Settle
  <2>2. /\ processed' = processed \cup {e}
        /\ ledger' = ledger \cup {DebitRow(e), CreditRow(e)}
        /\ UNCHANGED <<approved, expired, topups, polls>>
    BY <1>6 DEF Settle
  <2>3. ledger' \subseteq [tx : Envelopes \cup Topups, user : Users, type : {"DEBIT", "CREDIT"}]
    BY <2>1, <2>2, EnvelopeFields DEF PaymentTypeOK, DebitRow, CreditRow, Row
  <2>4. Finish(c, "reconciled") \/ Finish(c, "rejected")
    BY <1>6 DEF Settle
  <2> QED
    BY <2>1, <2>2, <2>3, <2>4, FinishTypes DEF PaymentTypeOK
<1>7. CASE Retry(c)
  <2>1. /\ calls[c].stage = "checked" /\ calls[c].tries + 1 < MaxRetries
        /\ calls' = [calls EXCEPT ![c].tries = @ + 1]
    BY <1>7 DEF Retry
  <2>2. /\ calls[c] \in [stage : {"checked"}, env : Envelopes, active : BOOLEAN,
                         tries : 0 .. MaxRetries - 1]
        /\ calls \in [Calls -> ReconcileCall]
    BY <2>1 DEF PaymentTypeOK, ReconcileCall, Free
  <2>3. [calls[c] EXCEPT !.tries = @ + 1]
          \in [stage : {"checked"}, env : Envelopes, active : BOOLEAN,
               tries : 0 .. MaxRetries - 1]
    BY <2>1, <2>2, SettlementAssumption
  <2>4. calls' \in [Calls -> ReconcileCall]
    BY <2>1, <2>2, <2>3 DEF ReconcileCall
  <2> QED
    BY <1>7, <2>4 DEF Retry, PaymentTypeOK, serverRows, phoneVars
<1>8. CASE GiveUp(c)
  BY <1>8 DEF GiveUp, PaymentTypeOK, ReconcileCall, serverRows, phoneVars
<1>9. CASE InternalError(c)
  <2>1. calls[c].stage # "free" \/ calls[c] = Free
    BY DEF PaymentTypeOK, ReconcileCall
  <2> QED
    BY <1>9, <2>1, FinishTypes DEF InternalError, PaymentTypeOK, serverRows
<1> QED
  BY <1>1, <1>2, <1>3, <1>4, <1>5, <1>6, <1>7, <1>8, <1>9 DEF ReconcileStep

LEMMA PhoneTypes ==
  ASSUME PaymentTypeOK, NEW e \in Envelopes, PhoneStep(e)
  PROVE  PaymentTypeOK'
<1>1. CASE Sign(e) \/ RefuseRecipient(e) \/ RefuseKeyOrTime(e) \/ PollNoDebit(e) \/ PollNoResolution(e)
  BY <1>1, AnswerTypes
     DEF Sign, RefuseRecipient, RefuseKeyOrTime, PollNoDebit, PollNoResolution, PaymentTypeOK, serverRows, phoneVars
<1>2. CASE \/ PollSettled(e) \/ PollResolved(e) \/ PollRefused(e) \/ PollTooEarly(e)
           \/ PollFails(e)
  BY <1>2, AnswerPollTypes
     DEF PollSettled, PollResolved, PollRefused, PollTooEarly, PollFails, PaymentTypeOK,
         serverRows
<1>3. CASE PollLate(e)
  <2>1. AnswerPoll(e, "reconciled") \/ AnswerPoll(e, "expired_unclaimed")
    BY <1>3 DEF PollLate
  <2>2. /\ expired' \subseteq Envelopes
        /\ UNCHANGED <<approved, ledger, processed, topups, calls>>
    BY <1>3 DEF PollLate, PaymentTypeOK
  <2> QED
    BY <2>1, <2>2, AnswerPollTypes DEF PaymentTypeOK
<1> QED
  BY <1>1, <1>2, <1>3 DEF PhoneStep, PollReads, PollEnds

LEMMA PaymentTypes ==
  ASSUME PaymentTypeOK, RegistryTypeOK, [Next]_vars
  PROVE  PaymentTypeOK'
<1>1. CASE \E c \in Calls : ReconcileStep(c)
  BY <1>1, ReconcileTypes
<1>2. CASE \E e \in Envelopes : PhoneStep(e)
  BY <1>2, PhoneTypes
<1>3. CASE \E m \in Merchants : MerchantStep(m)
  BY <1>3 DEF MerchantStep, DeactivateMerchant, ReactivateMerchant, PaymentTypeOK, phoneVars
<1>4. ASSUME NEW p \in Topups, CreditTopup(p)
      PROVE  PaymentTypeOK'
  <2>1. topups' \in [Topups -> {"PENDING", "SUCCESS", "FAILED"}]
    BY <1>4 DEF CreditTopup, PaymentTypeOK
  <2>2. Row(p, p.user, "CREDIT")
          \in [tx : Envelopes \cup Topups, user : Users, type : {"DEBIT", "CREDIT"}]
    BY SettlementAssumption DEF Row
  <2> QED
    BY <1>4, <2>1, <2>2 DEF CreditTopup, PaymentTypeOK, phoneVars
<1>5. CASE RegistryStep \/ TimePasses \/ UNCHANGED vars
  BY <1>5 DEF RegistryStep, TimePasses, vars, paymentVars, PaymentTypeOK, serverRows, phoneVars
<1> QED
  BY <1>1, <1>2, <1>3, <1>4, <1>5 DEF Next

-----------------------------------------------------------------------------
(* The accounts.  Only a settlement and a top-up move money.                *)

Capped == \A u \in Users : balance[u] <= MaxBalance
AccountsInv == RegistryInv /\ Capped

LEMMA AccountsUnchanged ==
  ASSUME AccountsInv, UNCHANGED registryVars
  PROVE  AccountsInv'
  BY DEF AccountsInv, Capped, RegistryInv, RegistryTypeOK, AccountsTypeOK, NamedRowsExist,
         registryVars, accountVars

\* A draw takes from a hold that exists, and no more than is left of it.
LEMMA DrawFromHold ==
  ASSUME RegistryTypeOK, NEW call, NEW r \in Requests, FundedByHold(call, r),
         call.env \in Envelopes
  PROVE  /\ holds[r] \in HoldRow
         /\ holds[r].consumed + call.env.amount \in Nat
         /\ holds[r].consumed + call.env.amount <= holds[r].held
<1>1. r \in ActiveHolds(KeyOwner[call.env.key], now)
  BY DEF FundedByHold, OldestHolds
<1>2. holds[r] \in HoldRow
  BY <1>1 DEF ActiveHolds, RegistryTypeOK, AccountsTypeOK
<1>3. /\ holds[r].held \in Nat /\ holds[r].consumed \in Nat
      /\ call.env.amount \in Nat /\ call.env.amount > 0
  BY <1>2, EnvelopeFields DEF HoldRow
<1>4. Remaining(r) >= call.env.amount
  BY DEF FundedByHold
<1> QED
  BY <1>2, <1>3, <1>4 DEF Remaining

LEMMA SettleAccounts ==
  ASSUME AccountsInv, PaymentTypeOK, NEW c \in Calls, Settle(c)
  PROVE  AccountsInv'
<1> DEFINE e == calls[c].env
<1>1. e \in Envelopes
  BY ReconcileCallFields DEF Settle
<1>2. /\ balance[e.sender] \in Nat /\ balance[e.to] \in Nat
      /\ balance[e.sender] >= e.amount /\ balance[e.to] + e.amount <= MaxBalance
  BY <1>1, EnvelopeFields
     DEF Settle, Funded, Payable, AccountsInv, RegistryInv, RegistryTypeOK, AccountsTypeOK
<1>3. balance' = [balance EXCEPT ![e.sender] = @ - e.amount, ![e.to] = @ + e.amount]
  BY DEF Settle, Transfer
<1>4. /\ balance[e.sender] - e.amount \in Nat /\ balance[e.to] + e.amount \in Nat
      /\ balance[e.sender] - e.amount <= balance[e.sender]
  BY <1>1, <1>2, EnvelopeFields
<1>5. balance' \in [Users -> Nat] /\ Capped'
  <2>1. balance \in [Users -> Nat] /\ MaxBalance \in Nat
    BY SettlementAssumption DEF AccountsInv, RegistryInv, RegistryTypeOK, AccountsTypeOK
  <2>2. /\ e.sender \in Users /\ e.to \in Users /\ e.sender # e.to
    BY <1>1, EnvelopeFields
  <2>3. balance'[e.sender] = balance[e.sender] - e.amount
    BY <1>3, <2>1, <2>2
  <2>4. balance'[e.to] = balance[e.to] + e.amount
    BY <1>3, <2>1, <2>2
  <2>5. \A u \in Users : u # e.sender /\ u # e.to => balance'[u] = balance[u]
    BY <1>3, <2>1
  <2>6. DOMAIN balance' = Users /\ balance' = [u \in Users |-> balance'[u]]
    BY <1>3, <2>1
  <2>7. \A u \in Users : balance'[u] \in Nat
    BY <1>4, <2>1, <2>3, <2>4, <2>5
  <2>8. balance' \in [Users -> Nat]
    BY <2>6, <2>7
  <2>9. \A u \in Users : balance'[u] <= MaxBalance
    <3> TAKE u \in Users
    <3>1. balance[u] \in Nat /\ balance[u] <= MaxBalance
      BY <2>1 DEF AccountsInv, Capped
    <3> QED
      BY <1>2, <1>4, <2>1, <2>3, <2>4, <2>5, <3>1
  <2> QED
    BY <2>8, <2>9 DEF Capped
<1>6. holds' \in [Requests -> HoldRow \cup {NoHold}]
  <2>1. holds \in [Requests -> HoldRow \cup {NoHold}]
    BY DEF AccountsInv, RegistryInv, RegistryTypeOK, AccountsTypeOK
  <2>2. CASE UNCHANGED holds
    BY <2>1, <2>2
  <2>3. ASSUME NEW r \in Requests, FundedByHold(calls[c], r),
               holds' = [holds EXCEPT ![r].consumed = @ + e.amount]
        PROVE  holds' \in [Requests -> HoldRow \cup {NoHold}]
    <3>1. holds[r] \in HoldRow /\ holds[r].consumed + e.amount \in Nat
      BY <1>1, <2>3, DrawFromHold DEF AccountsInv, RegistryInv
    <3>2. [holds[r] EXCEPT !.consumed = @ + e.amount] \in HoldRow
      BY <3>1 DEF HoldRow
    <3> QED
      BY <2>1, <2>3, <3>2
  <2> QED
    BY <2>2, <2>3 DEF Settle, Draw
<1>7. UNCHANGED <<now, keys, mirror, requests, keyCalls>>
  BY DEF Settle
<1> QED
  BY <1>5, <1>6, <1>7
     DEF AccountsInv, RegistryInv, RegistryTypeOK, AccountsTypeOK, NamedRowsExist

LEMMA TopupAccounts ==
  ASSUME AccountsInv, NEW p \in Topups, CreditTopup(p)
  PROVE  AccountsInv'
<1>1. p.user \in Users /\ p.amount \in Nat /\ MaxBalance \in Nat
  BY SettlementAssumption
<1>2. balance \in [Users -> Nat]
  BY DEF AccountsInv, RegistryInv, RegistryTypeOK, AccountsTypeOK
<1>3. balance' \in [Users -> Nat] /\ Capped'
  <2>1. CASE UNCHANGED balance
    BY <1>2, <2>1 DEF AccountsInv, Capped
  <2>2. CASE /\ balance[p.user] + p.amount <= MaxBalance
             /\ balance' = [balance EXCEPT ![p.user] = @ + p.amount]
    BY <1>1, <1>2, <2>2 DEF AccountsInv, Capped
  <2> QED
    BY <2>1, <2>2 DEF CreditTopup
<1>4. UNCHANGED <<now, keys, mirror, requests, holds, keyCalls>>
  BY DEF CreditTopup
<1> QED
  BY <1>3, <1>4 DEF AccountsInv, RegistryInv, RegistryTypeOK, AccountsTypeOK, NamedRowsExist

\* A step of the key registry moves no money.
LEMMA HandlersMoveNoMoney ==
  ASSUME HandlerStep
  PROVE  UNCHANGED balance
<1>1. ASSUME NEW c \in KeyCalls, KeyStep(c)
      PROVE  UNCHANGED balance
  BY <1>1 DEF KeyStep, FirstKeyRead, RotationRead, ReportRead, CancelRead, FirstKeyCommit,
              RotationCommit, ReportCommit, CancelCommit, accountVars
<1>2. ASSUME NEW r \in Requests, AdminStep(r)
      PROVE  UNCHANGED balance
  BY <1>2 DEF AdminStep, Approve, Reject
<1> QED
  BY <1>1, <1>2 DEF HandlerStep

LEMMA AccountsStep ==
  ASSUME AccountsInv, PaymentTypeOK, [Next]_vars
  PROVE  AccountsInv'
<1>1. ASSUME NEW c \in Calls, ReconcileStep(c), ~Settle(c)
      PROVE  UNCHANGED registryVars
  BY <1>1 DEF ReconcileStep, BeginReconcile, CheckClaim, RefuseUnfunded, RefuseResolved,
              ExpireLateClaim, CommitReplay, RefuseCommit, Retry, GiveUp, InternalError
<1>2. ASSUME NEW e \in Envelopes, PhoneStep(e)
      PROVE  UNCHANGED registryVars
  BY <1>2 DEF PhoneStep, PollEnds, Sign, RefuseRecipient, RefuseKeyOrTime, PollSettled, PollResolved,
              PollReads, PollNoDebit, PollNoResolution,
              PollRefused, PollTooEarly, PollFails, PollLate
<1>3. ASSUME NEW m \in Merchants, MerchantStep(m)
      PROVE  UNCHANGED registryVars
  BY <1>3 DEF MerchantStep, DeactivateMerchant, ReactivateMerchant
<1>4. CASE RegistryStep
  BY <1>4, HandlerStepInv, HandlersMoveNoMoney DEF RegistryStep, AccountsInv, Capped
<1>5. CASE TimePasses
  BY <1>5, TickInv DEF TimePasses, Tick, AccountsInv, Capped
<1>6. CASE UNCHANGED vars
  BY <1>6, AccountsUnchanged DEF vars
<1> QED
  BY <1>1, <1>2, <1>3, <1>4, <1>5, <1>6, AccountsUnchanged, SettleAccounts, TopupAccounts
     DEF Next

-----------------------------------------------------------------------------
\* Every row and every call has its type, no account exceeds the balance cap
\* and none is overdrawn, whatever overlaps.
THEOREM SettlementTypes == Spec => [](TypeOK /\ NamedRowsExist)
<1> DEFINE Inv == AccountsInv /\ PaymentTypeOK
<1>1. Init => Inv
  <2> SUFFICES ASSUME Init PROVE Inv
    OBVIOUS
  <2>1. RegistryInv
    BY RegistryInitInv DEF Init
  <2>2. Capped
    BY SettlementAssumption DEF Init, RegistryInit, Capped
  <2>3. PaymentTypeOK
    BY DEF Init, PaymentTypeOK, ReconcileCall
  <2> QED
    BY <2>1, <2>2, <2>3 DEF AccountsInv
<1>2. Inv /\ [Next]_vars => Inv'
  BY AccountsStep, PaymentTypes DEF AccountsInv, RegistryInv
<1>3. Inv => TypeOK /\ NamedRowsExist
  BY DEF AccountsInv, RegistryInv, Capped, TypeOK
<1> QED
  BY <1>1, <1>2, <1>3, PTL DEF Spec

-----------------------------------------------------------------------------
\* What a step does to the ledger: nothing to the rows of payments, or it is
\* the settlement of one payment whose sequence number is free.
LEMMA LedgerStep ==
  ASSUME PaymentTypeOK, [Next]_vars
  PROVE  \/ /\ UNCHANGED processed
            /\ \A e \in Envelopes :
                 /\ DebitRow(e) \in ledger' <=> DebitRow(e) \in ledger
                 /\ CreditRow(e) \in ledger' <=> CreditRow(e) \in ledger
         \/ \E e \in Envelopes :
              /\ SequenceOwner(e) = {}
              /\ processed' = processed \cup {e}
              /\ ledger' = ledger \cup {DebitRow(e), CreditRow(e)}
<1> DEFINE Kept == /\ UNCHANGED processed
                   /\ \A e \in Envelopes :
                        /\ DebitRow(e) \in ledger' <=> DebitRow(e) \in ledger
                        /\ CreditRow(e) \in ledger' <=> CreditRow(e) \in ledger
<1>1. CASE UNCHANGED <<ledger, processed>>
  BY <1>1
<1>2. ASSUME NEW c \in Calls, Settle(c)
      PROVE  \E e \in Envelopes :
               /\ SequenceOwner(e) = {}
               /\ processed' = processed \cup {e}
               /\ ledger' = ledger \cup {DebitRow(e), CreditRow(e)}
  <2>1. calls[c].env \in Envelopes
    BY <1>2, ReconcileCallFields DEF Settle
  <2> QED
    BY <1>2, <2>1 DEF Settle
<1>3. ASSUME NEW p \in Topups, CreditTopup(p)
      PROVE  Kept
  <2>1. UNCHANGED processed
    BY <1>3 DEF CreditTopup
  <2>2. ledger' = ledger \/ ledger' = ledger \cup {Row(p, p.user, "CREDIT")}
    BY <1>3 DEF CreditTopup
  <2>3. \A e \in Envelopes :
          /\ DebitRow(e) # Row(p, p.user, "CREDIT")
          /\ CreditRow(e) # Row(p, p.user, "CREDIT")
    BY SettlementAssumption DEF DebitRow, CreditRow, Row
  <2> QED
    BY <2>1, <2>2, <2>3
<1>4. ASSUME NEW c \in Calls, ReconcileStep(c), ~Settle(c)
      PROVE  UNCHANGED <<ledger, processed>>
  BY <1>4 DEF ReconcileStep, BeginReconcile, CheckClaim, RefuseUnfunded, RefuseResolved,
              ExpireLateClaim, CommitReplay, RefuseCommit, Retry, GiveUp, InternalError, serverRows
<1>5. ASSUME NEW e \in Envelopes, PhoneStep(e)
      PROVE  UNCHANGED <<ledger, processed>>
  BY <1>5 DEF PhoneStep, PollEnds, Sign, RefuseRecipient, RefuseKeyOrTime, PollSettled, PollResolved,
              PollReads, PollNoDebit, PollNoResolution,
              PollRefused, PollTooEarly, PollFails, PollLate, serverRows
<1>6. ASSUME NEW m \in Merchants, MerchantStep(m)
      PROVE  UNCHANGED <<ledger, processed>>
  BY <1>6 DEF MerchantStep, DeactivateMerchant, ReactivateMerchant
<1>7. CASE RegistryStep \/ TimePasses \/ UNCHANGED vars
  BY <1>1, <1>7 DEF RegistryStep, TimePasses, vars, paymentVars, serverRows
<1> QED
  BY <1>1, <1>2, <1>3, <1>4, <1>5, <1>6, <1>7 DEF Next

LEMMA SettledOnceStep ==
  ASSUME SettledOnce, PaymentTypeOK, [Next]_vars
  PROVE  SettledOnce'
<1>1. CASE /\ UNCHANGED processed
           /\ \A e \in Envelopes :
                /\ DebitRow(e) \in ledger' <=> DebitRow(e) \in ledger
                /\ CreditRow(e) \in ledger' <=> CreditRow(e) \in ledger
  <2>1. NumberPaysOnce'
    BY <1>1 DEF SettledOnce, NumberPaysOnce
  <2>2. ProcessedHasRows'
    <3> SUFFICES ASSUME NEW e \in Envelopes
                 PROVE  /\ e \in processed' <=> DebitRow(e) \in ledger'
                        /\ e \in processed' <=> CreditRow(e) \in ledger'
      BY DEF ProcessedHasRows
    <3>1. /\ e \in processed <=> DebitRow(e) \in ledger
          /\ e \in processed <=> CreditRow(e) \in ledger
      BY DEF SettledOnce, ProcessedHasRows
    <3> QED
      BY <1>1, <3>1
  <2> QED
    BY <2>1, <2>2 DEF SettledOnce
<1>2. ASSUME NEW e \in Envelopes, SequenceOwner(e) = {},
             processed' = processed \cup {e},
             ledger' = ledger \cup {DebitRow(e), CreditRow(e)}
      PROVE  SettledOnce'
  <2>1. \A p \in processed : ~(p.sender = e.sender /\ p.seq = e.seq)
    BY <1>2 DEF SequenceOwner
  <2>2. NumberPaysOnce'
    BY <1>2, <2>1 DEF SettledOnce, NumberPaysOnce
  <2>3. \A f \in Envelopes :
          /\ DebitRow(f) \in {DebitRow(e), CreditRow(e)} <=> f = e
          /\ CreditRow(f) \in {DebitRow(e), CreditRow(e)} <=> f = e
    BY DEF DebitRow, CreditRow, Row
  <2>4. ProcessedHasRows'
    BY <1>2, <2>3 DEF SettledOnce, ProcessedHasRows
  <2> QED
    BY <2>2, <2>4 DEF SettledOnce
<1> QED
  BY <1>1, <1>2, LedgerStep

\* A sequence number of a sender pays once, and the processed payments are
\* exactly those with a debit and a credit.
THEOREM PaysOnce == Spec => []SettledOnce
<1>1. Init => SettledOnce
  BY DEF Init, SettledOnce, NumberPaysOnce, ProcessedHasRows
<1>2. SettledOnce /\ TypeOK /\ [Next]_vars => SettledOnce'
  BY SettledOnceStep DEF TypeOK
<1> QED
  BY <1>1, <1>2, SettlementTypes, PTL DEF Spec

-----------------------------------------------------------------------------
LEMMA SettledForGood ==
  ASSUME PaymentTypeOK, [Next]_vars, NEW e \in Envelopes, Settled(e)
  PROVE  Settled(e)'
  BY LedgerStep DEF Settled, DebitRow, CreditRow, Row

\* A phone hears "reconciled" only about a payment that is settled.
LEMMA HeardStep ==
  ASSUME PaymentTypeOK, SettledOnce, [Next]_vars, NEW e \in Envelopes,
         \/ merchantView'[e] = "reconciled" /\ merchantView[e] # "reconciled"
         \/ studentView'[e] = "reconciled" /\ studentView[e] # "reconciled"
  PROVE  Settled(e)'
<1>1. ASSUME NEW c \in Calls, ReconcileStep(c)
      PROVE  Settled(e)'
  <2>1. ASSUME NEW status, Finish(c, status), calls[c].env \in Envelopes
        PROVE  status = "reconciled" /\ e = calls[c].env
    BY <2>1 DEF Finish, Answer, PaymentTypeOK
  <2>2. calls[c].stage # "free" => calls[c].env \in Envelopes
    BY ReconcileCallFields
  <2>3. CASE ExpireLateClaim(c) \/ CommitReplay(c)
    <3>1. (Finish(c, "reconciled") /\ Settled(calls[c].env)) \/ Finish(c, "rejected")
      BY <2>3 DEF ExpireLateClaim, CommitReplay, SettledReplay
    <3>2. calls[c].env \in Envelopes
      BY <2>2, <2>3 DEF ExpireLateClaim, CommitReplay
    <3> QED
      BY <2>1, <3>1, <3>2, SettledForGood
  <2>4. CASE Settle(c)
    <3>1. calls[c].env \in Envelopes
      BY <2>2, <2>4 DEF Settle
    <3>2. Finish(c, "reconciled") \/ Finish(c, "rejected")
      BY <2>4 DEF Settle
    <3>3. e = calls[c].env
      BY <2>1, <3>1, <3>2
    <3> QED
      BY <2>4, <3>3 DEF Settle, Settled, DebitRow, CreditRow, Row
  <2>5. CASE RefuseUnfunded(c) \/ RefuseResolved(c) \/ RefuseCommit(c)
    <3>1. Finish(c, "rejected") /\ calls[c].stage # "free"
      BY <2>5 DEF RefuseUnfunded, RefuseResolved, RefuseCommit
    <3> QED
      BY <2>1, <2>2, <3>1
  <2>6. CASE InternalError(c)
    <3>1. Finish(c, "rejected") /\ calls[c] # Free
      BY <2>6 DEF InternalError
    <3> QED
      BY <2>1, <3>1, ReconcileCallFields
  <2>7. CASE \/ \E f \in Envelopes : BeginReconcile(c, f)
             \/ CheckClaim(c) \/ Retry(c) \/ GiveUp(c)
    BY <2>7 DEF BeginReconcile, CheckClaim, Retry, GiveUp, phoneVars
  <2> QED
    BY <1>1, <2>3, <2>4, <2>5, <2>6, <2>7 DEF ReconcileStep
<1>2. ASSUME NEW f \in Envelopes, PhoneStep(f)
      PROVE  Settled(e)'
  <2>1. ASSUME NEW status, AnswerPoll(f, status)
        PROVE  status = "reconciled" /\ e = f
    BY <2>1 DEF AnswerPoll, PaymentTypeOK
  <2>2. CASE PollSettled(f)
    <3>1. AnswerPoll(f, "reconciled") /\ DebitRow(f) \in ledger
      BY <2>2 DEF PollSettled
    <3> QED
      BY <2>1, <3>1, SettledForGood DEF SettledOnce, ProcessedHasRows, Settled
  <2>3. CASE PollLate(f)
    <3>1. \/ AnswerPoll(f, "reconciled") /\ Settled(f)
          \/ AnswerPoll(f, "expired_unclaimed")
      BY <2>3 DEF PollLate
    <3> QED
      BY <2>1, <3>1, SettledForGood
  <2>4. CASE PollResolved(f) \/ PollRefused(f) \/ PollTooEarly(f) \/ PollFails(f)
    <3>1. \/ AnswerPoll(f, "expired_unclaimed") \/ AnswerPoll(f, "rejected")
          \/ AnswerPoll(f, "pending")
      BY <2>4 DEF PollResolved, PollRefused, PollTooEarly, PollFails
    <3> QED
      BY <2>1, <3>1
  <2>5. CASE RefuseRecipient(f) \/ RefuseKeyOrTime(f)
    BY <2>5 DEF RefuseRecipient, RefuseKeyOrTime, Answer, PaymentTypeOK
  <2>6. CASE Sign(f) \/ PollNoDebit(f) \/ PollNoResolution(f)
    BY <2>6 DEF Sign, PollNoDebit, PollNoResolution, phoneVars
  <2> QED
    BY <1>2, <2>2, <2>3, <2>4, <2>5, <2>6 DEF PhoneStep, PollReads, PollEnds
<1>3. CASE \/ \E m \in Merchants : MerchantStep(m)
           \/ \E p \in Topups : CreditTopup(p)
           \/ RegistryStep \/ TimePasses \/ UNCHANGED vars
  BY <1>3 DEF MerchantStep, DeactivateMerchant, ReactivateMerchant, CreditTopup, RegistryStep,
              TimePasses, vars, paymentVars, phoneVars
<1> QED
  BY <1>1, <1>2, <1>3 DEF Next

\* A phone that was told "reconciled" can rely on it for ever.
THEOREM ReconciledIsTrue == Spec => []ReconciledMeansSettled
<1>1. Init => ReconciledMeansSettled
  BY DEF Init, ReconciledMeansSettled
<1>2. ReconciledMeansSettled /\ SettledOnce /\ TypeOK /\ [Next]_vars => ReconciledMeansSettled'
  <2> SUFFICES ASSUME ReconciledMeansSettled, SettledOnce, PaymentTypeOK, [Next]_vars,
                      NEW e \in Envelopes,
                      merchantView'[e] = "reconciled" \/ studentView'[e] = "reconciled"
               PROVE  Settled(e)'
    BY DEF TypeOK, ReconciledMeansSettled, Settled, DebitRow, CreditRow, Row
  <2>1. CASE merchantView[e] = "reconciled" \/ studentView[e] = "reconciled"
    BY <2>1, SettledForGood DEF ReconciledMeansSettled
  <2>2. CASE ~(merchantView[e] = "reconciled" \/ studentView[e] = "reconciled")
    BY <2>2, HeardStep
  <2> QED
    BY <2>1, <2>2
<1> QED
  BY <1>1, <1>2, SettlementTypes, PaysOnce, PTL DEF Spec
-----------------------------------------------------------------------------
\* What a step does to the row of hold r: nothing, the row an approval writes
\* with nothing consumed, or a draw that leaves it within what was held.
LEMMA HoldStep ==
  ASSUME AccountsInv, PaymentTypeOK, [Next]_vars, NEW r \in Requests
  PROVE  \/ holds'[r] = holds[r]
         \/ holds'[r] = NoHold
         \/ holds'[r].consumed = 0 /\ holds'[r].held \in Nat
         \/ holds[r] # NoHold /\ holds'[r].consumed <= holds'[r].held
<1> DEFINE Fine == \/ holds'[r] = holds[r]
                   \/ holds'[r] = NoHold
                   \/ holds'[r].consumed = 0 /\ holds'[r].held \in Nat
                   \/ holds[r] # NoHold /\ holds'[r].consumed <= holds'[r].held
<1>1. holds \in [Requests -> HoldRow \cup {NoHold}]
  BY DEF AccountsInv, RegistryInv, RegistryTypeOK, AccountsTypeOK
<1>2. ASSUME NEW c \in Calls, Settle(c)
      PROVE  Fine
  <2> DEFINE e == calls[c].env
  <2>1. e \in Envelopes
    BY <1>2, ReconcileCallFields DEF Settle
  <2>2. ASSUME NEW q \in Requests, FundedByHold(calls[c], q),
               holds' = [holds EXCEPT ![q].consumed = @ + e.amount]
        PROVE  Fine
    <3>1. /\ holds[q] \in HoldRow
          /\ holds[q].consumed + e.amount <= holds[q].held
      BY <2>1, <2>2, DrawFromHold DEF AccountsInv, RegistryInv
    <3>2. CASE q = r
      <4>1. holds'[r] = [holds[r] EXCEPT !.consumed = @ + e.amount]
        BY <1>1, <2>2, <3>2
      <4>2. /\ holds'[r].consumed = holds[r].consumed + e.amount
            /\ holds'[r].held = holds[r].held
        BY <3>1, <3>2, <4>1 DEF HoldRow
      <4>3. holds[r] # NoHold
        BY <3>1, <3>2, <1>1 DEF ActiveHolds, FundedByHold, OldestHolds, HoldRow, NoHold
      <4> QED
        BY <3>1, <3>2, <4>2, <4>3
    <3>3. CASE q # r
      BY <1>1, <2>2, <3>3
    <3> QED
      BY <3>2, <3>3
  <2> QED
    BY <1>2, <2>2 DEF Settle, Draw
<1>3. ASSUME NEW q \in Requests, Approve(q)
      PROVE  Fine
  <2>1. holds' = [holds EXCEPT ![q] = HoldOnApproval(q)]
    BY <1>3 DEF Approve
  <2>2. CASE q = r
    <3>1. holds'[r] = HoldOnApproval(r)
      BY <1>1, <2>1, <2>2
    <3>2. balance[KeyOwner[requests[r].old]] \in Nat
      <4>1. requests[r] # NoRequest
        BY <1>3, <2>2 DEF Approve, NoRequest
      <4>2. KeyOwner[requests[r].old] \in Users
        BY <4>1, RequestFields, AccountsAssumption DEF AccountsInv, RegistryInv, Users
      <4> QED
        BY <4>2 DEF AccountsInv, RegistryInv, RegistryTypeOK, AccountsTypeOK
    <3> QED
      BY <3>1, <3>2 DEF HoldOnApproval
  <2>3. CASE q # r
    BY <1>1, <2>1, <2>3
  <2> QED
    BY <2>2, <2>3
<1>4. ASSUME NEW c \in KeyCalls, KeyStep(c)
      PROVE  UNCHANGED holds
  BY <1>4 DEF KeyStep, FirstKeyRead, RotationRead, ReportRead, CancelRead, FirstKeyCommit,
              RotationCommit, ReportCommit, CancelCommit, accountVars
<1>5. ASSUME NEW q \in Requests, Reject(q)
      PROVE  UNCHANGED holds
  BY <1>5 DEF Reject
<1>6. ASSUME NEW c \in Calls, ReconcileStep(c), ~Settle(c)
      PROVE  UNCHANGED holds
  BY <1>6 DEF ReconcileStep, BeginReconcile, CheckClaim, RefuseUnfunded, RefuseResolved,
              ExpireLateClaim, CommitReplay, RefuseCommit, Retry, GiveUp, InternalError,
              registryVars, accountVars
<1>7. ASSUME NEW e \in Envelopes, PhoneStep(e)
      PROVE  UNCHANGED holds
  BY <1>7 DEF PhoneStep, PollEnds, Sign, RefuseRecipient, RefuseKeyOrTime, PollSettled, PollResolved,
              PollReads, PollNoDebit, PollNoResolution,
              PollRefused, PollTooEarly, PollFails, PollLate, registryVars, accountVars
<1>8. CASE \/ \E m \in Merchants : MerchantStep(m)
           \/ \E p \in Topups : CreditTopup(p)
           \/ TimePasses \/ UNCHANGED vars
  BY <1>8 DEF MerchantStep, DeactivateMerchant, ReactivateMerchant, CreditTopup, TimePasses,
              Tick, vars, registryVars, accountVars
<1> QED
  BY <1>2, <1>3, <1>4, <1>5, <1>6, <1>7, <1>8 DEF Next, RegistryStep, HandlerStep, AdminStep

\* Payments signed before a recovery take no more from the hold than was held.
THEOREM HoldsSuffice == Spec => []HoldNeverOverdrawn
<1> DEFINE Inv == AccountsInv /\ PaymentTypeOK
<1>1. Init => HoldNeverOverdrawn
  BY DEF Init, RegistryInit, HoldNeverOverdrawn
<1>2. Inv /\ HoldNeverOverdrawn /\ [Next]_vars => HoldNeverOverdrawn'
  <2> SUFFICES ASSUME Inv, HoldNeverOverdrawn, [Next]_vars,
                      NEW r \in Requests, holds'[r] # NoHold
               PROVE  holds'[r].consumed <= holds'[r].held
    BY DEF HoldNeverOverdrawn
  <2> QED
    BY HoldStep DEF HoldNeverOverdrawn
<1>3. TypeOK /\ NamedRowsExist => Inv
  BY DEF AccountsInv, RegistryInv, Capped, TypeOK
<1> QED
  BY <1>1, <1>2, <1>3, SettlementTypes, PTL DEF Spec
-----------------------------------------------------------------------------
(* Settlement implements PaymentLedger.  The ledger rows of a payment are    *)
(* written in one step together with the balances, so that step is Pay; a    *)
(* credited top-up is Credit; every other step is a stutter.                 *)

\* A top-up that is still to be credited has no ledger row.
PendingUncredited ==
  \A p \in Topups : topups[p] = "PENDING" => Row(p, p.user, "CREDIT") \notin ledger

SettledSet  == {e \in Envelopes : Settled(e)}
CreditedSet == {p \in Topups : Row(p, p.user, "CREDIT") \in ledger}

LEMMA SettledIsProcessed ==
  ASSUME PaymentTypeOK, SettledOnce
  PROVE  SettledSet = processed
  BY DEF SettledSet, Settled, SettledOnce, ProcessedHasRows, PaymentTypeOK

\* What is not a settlement or a credit moves no money and writes no row.
LEMMA OtherSteps ==
  ASSUME [Next]_vars,
         ~(\E c \in Calls : Settle(c)), ~(\E p \in Topups : CreditTopup(p))
  PROVE  UNCHANGED <<balance, ledger, topups>>
<1>1. ASSUME NEW c \in Calls, ReconcileStep(c), ~Settle(c)
      PROVE  UNCHANGED <<balance, ledger, topups>>
  BY <1>1 DEF ReconcileStep, BeginReconcile, CheckClaim, RefuseUnfunded, RefuseResolved,
              ExpireLateClaim, CommitReplay, RefuseCommit, Retry, GiveUp, InternalError,
              serverRows, registryVars, accountVars
<1>2. ASSUME NEW e \in Envelopes, PhoneStep(e)
      PROVE  UNCHANGED <<balance, ledger, topups>>
  BY <1>2 DEF PhoneStep, PollEnds, Sign, RefuseRecipient, RefuseKeyOrTime, PollSettled, PollResolved,
              PollReads, PollNoDebit, PollNoResolution, PollRefused, PollTooEarly,
              PollFails, PollLate, serverRows, registryVars, accountVars
<1>3. ASSUME NEW m \in Merchants, MerchantStep(m)
      PROVE  UNCHANGED <<balance, ledger, topups>>
  BY <1>3 DEF MerchantStep, DeactivateMerchant, ReactivateMerchant, registryVars, accountVars
<1>4. CASE RegistryStep
  BY <1>4, HandlersMoveNoMoney DEF RegistryStep, paymentVars, serverRows
<1>5. CASE TimePasses \/ UNCHANGED vars
  BY <1>5 DEF TimePasses, Tick, vars, paymentVars, serverRows, registryVars, accountVars
<1> QED
  BY <1>1, <1>2, <1>3, <1>4, <1>5 DEF Next

LEMMA CreditEffect ==
  ASSUME PaymentTypeOK, NEW p \in Topups, CreditTopup(p)
  PROVE  /\ topups'[p] # "PENDING"
         /\ \A q \in Topups : q # p => topups'[q] = topups[q]
         /\ \A q \in Topups :
              q # p => (Row(q, q.user, "CREDIT") \in ledger' <=> Row(q, q.user, "CREDIT") \in ledger)
         /\ \A e \in Envelopes : Settled(e)' <=> Settled(e)
<1>1. /\ topups'[p] # "PENDING"
      /\ \A q \in Topups : q # p => topups'[q] = topups[q]
  BY DEF CreditTopup, PaymentTypeOK
<1>2. ledger' = ledger \/ ledger' = ledger \cup {Row(p, p.user, "CREDIT")}
  BY DEF CreditTopup
<1>3. \A q \in Topups : q # p => Row(q, q.user, "CREDIT") # Row(p, p.user, "CREDIT")
  BY DEF Row
<1>4. \A e \in Envelopes : /\ DebitRow(e) # Row(p, p.user, "CREDIT")
                           /\ CreditRow(e) # Row(p, p.user, "CREDIT")
  BY SettlementAssumption DEF DebitRow, CreditRow, Row
<1>5. \A e \in Envelopes : Settled(e)' <=> Settled(e)
  BY <1>2, <1>4 DEF Settled, DebitRow, CreditRow, Row
<1> QED
  BY <1>1, <1>2, <1>3, <1>5

LEMMA SettleEffect ==
  ASSUME PaymentTypeOK, SettledOnce, NEW c \in Calls, Settle(c)
  PROVE  /\ calls[c].env \in Envelopes
         /\ SettledSet' = SettledSet \cup {calls[c].env}
         /\ CreditedSet' = CreditedSet
         /\ \A p \in Topups :
              Row(p, p.user, "CREDIT") \in ledger' <=> Row(p, p.user, "CREDIT") \in ledger
<1> DEFINE e == calls[c].env
<1>1. e \in Envelopes
  BY ReconcileCallFields DEF Settle
<1>2. ledger' = ledger \cup {DebitRow(e), CreditRow(e)} /\ processed' = processed \cup {e}
  BY DEF Settle
<1>3. \A f \in Envelopes :
        /\ DebitRow(f) \in {DebitRow(e), CreditRow(e)} <=> f = e
        /\ CreditRow(f) \in {DebitRow(e), CreditRow(e)} <=> f = e
  BY DEF DebitRow, CreditRow, Row
<1>4. \A f \in Envelopes : Settled(f)' <=> (Settled(f) \/ f = e)
  BY <1>1, <1>2, <1>3 DEF Settled, DebitRow, CreditRow, Row, SettledOnce, ProcessedHasRows
<1>5. SettledSet' = SettledSet \cup {e}
  BY <1>1, <1>4 DEF SettledSet
<1>6. \A p \in Topups : Row(p, p.user, "CREDIT") \notin {DebitRow(e), CreditRow(e)}
  BY <1>1, SettlementAssumption DEF DebitRow, CreditRow, Row
<1>7. \A p \in Topups :
        Row(p, p.user, "CREDIT") \in ledger' <=> Row(p, p.user, "CREDIT") \in ledger
  BY <1>2, <1>6
<1> QED
  BY <1>1, <1>5, <1>7 DEF CreditedSet, Row

LEMMA PendingUncreditedStep ==
  ASSUME PaymentTypeOK, SettledOnce, PendingUncredited, [Next]_vars
  PROVE  PendingUncredited'
<1>1. CASE \E c \in Calls : Settle(c)
  <2>1. PICK c \in Calls : Settle(c)
    BY <1>1
  <2>2. UNCHANGED topups
    BY <2>1 DEF Settle
  <2> QED
    BY <2>1, <2>2, SettleEffect DEF PendingUncredited, Row
<1>2. CASE \E p \in Topups : CreditTopup(p)
  BY <1>2, CreditEffect DEF PendingUncredited, Row
<1>3. CASE ~(\E c \in Calls : Settle(c)) /\ ~(\E p \in Topups : CreditTopup(p))
  BY <1>3, OtherSteps DEF PendingUncredited, Row
<1> QED
  BY <1>1, <1>2, <1>3

LEMMA LedgerSteps ==
  ASSUME PaymentTypeOK, SettledOnce, PendingUncredited, [Next]_vars
  PROVE  [Ledger!LedgerNext]_(Ledger!ledgerVars)
<1>1. ASSUME NEW c \in Calls, Settle(c)
      PROVE  Ledger!LedgerNext
  <2> DEFINE e == calls[c].env
  <2>1. /\ e \in Envelopes
        /\ SettledSet' = SettledSet \cup {e}
        /\ CreditedSet' = CreditedSet
    BY <1>1, SettleEffect
  <2>2. ~Ledger!NumberUsed(e)
    <3>1. SequenceOwner(e) = {}
      BY <1>1 DEF Settle
    <3> QED
      BY <3>1, SettledIsProcessed DEF Ledger!NumberUsed, SequenceOwner, SettledSet
  <2>3. Ledger!Fundable(e) /\ Ledger!Fits(e)
    <3>1. balance[e.sender] >= e.amount /\ balance[e.to] + e.amount <= MaxBalance
      BY <1>1 DEF Settle, Funded, Payable
    <3> QED
      BY <3>1 DEF Ledger!Fundable, Ledger!Fits
  <2>4. balance' = [balance EXCEPT ![e.sender] = @ - e.amount, ![e.to] = @ + e.amount]
    BY <1>1 DEF Settle, Transfer
  <2>5. Ledger!Pay(e)
    BY <2>1, <2>2, <2>3, <2>4 DEF Ledger!Pay, SettledSet, CreditedSet
  <2> QED
    BY <2>1, <2>5 DEF Ledger!LedgerNext
<1>2. ASSUME NEW p \in Topups, CreditTopup(p)
      PROVE  Ledger!LedgerNext \/ UNCHANGED Ledger!ledgerVars
  <2>1. SettledSet' = SettledSet
    BY <1>2, CreditEffect DEF SettledSet
  <2>2. CASE /\ balance[p.user] + p.amount <= MaxBalance
             /\ balance' = [balance EXCEPT ![p.user] = @ + p.amount]
             /\ ledger' = ledger \cup {Row(p, p.user, "CREDIT")}
    <3>1. p \notin CreditedSet
      BY <1>2 DEF CreditTopup, PendingUncredited, CreditedSet
    <3>2. \A q \in Topups : q # p => Row(q, q.user, "CREDIT") # Row(p, p.user, "CREDIT")
      BY DEF Row
    <3>3. CreditedSet' = CreditedSet \cup {p}
      BY <2>2, <3>2 DEF CreditedSet, Row
    <3>4. Ledger!Credit(p)
      BY <2>1, <2>2, <3>1, <3>3 DEF Ledger!Credit, SettledSet, CreditedSet
    <3> QED
      BY <3>4 DEF Ledger!LedgerNext
  <2>3. CASE UNCHANGED <<balance, ledger>>
    BY <2>1, <2>3 DEF Ledger!ledgerVars, SettledSet, Row
  <2> QED
    BY <1>2, <2>2, <2>3 DEF CreditTopup
<1>3. CASE ~(\E c \in Calls : Settle(c)) /\ ~(\E p \in Topups : CreditTopup(p))
  <2>1. UNCHANGED <<balance, ledger>>
    BY <1>3, OtherSteps
  <2> QED
    BY <2>1 DEF Ledger!ledgerVars, Settled, DebitRow, CreditRow, Row
<1> QED
  BY <1>1, <1>2, <1>3

\* Whatever phones, retries, polls, key moves and recoveries do, the balances,
\* the settled payments and the credited top-ups change as those of
\* PaymentLedger: a payment is one transfer, made once, within balance and cap.
THEOREM ImplementsPaymentLedger == Spec => IsPaymentLedger
<1>1. Init => Ledger!LedgerInit /\ PendingUncredited
  <2> SUFFICES ASSUME Init
               PROVE  Ledger!LedgerInit /\ PendingUncredited
    OBVIOUS
  <2>1. ledger = {} /\ balance = InitialBalance
    BY DEF Init, RegistryInit
  <2> QED
    BY <2>1 DEF Ledger!LedgerInit, PendingUncredited, Settled
<1>2. TypeOK /\ SettledOnce /\ PendingUncredited /\ [Next]_vars => PendingUncredited'
  BY PendingUncreditedStep DEF TypeOK
<1>3. TypeOK /\ SettledOnce /\ PendingUncredited /\ [Next]_vars
        => [Ledger!LedgerNext]_(Ledger!ledgerVars)
  BY LedgerSteps DEF TypeOK
<1> QED
  BY <1>1, <1>2, <1>3, SettlementTypes, PaysOnce, PTL
     DEF Spec, IsPaymentLedger, Ledger!LedgerSpec

-----------------------------------------------------------------------------
(* The key registry among payments.  Settlement composes it with handlers    *)
(* that read the key tables; of the rows of the registry they change only    *)
(* what a hold has left.                                                     *)

\* What a step that is neither a handler of the registry nor the clock leaves.
LEMMA PaymentsLeaveKeys ==
  ASSUME AccountsInv, PaymentTypeOK, [Next]_vars, ~RegistryStep, ~TimePasses
  PROVE  /\ UNCHANGED <<keys, mirror, requests>>
         /\ \A r \in Requests : /\ holds'[r] = NoHold <=> holds[r] = NoHold
                                /\ holds[r] # NoHold => holds'[r].old = holds[r].old
<1> DEFINE Left == /\ UNCHANGED <<keys, mirror, requests>>
                   /\ \A r \in Requests :
                        /\ holds'[r] = NoHold <=> holds[r] = NoHold
                        /\ holds[r] # NoHold => holds'[r].old = holds[r].old
<1>1. ASSUME NEW c \in Calls, Settle(c)
      PROVE  Left
  <2>1. UNCHANGED <<keys, mirror, requests>>
    BY <1>1 DEF Settle
  <2>2. calls[c].env \in Envelopes
    BY <1>1, ReconcileCallFields DEF Settle
  <2>3. CASE UNCHANGED holds
    BY <2>1, <2>3
  <2>4. ASSUME NEW q \in Requests, FundedByHold(calls[c], q),
               holds' = [holds EXCEPT ![q].consumed = @ + calls[c].env.amount]
        PROVE  Left
    <3>1. holds \in [Requests -> HoldRow \cup {NoHold}]
      BY DEF AccountsInv, RegistryInv, RegistryTypeOK, AccountsTypeOK
    <3>2. holds[q] \in HoldRow /\ holds[q].consumed + calls[c].env.amount \in Nat
      BY <2>2, <2>4, DrawFromHold DEF AccountsInv, RegistryInv
    <3>3. holds'[q] = [holds[q] EXCEPT !.consumed = @ + calls[c].env.amount]
      BY <2>4, <3>1
    <3>4. holds'[q] \in HoldRow /\ holds'[q].old = holds[q].old
      BY <3>2, <3>3 DEF HoldRow
    <3>5. holds'[q] # NoHold /\ holds[q] # NoHold
      BY <3>2, <3>4 DEF HoldRow, NoHold
    <3>6. \A r \in Requests : r # q => holds'[r] = holds[r]
      BY <2>4, <3>1
    <3> QED
      BY <2>1, <3>4, <3>5, <3>6
  <2> QED
    BY <1>1, <2>3, <2>4 DEF Settle, Draw
<1>2. ASSUME NEW c \in Calls, ReconcileStep(c), ~Settle(c)
      PROVE  UNCHANGED <<keys, mirror, requests, holds>>
  BY <1>2 DEF ReconcileStep, BeginReconcile, CheckClaim, RefuseUnfunded, RefuseResolved,
              ExpireLateClaim, CommitReplay, RefuseCommit, Retry, GiveUp, InternalError,
              registryVars, accountVars
<1>3. ASSUME NEW e \in Envelopes, PhoneStep(e)
      PROVE  UNCHANGED <<keys, mirror, requests, holds>>
  BY <1>3 DEF PhoneStep, PollEnds, Sign, RefuseRecipient, RefuseKeyOrTime, PollSettled, PollResolved,
              PollReads, PollNoDebit, PollNoResolution, PollRefused, PollTooEarly,
              PollFails, PollLate, registryVars, accountVars
<1>4. CASE \/ \E m \in Merchants : MerchantStep(m)
           \/ \E p \in Topups : CreditTopup(p)
           \/ UNCHANGED vars
  BY <1>4 DEF MerchantStep, DeactivateMerchant, ReactivateMerchant, CreditTopup, vars,
              registryVars, accountVars
<1> QED
  BY <1>1, <1>2, <1>3, <1>4 DEF Next

\* What a step that is neither a handler of the registry nor the clock leaves of
\* the calls of the registry.
LEMMA PaymentsLeaveRegistry ==
  ASSUME AccountsInv, PaymentTypeOK, [Next]_vars, ~RegistryStep, ~TimePasses
  PROVE  UNCHANGED <<now, keys, keyCalls>>
<1>1. ASSUME NEW c \in Calls, ReconcileStep(c)
      PROVE  UNCHANGED <<now, keys, keyCalls>>
  BY <1>1 DEF ReconcileStep, BeginReconcile, CheckClaim, RefuseUnfunded, RefuseResolved,
              ExpireLateClaim, CommitReplay, Settle, RefuseCommit, Retry, GiveUp, InternalError,
              registryVars, accountVars
<1>2. ASSUME NEW e \in Envelopes, PhoneStep(e)
      PROVE  UNCHANGED <<now, keys, keyCalls>>
  BY <1>2 DEF PhoneStep, PollEnds, Sign, RefuseRecipient, RefuseKeyOrTime, PollSettled, PollResolved,
              PollReads, PollNoDebit, PollNoResolution, PollRefused, PollTooEarly,
              PollFails, PollLate, registryVars, accountVars
<1>3. CASE \/ \E m \in Merchants : MerchantStep(m)
           \/ \E p \in Topups : CreditTopup(p)
           \/ UNCHANGED vars
  BY <1>3 DEF MerchantStep, DeactivateMerchant, ReactivateMerchant, CreditTopup, vars,
              registryVars, accountVars
<1> QED
  BY <1>1, <1>2, <1>3 DEF Next


\* What is proved of the registry alone stays true among payments: one trusted
\* key per user, stolen keys stopped, holds only behind keys that were retired.
THEOREM KeysHoldAmongPayments ==
  Spec => /\ [](OneActiveKey /\ MirrorNamesActiveKey /\ HoldFollowsApproval)
          /\ StolenKeyStopped
<1> DEFINE KeyInv == /\ OneActiveKey /\ MirrorNamesActiveKey
                     /\ StolenKeyRetired /\ HoldFollowsApproval
           Stands == \A k \in Keys : (ReportedStolen(k) /\ ~BeingRetired(k))
                       => keys'[k] = keys[k] /\ ~BeingRetired(k)'
<1>1. Init => KeyInv
  BY TrustedKeyInit DEF Init, RegistryInit, StolenKeyRetired, ReportedStolen, HoldFollowsApproval
<1>2. TypeOK /\ NamedRowsExist /\ KeyInv /\ [Next]_vars => KeyInv'
  <2> SUFFICES ASSUME TypeOK, NamedRowsExist, KeyInv, [Next]_vars
               PROVE  KeyInv'
    OBVIOUS
  <2>1. RegistryInv /\ AccountsInv /\ PaymentTypeOK
    BY DEF TypeOK, RegistryInv, AccountsInv, Capped
  <2>2. CASE RegistryStep
    BY <2>1, <2>2, TrustedKeyStep, StolenKeyStep, HoldFollowsStep DEF RegistryStep
  <2>3. CASE TimePasses
    <3>1. StolenKeyRetired'
      BY <2>1, <2>3, ClockStolen DEF TimePasses, RegistryInv
    <3> QED
      BY <2>3, <3>1 DEF TimePasses, Tick, OneActiveKey, MirrorNamesActiveKey, HoldFollowsApproval
  <2>4. CASE ~RegistryStep /\ ~TimePasses
    <3>1. OneActiveKey' /\ MirrorNamesActiveKey'
      BY <2>1, <2>4, PaymentsLeaveKeys DEF OneActiveKey, MirrorNamesActiveKey
    <3>2. StolenKeyRetired'
      BY <2>1, <2>4, PaymentsLeaveKeys, PaymentsLeaveRegistry DEF StolenKeyRetired, ReportedStolen
    <3>3. HoldFollowsApproval'
      BY <2>1, <2>4, PaymentsLeaveKeys DEF HoldFollowsApproval
    <3> QED
      BY <3>1, <3>2, <3>3
  <2> QED
    BY <2>2, <2>3, <2>4
<1>3. TypeOK /\ NamedRowsExist /\ KeyInv /\ [Next]_vars => [Stands]_registryVars
  <2> SUFFICES ASSUME TypeOK, NamedRowsExist, KeyInv, [Next]_vars,
                      NEW k \in Keys, ReportedStolen(k), ~BeingRetired(k)
               PROVE  keys'[k] = keys[k] /\ ~BeingRetired(k)'
    OBVIOUS
  <2>1. RegistryInv /\ AccountsInv /\ PaymentTypeOK
    BY DEF TypeOK, RegistryInv, AccountsInv, Capped
  <2>2. CASE RegistryStep
    BY <2>1, <2>2, StolenRowStays DEF RegistryStep, BeingRetired
  <2>3. CASE ~RegistryStep
    <3>1. UNCHANGED <<keys, keyCalls>>
      BY <2>1, <2>3, PaymentsLeaveRegistry DEF TimePasses, Tick
    <3> QED
      BY <3>1 DEF BeingRetired
  <2> QED
    BY <2>2, <2>3
<1> QED
  BY <1>1, <1>2, <1>3, SettlementTypes, PTL DEF Spec, StolenKeyStopped
-----------------------------------------------------------------------------
(* What a hold reserves.  A payment from the current key leaves what the one *)
(* running hold has left, and a payment of the old phone takes as much from  *)
(* the hold as from the balance.                                             *)

\* The amount one running hold sets aside is what is left of it.
LEMMA OneHold ==
  ASSUME RegistryTypeOK, NEW u \in Students, NEW r \in Requests,
         ActiveHolds(u, now) = {r}
  PROVE  HeldBalance(u, now) = Remaining(r) /\ Remaining(r) \in Nat
<1>1. holds[r] \in HoldRow
  BY DEF ActiveHolds, RegistryTypeOK, AccountsTypeOK
<1>2. Remaining(r) \in Nat
  BY <1>1 DEF HoldRow, Remaining
<1> DEFINE amounts == [q \in ActiveHolds(u, now) |-> Remaining(q)]
<1>3. DOMAIN amounts = {r} /\ amounts[r] = Remaining(r)
  OBVIOUS
<1> HIDE DEF amounts
<1>4. SumFunction(amounts) = Remaining(r)
  BY <1>2, <1>3, TotalOne
<1> QED
  BY <1>2, <1>4 DEF HeldBalance, amounts

LEMMA HoldFields ==
  ASSUME RegistryTypeOK, NEW r \in Requests, holds[r] # NoHold
  PROVE  /\ holds[r] \in HoldRow
         /\ holds[r].held \in Nat /\ holds[r].consumed \in Nat
  BY DEF RegistryTypeOK, AccountsTypeOK, HoldRow

\* The balance still covers the hold r, whatever another user's holds are.
Backed(u, r) == Remaining(r) <= balance[u]

\* An approval holds no more than there is; it adds no money to another hold.
LEMMA ApprovalBacks ==
  ASSUME AccountsInv, HoldFollowsApproval, NEW u \in Students, NEW r \in Requests,
         HoldsOf(u) = {r} => (r \in ActiveHolds(u, now) => Backed(u, r)),
         NEW q \in Requests, Approve(q),
         HoldsOf(u)' = {r}, (r \in ActiveHolds(u, now))'
  PROVE  Backed(u, r)'
<1>1. /\ holds \in [Requests -> HoldRow \cup {NoHold}]
      /\ holds' = [holds EXCEPT ![q] = HoldOnApproval(q)]
      /\ UNCHANGED <<now, balance>> /\ balance[u] \in Nat
  BY DEF Approve, AccountsInv, RegistryInv, RegistryTypeOK, AccountsTypeOK, Users
<1>2. holds[q] = NoHold
  BY DEF Approve, HoldFollowsApproval
<1>3. CASE q = r
  <2>1. holds'[r] = HoldOnApproval(r)
    BY <1>1, <1>3
  <2>2. holds'[r] # NoHold /\ KeyOwner[holds'[r].old] = u
    BY DEF ActiveHolds
  <2>3. /\ holds'[r].held = balance[KeyOwner[requests[r].old]]
        /\ holds'[r].consumed = 0
        /\ holds'[r].old = requests[r].old
    BY <2>1, <2>2 DEF HoldOnApproval
  <2>4. holds'[r].held = balance[u]
    BY <2>2, <2>3
  <2> QED
    BY <1>1, <2>3, <2>4 DEF Backed, Remaining
<1>4. CASE q # r
  <2>1. holds'[r] = holds[r]
    BY <1>1, <1>4
  <2>2. r \in ActiveHolds(u, now)
    BY <1>1, <2>1 DEF ActiveHolds, Remaining
  <2>3. HoldsOf(u) = {r}
    <3>1. HoldsOf(u) \subseteq HoldsOf(u)'
      BY <1>1, <1>2 DEF HoldsOf
    <3>2. r \in HoldsOf(u)
      BY <2>2 DEF HoldsOf, ActiveHolds
    <3> QED
      BY <3>1, <3>2
  <2> QED
    BY <1>1, <2>1, <2>2, <2>3 DEF Backed, Remaining
<1> QED
  BY <1>3, <1>4

\* A payment of another student leaves the hold and the balance; a payment of
\* this one is made from what the hold does not reserve, or from the hold.
LEMMA PaymentBacks ==
  ASSUME AccountsInv, PaymentTypeOK, NEW u \in Students, NEW r \in Requests,
         HoldsOf(u) = {r} => (r \in ActiveHolds(u, now) => Backed(u, r)),
         NEW c \in Calls, Settle(c),
         HoldsOf(u)' = {r}, (r \in ActiveHolds(u, now))'
  PROVE  Backed(u, r)'
<1> DEFINE e == calls[c].env
<1>1. /\ e \in Envelopes /\ e.sender \in Students /\ e.to \in Merchants
      /\ e.key \in Keys /\ KeyOwner[e.key] = e.sender
      /\ e.amount \in Nat /\ e.amount > 0
  BY ReconcileCallFields, EnvelopeFields, SettlementAssumption DEF Settle
<1>2. /\ RegistryTypeOK
      /\ holds \in [Requests -> HoldRow \cup {NoHold}]
      /\ balance \in [Users -> Nat] /\ balance[u] \in Nat
  BY DEF AccountsInv, RegistryInv, RegistryTypeOK, AccountsTypeOK, Users
<1>3. /\ now' = now
      /\ balance' = [balance EXCEPT ![e.sender] = @ - e.amount, ![e.to] = @ + e.amount]
      /\ balance[e.sender] >= e.amount
  BY DEF Settle, Transfer, Funded
<1>4. u # e.to /\ e.sender # e.to /\ u \in Users
  BY <1>1, AccountsAssumption DEF Users
<1>5. balance'[u] = IF u = e.sender THEN balance[u] - e.amount ELSE balance[u]
  BY <1>2, <1>3, <1>4
<1>6. CASE UNCHANGED holds
  <2>1. HoldsOf(u) = {r} /\ r \in ActiveHolds(u, now) /\ Remaining(r)' = Remaining(r)
    BY <1>3, <1>6 DEF HoldsOf, ActiveHolds, Remaining
  <2>2. Backed(u, r)
    BY <2>1
  <2>3. CASE u # e.sender
    BY <1>5, <2>1, <2>2, <2>3 DEF Backed
  <2>4. CASE u = e.sender /\ calls[c].active
    <3>1. ActiveHolds(u, now) = {r}
      BY <2>1 DEF HoldsOf, ActiveHolds
    <3>2. HeldBalance(u, now) = Remaining(r) /\ Remaining(r) \in Nat
      BY <1>2, <3>1, OneHold
    <3>3. Available(u, now) >= e.amount
      BY <2>4 DEF Settle, Funded, FundedByAccount, FundedByHold
    <3>4. balance[u] - Remaining(r) >= e.amount
      BY <1>1, <1>2, <3>2, <3>3 DEF Available
    <3> QED
      BY <1>1, <1>2, <1>5, <2>1, <2>4, <3>2, <3>4 DEF Backed
  <2>5. CASE u = e.sender /\ ~calls[c].active
    <3>1. PICK q \in Requests : /\ FundedByHold(calls[c], q)
                                /\ holds' = [holds EXCEPT ![q].consumed = @ + e.amount]
      BY <2>5 DEF Settle, Draw
    <3>2. /\ holds[q] \in HoldRow /\ holds[q].consumed \in Nat
          /\ holds'[q].consumed = holds[q].consumed + e.amount
      BY <1>1, <1>2, <3>1, DrawFromHold DEF HoldRow
    <3> QED
      BY <1>1, <1>6, <3>2
  <2> QED
    BY <2>3, <2>4, <2>5
<1>7. ASSUME NEW q \in Requests, FundedByHold(calls[c], q),
             holds' = [holds EXCEPT ![q].consumed = @ + e.amount]
      PROVE  Backed(u, r)'
  <2>1. /\ holds[q] \in HoldRow
        /\ holds[q].consumed + e.amount \in Nat
        /\ holds[q].consumed + e.amount <= holds[q].held
        /\ q \in ActiveHolds(e.sender, now)
    BY <1>1, <1>2, <1>7, DrawFromHold DEF FundedByHold, OldestHolds
  <2>2. holds[q].held \in Nat /\ holds[q].consumed \in Nat
    BY <2>1 DEF HoldRow
  <2>3. /\ holds'[q] = [holds[q] EXCEPT !.consumed = @ + e.amount]
        /\ \A p \in Requests : p # q => holds'[p] = holds[p]
    BY <1>2, <1>7
  <2>4. /\ holds'[q] \in HoldRow
        /\ holds'[q].old = holds[q].old /\ holds'[q].until = holds[q].until
        /\ holds'[q].held = holds[q].held
        /\ holds'[q].consumed = holds[q].consumed + e.amount
    BY <2>1, <2>3 DEF HoldRow
  <2>5. holds'[q] # NoHold /\ holds[q] # NoHold
    BY <2>1, <2>4 DEF HoldRow, NoHold
  <2>6. HoldsOf(u) = {r}
    BY <2>3, <2>4, <2>5 DEF HoldsOf
  <2>7. CASE q = r
    <3>1. u = e.sender
      BY <2>1, <2>6, <2>7 DEF HoldsOf, ActiveHolds
    <3>2. r \in ActiveHolds(u, now) /\ Backed(u, r)
      BY <2>1, <2>6, <2>7, <3>1
    <3>3. /\ Remaining(r)' = holds[r].held - (holds[r].consumed + e.amount)
          /\ Remaining(r) = holds[r].held - holds[r].consumed
      BY <1>1, <2>1, <2>2, <2>4, <2>7 DEF Remaining
    <3> QED
      BY <1>1, <1>2, <1>5, <2>2, <2>7, <3>1, <3>2, <3>3 DEF Backed
  <2>8. CASE q # r
    <3>1. u # e.sender
      BY <2>1, <2>6, <2>8 DEF HoldsOf, ActiveHolds
    <3>2. holds'[r] = holds[r]
      BY <2>3, <2>8
    <3>3. r \in ActiveHolds(u, now)
      BY <1>3, <3>2 DEF ActiveHolds, Remaining
    <3> QED
      BY <1>5, <2>6, <3>1, <3>2, <3>3 DEF Backed, Remaining
  <2> QED
    BY <2>7, <2>8
<1> QED
  BY <1>6, <1>7 DEF Settle, Draw

LEMMA CreditBacks ==
  ASSUME AccountsInv, NEW u \in Students, NEW r \in Requests,
         HoldsOf(u) = {r} => (r \in ActiveHolds(u, now) => Backed(u, r)),
         NEW p \in Topups, CreditTopup(p),
         HoldsOf(u)' = {r}, (r \in ActiveHolds(u, now))'
  PROVE  Backed(u, r)'
<1>1. p.user \in Users /\ p.amount \in Nat /\ u \in Users
  BY SettlementAssumption DEF Users
<1>2. RegistryTypeOK /\ balance \in [Users -> Nat] /\ UNCHANGED <<now, holds>>
  BY DEF CreditTopup, AccountsInv, RegistryInv, RegistryTypeOK, AccountsTypeOK
<1>3. balance' = balance \/ balance' = [balance EXCEPT ![p.user] = @ + p.amount]
  BY DEF CreditTopup
<1>4. balance[u] \in Nat /\ balance'[u] \in Nat /\ balance'[u] >= balance[u]
  BY <1>1, <1>2, <1>3
<1>5. HoldsOf(u) = {r} /\ r \in ActiveHolds(u, now) /\ Remaining(r)' = Remaining(r)
  BY <1>2 DEF HoldsOf, ActiveHolds, Remaining
<1>6. Remaining(r) \in Nat
  BY <1>2, <1>5, HoldFields DEF ActiveHolds, Remaining
<1> QED
  BY <1>4, <1>5, <1>6 DEF Backed

\* What is neither of these leaves the holds and the balances, and the clock
\* only ends holds.
LEMMA QuietBacks ==
  ASSUME [Next]_vars, ~(\E q \in Requests : Approve(q)),
         ~(\E c \in Calls : Settle(c)), ~(\E p \in Topups : CreditTopup(p))
  PROVE  UNCHANGED <<holds, balance>> /\ (now' = now \/ TimePasses)
<1>1. ASSUME NEW c \in Calls, ReconcileStep(c), ~Settle(c)
      PROVE  UNCHANGED <<holds, now>>
  BY <1>1 DEF ReconcileStep, BeginReconcile, CheckClaim, RefuseUnfunded, RefuseResolved,
              ExpireLateClaim, CommitReplay, RefuseCommit, Retry, GiveUp, InternalError,
              registryVars, accountVars
<1>2. ASSUME NEW e \in Envelopes, PhoneStep(e)
      PROVE  UNCHANGED <<holds, now>>
  BY <1>2 DEF PhoneStep, PollEnds, Sign, RefuseRecipient, RefuseKeyOrTime, PollSettled, PollResolved,
              PollReads, PollNoDebit, PollNoResolution, PollRefused, PollTooEarly,
              PollFails, PollLate, registryVars, accountVars
<1>3. ASSUME NEW m \in Merchants, MerchantStep(m)
      PROVE  UNCHANGED <<holds, now>>
  BY <1>3 DEF MerchantStep, DeactivateMerchant, ReactivateMerchant, registryVars, accountVars
<1>4. ASSUME NEW c \in KeyCalls, KeyStep(c)
      PROVE  UNCHANGED <<holds, now>>
  BY <1>4 DEF KeyStep, FirstKeyRead, RotationRead, ReportRead, CancelRead, FirstKeyCommit,
              RotationCommit, ReportCommit, CancelCommit, accountVars
<1>5. ASSUME NEW q \in Requests, Reject(q)
      PROVE  UNCHANGED <<holds, now>>
  BY <1>5 DEF Reject
<1>6. CASE RegistryStep
  BY <1>4, <1>5, <1>6, OtherSteps DEF RegistryStep, HandlerStep, AdminStep
<1>7. CASE TimePasses
  BY <1>7, OtherSteps DEF TimePasses, Tick
<1>8. CASE UNCHANGED vars
  BY <1>8 DEF vars, registryVars, accountVars
<1> QED
  BY <1>1, <1>2, <1>3, <1>6, <1>7, <1>8, OtherSteps DEF Next

LEMMA BackedStep ==
  ASSUME AccountsInv, PaymentTypeOK, HoldFollowsApproval, HoldBacked, [Next]_vars
  PROVE  HoldBacked'
<1> SUFFICES ASSUME NEW u \in Students, NEW r \in Requests,
                    HoldsOf(u)' = {r}, (r \in ActiveHolds(u, now))'
             PROVE  Backed(u, r)'
  BY DEF HoldBacked, Backed
<1>1. HoldsOf(u) = {r} => (r \in ActiveHolds(u, now) => Backed(u, r))
  BY DEF HoldBacked, Backed
<1>2. CASE \E q \in Requests : Approve(q)
  BY <1>1, <1>2, ApprovalBacks
<1>3. CASE \E c \in Calls : Settle(c)
  BY <1>1, <1>3, PaymentBacks
<1>4. CASE \E p \in Topups : CreditTopup(p)
  BY <1>1, <1>4, CreditBacks
<1>5. CASE ~(\E q \in Requests : Approve(q)) /\ ~(\E c \in Calls : Settle(c))
             /\ ~(\E p \in Topups : CreditTopup(p))
  <2>1. UNCHANGED <<holds, balance>> /\ (now' = now \/ TimePasses)
    BY <1>5, QuietBacks
  <2>2. now \in Time /\ now' >= now
    BY <2>1 DEF TimePasses, Tick, AccountsInv, RegistryInv, RegistryTypeOK, AccountsTypeOK, Time
  <2>3. holds[r] # NoHold /\ KeyOwner[holds[r].old] = u /\ Remaining(r) > 0
        /\ holds[r].until > now'
    BY <2>1 DEF ActiveHolds, Remaining
  <2>4. holds[r].until \in Int
    BY <2>3 DEF AccountsInv, RegistryInv, RegistryTypeOK, AccountsTypeOK, HoldRow
  <2>5. now \in Int /\ now' \in Int
    BY <2>1, <2>2 DEF TimePasses, Tick, Time
  <2>6. holds[r].until > now
    BY <2>2, <2>3, <2>4, <2>5
  <2>7. HoldsOf(u) = {r} /\ r \in ActiveHolds(u, now)
    BY <2>1, <2>3, <2>6 DEF HoldsOf, ActiveHolds
  <2> QED
    BY <1>1, <2>1, <2>7 DEF Backed, Remaining
<1> QED
  BY <1>2, <1>3, <1>4, <1>5

\* While a user has one hold and it runs, the balance covers what is left of
\* it, whatever the new key, old payments and other recoveries spend: what
\* RecoveryBalanceService reserves is there when the old payment comes.
THEOREM HeldMoneyIsThere == Spec => []HoldBacked
<1>1. Init => HoldBacked
  BY DEF Init, RegistryInit, HoldBacked, ActiveHolds
<1>2. TypeOK /\ NamedRowsExist /\ HoldFollowsApproval /\ HoldBacked /\ [Next]_vars => HoldBacked'
  BY BackedStep DEF TypeOK, AccountsInv, RegistryInv, Capped
<1> QED
  BY <1>1, <1>2, SettlementTypes, KeysHoldAmongPayments, PTL DEF Spec
-----------------------------------------------------------------------------
(* The balances and the rows of the ledger.  A row that is written is new: a *)
(* payment that was not processed has neither of its rows, and a top-up that *)
(* is pending has none.                                                      *)

LedgerRows == [tx : Envelopes \cup Topups, user : Users, type : {"DEBIT", "CREDIT"}]

AmountOf(rows) == SumFunction([r \in rows |-> r.tx.amount])

\* What the rows of user u and type t are worth, of all those in rows.
Share(rows, u, t) == AmountOf({r \in rows : r.user = u /\ r.type = t})

LEMMA RowAmount ==
  ASSUME NEW r \in LedgerRows
  PROVE  r.tx.amount \in Int
BY SettlementAssumption DEF LedgerRows

LEMMA AmountWith ==
  ASSUME NEW rows \in SUBSET LedgerRows, IsFiniteSet(rows), NEW r \in LedgerRows, r \notin rows
  PROVE  AmountOf(rows \cup {r}) = AmountOf(rows) + r.tx.amount
<1> DEFINE f == [q \in rows |-> q.tx.amount]
           h == [q \in rows \cup {r} |-> q.tx.amount]
<1>1. f \in [rows -> Int] /\ h \in [rows \cup {r} -> Int]
  BY RowAmount
<1>2. h[r] = r.tx.amount /\ \A q \in rows : h[q] = f[q]
  OBVIOUS
<1>3. AmountOf(rows \cup {r}) = SumFunction(h) /\ AmountOf(rows) = SumFunction(f)
  BY DEF AmountOf
<1>4. SumFunction(h) = SumFunction(f) + h[r]
  <2> HIDE DEF f, h
  <2> QED
    BY <1>1, <1>2, TotalAdd
<1> QED
  BY <1>2, <1>3, <1>4, Zenon

LEMMA ShareType ==
  ASSUME NEW rows \in SUBSET LedgerRows, IsFiniteSet(rows), NEW u, NEW t
  PROVE  Share(rows, u, t) \in Int
<1> DEFINE own == {r \in rows : r.user = u /\ r.type = t}
           f == [r \in own |-> r.tx.amount]
<1>1. own \in SUBSET LedgerRows /\ IsFiniteSet(own)
  BY FS_Subset
<1>2. f \in [own -> Int]
  BY <1>1, RowAmount
<1>3. Share(rows, u, t) = SumFunction(f)
  BY DEF Share, AmountOf
<1> HIDE DEF own, f
<1> QED
  BY <1>1, <1>2, <1>3, TotalIsInt

\* A new row counts for its own user and type, and for nobody else.
LEMMA NewRow ==
  ASSUME NEW rows \in SUBSET LedgerRows, IsFiniteSet(rows), NEW r \in LedgerRows, r \notin rows,
         NEW u, NEW t
  PROVE  Share(rows \cup {r}, u, t) =
           Share(rows, u, t) + IF r.user = u /\ r.type = t THEN r.tx.amount ELSE 0
<1> DEFINE own == {q \in rows : q.user = u /\ q.type = t}
           new == {q \in rows \cup {r} : q.user = u /\ q.type = t}
<1>1. own \in SUBSET LedgerRows /\ IsFiniteSet(own) /\ r \notin own
  BY FS_Subset
<1>2. Share(rows \cup {r}, u, t) = AmountOf(new) /\ Share(rows, u, t) = AmountOf(own)
  BY DEF Share
<1>3. CASE r.user = u /\ r.type = t
  <2>1. new = own \cup {r}
    BY <1>3
  <2> HIDE DEF own, new
  <2> QED
    BY <1>1, <1>2, <1>3, <2>1, AmountWith
<1>4. CASE ~(r.user = u /\ r.type = t)
  <2>1. new = own
    BY <1>4
  <2>2. Share(rows \cup {r}, u, t) = Share(rows, u, t)
    BY <1>2, <2>1
  <2>3. Share(rows, u, t) \in Int
    BY ShareType
  <2> QED
    BY <1>4, <2>2, <2>3
<1> QED
  BY <1>3, <1>4

\* Sums are of finite sets, and the rows that were ever written are finitely many.
BooksInv == IsFiniteSet(ledger) /\ PendingUncredited /\ BalancesFollowRows

LEMMA PaymentBooked ==
  ASSUME AccountsInv, PaymentTypeOK, SettledOnce, BooksInv, NEW c \in Calls, Settle(c)
  PROVE  IsFiniteSet(ledger') /\ BalancesFollowRows'
<1> DEFINE e == calls[c].env
           half == ledger \cup {DebitRow(e)}
<1>1. /\ e \in Envelopes /\ e.sender \in Users /\ e.to \in Users /\ e.sender # e.to
      /\ e.amount \in Int
  BY ReconcileCallFields, EnvelopeFields DEF Settle
<1>2. /\ DebitRow(e) \in LedgerRows /\ CreditRow(e) \in LedgerRows
      /\ ledger \in SUBSET LedgerRows /\ half \in SUBSET LedgerRows
  BY <1>1 DEF DebitRow, CreditRow, Row, LedgerRows, PaymentTypeOK
<1>3. DebitRow(e) \notin ledger /\ CreditRow(e) \notin half
  <2>1. e \notin processed
    BY <1>1 DEF Settle, SequenceOwner
  <2>2. CreditRow(e) # DebitRow(e)
    BY DEF DebitRow, CreditRow, Row
  <2> QED
    BY <1>1, <2>1, <2>2 DEF SettledOnce, ProcessedHasRows
<1>4. ledger' = half \cup {CreditRow(e)} /\ balance' = Transfer(e)
  BY DEF Settle
<1>5. IsFiniteSet(ledger) /\ IsFiniteSet(half) /\ IsFiniteSet(ledger')
  BY <1>4, FS_AddElement DEF BooksInv
<1>6. ASSUME NEW u \in Users
      PROVE  balance'[u] = InitialBalance[u] + EntrySum(u, "CREDIT")' - EntrySum(u, "DEBIT")'
  <2> DEFINE before(t) == Share(ledger, u, t)
             in  == IF e.to = u THEN e.amount ELSE 0
             out == IF e.sender = u THEN e.amount ELSE 0
  <2>1. Share(half, u, "DEBIT") = before("DEBIT") + out /\ Share(half, u, "CREDIT") = before("CREDIT")
    <3>1. /\ DebitRow(e).user = e.sender /\ DebitRow(e).type = "DEBIT" /\ DebitRow(e).tx = e
      BY DEF DebitRow, Row
    <3>2. before("DEBIT") \in Int /\ before("CREDIT") \in Int
      BY <1>2, <1>5, ShareType
    <3>3. /\ Share(half, u, "DEBIT") = before("DEBIT") + out
          /\ Share(half, u, "CREDIT") = before("CREDIT") + 0
      BY <1>2, <1>3, <1>5, <3>1, NewRow
    <3> QED
      BY <3>2, <3>3
  <2>2. /\ Share(ledger', u, "CREDIT") = before("CREDIT") + in
        /\ Share(ledger', u, "DEBIT") = before("DEBIT") + out
    <3>1. CreditRow(e).user = e.to /\ CreditRow(e).type = "CREDIT" /\ CreditRow(e).tx = e
      BY DEF CreditRow, Row
    <3>2. Share(half, u, "DEBIT") \in Int
      BY <1>2, <1>5, ShareType
    <3>3. /\ Share(half \cup {CreditRow(e)}, u, "CREDIT") = Share(half, u, "CREDIT") + in
          /\ Share(half \cup {CreditRow(e)}, u, "DEBIT") = Share(half, u, "DEBIT") + 0
      BY <1>2, <1>3, <1>5, <3>1, NewRow
    <3> QED
      BY <1>4, <2>1, <3>2, <3>3
  <2>3. /\ EntrySum(u, "CREDIT") = before("CREDIT") /\ EntrySum(u, "DEBIT") = before("DEBIT")
        /\ EntrySum(u, "CREDIT")' = Share(ledger', u, "CREDIT")
        /\ EntrySum(u, "DEBIT")' = Share(ledger', u, "DEBIT")
    BY DEF EntrySum, Entries, Share, AmountOf
  <2>4. balance[u] = InitialBalance[u] + before("CREDIT") - before("DEBIT")
    BY <2>3 DEF BooksInv, BalancesFollowRows
  <2>5. balance \in [Users -> Nat]
    BY DEF AccountsInv, RegistryInv, RegistryTypeOK, AccountsTypeOK
  <2>6. balance'[u] = balance[u] + in - out
    BY <1>1, <1>4, <2>5 DEF Transfer
  <2>7. before("CREDIT") \in Int /\ before("DEBIT") \in Int /\ InitialBalance[u] \in Int
        /\ in \in Int /\ out \in Int
    BY <1>1, <1>2, <1>5, ShareType, KeyRegistryAssumption
  <2> HIDE DEF before, in, out
  <2> QED
    BY <2>2, <2>3, <2>4, <2>6, <2>7
<1> QED
  BY <1>5, <1>6 DEF BalancesFollowRows

LEMMA TopupBooked ==
  ASSUME AccountsInv, PaymentTypeOK, BooksInv, NEW p \in Topups, CreditTopup(p)
  PROVE  IsFiniteSet(ledger') /\ BalancesFollowRows'
<1> DEFINE row == Row(p, p.user, "CREDIT")
<1>1. CASE UNCHANGED <<balance, ledger>>
  BY <1>1 DEF BooksInv, BalancesFollowRows, EntrySum, Entries
<1>2. CASE /\ balance' = [balance EXCEPT ![p.user] = @ + p.amount]
           /\ ledger' = ledger \cup {row}
  <2>1. /\ p.user \in Users /\ p.amount \in Int /\ row \in LedgerRows
        /\ row.user = p.user /\ row.type = "CREDIT" /\ row.tx = p
    BY SettlementAssumption DEF Row, LedgerRows
  <2>2. row \notin ledger
    BY DEF BooksInv, PendingUncredited, CreditTopup
  <2>3. ledger \in SUBSET LedgerRows /\ IsFiniteSet(ledger) /\ IsFiniteSet(ledger')
    BY <1>2, FS_AddElement DEF PaymentTypeOK, LedgerRows, BooksInv
  <2>4. ASSUME NEW u \in Users
        PROVE  balance'[u] = InitialBalance[u] + EntrySum(u, "CREDIT")' - EntrySum(u, "DEBIT")'
    <3> DEFINE before(t) == Share(ledger, u, t)
               in == IF p.user = u THEN p.amount ELSE 0
    <3>1. /\ Share(ledger', u, "CREDIT") = before("CREDIT") + in
          /\ Share(ledger', u, "DEBIT") = before("DEBIT") + 0
      <4> HIDE DEF row
      <4> QED
        BY <1>2, <2>1, <2>2, <2>3, NewRow
    <3>2. /\ EntrySum(u, "CREDIT") = before("CREDIT") /\ EntrySum(u, "DEBIT") = before("DEBIT")
          /\ EntrySum(u, "CREDIT")' = Share(ledger', u, "CREDIT")
          /\ EntrySum(u, "DEBIT")' = Share(ledger', u, "DEBIT")
      BY DEF EntrySum, Entries, Share, AmountOf
    <3>3. balance[u] = InitialBalance[u] + before("CREDIT") - before("DEBIT")
      BY <3>2 DEF BooksInv, BalancesFollowRows
    <3>4. balance \in [Users -> Nat]
      BY DEF AccountsInv, RegistryInv, RegistryTypeOK, AccountsTypeOK
    <3>5. balance'[u] = balance[u] + in
      BY <1>2, <2>1, <3>4
    <3>6. /\ before("CREDIT") \in Int /\ before("DEBIT") \in Int /\ InitialBalance[u] \in Int
          /\ in \in Int
      BY <2>1, <2>3, ShareType, KeyRegistryAssumption
    <3> HIDE DEF before, in
    <3> QED
      BY <3>1, <3>2, <3>3, <3>5, <3>6
  <2> QED
    BY <2>3, <2>4 DEF BalancesFollowRows
<1> QED
  BY <1>1, <1>2 DEF CreditTopup

LEMMA BooksStep ==
  ASSUME AccountsInv, PaymentTypeOK, SettledOnce, BooksInv, [Next]_vars
  PROVE  BooksInv'
<1>1. PendingUncredited'
  BY PendingUncreditedStep DEF BooksInv
<1>2. CASE ~(\E c \in Calls : Settle(c)) /\ ~(\E p \in Topups : CreditTopup(p))
  <2>1. UNCHANGED <<balance, ledger>>
    BY <1>2, OtherSteps
  <2> QED
    BY <1>1, <2>1 DEF BooksInv, BalancesFollowRows, EntrySum, Entries
<1> QED
  BY <1>1, <1>2, PaymentBooked, TopupBooked DEF BooksInv

\* The ledger explains every balance: no retry, lost answer, poll or recovery
\* writes a balance without its rows, or a row without the balance.
THEOREM RowsExplainBalances == Spec => []BalancesFollowRows
<1>1. Init => BooksInv
  <2> SUFFICES ASSUME Init
               PROVE  BooksInv
    OBVIOUS
  <2>1. ledger = {} /\ balance = InitialBalance
    BY DEF Init, RegistryInit
  <2>2. ASSUME NEW u \in Users, NEW t
        PROVE  EntrySum(u, t) = 0
    <3> DEFINE f == [r \in Entries(u, t) |-> r.tx.amount]
    <3>1. DOMAIN f = {} /\ EntrySum(u, t) = SumFunction(f)
      BY <2>1 DEF Entries, EntrySum
    <3> HIDE DEF f
    <3> QED
      BY <3>1, TotalEmpty
  <2>3. \A u \in Users : InitialBalance[u] \in Int
    BY KeyRegistryAssumption
  <2> QED
    BY <2>1, <2>2, <2>3, FS_EmptySet DEF BooksInv, PendingUncredited, BalancesFollowRows
<1>2. TypeOK /\ NamedRowsExist /\ SettledOnce /\ BooksInv /\ [Next]_vars => BooksInv'
  BY BooksStep DEF TypeOK, AccountsInv, RegistryInv, Capped
<1>3. BooksInv => BalancesFollowRows
  BY DEF BooksInv
<1> QED
  BY <1>1, <1>2, <1>3, SettlementTypes, PaysOnce, PTL DEF Spec
-----------------------------------------------------------------------------
(* A refusal is final.  A payment that is recorded as expired is stopped by  *)
(* the check every claim makes; one whose key refuses it stays refused       *)
(* because the row of a retired key keeps the time it was retired at.        *)

\* Only a handler that read the key while it was ACTIVE moves the time at which
\* a VERIFY_ONLY key was retired; an approval leaves that of a stolen key.
LEMMA RefusedByKeyStep ==
  ASSUME RegistryInv, HandlerStep, NEW e \in Envelopes, NEW t \in Int,
         keys[e.key].status = "VERIFY_ONLY", KeyRefuses(e, t),
         \A c \in KeyCalls : ReportCommit(c) => keyCalls[c].old # e.key,
         \A c \in KeyCalls : RotationCommit(c) /\ keyCalls[c].old = e.key
                               => ~MayActivate(keyCalls[c].new, {e.key})
  PROVE  keys'[e.key].status = "VERIFY_ONLY" /\ KeyRefuses(e, t)'
<1> DEFINE k == e.key
           Approved == /\ keys[k].retiredAt # Never
                       /\ keys'[k] = Retired(keys[k].retiredAt,
                                       IF keys[k].verifyUntil # Never THEN keys[k].verifyUntil
                                         ELSE keys[k].retiredAt + RecoveryWindow)
<1> USE DEF RegistryInv
<1>1. keys \in [Keys -> KeyRow] /\ k \in Keys
  BY EnvelopeFields DEF RegistryTypeOK, AccountsTypeOK
<1>2. ASSUME NEW c \in KeyCalls, FirstKeyCommit(c)
      PROVE  keys'[k] = keys[k]
  <2>1. keyCalls[c].new \in Keys
    BY <1>2, CallFields DEF FirstKeyCommit
  <2> QED
    BY <1>1, <1>2, <2>1 DEF FirstKeyCommit, MayActivate
<1>3. ASSUME NEW c \in KeyCalls, RotationCommit(c)
      PROVE  keys'[k] = keys[k]
  <2>1. keyCalls[c].new \in Keys /\ keyCalls[c].old \in Keys
    BY <1>3, CallFields DEF RotationCommit
  <2>2. CASE keys' = keys
    BY <2>2
  <2>3. ASSUME NEW u, MayActivate(keyCalls[c].new, {keyCalls[c].old}),
               keys' = [keys EXCEPT ![keyCalls[c].old] = Retired(u, u + RotationWindow),
                                    ![keyCalls[c].new] = FreshKey]
        PROVE  keys'[k] = keys[k]
    BY <1>1, <1>3, <2>1, <2>3 DEF MayActivate
  <2> QED
    BY <1>3, <2>2, <2>3, RotationWrites
<1>4. ASSUME NEW c \in KeyCalls, ReportCommit(c)
      PROVE  keys'[k] = keys[k]
  <2>1. keyCalls[c].old \in Keys /\ keyCalls[c].old # k
    BY <1>4, CallFields DEF ReportCommit
  <2> QED
    BY <1>1, <1>4, <2>1 DEF ReportCommit, KeysAfterReport
<1>5. ASSUME NEW r \in Requests, Approve(r)
      PROVE  keys'[k] = keys[k] \/ Approved
  <2>1. requests[r] # NoRequest
    BY <1>5 DEF Approve, NoRequest
  <2>2. requests[r].old \in Keys /\ requests[r].new \in Keys
    BY <2>1, RequestFields
  <2>3. /\ requests[r].new # k
        /\ keys' = [keys EXCEPT ![requests[r].old] = OldKeyAfterApproval(r),
                                ![requests[r].new] = FreshKey]
    BY <1>5 DEF Approve, MayActivate
  <2>4. CASE requests[r].old = k
    <3>1. requests[r].stolen /\ keys[k].retiredAt # Never
      BY <1>5, <2>4 DEF Approve, OldKeyRestrictable
    <3>2. keys'[k] = OldKeyAfterApproval(r)
      BY <1>1, <2>2, <2>3, <2>4
    <3> QED
      BY <2>4, <3>1, <3>2 DEF OldKeyAfterApproval
  <2>5. CASE requests[r].old # k
    BY <1>1, <2>2, <2>3, <2>5
  <2> QED
    BY <2>4, <2>5
<1>6. ASSUME NEW r \in Requests, Reject(r)
      PROVE  keys'[k] = keys[k]
  BY <1>6 DEF Reject
<1>7. ASSUME NEW c \in KeyCalls,
             \/ \E j \in Keys : FirstKeyRead(c, j)
             \/ \E j \in Keys : RotationRead(c, j)
             \/ \E j \in Keys, stolen \in BOOLEAN : ReportRead(c, j, stolen)
             \/ \E r \in Requests : CancelRead(c, r)
             \/ CancelCommit(c)
      PROVE  keys'[k] = keys[k]
  BY <1>7 DEF FirstKeyRead, RotationRead, ReportRead, CancelRead, CancelCommit, accountVars
<1>8. keys'[k] = keys[k] \/ Approved
  BY <1>2, <1>3, <1>4, <1>5, <1>6, <1>7 DEF HandlerStep, KeyStep, AdminStep
<1>9. CASE keys'[k] = keys[k]
  BY <1>9 DEF KeyRefuses
<1>10. CASE Approved
  <2>1. /\ keys'[k].status = "VERIFY_ONLY"
        /\ keys'[k].retiredAt = keys[k].retiredAt
        /\ keys[k].verifyUntil # Never => keys'[k].verifyUntil = keys[k].verifyUntil
    BY <1>10 DEF Retired
  <2> QED
    BY <1>10, <2>1 DEF KeyRefuses
<1> QED
  BY <1>8, <1>9, <1>10

\* A payment that is not settled is settled by a step only where a claim of it
\* has passed the checks before the transaction.
LEMMA NewlySettled ==
  ASSUME PaymentTypeOK, SettledOnce, [Next]_vars, NEW e \in Envelopes, ~Settled(e), Settled(e)'
  PROVE  \E c \in Calls : calls[c].stage = "checked" /\ calls[c].env = e
<1>1. CASE \E c \in Calls : Settle(c)
  <2>1. PICK c \in Calls : Settle(c)
    BY <1>1
  <2>2. e \in SettledSet' /\ e \notin SettledSet
    BY DEF SettledSet
  <2>3. calls[c].env = e
    BY <2>1, <2>2, SettleEffect
  <2> QED
    BY <2>1, <2>3 DEF Settle
<1>2. CASE \E p \in Topups : CreditTopup(p)
  BY <1>2, CreditEffect
<1>3. CASE ~(\E c \in Calls : Settle(c)) /\ ~(\E p \in Topups : CreditTopup(p))
  BY <1>3, OtherSteps DEF Settled, DebitRow, CreditRow, Row
<1> QED
  BY <1>1, <1>2, <1>3

\* What one step may do to a claim in flight: start it, for a payment that is
\* not refused; let it pass the first check, if it is open; or neither.
LEMMA ClaimStep ==
  ASSUME PaymentTypeOK, [Next]_vars, NEW c \in Calls, calls'[c] # Free
  PROVE  \/ calls'[c] = calls[c]
         \/ /\ calls[c] # Free
            /\ calls'[c].env = calls[c].env
            /\ calls'[c].stage = "checked"
            /\ calls[c].stage = "checked" \/ ClaimOpen(calls[c])
         \/ /\ calls'[c].stage = "keyRead" /\ calls'[c].at = now
            /\ ~Refused(calls'[c].env, now)
<1> DEFINE Passes == /\ calls[c] # Free
                     /\ calls'[c].env = calls[c].env
                     /\ calls'[c].stage = "checked"
                     /\ calls[c].stage = "checked" \/ ClaimOpen(calls[c])
           Starts == /\ calls'[c].stage = "keyRead" /\ calls'[c].at = now
                     /\ ~Refused(calls'[c].env, now)
           Goes   == calls'[c] = calls[c] \/ Passes \/ Starts
<1>1. calls \in [Calls -> ReconcileCall]
  BY DEF PaymentTypeOK
<1>2. ASSUME NEW d \in Calls, NEW e \in Envelopes, BeginReconcile(d, e)
      PROVE  Goes
  <2>1. CASE d = c
    <3>1. calls'[c] = [stage |-> "keyRead", env |-> e, at |-> now,
                       active |-> keys[e.key].status = "ACTIVE",
                       covered |-> balance[e.sender] >= e.amount]
      BY <1>1, <1>2, <2>1 DEF BeginReconcile
    <3> QED
      BY <1>2, <3>1 DEF BeginReconcile
  <2>2. CASE d # c
    BY <1>1, <1>2, <2>2 DEF BeginReconcile
  <2> QED
    BY <2>1, <2>2
<1>3. ASSUME NEW d \in Calls, CheckClaim(d)
      PROVE  Goes
  <2>1. CASE d = c
    <3>1. calls'[c].env = calls[c].env /\ calls'[c].stage = "checked"
      BY <1>1, <1>3, <2>1 DEF CheckClaim
    <3>2. calls[c] # Free /\ ClaimOpen(calls[c])
      BY <1>3, <2>1, ReconcileCallFields DEF CheckClaim
    <3> QED
      BY <3>1, <3>2
  <2>2. CASE d # c
    BY <1>1, <1>3, <2>2 DEF CheckClaim
  <2> QED
    BY <2>1, <2>2
<1>4. ASSUME NEW d \in Calls, Retry(d)
      PROVE  Goes
  <2>1. CASE d = c
    <3>1. calls'[c] = [calls[c] EXCEPT !.tries = @ + 1]
      BY <1>1, <1>4, <2>1 DEF Retry
    <3>2. calls[c] \in [stage : {"checked"}, env : Envelopes, active : BOOLEAN,
                        tries : 0 .. MaxRetries - 1]
      BY <1>1, <1>4, <2>1 DEF Retry, ReconcileCall, Free
    <3> QED
      BY <3>1, <3>2 DEF Free
  <2>2. CASE d # c
    BY <1>1, <1>4, <2>2 DEF Retry
  <2> QED
    BY <2>1, <2>2
<1>5. ASSUME NEW d \in Calls, calls' = [calls EXCEPT ![d] = Free]
      PROVE  Goes
  BY <1>1, <1>5
<1>6. ASSUME NEW d \in Calls,
             \/ RefuseUnfunded(d) \/ RefuseResolved(d) \/ ExpireLateClaim(d)
             \/ CommitReplay(d) \/ Settle(d) \/ RefuseCommit(d) \/ GiveUp(d) \/ InternalError(d)
      PROVE  calls' = [calls EXCEPT ![d] = Free]
  BY <1>6 DEF RefuseUnfunded, RefuseResolved, ExpireLateClaim, CommitReplay, Settle,
              RefuseCommit, GiveUp, InternalError, Finish
<1>7. ASSUME NEW e \in Envelopes, PhoneStep(e)
      PROVE  calls' = calls
  BY <1>7 DEF PhoneStep, PollEnds, Sign, RefuseRecipient, RefuseKeyOrTime, PollSettled, PollResolved,
              PollReads, PollNoDebit, PollNoResolution, PollRefused, PollTooEarly,
              PollFails, PollLate
<1>8. CASE \/ \E m \in Merchants : MerchantStep(m)
           \/ \E p \in Topups : CreditTopup(p)
           \/ RegistryStep \/ TimePasses \/ UNCHANGED vars
  BY <1>8 DEF MerchantStep, DeactivateMerchant, ReactivateMerchant, CreditTopup,
              RegistryStep, TimePasses, vars, paymentVars
<1> QED
  BY <1>2, <1>3, <1>4, <1>5, <1>6, <1>7, <1>8 DEF Next, ReconcileStep

\* A record that a payment expired is never taken back.
LEMMA ExpiredStays ==
  ASSUME [Next]_vars
  PROVE  expired \subseteq expired'
<1>1. ASSUME NEW c \in Calls, ReconcileStep(c)
      PROVE  expired \subseteq expired'
  BY <1>1 DEF ReconcileStep, BeginReconcile, CheckClaim, RefuseUnfunded, RefuseResolved,
              ExpireLateClaim, CommitReplay, Settle, RefuseCommit, Retry, GiveUp, InternalError,
              serverRows
<1>2. ASSUME NEW e \in Envelopes, PhoneStep(e)
      PROVE  expired \subseteq expired'
  BY <1>2 DEF PhoneStep, PollEnds, Sign, RefuseRecipient, RefuseKeyOrTime, PollSettled, PollResolved,
              PollReads, PollNoDebit, PollNoResolution, PollRefused, PollTooEarly,
              PollFails, PollLate, serverRows
<1>3. CASE \/ \E m \in Merchants : MerchantStep(m)
           \/ \E p \in Topups : CreditTopup(p)
           \/ RegistryStep \/ TimePasses \/ UNCHANGED vars
  BY <1>3 DEF MerchantStep, DeactivateMerchant, ReactivateMerchant, CreditTopup,
              RegistryStep, TimePasses, vars, paymentVars, serverRows
<1> QED
  BY <1>1, <1>2, <1>3 DEF Next

\* Time passing does not make a retired key acceptable again.
LEMMA RefusedByKeyLater ==
  ASSUME RegistryTypeOK, Tick, NEW e \in Envelopes,
         keys[e.key].status = "VERIFY_ONLY", KeyRefuses(e, now)
  PROVE  keys'[e.key].status = "VERIFY_ONLY" /\ KeyRefuses(e, now)'
<1>1. keys[e.key] \in KeyRow /\ now \in Int /\ e.ts \in Int
  BY EnvelopeFields, SettlementAssumption DEF RegistryTypeOK, AccountsTypeOK, Time
<1> QED
  BY <1>1 DEF Tick, KeyRefuses, KeyRow

LEMMA RefusedByKeyStays ==
  ASSUME RegistryInv, AccountsInv, PaymentTypeOK, [Next]_vars, NEW e \in Envelopes,
         keys[e.key].status = "VERIFY_ONLY", KeyRefuses(e, now),
         \A c \in KeyCalls : ReportCommit(c) => keyCalls[c].old # e.key,
         \A c \in KeyCalls : RotationCommit(c) /\ keyCalls[c].old = e.key
                               => ~MayActivate(keyCalls[c].new, {e.key})
  PROVE  keys'[e.key].status = "VERIFY_ONLY" /\ KeyRefuses(e, now)'
<1>1. CASE RegistryStep
  <2>1. HandlerStep /\ now' = now /\ now \in Int
    BY <1>1, ClockOnlyTicks DEF RegistryStep, RegistryInv, RegistryTypeOK, AccountsTypeOK, Time
  <2>2. keys'[e.key].status = "VERIFY_ONLY"
        /\ \A t \in Int : KeyRefuses(e, t) => KeyRefuses(e, t)'
    BY <2>1, RefusedByKeyStep
  <2> QED
    BY <2>1, <2>2 DEF KeyRefuses
<1>2. CASE TimePasses
  BY <1>2, RefusedByKeyLater DEF TimePasses, RegistryInv
<1>3. CASE ~RegistryStep /\ ~TimePasses
  BY <1>3, PaymentsLeaveRegistry DEF KeyRefuses
<1> QED
  BY <1>1, <1>2, <1>3

\* No claim begins of a payment whose key refuses it, and none of an expired
\* payment gets past the first check.
LEMMA NoClaimOfRefused ==
  ASSUME PaymentTypeOK, [Next]_vars, NEW e \in Envelopes, KeyRefuses(e, now), ~InFlight(e)
  PROVE  ~InFlight(e)'
<1> SUFFICES ASSUME NEW c \in Calls, calls'[c] # Free, calls'[c].env = e
             PROVE  FALSE
  BY DEF InFlight
<1>1. calls[c] # Free => calls[c].env # e
  BY DEF InFlight
<1> QED
  BY <1>1, ClaimStep DEF Refused

LEMMA NoClaimOfExpired ==
  ASSUME PaymentTypeOK, [Next]_vars, NEW e \in Envelopes, e \in expired,
         \A c \in Calls : ~(calls[c].stage = "checked" /\ calls[c].env = e)
  PROVE  \A c \in Calls : ~(calls'[c].stage = "checked" /\ calls'[c].env = e)
<1> SUFFICES ASSUME NEW c \in Calls, calls'[c].stage = "checked", calls'[c].env = e
             PROVE  FALSE
  OBVIOUS
<1>1. calls'[c] # Free
  BY DEF Free
<1> QED
  BY <1>1, ClaimStep DEF ClaimOpen

\* The two ways a payment is written off are for good.
LEMMA WrittenOffStep ==
  ASSUME RegistryInv, AccountsInv, PaymentTypeOK, SettledOnce, [Next]_vars,
         NEW e \in Envelopes, WrittenOff(e)
  PROVE  WrittenOff(e)'
<1>1. ~Settled(e)'
  <2>1. \A c \in Calls : ~(calls[c].stage = "checked" /\ calls[c].env = e)
    BY ReconcileCallFields DEF WrittenOff, InFlight
  <2> QED
    BY <2>1, NewlySettled DEF WrittenOff
<1>2. CASE /\ e \in expired
           /\ \A c \in Calls : ~(calls[c].stage = "checked" /\ calls[c].env = e)
  BY <1>1, <1>2, ExpiredStays, NoClaimOfExpired DEF WrittenOff
<1>3. CASE /\ keys[e.key].status = "VERIFY_ONLY" /\ KeyRefuses(e, now)
           /\ ~InFlight(e) /\ ~Retiring(e)
  <2>1. keys'[e.key].status = "VERIFY_ONLY" /\ KeyRefuses(e, now)'
    BY <1>3, RefusedByKeyStays DEF Retiring, BeingRetired, ReportCommit, RotationCommit
  <2>2. ~InFlight(e)'
    BY <1>3, NoClaimOfRefused
  <2>3. ~Retiring(e)'
    <3>1. CASE RegistryStep
      <4>1. e.key \in Keys
        BY EnvelopeFields
      <4> QED
        BY <1>3, <3>1, <4>1, RetiringStep DEF RegistryStep, Retiring, BeingRetired
    <3>2. CASE ~RegistryStep
      <4>1. UNCHANGED keyCalls
        BY <3>2, PaymentsLeaveRegistry DEF TimePasses
      <4> QED
        BY <1>3, <4>1 DEF Retiring, BeingRetired
    <3> QED
      BY <3>1, <3>2
  <2> QED
    BY <1>1, <2>1, <2>2, <2>3 DEF WrittenOff
<1> QED
  BY <1>2, <1>3 DEF WrittenOff

\* A payment the server has written off is never made, whatever its phones,
\* its merchant and the recoveries of its sender do.
THEOREM WrittenOffIsFinal == Spec => WrittenOffForGood
<1> SUFFICES ASSUME NEW e \in Envelopes
             PROVE  Spec => [](WrittenOff(e) => []~Settled(e))
  BY DEF WrittenOffForGood
<1>1. TypeOK /\ NamedRowsExist /\ SettledOnce /\ [Next]_vars
        => (WrittenOff(e) => WrittenOff(e)')
  BY WrittenOffStep DEF TypeOK, RegistryInv, AccountsInv, Capped
<1>2. WrittenOff(e) => ~Settled(e)
  BY DEF WrittenOff
<1> QED
  BY <1>1, <1>2, SettlementTypes, PaysOnce, PTL DEF Spec

\* The clock never goes back.
LEMMA ClockAdvances ==
  ASSUME AccountsInv, PaymentTypeOK, [Next]_vars
  PROVE  now \in Int /\ now' \in Int /\ now <= now'
<1>1. now \in Int
  BY DEF AccountsInv, RegistryInv, RegistryTypeOK, AccountsTypeOK, Time
<1>2. CASE RegistryStep
  BY <1>1, <1>2, ClockOnlyTicks DEF RegistryStep
<1>3. CASE TimePasses
  BY <1>1, <1>3 DEF TimePasses, Tick
<1>4. CASE ~RegistryStep /\ ~TimePasses
  BY <1>1, <1>4, PaymentsLeaveRegistry
<1> QED
  BY <1>2, <1>3, <1>4

\* A payment being polled was signed, by a registered key and not later than
\* the server's clock and the phone's drift allow.
SignedInTime ==
  /\ \A e \in signed : e.ts <= now + PhoneDrift /\ keys[e.key].status # "NONE"
  /\ \A e \in Envelopes : polls[e] # "idle" => e \in signed

LEMMA PollsStep ==
  ASSUME PaymentTypeOK, [Next]_vars, NEW e \in Envelopes
  PROVE  /\ polls'[e] # "idle" => polls[e] # "idle" \/ e \in signed
         /\ signed \subseteq signed'
<1> DEFINE Goes == /\ polls'[e] # "idle" => polls[e] # "idle" \/ e \in signed
                   /\ signed \subseteq signed'
<1>1. polls \in [Envelopes -> {"idle", "noDebit", "noResolution"}]
  BY DEF PaymentTypeOK
<1>2. ASSUME NEW f \in Envelopes, NEW status, AnswerPoll(f, status)
      PROVE  Goes
  BY <1>1, <1>2 DEF AnswerPoll
<1>3. ASSUME NEW f \in Envelopes, PollNoDebit(f) \/ PollNoResolution(f)
      PROVE  Goes
  BY <1>1, <1>3 DEF PollNoDebit, PollNoResolution, Polling, phoneVars
<1>4. ASSUME NEW f \in Envelopes, Sign(f) \/ RefuseRecipient(f) \/ RefuseKeyOrTime(f)
      PROVE  Goes
  BY <1>4 DEF Sign, RefuseRecipient, RefuseKeyOrTime, Answer
<1>5. ASSUME NEW f \in Envelopes, PhoneStep(f)
      PROVE  Goes
  BY <1>2, <1>3, <1>4, <1>5 DEF PhoneStep, PollReads, PollEnds, PollSettled, PollResolved,
     PollRefused, PollTooEarly, PollFails, PollLate
<1>6. ASSUME NEW c \in Calls, ReconcileStep(c)
      PROVE  Goes
  BY <1>6 DEF ReconcileStep, BeginReconcile, CheckClaim, RefuseUnfunded, RefuseResolved,
              ExpireLateClaim, CommitReplay, Settle, RefuseCommit, Retry, GiveUp, InternalError,
              Finish, Answer, phoneVars
<1>7. CASE \/ \E m \in Merchants : MerchantStep(m)
           \/ \E p \in Topups : CreditTopup(p)
           \/ RegistryStep \/ TimePasses \/ UNCHANGED vars
  BY <1>7 DEF MerchantStep, DeactivateMerchant, ReactivateMerchant, CreditTopup,
              RegistryStep, TimePasses, vars, paymentVars, phoneVars
<1> QED
  BY <1>5, <1>6, <1>7 DEF Next

\* Only a signature adds a payment, and it is made with a registered key.
LEMMA SigningStep ==
  ASSUME PaymentTypeOK, [Next]_vars, NEW e \in Envelopes, e \in signed', e \notin signed
  PROVE  Sign(e)
<1>1. ASSUME NEW f \in Envelopes, PhoneStep(f)
      PROVE  Sign(e)
  <2>1. CASE Sign(f)
    BY <2>1 DEF Sign
  <2>2. CASE ~Sign(f)
    BY <1>1, <2>2 DEF PhoneStep, PollEnds, RefuseRecipient, RefuseKeyOrTime, Answer, PollSettled, PollResolved,
              PollReads, PollNoDebit, PollNoResolution, PollRefused, PollTooEarly,
              PollFails, PollLate, AnswerPoll, phoneVars
  <2> QED
    BY <2>1, <2>2
<1>2. ASSUME NEW c \in Calls, ReconcileStep(c)
      PROVE  FALSE
  BY <1>2 DEF ReconcileStep, BeginReconcile, CheckClaim, RefuseUnfunded, RefuseResolved,
              ExpireLateClaim, CommitReplay, Settle, RefuseCommit, Retry, GiveUp, InternalError,
              Finish, Answer, phoneVars
<1>3. CASE \/ \E m \in Merchants : MerchantStep(m)
           \/ \E p \in Topups : CreditTopup(p)
           \/ RegistryStep \/ TimePasses \/ UNCHANGED vars
  BY <1>3 DEF MerchantStep, DeactivateMerchant, ReactivateMerchant, CreditTopup,
              RegistryStep, TimePasses, vars, paymentVars, phoneVars
<1> QED
  BY <1>1, <1>2, <1>3 DEF Next

LEMMA SignedInTimeStep ==
  ASSUME RegistryInv, AccountsInv, PaymentTypeOK, SignedInTime, [Next]_vars
  PROVE  SignedInTime'
<1> USE DEF RegistryInv
<1>1. now \in Int /\ now' \in Int /\ now <= now'
  BY ClockAdvances
<1>2. \A k \in Keys : keys[k].status # "NONE" => keys'[k].status # "NONE"
  <2>1. CASE RegistryStep
    BY <2>1, KeyStatusStep DEF RegistryStep
  <2>2. CASE TimePasses
    BY <2>2 DEF TimePasses, Tick
  <2>3. CASE ~RegistryStep /\ ~TimePasses
    BY <2>3, PaymentsLeaveRegistry
  <2> QED
    BY <2>1, <2>2, <2>3
<1>3. ASSUME NEW e \in signed'
      PROVE  e.ts <= now' + PhoneDrift /\ keys'[e.key].status # "NONE"
  <2>1. e \in Envelopes /\ e.key \in Keys /\ e.ts \in Int /\ PhoneDrift \in Int
    BY PaymentTypes, EnvelopeFields, SettlementAssumption DEF PaymentTypeOK
  <2>2. e.ts <= now + PhoneDrift /\ keys[e.key].status # "NONE"
    <3>1. CASE e \in signed
      BY <3>1 DEF SignedInTime
    <3>2. CASE e \notin signed
      <4>1. Sign(e)
        BY <2>1, <3>2, SigningStep
      <4> QED
        BY <1>1, <2>1, <4>1 DEF Sign
    <3> QED
      BY <3>1, <3>2
  <2> QED
    BY <1>1, <1>2, <2>1, <2>2
<1>4. \A e \in Envelopes : polls'[e] # "idle" => e \in signed'
  BY PollsStep DEF SignedInTime
<1> QED
  BY <1>3, <1>4 DEF SignedInTime

\* A phone gives money back for a payment that is recorded as expired or that
\* its retired key refuses: the phone's clock is not so far ahead that a poll
\* takes a payment for one from the future.
LEMMA ReleaseStep ==
  ASSUME RegistryTypeOK, PaymentTypeOK, SignedInTime, PhoneDrift <= Skew, [Next]_vars,
         NEW e \in Envelopes, ~Released(e), Released(e)'
  PROVE  /\ e \in expired' \/ (keys[e.key].status = "VERIFY_ONLY" /\ KeyRefuses(e, now))
         /\ UNCHANGED <<registryVars, ledger, calls>>
<1> DEFINE Grounds == e \in expired' \/ (keys[e.key].status = "VERIFY_ONLY" /\ KeyRefuses(e, now))
           Left    == UNCHANGED <<registryVars, ledger, calls>>
<1>1. studentView' # studentView
  BY DEF Released
<1>2. ASSUME NEW f \in Envelopes, NEW status, AnswerPoll(f, status)
      PROVE  e = f /\ status \in {"rejected", "expired_unclaimed"}
  BY <1>2 DEF AnswerPoll, PaymentTypeOK, Released
<1>3. ASSUME NEW f \in Envelopes, PollRefused(f)
      PROVE  Grounds /\ Left
  <2>1. e = f /\ Refused(e, now) /\ polls[e] # "idle"
    BY <1>2, <1>3 DEF PollRefused
  <2>2. e.ts <= now + PhoneDrift /\ keys[e.key].status # "NONE"
    BY <2>1 DEF SignedInTime
  <2>3. ~FromTheFuture(e, now)
    <3>1. e.ts \in Int /\ PhoneDrift \in Int /\ Skew \in Int /\ now \in Int
      BY SettlementAssumption DEF RegistryTypeOK, AccountsTypeOK, Time
    <3> QED
      BY <2>2, <3>1 DEF FromTheFuture
  <2>4. keys[e.key].status \in {"NONE", "ACTIVE", "VERIFY_ONLY"}
    BY EnvelopeFields DEF RegistryTypeOK, AccountsTypeOK, KeyRow, KeyStatus
  <2>5. KeyRefuses(e, now) /\ keys[e.key].status = "VERIFY_ONLY"
    BY <2>1, <2>2, <2>3, <2>4 DEF Refused, KeyRefuses
  <2> QED
    BY <1>3, <2>5 DEF PollRefused, serverRows
<1>4. ASSUME NEW f \in Envelopes, PollResolved(f)
      PROVE  Grounds /\ Left
  BY <1>2, <1>4 DEF PollResolved, serverRows
<1>5. ASSUME NEW f \in Envelopes, PollLate(f)
      PROVE  Grounds /\ Left
  <2>1. AnswerPoll(f, "reconciled") \/ (AnswerPoll(f, "expired_unclaimed") /\ f \in expired')
    BY <1>5 DEF PollLate
  <2> QED
    BY <1>2, <1>5, <2>1 DEF PollLate
<1>6. ASSUME NEW f \in Envelopes, PhoneStep(f), ~PollRefused(f), ~PollResolved(f), ~PollLate(f)
      PROVE  FALSE
  <2>1. ~(PollSettled(f) \/ PollTooEarly(f) \/ PollFails(f))
    BY <1>2 DEF PollSettled, PollTooEarly, PollFails
  <2> QED
    BY <1>1, <1>6, <2>1 DEF PhoneStep, PollReads, PollEnds, PollNoDebit, PollNoResolution, Sign,
       RefuseRecipient, RefuseKeyOrTime, Answer, phoneVars
<1>7. ASSUME NEW c \in Calls, ReconcileStep(c)
      PROVE  FALSE
  BY <1>1, <1>7 DEF ReconcileStep, BeginReconcile, CheckClaim, RefuseUnfunded, RefuseResolved,
              ExpireLateClaim, CommitReplay, Settle, RefuseCommit, Retry, GiveUp, InternalError,
              Finish, Answer, phoneVars
<1>8. CASE \/ \E m \in Merchants : MerchantStep(m)
           \/ \E p \in Topups : CreditTopup(p)
           \/ RegistryStep \/ TimePasses \/ UNCHANGED vars
  BY <1>1, <1>8 DEF MerchantStep, DeactivateMerchant, ReactivateMerchant, CreditTopup,
              RegistryStep, TimePasses, vars, paymentVars, phoneVars
<1> QED
  BY <1>3, <1>4, <1>5, <1>6, <1>7, <1>8 DEF Next

LEMMA PollsAreSigned == Spec => []SignedInTime
<1>1. Init => SignedInTime
  BY DEF Init, SignedInTime
<1>2. TypeOK /\ NamedRowsExist /\ SignedInTime /\ [Next]_vars => SignedInTime'
  BY SignedInTimeStep DEF TypeOK, RegistryInv, AccountsInv, Capped
<1> QED
  BY <1>1, <1>2, SettlementTypes, PTL DEF Spec

\* A phone whose clock is within the server's tolerance gives money back only
\* for a payment that is written off, unless a claim or a change of the key is
\* in flight at that moment.
THEOREM ReleasesAreSafe ==
  ASSUME PhoneDrift <= Skew
  PROVE  Spec => ReleaseWritesOff
<1> DEFINE Safe == \A e \in Envelopes :
                     (/\ Released(e)' /\ ~Released(e)
                      /\ ~Settled(e) /\ ~InFlight(e) /\ ~Retiring(e)) => WrittenOff(e)'
<1>1. TypeOK /\ SignedInTime /\ [Next]_vars => [Safe]_vars
  <2> SUFFICES ASSUME TypeOK, SignedInTime, [Next]_vars, NEW e \in Envelopes,
                      Released(e)', ~Released(e), ~Settled(e), ~InFlight(e), ~Retiring(e)
               PROVE  WrittenOff(e)'
    OBVIOUS
  <2>1. /\ e \in expired' \/ (keys[e.key].status = "VERIFY_ONLY" /\ KeyRefuses(e, now))
        /\ UNCHANGED <<registryVars, ledger, calls>>
    BY ReleaseStep DEF TypeOK
  <2>2. ~Settled(e)' /\ ~InFlight(e)' /\ ~Retiring(e)'
    BY <2>1 DEF Settled, DebitRow, CreditRow, Row, InFlight, Retiring, BeingRetired, registryVars
  <2>3. \A c \in Calls : ~(calls'[c].stage = "checked" /\ calls'[c].env = e)
    BY <2>2 DEF InFlight, Free
  <2>4. CASE e \in expired'
    BY <2>2, <2>3, <2>4 DEF WrittenOff
  <2>5. CASE keys[e.key].status = "VERIFY_ONLY" /\ KeyRefuses(e, now)
    <3>1. keys'[e.key].status = "VERIFY_ONLY" /\ KeyRefuses(e, now)'
      BY <2>1, <2>5 DEF KeyRefuses, registryVars, accountVars
    <3> QED
      BY <2>2, <3>1 DEF WrittenOff
  <2> QED
    BY <2>1, <2>4, <2>5
<1> QED
  BY <1>1, SettlementTypes, PollsAreSigned, PTL DEF Spec, ReleaseWritesOff

-----------------------------------------------------------------------------
(* Without recoveries the exception for a key in the hands of a handler is   *)
(* not needed: a key is retired by a move only, which gives the account      *)
(* another ACTIVE key, so no second move of the retired key goes through.    *)

Succession ==
  /\ \A c \in KeyCalls : keyCalls[c].op = "rotate" =>
       KeyOwner[keyCalls[c].old] = KeyOwner[keyCalls[c].new]
  /\ \A k \in Keys : keys[k].status = "VERIFY_ONLY" => ActiveKeys(KeyOwner[k]) # {}

LEMMA SuccessionHandlers ==
  ASSUME Requests = {}, RegistryInv, Succession, HandlerStep
  PROVE  Succession'
<1> USE DEF RegistryInv
<1>1. keys \in [Keys -> KeyRow]
  BY DEF RegistryTypeOK, AccountsTypeOK
<1> DEFINE Home(c) == keyCalls'[c].op = "rotate" =>
                        KeyOwner[keyCalls'[c].old] = KeyOwner[keyCalls'[c].new]
           Homes == \A c \in KeyCalls : Home(c)
<1>2. ASSUME NEW d \in KeyCalls, End(d)
      PROVE  Homes
  BY <1>2, EndType DEF Idle, Succession
<1>3. ASSUME NEW d \in KeyCalls, NEW k \in Keys, FirstKeyRead(d, k)
      PROVE  Succession'
  <2>1. [op |-> "first", new |-> k] \in KeyCall
    BY DEF KeyCall
  <2>2. UNCHANGED accountVars /\ Homes
    BY <1>3, <2>1, BeginType DEF FirstKeyRead, Succession
  <2> QED
    BY <2>2 DEF Succession, ActiveKeys, accountVars
<1>4. ASSUME NEW d \in KeyCalls, NEW k \in Keys, RotationRead(d, k)
      PROVE  Succession'
  <2>1. PICK old \in ActiveKeys(KeyOwner[k]) :
          Begin(d, [op |-> "rotate", old |-> old, new |-> k, at |-> now])
    BY <1>4 DEF RotationRead
  <2>2. [op |-> "rotate", old |-> old, new |-> k, at |-> now] \in KeyCall
    BY DEF ActiveKeys, KeyCall, RegistryTypeOK, AccountsTypeOK
  <2>3. UNCHANGED accountVars /\ Homes
    BY <1>4, <2>1, <2>2, BeginType DEF RotationRead, Succession, ActiveKeys
  <2> QED
    BY <2>3 DEF Succession, ActiveKeys, accountVars
<1>5. ASSUME NEW d \in KeyCalls, NEW k \in Keys, NEW stolen \in BOOLEAN, ReportRead(d, k, stolen)
      PROVE  Succession'
  <2>1. PICK old \in ActiveKeys(KeyOwner[k]) :
          Begin(d, [op |-> "report", old |-> old, new |-> k, at |-> now, stolen |-> stolen])
    BY <1>5 DEF ReportRead
  <2>2. [op |-> "report", old |-> old, new |-> k, at |-> now, stolen |-> stolen] \in KeyCall
    BY DEF ActiveKeys, KeyCall, RegistryTypeOK, AccountsTypeOK
  <2>3. UNCHANGED accountVars /\ Homes
    BY <1>5, <2>1, <2>2, BeginType DEF ReportRead, Succession
  <2> QED
    BY <2>3 DEF Succession, ActiveKeys, accountVars
<1>6. ASSUME NEW d \in KeyCalls, FirstKeyCommit(d)
      PROVE  Succession'
  <2>1. keyCalls[d].new \in Keys /\ Homes
    BY <1>2, <1>6, CallFields DEF FirstKeyCommit
  <2>2. \A k \in Keys : /\ keys'[k].status = "VERIFY_ONLY" => keys[k].status = "VERIFY_ONLY"
                        /\ keys[k].status = "ACTIVE" => keys'[k].status = "ACTIVE"
    BY <1>1, <1>6, <2>1 DEF FirstKeyCommit, MayActivate, FreshKey
  <2> QED
    BY <2>1, <2>2 DEF Succession, ActiveKeys
<1>7. ASSUME NEW d \in KeyCalls, RotationCommit(d)
      PROVE  Succession'
  <2> DEFINE old == keyCalls[d].old
             new == keyCalls[d].new
  <2>1. old \in Keys /\ new \in Keys /\ Homes /\ KeyOwner[old] = KeyOwner[new]
    BY <1>2, <1>7, CallFields DEF RotationCommit, Succession
  <2>2. CASE keys' = keys
    BY <2>1, <2>2 DEF Succession, ActiveKeys
  <2>3. ASSUME NEW t, MayActivate(new, {old}),
               keys' = [keys EXCEPT ![old] = Retired(t, t + RotationWindow), ![new] = FreshKey]
        PROVE  Succession'
    <3>1. /\ keys'[new].status = "ACTIVE"
          /\ \A k \in Keys \ {old, new} : keys'[k] = keys[k]
      BY <1>1, <2>1, <2>3 DEF FreshKey
    <3>2. ASSUME NEW k \in Keys, keys'[k].status = "VERIFY_ONLY"
          PROVE  \E j \in Keys : KeyOwner[j] = KeyOwner[k] /\ keys'[j].status = "ACTIVE"
      <4>1. CASE KeyOwner[k] = KeyOwner[new]
        BY <2>1, <3>1, <4>1
      <4>2. CASE KeyOwner[k] # KeyOwner[new]
        <5>1. keys[k].status = "VERIFY_ONLY"
          BY <2>1, <3>1, <3>2, <4>2
        <5>2. PICK j \in Keys : KeyOwner[j] = KeyOwner[k] /\ keys[j].status = "ACTIVE"
          BY <5>1 DEF Succession, ActiveKeys
        <5> QED
          BY <2>1, <3>1, <4>2, <5>2
      <4> QED
        BY <4>1, <4>2
    <3> QED
      BY <2>1, <3>2 DEF Succession, ActiveKeys
  <2> QED
    BY <1>7, <2>2, <2>3, RotationWrites
<1>8. ASSUME NEW d \in KeyCalls, ReportCommit(d) \/ CancelCommit(d)
      PROVE  Succession'
  <2>1. ~ReportCommit(d)
    BY DEF ReportCommit, FreeRequests, PendingRequests
  <2>2. ~CancelCommit(d)
    BY CallFields DEF CancelCommit
  <2> QED
    BY <1>8, <2>1, <2>2
<1> QED
  BY <1>3, <1>4, <1>5, <1>6, <1>7, <1>8 DEF HandlerStep, KeyStep

\* Every move stays within an account, and the account of a retired key has an
\* ACTIVE one.
LEMMA KeysSucceed ==
  ASSUME Requests = {}
  PROVE  Spec => []Succession
<1>1. Init => Succession
  BY DEF Init, RegistryInit, Succession, Idle, FreshKey, NoKey
<1>2. TypeOK /\ NamedRowsExist /\ Succession /\ [Next]_vars => Succession'
  <2> SUFFICES ASSUME TypeOK, NamedRowsExist, Succession, [Next]_vars
               PROVE  Succession'
    OBVIOUS
  <2>1. RegistryInv /\ AccountsInv /\ PaymentTypeOK
    BY DEF TypeOK, RegistryInv, AccountsInv, Capped
  <2>2. CASE RegistryStep
    BY <2>1, <2>2, SuccessionHandlers DEF RegistryStep
  <2>3. CASE TimePasses
    BY <2>3 DEF TimePasses, Tick, Succession, ActiveKeys
  <2>4. CASE ~RegistryStep /\ ~TimePasses
    BY <2>1, <2>4, PaymentsLeaveRegistry DEF Succession, ActiveKeys
  <2> QED
    BY <2>2, <2>3, <2>4
<1> QED
  BY <1>1, <1>2, SettlementTypes, PTL DEF Spec

\* The grounds on which money is given back, which then last.
Expired(e)   == e \in expired
KeyIsGone(e) == keys[e.key].status = "VERIFY_ONLY" /\ KeyRefuses(e, now)
Grounded     == \A e \in Envelopes : Released(e) => Expired(e) \/ KeyIsGone(e)

LEMMA KeyIsGoneStep ==
  ASSUME Requests = {}, TypeOK, NamedRowsExist, Succession, [Next]_vars,
         NEW e \in Envelopes, KeyIsGone(e)
  PROVE  KeyIsGone(e)'
<1>1. RegistryInv /\ AccountsInv /\ PaymentTypeOK
  BY DEF TypeOK, RegistryInv, AccountsInv, Capped
<1>2. \A c \in KeyCalls : ~ReportCommit(c)
  BY DEF ReportCommit, FreeRequests, PendingRequests
<1>3. ASSUME NEW c \in KeyCalls, RotationCommit(c), keyCalls[c].old = e.key
      PROVE  ~MayActivate(keyCalls[c].new, {e.key})
  <2>1. KeyOwner[keyCalls[c].new] = KeyOwner[e.key]
    BY <1>3 DEF RotationCommit, Succession
  <2>2. ActiveKeys(KeyOwner[e.key]) # {} /\ e.key \notin ActiveKeys(KeyOwner[e.key])
    BY EnvelopeFields DEF KeyIsGone, Succession, ActiveKeys
  <2> QED
    BY <2>1, <2>2 DEF MayActivate
<1> QED
  BY <1>1, <1>2, <1>3, RefusedByKeyStays DEF KeyIsGone

LEMMA GroundedStep ==
  ASSUME Requests = {}, PhoneDrift <= Skew,
         TypeOK, NamedRowsExist, Succession, SignedInTime, Grounded, [Next]_vars
  PROVE  Grounded'
<1> SUFFICES ASSUME NEW e \in Envelopes, Released(e)'
             PROVE  Expired(e)' \/ KeyIsGone(e)'
  BY DEF Grounded
<1>1. CASE Released(e)
  BY <1>1, ExpiredStays, KeyIsGoneStep DEF Grounded, Expired
<1>2. CASE ~Released(e)
  BY <1>2, ReleaseStep, KeyIsGoneStep DEF TypeOK, Expired, KeyIsGone
<1> QED
  BY <1>1, <1>2

\* Once the student's phone gave the money of a payment back, and no claim of
\* it is being handled, the payment is never made: for users who never report
\* a phone, whatever calls, polls and moves to new phones overlap.
THEOREM ReleasedStaysUnpaid ==
  ASSUME Requests = {}, PhoneDrift <= Skew
  PROVE  Spec => ReleasedIsSafe
<1> SUFFICES ASSUME NEW e \in Envelopes
             PROVE  Spec => [](Released(e) /\ ~InFlight(e) /\ ~Settled(e) => []~Settled(e))
  BY DEF ReleasedIsSafe
<1> DEFINE Unclaimed == \A c \in Calls : ~(calls[c].stage = "checked" /\ calls[c].env = e)
           Done == /\ ~Settled(e)
                   /\ \/ Expired(e) /\ Unclaimed
                      \/ KeyIsGone(e) /\ ~InFlight(e)
           Inv  == TypeOK /\ NamedRowsExist /\ SettledOnce /\ Succession /\ SignedInTime
<1>1. Spec => []Grounded
  <2>1. Init => Grounded
    BY DEF Init, Grounded, Released
  <2>2. Inv /\ Grounded /\ [Next]_vars => Grounded'
    BY GroundedStep
  <2> QED
    BY <2>1, <2>2, SettlementTypes, PaysOnce, KeysSucceed, PollsAreSigned, PTL DEF Spec
<1>2. Inv /\ Done /\ [Next]_vars => Done'
  <2> SUFFICES ASSUME Inv, Done, [Next]_vars PROVE Done'
    OBVIOUS
  <2>1. Unclaimed
    BY DEF TypeOK, InFlight, Free
  <2>2. ~Settled(e)'
    BY <2>1, NewlySettled DEF TypeOK
  <2>3. CASE Expired(e) /\ Unclaimed
    <3>1. Unclaimed'
      BY <2>3, NoClaimOfExpired DEF TypeOK, Expired
    <3> QED
      BY <2>2, <2>3, <3>1, ExpiredStays DEF Expired
  <2>4. CASE KeyIsGone(e) /\ ~InFlight(e)
    <3>1. KeyIsGone(e)'
      BY <2>4, KeyIsGoneStep
    <3>2. ~InFlight(e)'
      BY <2>4, NoClaimOfRefused DEF TypeOK, KeyIsGone
    <3> QED
      BY <2>2, <3>1, <3>2
  <2> QED
    BY <2>3, <2>4
<1>3. Grounded /\ Released(e) /\ ~InFlight(e) /\ ~Settled(e) => Done
  BY DEF Grounded, InFlight, Free
<1>4. Done => ~Settled(e)
  OBVIOUS
<1> QED
  BY <1>1, <1>2, <1>3, <1>4, SettlementTypes, PaysOnce, KeysSucceed, PollsAreSigned, PTL DEF Spec

-----------------------------------------------------------------------------
(* The deadline.  A claim reads the clock once, when it begins, and its first  *)
(* check compares the deadline with that time.                                 *)

\* Every claim of e in flight began after the deadline, and is still at its
\* first check.
OnlyLateClaims(e) ==
  \A c \in Calls : (calls[c] # Free /\ calls[c].env = e)
                    => calls[c].stage = "keyRead" /\ TooLate(e, calls[c].at)

LEMMA LateStep ==
  ASSUME AccountsInv, PaymentTypeOK, SettledOnce, [Next]_vars, NEW e \in Envelopes,
         TooLate(e, now), OnlyLateClaims(e), ~Settled(e)
  PROVE  TooLate(e, now)' /\ OnlyLateClaims(e)' /\ ~Settled(e)'
<1>1. TooLate(e, now)'
  <2>1. e.ts + ClaimWindow \in Int
    BY SettlementAssumption
  <2> QED
    BY <2>1, ClockAdvances DEF TooLate
<1>2. OnlyLateClaims(e)'
  <2> SUFFICES ASSUME NEW c \in Calls, calls'[c] # Free, calls'[c].env = e
               PROVE  calls'[c].stage = "keyRead" /\ TooLate(e, calls'[c].at)
    BY DEF OnlyLateClaims, TooLate
  <2>1. CASE calls'[c] = calls[c]
    BY <2>1 DEF OnlyLateClaims
  <2>2. CASE /\ calls[c] # Free /\ calls'[c].env = calls[c].env
             /\ calls[c].stage = "checked" \/ ClaimOpen(calls[c])
    BY <2>2 DEF OnlyLateClaims, ClaimOpen
  <2>3. CASE calls'[c].stage = "keyRead" /\ calls'[c].at = now
    BY <2>3
  <2> QED
    BY <2>1, <2>2, <2>3, ClaimStep
<1>3. ~Settled(e)'
  <2>1. \A c \in Calls : ~(calls[c].stage = "checked" /\ calls[c].env = e)
    BY DEF OnlyLateClaims, Free
  <2> QED
    BY <2>1, NewlySettled
<1> QED
  BY <1>1, <1>2, <1>3

\* After its deadline, once no claim of it is in flight, a payment is never
\* made, whatever late claims, polls, key moves and recoveries follow.
THEOREM DeadlineIsFinal == Spec => DeadlineCloses
<1> SUFFICES ASSUME NEW e \in Envelopes
             PROVE  Spec => [](TooLate(e, now) /\ ~InFlight(e) /\ ~Settled(e) => []~Settled(e))
  BY DEF DeadlineCloses
<1> DEFINE Closed == TooLate(e, now) /\ OnlyLateClaims(e) /\ ~Settled(e)
<1>1. TypeOK /\ NamedRowsExist /\ SettledOnce /\ Closed /\ [Next]_vars => Closed'
  BY LateStep DEF TypeOK, RegistryInv, AccountsInv, Capped
<1>2. TooLate(e, now) /\ ~InFlight(e) /\ ~Settled(e) => Closed
  BY DEF InFlight, OnlyLateClaims
<1>3. Closed => ~Settled(e)
  OBVIOUS
<1> QED
  BY <1>1, <1>2, <1>3, SettlementTypes, PaysOnce, PTL DEF Spec
=============================================================================
