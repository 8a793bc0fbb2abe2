------------------------------ MODULE OneTimeCodes ------------------------------
(* One-time codes: the store of redis-otp-store.service.ts as the requests of    *)
(* the backend use it.  Every call of Redis is a step; a code is hashed and       *)
(* compared between two of them, so other requests come in between.  A code is    *)
(* the number of its request: two requests never draw the same one.  What a       *)
(* request does before and after the store is module Access.                      *)
EXTENDS Naturals, Sequences, FiniteSets

CONSTANTS
    Emails,         \* normalised e-mail addresses
    Calls,          \* requests the backend can have in flight
    None,           \* no row, no record, no lock
    Details,        \* what a merchant may enter at sign-up
    Ttl,            \* ttlMs: how long a code is valid
    Window,         \* rateLimitWindowMs
    MaxPerWindow,   \* maxRequestsPerWindow
    MaxFailed,      \* maxFailedAttempts
    MaxCodes,       \* BOUND on the codes sent
    MaxNow          \* BOUND on the clock

ASSUME StoreAssumption ==
    /\ {Ttl, Window, MaxPerWindow, MaxCodes, MaxNow} \subseteq Nat
    /\ MaxFailed \in Nat \ {0}

Doors   == {"public", "admin"}         \* the key is the e-mail, or "admin:" and the e-mail
Targets == Emails \X Doors
Codes   == 1 .. MaxCodes
Wrong   == 0                           \* a guess that is nobody's code

VARIABLES
    now,        \* the clock
    issued,     \* how many codes have been drawn
    record,     \* otp:record, by target
    rate,       \* otp:rate, by target: the times of the requests let through
    lock,       \* otp:verify-lock, by target: the call that holds it
    calls,      \* requests in flight
    tries,      \* wrong guesses counted against a code
    opened      \* verifications a code has been accepted in

store == <<record, rate, lock>>
seen  == <<tries, opened>>

Call(pc, kind, t, g, at, d) ==
    [pc |-> pc, kind |-> kind, target |-> t, code |-> g, at |-> at, read |-> None, details |-> d]
Idle   == Call("idle", None, None, Wrong, 0, None)
Record == [code : Codes, expires : Nat, failed : Nat, drops : Nat]
Target(c) == calls[c].target
At(c, pc) == calls[c].pc = pc
Go(c, pc) == calls' = [calls EXCEPT ![c].pc = pc]
Done(c)   == calls' = [calls EXCEPT ![c] = Idle]

StoreInit ==
    /\ now = 0 /\ issued = 0
    /\ record = [t \in Targets |-> None]
    /\ rate = [t \in Targets |-> <<>>]
    /\ lock = [t \in Targets |-> None]
    /\ calls = [c \in Calls |-> Idle]
    /\ tries = [k \in Codes |-> 0]
    /\ opened = [k \in Codes |-> 0]

-----------------------------------------------------------------------------
(* Asking for a code.                                                          *)

\* checkAndRecordRequest: one script drops what has left the window, counts and adds.
\* Here the clock drops it (Tick).
UnderLimit(t) == Len(rate[t]) < MaxPerWindow
CheckAndRecord(t) ==
    rate' = [rate EXCEPT ![t] = IF UnderLimit(t) THEN Append(@, now) ELSE @]

\* A request let through draws a code and hashes it, which takes its time.
Draws(c, kind, t, d) ==
    /\ issued < MaxCodes
    /\ issued' = issued + 1
    /\ calls' = [calls EXCEPT ![c] = Call("save", kind, t, issued + 1, 0, d)]

\* When Redis drops the record: the key keeps the time of the record before until a second
\* call sets it, which may come too late or not at all.
Drops(t) == {now + Ttl} \cup (IF record[t] = None THEN {} ELSE {record[t].drops})

\* The record is written over the one before.  Sending the code matters to what follows only
\* for a merchant.
SaveCode(c) ==
    /\ At(c, "save")
    /\ \E drops \in Drops(Target(c)) :
         record' = [record EXCEPT ![Target(c)] =
             [code |-> calls[c].code, expires |-> now + Ttl, failed |-> 0, drops |-> drops]]
    /\ IF calls[c].kind = "merchant" THEN Go(c, "send") ELSE Done(c)
    /\ UNCHANGED <<now, issued, rate, lock, seen>>

-----------------------------------------------------------------------------
(* Verifying a code.  Taking the lock and reading the record is one step, and    *)
(* so is freeing the lock with the last call before it: the lock only keeps      *)
(* other verifications out, as long as its time has not run out.                 *)

\* Only the holder frees the lock, which may have run out and be another call's by now.
Unlocked(c) == IF lock[Target(c)] = c THEN [lock EXCEPT ![Target(c)] = None] ELSE lock

\* The lock is taken and the record read, or the guess is refused at once.  The clock was
\* read when the request came in.
Expired(c, r) == calls[c].at > r.expires
TakeLock(c) ==
    LET r == record[Target(c)] IN
    /\ At(c, "lock")
    /\ IF lock[Target(c)] # None \/ r = None THEN Done(c) /\ UNCHANGED lock
       ELSE /\ lock' = [lock EXCEPT ![Target(c)] = c]
            /\ calls' = [calls EXCEPT ![c].pc = IF Expired(c, r) THEN "clean" ELSE "compare",
                                      ![c].read = r.code, ![c].at = 0]
    /\ UNCHANGED <<now, issued, record, rate, seen>>

\* An expired record is deleted by its key, whatever the key holds by now.
CleanExpired(c) ==
    /\ At(c, "clean")
    /\ record' = [record EXCEPT ![Target(c)] = None]
    /\ lock' = Unlocked(c)
    /\ Done(c)
    /\ UNCHANGED <<now, issued, rate, seen>>

\* Mutant: the script does not compare the hash with the one that was read.
AnyRecord(c)  == record[Target(c)] # None
\* The script that ends a verification: the record must still be the one that was read.
SameRecord(c) == record[Target(c)] # None /\ record[Target(c)].code = calls[c].read
Matches(c)    == calls[c].code = calls[c].read

Accept(c) ==
    /\ SameRecord(c) /\ Matches(c)
    /\ record' = [record EXCEPT ![Target(c)] = None]
    /\ opened' = [opened EXCEPT ![calls[c].read] = @ + 1]
    /\ calls' = [calls EXCEPT ![c].pc = "account", ![c].code = Wrong, ![c].read = None]
    /\ UNCHANGED tries

Blamed(r) == [r EXCEPT !.failed = @ + 1]

\* Mutant: one try too many.
OneMore(c) ==
    /\ SameRecord(c) /\ ~Matches(c)
    /\ record' = [record EXCEPT ![Target(c)] =
           IF @.failed + 1 > MaxFailed THEN None ELSE Blamed(@)]
    /\ tries' = [tries EXCEPT ![calls[c].read] = @ + 1]
    /\ Done(c)
    /\ UNCHANGED opened

\* A wrong guess is counted, and the last one allowed takes the record with it.
Count(c) ==
    /\ SameRecord(c) /\ ~Matches(c)
    /\ record' = [record EXCEPT ![Target(c)] =
           IF @.failed + 1 >= MaxFailed THEN None ELSE Blamed(@)]
    /\ tries' = [tries EXCEPT ![calls[c].read] = @ + 1]
    /\ Done(c)
    /\ UNCHANGED opened

Finalize(c) ==
    /\ At(c, "compare")
    /\ lock' = Unlocked(c)
    /\ \/ Accept(c)
       \/ Count(c)
       \/ ~SameRecord(c) /\ Done(c) /\ UNCHANGED <<record, seen>>
    /\ UNCHANGED <<now, issued, rate>>

-----------------------------------------------------------------------------
(* Redis drops a key whose time has come; the lock's five seconds may pass      *)
(* while its holder still compares.                                             *)

RecordGone(t) ==
    /\ record[t] # None /\ record[t].drops < now
    /\ record' = [record EXCEPT ![t] = None]
    /\ UNCHANGED <<now, issued, rate, lock, calls, seen>>

LockGone(t) ==
    /\ lock[t] # None
    /\ lock' = [lock EXCEPT ![t] = None]
    /\ UNCHANGED <<now, issued, record, rate, calls, seen>>

Tick ==
    /\ now < MaxNow
    /\ now' = now + 1
    /\ rate' = [t \in Targets |-> SelectSeq(rate[t], LAMBDA at : at + Window > now + 1)]
    /\ UNCHANGED <<issued, record, lock, calls, seen>>

\* What a call of the store does by itself.
StoreStep(c) ==
    \/ SaveCode(c) \/ TakeLock(c) \/ CleanExpired(c) \/ Finalize(c)

StoreNext ==
    \/ \E c \in Calls : StoreStep(c)
    \/ \E t \in Targets : RecordGone(t) \/ LockGone(t)
    \/ Tick
=============================================================================
