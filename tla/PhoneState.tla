---------------------------- MODULE PhoneState ----------------------------
(***************************************************************************)
(* One phone of one account: what survives its app being killed (disk),    *)
(* what does not (app, held, job, tail, flight), and what the rest of the  *)
(* world knows (srv, sigs).                                                *)
(*                                                                         *)
(* JavaScript runs one thread, so the code between two awaits is one step. *)
(* A handler that is under way is a job: `todo` holds the storage writes   *)
(* it will await next, `at` names the code that runs when they are done.   *)
(***************************************************************************)
EXTENDS Vault, FiniteSets

CONSTANTS
  MaxKills,    \* BOUND: times the app is killed
  MaxRequests, \* BOUND: recovery requests of the account
  Polls,       \* BOUND: background requests are sent
  MayVanish    \* BOUND: the account may be removed

VARIABLES
  disk,   \* the slots "active" and "pending"; of "phone": token and profile
  app,    \* AppState of auth-state.ts, and the request recovery-pending.tsx shows
  held,   \* key: decryptedPrivateKey; staged: pendingRecoveryKeypair
  job,    \* the handler the user (or the start) has under way
  tail,   \* what a 401 or a 404 left to do: unauthorized handler, local reset
  flight, \* the token sent with a background request, or None
  srv,    \* the account: its current key, its keys, its latest recovery request
  sigs,   \* the rotation signatures shown as codes: [new, by]
  made,   \* keys generated so far
  kills

phoneVars == <<disk, app, held, job, tail, flight, srv, sigs, made, kills>>

Tokens == {"fresh", "stale"}

----------------------------------------------------------------------------
\* AppState.  The screens of (onboarding) stay mounted between onboarding and
\* recovery_pending, and with them the recovery request they last loaded.
Enrolling == {"onboarding", "recovery_pending"}

State(status, fresh, after) ==
  [status |-> status, fresh |-> fresh, after |-> after,
   seen |-> IF status \in Enrolling /\ app.status \in Enrolling THEN app.seen ELSE None]

Unauthed == State("unauthed", FALSE, "unset")
Authed(fresh) == State("authed", fresh, "unset")

\* toLockedOrUnauthed; user says whether a profile is at hand.
LockedOrUnauthed(user, hasJwt, after) ==
  IF user THEN State("locked", hasJwt, after) ELSE Unauthed

\* setState(prev => ...) knows the profile in every state past sign-in.
UserKnown == app.status \in {"authed", "locked"} \cup Enrolling
Profile == disk.phone.profile # None
UserAtHand == UserKnown \/ Profile

----------------------------------------------------------------------------
NoJob == [kind |-> "none", at |-> "end", todo |-> <<>>, key |-> None,
          pub |-> None, token |-> None]
NoTail == [kind |-> "none", at |-> "end", todo |-> <<>>]

Boot == [NoJob EXCEPT !.kind = "boot", !.at = "read"]

\* One handler at a time: its screen is busy until it ends.  BOUND: a person
\* starts nothing in the few storage accesses between a 401 and its end.
Idle == job.kind = "none" /\ tail.kind = "none"
Start(kind, at, todo, key, pub) ==
  job' = [NoJob EXCEPT !.kind = kind, !.at = at, !.todo = todo, !.key = key, !.pub = pub]
StartWriting(kind, at, todo) == Start(kind, at, todo, None, None)
Then(at, todo) == job' = [job EXCEPT !.at = at, !.todo = todo]
Finish == job' = NoJob

At(kind, at) == job.kind = kind /\ job.at = at /\ job.todo = <<>>

SetToken(token) == << {Write("phone", "token", token)} >>

\* The next writes of a handler reach the store.
StoreJob ==
  /\ job.todo # <<>>
  /\ disk' = Stored(disk, Head(job.todo))
  /\ job' = [job EXCEPT !.todo = Tail(job.todo)]
  /\ UNCHANGED <<app, held, tail, flight, srv, sigs, made, kills>>

StoreTail ==
  /\ tail.todo # <<>>
  /\ disk' = Stored(disk, Head(tail.todo))
  /\ tail' = [tail EXCEPT !.todo = Tail(tail.todo)]
  /\ UNCHANGED <<app, held, job, flight, srv, sigs, made, kills>>

\* What a killed batch may have written.  BOUND: it has one write done at most,
\* or one missing at most.
Cuts(todo) ==
  IF todo = <<>> THEN {{}}
  ELSE LET batch == Head(todo)
       IN  {{}, batch} \cup {{w} : w \in batch} \cup {batch \ {w} : w \in batch}

\* The app is killed between two writes, or within a batch, and starts again.
Kill ==
  /\ kills < MaxKills
  /\ \E done \in Cuts(job.todo), late \in Cuts(tail.todo) :
       disk' = Stored(Stored(disk, done), late)
  /\ app' = [status |-> "loading", fresh |-> FALSE, after |-> "unset", seen |-> None]
  /\ held' = [key |-> None, staged |-> None]
  /\ job' = Boot
  /\ tail' = NoTail
  /\ flight' = None
  /\ kills' = kills + 1
  /\ UNCHANGED <<srv, sigs, made>>

----------------------------------------------------------------------------
\* Requests.  The token is read when the request is sent (client.ts).
Admitted == srv.exists /\ disk.phone.token = "fresh"

\* A 401 answer runs the handler: the key leaves memory at once, the rest waits.
\* BOUND: one handler at a time.
Unauthorized ==
  /\ tail.kind = "none"
  /\ held' = [held EXCEPT !.key = None]
  /\ tail' = [NoTail EXCEPT !.kind = "refused", !.at = "read"]

NoAlarm == UNCHANGED <<held, tail>>

\* keys.controller.ts: what POST /auth/keys/register does with a key.
TakesFirst(key)      == srv.active = None /\ key \notin srv.registered
TakesMove(key, by)   == srv.active # None /\ (srv.active = key \/ (key \notin srv.registered /\ by = srv.active))
ActivatedOnly(key) == [srv EXCEPT !.active = key]  \* mutant of Activated
Activated(key) == [srv EXCEPT !.active = key, !.registered = @ \cup {key}]
=============================================================================
