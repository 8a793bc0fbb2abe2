------------------------------- MODULE Phone -------------------------------
(***************************************************************************)
(* A phone of an account that may have another phone: the whole next-state *)
(* relation, and what is said about it.                                    *)
(***************************************************************************)
EXTENDS PhoneKeys

PhoneInit ==
  /\ disk = [active |-> Empty, pending |-> Empty, phone |-> [token |-> None, profile |-> None]]
  /\ app = [status |-> "loading", fresh |-> FALSE, after |-> "unset", seen |-> None]
  /\ held = [key |-> None, staged |-> None]
  /\ job = Boot
  /\ tail = NoTail
  /\ flight = None
  /\ \E linked \in BOOLEAN :
       srv = [exists |-> TRUE, active |-> IF linked THEN Other ELSE None, req |-> None,
              registered |-> IF linked THEN {Other} ELSE {}]
  /\ sigs = {} /\ made = 0 /\ kills = 0

\* What the phone does by itself once it has begun.
Continue ==
  \/ StoreJob \/ StoreTail \/ BootStep \/ TailStep
  \/ SignInMe \/ SignIn \/ Unlock \/ SignOut \/ Over \/ KeyAnswers

PhoneNext ==
  \/ Continue \/ PollStep \/ Kill \/ KeyStarts \/ Others
  \/ EnterCode \/ RightPin \/ WrongPin \/ Lock \/ FreshCheck \/ Age \/ LockoutEnds
  \/ AccountRemoved

PhoneSpec == PhoneInit /\ [][PhoneNext]_phoneVars

\* The store answers, requests answer or time out (client.ts, 30 s), and the
\* event loop runs what is ready.
PhoneFairSpec == PhoneSpec /\ WF_phoneVars(Continue)

----------------------------------------------------------------------------

\* Types of everything the phone stores, holds and has under way, and of the
\* account's rows; a request, loaded or latest, names a key or is absent.
PhoneTypeOK ==
  /\ disk.active \in Slots /\ disk.pending \in Slots
  /\ disk.phone.token \in Tokens \cup {None} /\ disk.phone.profile \in {"cached", None}
  /\ app.status \in {"loading", "unauthed", "locked", "authed"} \cup Enrolling
  /\ app.fresh \in BOOLEAN /\ app.after \in {"unset", "no"}
  /\ held.key \in Own \cup {None} /\ held.staged \in Own \cup {None}
  /\ srv.active \in Keys \cup {None} /\ srv.registered \subseteq Keys
  /\ srv.active # None => srv.active \in srv.registered
  /\ sigs \subseteq [new : Keys, by : Keys]

\* The key that signs payments from memory is the one sealed in the active slot: no
\* wipe, reset or refusal leaves one without the other.  If the app was never killed,
\* the public key stored next to it is of the same key (keypair-store.ts:182).
HeldIsStored ==
  Idle /\ srv.exists /\ held.key # None =>
    /\ Complete(disk.active) /\ disk.active.blob.key = held.key
    /\ kills = 0 => disk.active.pub = held.key

\* activateApprovedRecovery does not ask whether the request it calls approved is for
\* the key that waits here: it may replace the account's key by another.
Replaced == job.at = "promoted" /\ PendingThere /\ ~Holds(disk.pending, srv.active)

\* No handler runs, or one that neither makes a key, changes its PIN nor deletes it.
Preserves == job.kind \in {"none", "boot", "signIn", "unlock", "approve", "activate", "transfer"}

\* The account's key, once this phone holds it, stays openable in one of the
\* slots over promotion, moves, refusals, crashes and sign-ins.
OnThisPhone == srv.active # None /\ \E s \in {"active", "pending"} : Holds(disk[s], srv.active)
KeyNeverLost ==
  [][OnThisPhone /\ ~Replaced /\ Preserves
     => \E s \in {"active", "pending"} : Holds(disk'[s], srv.active)]_phoneVars

\* The start of the app ends, whatever is stored and whatever /me answers.
StartEnds == app.status = "loading" ~> app.status # "loading"
=============================================================================
