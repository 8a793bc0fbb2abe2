------------------------------- MODULE Vault -------------------------------
(***************************************************************************)
(* The phone's secure store (mobile/src/crypto/keypair-store.ts): two      *)
(* slots for a sealed private key, and next to them the session token.     *)
(*                                                                         *)
(* A slot is four entries, and every entry is written by an await of its   *)
(* own.  A sealed key is its key and PIN; the salt of a slot is named      *)
(* after the sealing it was made for, so a slot opens only when its salt   *)
(* and its blob are of one sealing.  Programs of storage writes are        *)
(* sequences of sets: the writes of one Promise.all are one set.           *)
(***************************************************************************)
EXTENDS Naturals, Sequences

CONSTANTS
  None,      \* an absent entry
  Pins,      \* the PINs people type
  MaxKeys,   \* BOUND: keys this phone generates
  LockEvery, \* ATTEMPTS_BEFORE_LOCKOUT
  WipeAt     \* ATTEMPTS_BEFORE_WIPE

ASSUME VaultAssumption ==
  /\ MaxKeys \in Nat /\ LockEvery \in Nat \ {0} /\ WipeAt \in Nat \ {0}
  /\ None \notin Nat /\ None \notin [key : 1 .. MaxKeys, pin : Pins]

Other == 0             \* the key of the account's other phone
Own   == 1 .. MaxKeys  \* keys generated on this phone
Keys  == Own \cup {Other}

Seals == [key : Own, pin : Pins]
Tries == [wrong : 1 .. WipeAt - 1, locked : BOOLEAN]
Slots == [salt : Seals \cup {None}, blob : Seals \cup {None},
          pub : Own \cup {None}, tries : Tries \cup {None}]

Fields == {"salt", "blob", "pub", "tries"}
Empty  == [salt |-> None, blob |-> None, pub |-> None, tries |-> None]

Complete(slot) == slot.salt # None /\ slot.blob # None /\ slot.pub # None

Locked(slot) == slot.tries # None /\ slot.tries.locked

\* loadAndDecryptKeypairFromSlot: the stored salt derives the key of the blob.
Opens(slot, pin) ==
  Complete(slot) /\ ~Locked(slot) /\ slot.salt = slot.blob /\ slot.blob.pin = pin

\* Some PIN opens the slot once a lockout is over, to this key.
Holds(slot, key) ==
  Complete(slot) /\ slot.salt = slot.blob /\ slot.blob.key = key /\ slot.pub = key

----------------------------------------------------------------------------
\* Programs.  A write names its slot (or "phone"), the entry and its new value.
Write(where, field, to) == [where |-> where, field |-> field, to |-> to]

SaveSlot(where, key, pub, pin) ==
  LET seal == [key |-> key, pin |-> pin]
  IN  << {Write(where, "salt", seal)}, {Write(where, "blob", seal)},
         {Write(where, "pub", pub)}, {Write(where, "tries", None)} >>

Deletes(where) == {Write(where, f, None) : f \in Fields}

WipeSlot(where) == << Deletes(where) >>

CopySlot(slot, to) ==
  << {Write(to, "salt", slot.salt)}, {Write(to, "blob", slot.blob)},
     {Write(to, "pub", slot.pub)}, {Write(to, "tries", slot.tries)} >>

WipeThenCopy(slot, from, to) == WipeSlot(from) \o CopySlot(slot, to)  \* mutant of MoveSlot
MoveSlot(slot, from, to) == CopySlot(slot, to) \o WipeSlot(from)

ClearTries(where) == << {Write(where, "tries", None)} >>

Wrong(slot) == IF slot.tries = None THEN 0 ELSE slot.tries.wrong

LastTry(slot) == Wrong(slot) + 1 >= WipeAt

\* recordWrongAttemptForSlot: the cap wipes the slot, every LockEvery-th
\* wrong PIN locks it, and the others are counted.
WrongTry(slot, where) ==
  LET n == Wrong(slot) + 1
  IN  IF LastTry(slot)
      THEN WipeSlot(where)
      ELSE << {Write(where, "tries", [wrong |-> n, locked |-> n % LockEvery = 0])} >>

\* The store after some of the writes of one batch.
Stored(disk, writes) ==
  [w \in DOMAIN disk |-> [f \in DOMAIN disk[w] |->
     IF \E x \in writes : x.where = w /\ x.field = f
     THEN (CHOOSE x \in writes : x.where = w /\ x.field = f).to
     ELSE disk[w][f]]]
=============================================================================
