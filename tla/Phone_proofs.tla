---------------------------- MODULE Phone_proofs ----------------------------
(***************************************************************************)
(* What the phone stores and holds, for any number of keys, PINs, kills,   *)
(* requests and polls.                                                     *)
(*                                                                         *)
(* A handler is known by the writes it has still to make, so the invariant *)
(* says of every kind of handler what its remaining program does to either *)
(* slot: spare it, erase it, seal the same key again, or bring it to a     *)
(* given content (WritesSafe).  Then follow the key a handler carries      *)
(* (KeysSafe), what memory and the slots have to do with each other        *)
(* (MemorySafe), and that only the removal of the account lets a 404       *)
(* delete a slot (WorldSafe).                                              *)
(***************************************************************************)
EXTENDS Phone, SequenceTheorems, TLAPS

-----------------------------------------------------------------------------
(* The store and the programs of writes to it.                               *)

EntryOf(f) ==
  IF f = "salt" \/ f = "blob" THEN Seals
  ELSE IF f = "pub" THEN Own ELSE Tries

Disks ==
  [active : Slots, pending : Slots, phone : [token : Tokens \cup {None}, profile : {"cached", None}]]

SlotWrites ==
  {w \in [where : {"active", "pending"}, field : Fields, to : Seals \cup Own \cup Tries \cup {None}] :
     w.to = None \/ w.to \in EntryOf(w.field)}

PhoneWrites ==
  [where : {"phone"}, field : {"token"}, to : Tokens \cup {None}]
    \cup [where : {"phone"}, field : {"profile"}, to : {"cached", None}]

Writes   == SlotWrites \cup PhoneWrites
Programs == Seq(SUBSET Writes)

\* The writes a program has still to make.
Due(todo) == UNION {todo[i] : i \in DOMAIN todo}

LEMMA StoredEntry ==
  ASSUME NEW d \in Disks, NEW ws \in SUBSET Writes, NEW s \in {"active", "pending"}, NEW f \in Fields
  PROVE  Stored(d, ws)[s][f] = IF \E x \in ws : x.where = s /\ x.field = f
                               THEN (CHOOSE x \in ws : x.where = s /\ x.field = f).to
                               ELSE d[s][f]
<1>1. DOMAIN d = {"active", "pending", "phone"} /\ DOMAIN d[s] = Fields
  BY DEF Disks, Slots, Fields
<1> QED
  BY <1>1 DEF Stored

\* An entry that is not written keeps its value, one that is written has one of
\* the values written to it.
LEMMA StoredValue ==
  ASSUME NEW d \in Disks, NEW ws \in SUBSET Writes, NEW s \in {"active", "pending"}, NEW f \in Fields
  PROVE  \/ (\A x \in ws : ~(x.where = s /\ x.field = f)) /\ Stored(d, ws)[s][f] = d[s][f]
         \/ \E x \in ws : x.where = s /\ x.field = f /\ Stored(d, ws)[s][f] = x.to
BY StoredEntry

LEMMA StoredKeeps ==
  ASSUME NEW d \in Disks, NEW ws \in SUBSET Writes, NEW s \in {"active", "pending"},
         \A x \in ws : x.where # s
  PROVE  Stored(d, ws)[s] = d[s]
<1>1. DOMAIN d = {"active", "pending", "phone"} /\ DOMAIN d[s] = Fields
  BY DEF Disks, Slots, Fields
<1>2. Stored(d, ws)[s] = [f \in Fields |-> Stored(d, ws)[s][f]]
  BY <1>1 DEF Stored
<1>3. d[s] = [f \in Fields |-> d[s][f]]
  BY DEF Disks, Slots, Fields
<1>4. \A f \in Fields : Stored(d, ws)[s][f] = d[s][f]
  BY StoredEntry
<1> QED
  BY <1>2, <1>3, <1>4

LEMMA StoredTypes ==
  ASSUME NEW d \in Disks, NEW ws \in SUBSET Writes
  PROVE  Stored(d, ws) \in Disks
<1>1. DOMAIN d = {"active", "pending", "phone"} /\ DOMAIN d["phone"] = {"token", "profile"}
  BY DEF Disks
<1>2. ASSUME NEW s \in {"active", "pending"}
      PROVE  Stored(d, ws)[s] \in Slots
  <2>1. DOMAIN d[s] = Fields
    BY DEF Disks, Slots, Fields
  <2>2. Stored(d, ws)[s] = [f \in Fields |-> Stored(d, ws)[s][f]]
    BY <1>1, <2>1 DEF Stored
  <2>3. \A f \in Fields : d[s][f] \in EntryOf(f) \cup {None}
    BY DEF Disks, Slots, Fields, EntryOf
  <2>4. \A f \in Fields : Stored(d, ws)[s][f] \in EntryOf(f) \cup {None}
    BY <2>3, StoredValue DEF Writes, SlotWrites, PhoneWrites
  <2> QED
    BY <2>2, <2>4 DEF Slots, Fields, EntryOf
<1>3. Stored(d, ws)["phone"] \in [token : Tokens \cup {None}, profile : {"cached", None}]
  <2>1. Stored(d, ws)["phone"] =
          [f \in {"token", "profile"} |->
             IF \E x \in ws : x.where = "phone" /\ x.field = f
             THEN (CHOOSE x \in ws : x.where = "phone" /\ x.field = f).to
             ELSE d["phone"][f]]
    BY <1>1 DEF Stored
  <2>2. d["phone"].token \in Tokens \cup {None} /\ d["phone"].profile \in {"cached", None}
    BY DEF Disks
  <2>3. \A x \in ws : x.where = "phone" /\ x.field = "token" => x.to \in Tokens \cup {None}
    BY DEF Writes, SlotWrites, PhoneWrites
  <2>4. \A x \in ws : x.where = "phone" /\ x.field = "profile" => x.to \in {"cached", None}
    BY DEF Writes, SlotWrites, PhoneWrites
  <2>5. Stored(d, ws)["phone"].token \in Tokens \cup {None}
    BY <2>1, <2>2, <2>3
  <2>6. Stored(d, ws)["phone"].profile \in {"cached", None}
    BY <2>1, <2>2, <2>4
  <2> QED
    BY <2>1, <2>5, <2>6
<1>4. Stored(d, ws) = [s \in {"active", "pending", "phone"} |-> Stored(d, ws)[s]]
  BY <1>1 DEF Stored
<1> QED
  BY <1>2, <1>3, <1>4 DEF Disks

-----------------------------------------------------------------------------
(* Programs.                                                                 *)

LEMMA NextWrites ==
  ASSUME NEW todo \in Programs, todo # <<>>
  PROVE  /\ Head(todo) \in SUBSET Writes /\ Head(todo) = todo[1]
         /\ Tail(todo) \in Programs
         /\ Len(todo) \in Nat \ {0} /\ Len(Tail(todo)) = Len(todo) - 1
         /\ \A i \in 1..Len(todo) - 1 : Tail(todo)[i] = todo[i + 1]
         /\ DOMAIN todo = 1..Len(todo) /\ DOMAIN Tail(todo) = 1..Len(todo) - 1
         /\ Due(todo) = Head(todo) \cup Due(Tail(todo))
<1>1. /\ Head(todo) \in SUBSET Writes /\ Tail(todo) \in Programs
      /\ Len(Tail(todo)) = Len(todo) - 1
      /\ \A i \in 1..Len(Tail(todo)) : Tail(todo)[i] = todo[i + 1]
  BY HeadTailProperties DEF Programs
<1>2. Len(todo) \in Nat \ {0} /\ DOMAIN todo = 1..Len(todo)
  BY EmptySeq, LenProperties DEF Programs
<1>3. DOMAIN Tail(todo) = 1..Len(todo) - 1
  BY <1>1, LenProperties DEF Programs
<1>4. Head(todo) = todo[1]
  OBVIOUS
<1>5. Due(todo) \subseteq Head(todo) \cup Due(Tail(todo))
  <2> SUFFICES ASSUME NEW i \in 1..Len(todo)
               PROVE  todo[i] \subseteq Head(todo) \cup Due(Tail(todo))
    BY <1>2 DEF Due
  <2>1. CASE i = 1
    BY <1>4, <2>1
  <2>2. CASE i # 1
    <3>1. i - 1 \in DOMAIN Tail(todo) /\ Tail(todo)[i - 1] = todo[i]
      BY <1>1, <1>2, <1>3, <2>2
    <3> QED
      BY <3>1 DEF Due
  <2> QED
    BY <2>1, <2>2
<1>6. Head(todo) \cup Due(Tail(todo)) \subseteq Due(todo)
  <2>1. Head(todo) \subseteq Due(todo)
    BY <1>2, <1>4 DEF Due
  <2>2. ASSUME NEW i \in DOMAIN Tail(todo)
        PROVE  Tail(todo)[i] \subseteq Due(todo)
    <3>1. i + 1 \in DOMAIN todo /\ Tail(todo)[i] = todo[i + 1]
      BY <1>1, <1>2, <1>3
    <3> QED
      BY <3>1 DEF Due
  <2> QED
    BY <2>1, <2>2 DEF Due
<1> QED
  BY <1>1, <1>2, <1>3, <1>4, <1>5, <1>6

LEMMA DueOfJoin ==
  ASSUME NEW s \in Programs, NEW t \in Programs
  PROVE  s \o t \in Programs /\ Due(s \o t) = Due(s) \cup Due(t)
<1>1. /\ s \o t \in Programs /\ Len(s \o t) = Len(s) + Len(t)
      /\ \A i \in 1..Len(s) + Len(t) : (s \o t)[i] = IF i <= Len(s) THEN s[i] ELSE t[i - Len(s)]
  BY ConcatProperties DEF Programs
<1>2. /\ Len(s) \in Nat /\ DOMAIN s = 1..Len(s) /\ Len(t) \in Nat /\ DOMAIN t = 1..Len(t)
      /\ DOMAIN (s \o t) = 1..Len(s) + Len(t)
  BY <1>1, LenProperties DEF Programs
<1>3. Due(s \o t) \subseteq Due(s) \cup Due(t)
  <2> SUFFICES ASSUME NEW i \in 1..Len(s) + Len(t)
               PROVE  (s \o t)[i] \subseteq Due(s) \cup Due(t)
    BY <1>2 DEF Due
  <2>1. CASE i <= Len(s)
    BY <1>1, <1>2, <2>1 DEF Due
  <2>2. CASE ~(i <= Len(s))
    <3>1. i - Len(s) \in DOMAIN t /\ (s \o t)[i] = t[i - Len(s)]
      BY <1>1, <1>2, <2>2
    <3> QED
      BY <3>1 DEF Due
  <2> QED
    BY <2>1, <2>2
<1>4. Due(s) \subseteq Due(s \o t)
  <2>1. \A i \in DOMAIN s : i \in DOMAIN (s \o t) /\ (s \o t)[i] = s[i]
    BY <1>1, <1>2
  <2> QED
    BY <2>1 DEF Due
<1>5. Due(t) \subseteq Due(s \o t)
  <2>1. \A i \in DOMAIN t : Len(s) + i \in DOMAIN (s \o t) /\ (s \o t)[Len(s) + i] = t[i]
    BY <1>1, <1>2
  <2> QED
    BY <2>1 DEF Due
<1> QED
  BY <1>1, <1>3, <1>4, <1>5

LEMMA ShortPrograms ==
  /\ <<>> \in Programs /\ Due(<<>>) = {}
  /\ \A b \in SUBSET Writes : <<b>> \in Programs /\ Due(<<b>>) = b
  /\ \A b1, b2, b3, b4 \in SUBSET Writes :
       <<b1, b2, b3, b4>> \in Programs /\ Due(<<b1, b2, b3, b4>>) = b1 \cup b2 \cup b3 \cup b4
<1>1. <<>> \in Programs /\ Due(<<>>) = {}
  BY DEF Programs, Due
<1>2. \A b \in SUBSET Writes : <<b>> \in Programs /\ Due(<<b>>) = b
  BY DEF Programs, Due
<1>3. ASSUME NEW b1 \in SUBSET Writes, NEW b2 \in SUBSET Writes,
             NEW b3 \in SUBSET Writes, NEW b4 \in SUBSET Writes
      PROVE  <<b1, b2, b3, b4>> \in Programs /\ Due(<<b1, b2, b3, b4>>) = b1 \cup b2 \cup b3 \cup b4
  BY DEF Programs, Due
<1> QED
  BY <1>1, <1>2, <1>3

Stores == {"active", "pending"}

LEMMA EntryWrites ==
  ASSUME NEW s \in Stores, NEW f \in Fields, NEW v \in EntryOf(f) \cup {None}
  PROVE  Write(s, f, v) \in Writes
<1>1. v \in Seals \cup Own \cup Tries \cup {None}
  BY DEF EntryOf
<1> QED
  BY <1>1 DEF Write, Writes, SlotWrites, Stores

LEMMA WipeProgram ==
  ASSUME NEW s \in Stores
  PROVE  /\ Deletes(s) \in SUBSET Writes
         /\ WipeSlot(s) \in Programs /\ Due(WipeSlot(s)) = Deletes(s)
         /\ ClearTries(s) \in Programs /\ Due(ClearTries(s)) = {Write(s, "tries", None)}
<1>1. Deletes(s) \in SUBSET Writes /\ {Write(s, "tries", None)} \in SUBSET Writes
  BY EntryWrites DEF Deletes, Fields
<1> QED
  BY <1>1, ShortPrograms DEF WipeSlot, ClearTries

LEMMA TokenProgram ==
  ASSUME NEW t \in Tokens \cup {None}
  PROVE  SetToken(t) \in Programs /\ Due(SetToken(t)) = {Write("phone", "token", t)}
<1>1. {Write("phone", "token", t)} \in SUBSET Writes
  BY DEF Write, Writes, PhoneWrites
<1> QED
  BY <1>1, ShortPrograms DEF SetToken

\* Four writes, one after the other.
LEMMA FourWrites ==
  ASSUME NEW w1 \in Writes, NEW w2 \in Writes, NEW w3 \in Writes, NEW w4 \in Writes
  PROVE  /\ << {w1}, {w2}, {w3}, {w4} >> \in Programs
         /\ Due(<< {w1}, {w2}, {w3}, {w4} >>) = {w1, w2, w3, w4}
<1>1. PICK b1, b2, b3, b4 \in SUBSET Writes : b1 = {w1} /\ b2 = {w2} /\ b3 = {w3} /\ b4 = {w4}
  OBVIOUS
<1>2. <<b1, b2, b3, b4>> \in Programs /\ Due(<<b1, b2, b3, b4>>) = b1 \cup b2 \cup b3 \cup b4
  BY ShortPrograms
<1>3. b1 \cup b2 \cup b3 \cup b4 = {w1, w2, w3, w4}
  BY <1>1
<1> QED
  BY <1>1, <1>2, <1>3

LEMMA SaveProgram ==
  ASSUME NEW s \in Stores, NEW key \in Own, NEW pub \in Own, NEW pin \in Pins,
         NEW seal, seal = [key |-> key, pin |-> pin]
  PROVE  /\ seal \in Seals
         /\ SaveSlot(s, key, pub, pin) \in Programs
         /\ Due(SaveSlot(s, key, pub, pin)) =
              {Write(s, "salt", seal), Write(s, "blob", seal), Write(s, "pub", pub), Write(s, "tries", None)}
<1>1. seal \in Seals
  BY DEF Seals
<1>2. /\ Write(s, "salt", seal) \in Writes /\ Write(s, "blob", seal) \in Writes
      /\ Write(s, "pub", pub) \in Writes /\ Write(s, "tries", None) \in Writes
  BY <1>1, EntryWrites DEF Fields, EntryOf
<1>3. SaveSlot(s, key, pub, pin) =
        << {Write(s, "salt", seal)}, {Write(s, "blob", seal)}, {Write(s, "pub", pub)}, {Write(s, "tries", None)} >>
  BY DEF SaveSlot
<1> QED
  BY <1>1, <1>2, <1>3, FourWrites

LEMMA CopyProgram ==
  ASSUME NEW s \in Stores, NEW slot \in Slots
  PROVE  /\ CopySlot(slot, s) \in Programs
         /\ Due(CopySlot(slot, s)) = {Write(s, f, slot[f]) : f \in Fields}
<1>1. \A f \in Fields : Write(s, f, slot[f]) \in Writes
  <2>1. \A f \in Fields : slot[f] \in EntryOf(f) \cup {None}
    BY DEF Slots, Fields, EntryOf
  <2> QED
    BY <2>1, EntryWrites
<1>2. CopySlot(slot, s) =
        << {Write(s, "salt", slot.salt)}, {Write(s, "blob", slot.blob)},
           {Write(s, "pub", slot.pub)}, {Write(s, "tries", slot.tries)} >>
  BY DEF CopySlot
<1>3. /\ CopySlot(slot, s) \in Programs
      /\ Due(CopySlot(slot, s)) = {Write(s, "salt", slot.salt), Write(s, "blob", slot.blob),
                                   Write(s, "pub", slot.pub), Write(s, "tries", slot.tries)}
  <2>1. /\ Write(s, "salt", slot.salt) \in Writes /\ Write(s, "blob", slot.blob) \in Writes
        /\ Write(s, "pub", slot.pub) \in Writes /\ Write(s, "tries", slot.tries) \in Writes
    BY <1>1 DEF Fields
  <2> QED
    BY <1>2, <2>1, FourWrites
<1> QED
  BY <1>3 DEF Fields

LEMMA MoveProgram ==
  ASSUME NEW from \in Stores, NEW to \in Stores, NEW slot \in Slots
  PROVE  /\ MoveSlot(slot, from, to) \in Programs
         /\ Due(MoveSlot(slot, from, to)) = {Write(to, f, slot[f]) : f \in Fields} \cup Deletes(from)
         /\ Len(MoveSlot(slot, from, to)) = 5
         /\ MoveSlot(slot, from, to)[5] = Deletes(from)
         /\ \A i \in 1..4 : \A w \in MoveSlot(slot, from, to)[i] : w.where = to
<1>1. Len(CopySlot(slot, to)) = 4 /\ Len(WipeSlot(from)) = 1
  BY DEF CopySlot, WipeSlot
<1>2. WipeSlot(from)[1] = Deletes(from)
  BY DEF WipeSlot
<1>3. \A i \in 1..4 : \A w \in CopySlot(slot, to)[i] : w.where = to
  BY DEF CopySlot, Write
<1>4. CopySlot(slot, to) \in Programs /\ WipeSlot(from) \in Programs
  BY CopyProgram, WipeProgram
<1>5. /\ Len(MoveSlot(slot, from, to)) = 5
      /\ \A i \in 1..5 : MoveSlot(slot, from, to)[i] = IF i <= 4 THEN CopySlot(slot, to)[i] ELSE WipeSlot(from)[i - 4]
  <2>1. PICK s1, s2 \in Seq(SUBSET Writes) : s1 = CopySlot(slot, to) /\ s2 = WipeSlot(from)
    BY <1>4 DEF Programs
  <2>2. /\ Len(s1 \o s2) = Len(s1) + Len(s2)
        /\ \A i \in 1..Len(s1) + Len(s2) : (s1 \o s2)[i] = IF i <= Len(s1) THEN s1[i] ELSE s2[i - Len(s1)]
    BY ConcatProperties
  <2>3. Len(s1) = 4 /\ Len(s2) = 1
    BY <1>1, <2>1
  <2> QED
    BY <2>1, <2>2, <2>3 DEF MoveSlot
<1>6. /\ MoveSlot(slot, from, to)[5] = Deletes(from)
      /\ \A i \in 1..4 : MoveSlot(slot, from, to)[i] = CopySlot(slot, to)[i]
  BY <1>2, <1>5
<1> QED
  BY <1>3, <1>4, <1>5, <1>6, CopyProgram, WipeProgram, DueOfJoin DEF MoveSlot

\* A wrong PIN touches nothing but the count, or deletes.
LEMMA WrongProgram ==
  ASSUME NEW s \in Stores, NEW slot \in Slots
  PROVE  /\ WrongTry(slot, s) \in Programs
         /\ LastTry(slot) => WrongTry(slot, s) = WipeSlot(s)
         /\ ~LastTry(slot) => \A w \in Due(WrongTry(slot, s)) : w.where = s /\ w.field = "tries"
<1>1. CASE LastTry(slot)
  BY <1>1, WipeProgram DEF WrongTry
<1>2. CASE ~LastTry(slot)
  <2>1. PICK n : n = Wrong(slot) + 1
    OBVIOUS
  <2>2. Wrong(slot) \in Nat
    BY DEF Wrong, Slots, Tries
  <2>3. n \in 1..WipeAt - 1
    BY <1>2, <2>1, <2>2, VaultAssumption DEF LastTry
  <2>4. [wrong |-> n, locked |-> n % LockEvery = 0] \in Tries
    BY <2>3 DEF Tries
  <2>5. Write(s, "tries", [wrong |-> n, locked |-> n % LockEvery = 0]) \in Writes
    BY <2>4, EntryWrites DEF EntryOf, Fields
  <2>6. WrongTry(slot, s) = << {Write(s, "tries", [wrong |-> n, locked |-> n % LockEvery = 0])} >>
    BY <1>2, <2>1 DEF WrongTry
  <2> QED
    BY <1>2, <2>5, <2>6, ShortPrograms DEF Write
<1> QED
  BY <1>1, <1>2

LEMMA ForgetProgram ==
  /\ ForgetAccount \in Programs
  /\ \A w \in Due(ForgetAccount) : w.where = "phone" \/ w.where = "active"
<1>1. SetToken(None) \in Programs /\ ClearTries("active") \in Programs /\ WipeSlot("active") \in Programs
  BY WipeProgram, TokenProgram DEF Stores
<1>2. /\ SetToken(None) \o ClearTries("active") \in Programs
      /\ Due(SetToken(None) \o ClearTries("active")) = Due(SetToken(None)) \cup Due(ClearTries("active"))
  BY <1>1, DueOfJoin
<1>3. ForgetAccount \in Programs
      /\ Due(ForgetAccount) = Due(SetToken(None)) \cup Due(ClearTries("active")) \cup Due(WipeSlot("active"))
  BY <1>1, <1>2, DueOfJoin DEF ForgetAccount
<1>4. \A w \in Deletes("active") : w.where = "active"
  BY DEF Deletes, Write
<1> QED
  BY <1>3, <1>4, WipeProgram, TokenProgram DEF Stores, Write

-----------------------------------------------------------------------------
(* Types.                                                                    *)

Statuses == {"loading", "unauthed", "locked", "authed"} \cup Enrolling
Afters   == {"unset", "no"}

Reviews == [id : Nat, status : {"PENDING", "APPROVED", "REJECTED", "CANCELLED"}, key : Keys]
Apps    == [status : Statuses, fresh : BOOLEAN, after : Afters, seen : Reviews \cup {None}]
Memory  == [key : Own \cup {None}, staged : Own \cup {None}]
Rows    == [exists : BOOLEAN, active : Keys \cup {None}, req : Reviews \cup {None},
            registered : SUBSET Keys]

\* Jobs that carry a key.
Keyed    == {"setup", "unlock", "activate", "transfer", "approve"}
JobKinds == Keyed \cup {"none", "boot", "changePin", "cancel", "wrongPending", "reset", "wipeKey",
                        "signIn", "wrongPin"}
Places   == {"end", "read", "newcomer", "recovering", "returning", "dropped", "gone", "register",
             "done", "stage", "over", "discard", "reload", "promote", "promoted", "ask", "sign",
             "reset", "wiped", "me", "enter", "open", "signOut"}
Jobs     == [kind : JobKinds, at : Places, todo : Programs,
             key : Own \cup {None}, pub : Own \cup {None}, token : Tokens \cup {None}]
Tails    == [kind : {"none", "refused", "missing"}, at : {"end", "read", "lock", "leave", "gone"},
             todo : Programs]

PhoneTypes ==
  /\ disk \in Disks /\ app \in Apps /\ held \in Memory /\ srv \in Rows
  /\ job \in Jobs /\ tail \in Tails /\ flight \in Tokens \cup {None}
  /\ job.kind \in Keyed => job.key \in Own
  /\ job.kind = "transfer" => job.pub \in Own
  /\ srv.active # None => srv.active \in srv.registered
  /\ sigs \subseteq [new : Keys, by : Keys]
  /\ made \in 0..MaxKeys /\ kills \in Nat

LEMMA TypesFollow == PhoneTypes => PhoneTypeOK
BY DEF PhoneTypes, PhoneTypeOK, Disks, Apps, Statuses, Afters, Memory, Rows

LEMMA NoneIsNoKey == None \notin Keys /\ Own \subseteq Keys /\ None \notin Seals
BY VaultAssumption DEF Keys, Own, Other, Seals

LEMMA StateTypes ==
  ASSUME PhoneTypes, NEW status \in Statuses, NEW fresh \in BOOLEAN, NEW after \in Afters
  PROVE  State(status, fresh, after) \in Apps
BY DEF State, PhoneTypes, Apps

LEMMA KnownStates ==
  ASSUME PhoneTypes, NEW fresh \in BOOLEAN, NEW after \in Afters, NEW user \in BOOLEAN
  PROVE  /\ Unauthed \in Apps /\ Authed(fresh) \in Apps /\ LockedOrUnauthed(user, fresh, after) \in Apps
         /\ State("onboarding", FALSE, "unset") \in Apps /\ State("recovery_pending", FALSE, "unset") \in Apps
BY StateTypes DEF Unauthed, Authed, LockedOrUnauthed, Statuses, Afters, Enrolling

LEMMA JobTypes ==
  ASSUME NEW kind \in JobKinds, NEW at \in Places, NEW todo \in Programs,
         NEW key \in Own \cup {None}, NEW pub \in Own \cup {None}, Start(kind, at, todo, key, pub)
  PROVE  /\ job' \in Jobs /\ job'.kind = kind /\ job'.at = at /\ job'.todo = todo
         /\ job'.key = key /\ job'.pub = pub
BY DEF Start, NoJob, Jobs

LEMMA ThenTypes ==
  ASSUME job \in Jobs, NEW at \in Places, NEW todo \in Programs, Then(at, todo)
  PROVE  /\ job' \in Jobs /\ job'.kind = job.kind /\ job'.at = at /\ job'.todo = todo
         /\ job'.key = job.key /\ job'.pub = job.pub
BY DEF Then, Jobs

LEMMA FinishTypes ==
  ASSUME Finish
  PROVE  job' \in Jobs /\ job'.kind = "none" /\ job'.at = "end" /\ job'.todo = <<>>
BY ShortPrograms DEF Finish, NoJob, Jobs, JobKinds, Places

LEMMA AlarmTypes ==
  ASSUME PhoneTypes, NoAlarm \/ Unauthorized
  PROVE  held' \in Memory /\ tail' \in Tails
BY ShortPrograms DEF NoAlarm, Unauthorized, NoTail, PhoneTypes, Memory, Tails

LEMMA ActivatedTypes ==
  ASSUME PhoneTypes, NEW key \in Keys
  PROVE  Activated(key) \in Rows /\ Activated(key).active \in Activated(key).registered
BY DEF PhoneTypes, Activated, Rows

LEMMA TypesStart == PhoneInit => PhoneTypes
<1> SUFFICES ASSUME PhoneInit
             PROVE  PhoneTypes
  OBVIOUS
<1>1. Empty \in Slots
  BY DEF Empty, Slots
<1>2. disk \in Disks
  BY <1>1 DEF PhoneInit, Disks
<1>3. app \in Apps /\ held \in Memory
  BY DEF PhoneInit, Apps, Memory, Statuses, Afters
<1>4. srv \in Rows /\ (srv.active # None => srv.active \in srv.registered)
  BY DEF PhoneInit, Rows, Keys
<1>5. job \in Jobs /\ tail \in Tails /\ job.kind = "boot"
  BY ShortPrograms DEF PhoneInit, Boot, NoJob, NoTail, Jobs, Tails, JobKinds, Places
<1> QED
  BY <1>2, <1>3, <1>4, <1>5, VaultAssumption DEF PhoneInit, PhoneTypes, Keyed

LEMMA CutsWithin ==
  ASSUME NEW todo \in Programs, NEW done \in Cuts(todo)
  PROVE  done = {} \/ (todo # <<>> /\ done \subseteq Head(todo))
<1>1. CASE todo = <<>>
  BY <1>1 DEF Cuts
<1>2. CASE todo # <<>>
  BY <1>2 DEF Cuts
<1> QED
  BY <1>1, <1>2

LEMMA CutsTypes ==
  ASSUME NEW todo \in Programs, NEW done \in Cuts(todo)
  PROVE  done \in SUBSET Writes /\ done \subseteq Due(todo)
BY CutsWithin, NextWrites

LEMMA StoreTypes == PhoneTypes /\ (StoreJob \/ StoreTail \/ Kill) => PhoneTypes'
<1> SUFFICES ASSUME PhoneTypes, StoreJob \/ StoreTail \/ Kill
             PROVE  PhoneTypes'
  OBVIOUS
<1>0. job.todo \in Programs /\ tail.todo \in Programs /\ disk \in Disks
  BY DEF PhoneTypes, Jobs, Tails
<1>1. CASE StoreJob
  <2>1. Head(job.todo) \in SUBSET Writes /\ Tail(job.todo) \in Programs
    BY <1>0, <1>1, NextWrites DEF StoreJob
  <2>2. disk' \in Disks
    BY <1>0, <1>1, <2>1, StoredTypes DEF StoreJob
  <2>3. job' \in Jobs /\ job'.kind = job.kind /\ job'.key = job.key /\ job'.pub = job.pub
    BY <1>1, <2>1 DEF StoreJob, PhoneTypes, Jobs
  <2> QED
    BY <1>1, <2>2, <2>3 DEF StoreJob, PhoneTypes
<1>2. CASE StoreTail
  <2>1. Head(tail.todo) \in SUBSET Writes /\ Tail(tail.todo) \in Programs
    BY <1>0, <1>2, NextWrites DEF StoreTail
  <2>2. disk' \in Disks
    BY <1>0, <1>2, <2>1, StoredTypes DEF StoreTail
  <2>3. tail' \in Tails
    BY <1>2, <2>1 DEF StoreTail, PhoneTypes, Tails
  <2> QED
    BY <1>2, <2>2, <2>3 DEF StoreTail, PhoneTypes
<1>3. CASE Kill
  <2>1. PICK done \in Cuts(job.todo), late \in Cuts(tail.todo) :
          disk' = Stored(Stored(disk, done), late)
    BY <1>3 DEF Kill
  <2>2. disk' \in Disks
    BY <1>0, <2>1, CutsTypes, StoredTypes
  <2>3. app' \in Apps /\ held' \in Memory
    BY <1>3 DEF Kill, Apps, Memory, Statuses, Afters
  <2>4. job' \in Jobs /\ tail' \in Tails /\ job'.kind = "boot"
    BY <1>3, ShortPrograms DEF Kill, Boot, NoJob, NoTail, Jobs, Tails, JobKinds, Places
  <2> QED
    BY <1>3, <2>2, <2>3, <2>4 DEF Kill, PhoneTypes, Keyed
<1> QED
  BY <1>1, <1>2, <1>3

-----------------------------------------------------------------------------
(* Types: start, session, keys.                                              *)

\* Writing one entry of the phone's own.
LEMMA PhoneEntryTypes ==
  ASSUME PhoneTypes
  PROVE  /\ \A t \in Tokens \cup {None} : Stored(disk, {Write("phone", "token", t)}) \in Disks
         /\ \A p \in {"cached", None} : Stored(disk, {Write("phone", "profile", p)}) \in Disks
<1>1. \A t \in Tokens \cup {None} : {Write("phone", "token", t)} \in SUBSET Writes
  BY DEF Write, Writes, PhoneWrites
<1>2. \A p \in {"cached", None} : {Write("phone", "profile", p)} \in SUBSET Writes
  BY DEF Write, Writes, PhoneWrites
<1> QED
  BY <1>1, <1>2, StoredTypes DEF PhoneTypes

\* What a slot that is complete, or opens, holds.
LEMMA SlotHolds ==
  ASSUME NEW slot \in Slots
  PROVE  /\ Complete(slot) => slot.blob \in Seals /\ slot.blob.key \in Own /\ slot.pub \in Own /\ slot.salt \in Seals
         /\ \A pin \in Pins : Opens(slot, pin) => Complete(slot) /\ slot.salt = slot.blob
BY DEF Complete, Opens, Slots, Seals

LEMMA BootTypes == PhoneTypes /\ BootStep => PhoneTypes'
<1> SUFFICES ASSUME PhoneTypes, BootStep
             PROVE  PhoneTypes'
  OBVIOUS
<1>0. /\ disk \in Disks /\ app \in Apps /\ held \in Memory /\ job \in Jobs /\ tail \in Tails
      /\ disk.phone.token \in Tokens \cup {None} /\ Profile \in BOOLEAN
  BY DEF PhoneTypes, Disks, Profile
<1>1. Unauthed \in Apps /\ \A fetched \in BOOLEAN : Booting => BootState(fetched) \in Apps
  BY <1>0, KnownStates DEF BootState, Booting, Afters
<1>2. CASE BootRead
  <2>1. app' \in Apps
    BY <1>0, <1>1, <1>2, KnownStates DEF BootRead, BootDecides, Afters
  <2>2. job' \in Jobs /\ job'.kind \in {"none", "boot"}
    <3>1. job.kind = "boot" /\ NoJob \in Jobs /\ NoJob.kind = "none"
      BY <1>2, ShortPrograms DEF BootRead, At, NoJob, Jobs, JobKinds, Places
    <3>2. BootDecides.at \in Places
      BY DEF BootDecides, Places
    <3> QED
      BY <1>0, <1>2, <3>1, <3>2 DEF BootRead, Jobs
  <2> QED
    BY <1>2, <2>1, <2>2 DEF BootRead, PhoneTypes, Keyed
<1>3. CASE BootMeOk
  BY <1>1, <1>3, PhoneEntryTypes, FinishTypes DEF BootMeOk, PhoneTypes, Keyed
<1>4. CASE BootMeFails
  <2>1. app' \in Apps
    BY <1>0, <1>1, <1>4 DEF BootMeFails
  <2>2. job' \in Jobs /\ job'.kind \in {"none", "boot"}
    BY <1>0, <1>4, TokenProgram, FinishTypes, ThenTypes DEF BootMeFails, Booting, Places
  <2>3. held' \in Memory /\ tail' \in Tails
    BY <1>4, AlarmTypes DEF BootMeFails
  <2> QED
    BY <1>4, <2>1, <2>2, <2>3 DEF BootMeFails, PhoneTypes, Keyed
<1>5. CASE BootDropped
  BY <1>1, <1>5, FinishTypes DEF BootDropped, PhoneTypes, Keyed
<1>6. CASE BootMeMissing
  BY <1>0, <1>6, ForgetProgram, ThenTypes DEF BootMeMissing, Booting, PhoneTypes, Keyed, Places
<1>7. CASE BootGone
  BY <1>0, <1>1, <1>7, FinishTypes DEF BootGone, PhoneTypes, Keyed, Memory
<1> QED
  BY <1>2, <1>3, <1>4, <1>5, <1>6, <1>7 DEF BootStep

LEMMA TailTypes == PhoneTypes /\ TailStep => PhoneTypes'
<1> SUFFICES ASSUME PhoneTypes, TailStep
             PROVE  PhoneTypes'
  OBVIOUS
<1>0. /\ NoTail \in Tails /\ tail \in Tails /\ held \in Memory /\ app \in Apps
      /\ UserAtHand \in BOOLEAN
  BY ShortPrograms DEF NoTail, Tails, PhoneTypes, UserAtHand, UserKnown, Profile
<1>1. CASE RefusedRead
  <2>1. app' \in Apps
    BY <1>0, <1>1, KnownStates DEF RefusedRead, Afters
  <2>2. tail' \in Tails
    <3>1. CASE PendingThere
      BY <1>0, <1>1, <3>1 DEF RefusedRead
    <3>2. CASE ~PendingThere
      <4>1. SetToken(None) \in Programs
        BY TokenProgram
      <4>2. PICK at \in {"lock", "leave"} : tail' = [tail EXCEPT !.at = at, !.todo = SetToken(None)]
        BY <1>1, <3>2 DEF RefusedRead
      <4> QED
        BY <1>0, <4>1, <4>2 DEF Tails
    <3> QED
      BY <3>1, <3>2
  <2> QED
    BY <1>1, <2>1, <2>2 DEF RefusedRead, PhoneTypes
<1>2. CASE RefusedSettle
  <2>1. app' \in Apps
    BY <1>0, <1>2, KnownStates DEF RefusedSettle, Afters
  <2> QED
    BY <1>0, <1>2, <2>1 DEF RefusedSettle, PhoneTypes
<1>3. CASE MissingSettle
  BY <1>0, <1>3, KnownStates DEF MissingSettle, PhoneTypes, Memory, Afters
<1> QED
  BY <1>1, <1>2, <1>3 DEF TailStep

LEMMA PollTypes == PhoneTypes /\ PollStep => PhoneTypes'
<1> SUFFICES ASSUME PhoneTypes, PollStep
             PROVE  PhoneTypes'
  OBVIOUS
<1>1. CASE Poll
  BY <1>1 DEF Poll, PhoneTypes, Tokens, Disks
<1>2. CASE PollAnswered
  BY <1>2, PhoneEntryTypes DEF PollAnswered, PhoneTypes
<1>3. CASE PollFails
  BY <1>3, AlarmTypes DEF PollFails, PhoneTypes
<1>4. CASE PollMissing
  BY <1>4, ForgetProgram DEF PollMissing, PhoneTypes, Tails
<1> QED
  BY <1>1, <1>2, <1>3, <1>4 DEF PollStep

\* Sign-in, the PIN screen, locking, time.
SessionStep ==
  \/ SignInMe \/ SignIn \/ Unlock \/ SignOut \/ Over \/ EnterCode \/ RightPin \/ WrongPin
  \/ Lock \/ FreshCheck \/ Age \/ LockoutEnds \/ AccountRemoved

LEMMA SessionTypes == PhoneTypes /\ SessionStep => PhoneTypes'
<1> SUFFICES ASSUME PhoneTypes, SessionStep
             PROVE  PhoneTypes'
  OBVIOUS
<1>0. /\ disk \in Disks /\ app \in Apps /\ held \in Memory /\ job \in Jobs /\ srv \in Rows
      /\ disk.active \in Slots /\ UserKnown \in BOOLEAN
  BY DEF PhoneTypes, Disks, UserKnown
<1>1. CASE SignInMe
  <2>1. job' \in Jobs /\ job'.kind \in {"none", "signIn"}
    BY <1>0, <1>1, TokenProgram, FinishTypes, ThenTypes DEF SignInMe, At, Tokens, Places
  <2> QED
    BY <1>1, <2>1, AlarmTypes DEF SignInMe, PhoneTypes, Keyed
<1>2. CASE SignIn
  <2>1. app' \in Apps
    BY <1>2, KnownStates DEF SignIn, Afters
  <2> QED
    BY <1>2, <2>1, PhoneEntryTypes, FinishTypes DEF SignIn, PhoneTypes, Keyed
<1>3. CASE Unlock
  <2>1. app' \in Apps
    BY <1>0, <1>3, KnownStates DEF Unlock, Afters
  <2>2. held' \in Memory
    BY <1>0, <1>3 DEF Unlock, Memory, Jobs
  <2> QED
    BY <1>3, <2>1, <2>2, FinishTypes DEF Unlock, PhoneTypes, Keyed
<1>4. CASE SignOut
  <2>1. app' \in Apps
    BY <1>0, <1>4, KnownStates DEF SignOut, Afters
  <2>2. held' \in Memory
    BY <1>0, <1>4 DEF SignOut, Memory
  <2> QED
    BY <1>4, <2>1, <2>2, FinishTypes DEF SignOut, PhoneTypes, Keyed
<1>5. CASE Over
  BY <1>5, FinishTypes DEF Over, PhoneTypes, Keyed
<1>6. CASE EnterCode
  <2>1. job' \in Jobs /\ (job' = job \/ job'.kind = "signIn")
    BY <1>0, <1>6, TokenProgram, JobTypes DEF EnterCode, StartWriting, Tokens, JobKinds, Places
  <2> QED
    BY <1>6, <2>1, AlarmTypes DEF EnterCode, PhoneTypes, Keyed
<1>7. CASE RightPin
  <2>1. job' \in Jobs /\ job'.kind = "unlock" /\ job'.key \in Own
    BY <1>0, <1>7, SlotHolds, WipeProgram, JobTypes DEF RightPin, JobKinds, Keyed, Places, Stores
  <2> QED
    BY <1>7, <2>1 DEF RightPin, PhoneTypes
<1>8. CASE WrongPin
  <2>1. /\ WrongTry(disk.active, "active") \in Programs
        /\ WrongTry(disk.active, "active") \o WipeSlot("active") \o SetToken(None) \in Programs
    BY <1>0, WrongProgram, WipeProgram, TokenProgram, DueOfJoin DEF Stores
  <2>2. job' \in Jobs /\ job'.kind = "wrongPin"
    BY <1>8, <2>1, JobTypes DEF WrongPin, StartWriting, JobKinds, Places
  <2> QED
    BY <1>8, <2>2 DEF WrongPin, PhoneTypes, Keyed
<1>9. CASE Lock
  BY <1>0, <1>9, KnownStates DEF Lock, PhoneTypes, Memory, Apps, Afters
<1>10. CASE FreshCheck
  BY <1>0, <1>10 DEF FreshCheck, PhoneTypes, Apps
<1>11. CASE Age
  <2>1. job' \in Jobs /\ job'.kind = job.kind /\ job'.key = job.key /\ job'.pub = job.pub
    BY <1>0, <1>11 DEF Age, Jobs, Tokens
  <2> QED
    BY <1>11, <2>1, PhoneEntryTypes DEF Age, PhoneTypes, Tokens
<1>12. CASE LockoutEnds
  <2>1. disk' \in Disks
    <3>1. PICK s \in Stores : Locked(disk[s]) /\ disk' = [disk EXCEPT ![s].tries.locked = FALSE]
      BY <1>12 DEF LockoutEnds, Stores
    <3>2. disk[s] \in Slots /\ disk[s].tries \in Tries
      BY <1>0, <3>1 DEF Disks, Slots, Stores, Locked
    <3>3. PICK tries : tries = [disk[s].tries EXCEPT !.locked = FALSE]
      OBVIOUS
    <3>4. tries \in Tries
      BY <3>2, <3>3 DEF Tries
    <3>5. PICK slot : slot = [disk[s] EXCEPT !.tries = tries]
      OBVIOUS
    <3>6. slot \in Slots
      BY <3>2, <3>4, <3>5 DEF Slots
    <3>7. disk' = [disk EXCEPT ![s] = slot]
      BY <3>1, <3>3, <3>5
    <3> QED
      BY <1>0, <3>6, <3>7 DEF Disks, Stores
  <2> QED
    BY <1>12, <2>1 DEF LockoutEnds, PhoneTypes
<1>13. CASE AccountRemoved
  BY <1>0, <1>13 DEF AccountRemoved, PhoneTypes, Rows
<1> QED
  BY <1>1, <1>2, <1>3, <1>4, <1>5, <1>6, <1>7, <1>8, <1>9, <1>10, <1>11, <1>12, <1>13 DEF SessionStep

\* The key a first sign-in, an activation or a transfer leaves in memory.
LEMMA OnboardingTypes ==
  ASSUME PhoneTypes, NEW key \in Own, CompleteOnboarding(key)
  PROVE  held' \in Memory /\ app' \in Apps
<1>1. Authed(TRUE) \in Apps
  BY KnownStates DEF Afters
<1>2. CASE app.status \in Enrolling
  <2>1. CompleteOnboarding(key) /\ app.status \in Enrolling
    BY <1>2
  <2>2. held' = [key |-> key, staged |-> None] /\ app' = Authed(TRUE)
    BY <2>1 DEF CompleteOnboarding
  <2> QED
    BY <1>1, <2>2 DEF Memory
<1>3. CASE app.status \notin Enrolling
  BY <1>3 DEF CompleteOnboarding, PhoneTypes
<1> QED
  BY <1>2, <1>3

LEMMA WritingTypes ==
  ASSUME NEW kind \in JobKinds, NEW at \in Places, NEW todo \in Programs, StartWriting(kind, at, todo)
  PROVE  /\ job' \in Jobs /\ job'.kind = kind /\ job'.at = at /\ job'.todo = todo
         /\ job'.key = None /\ job'.pub = None
<1>1. Start(kind, at, todo, None, None) /\ None \in Own \cup {None}
  BY DEF StartWriting
<1> QED
  BY <1>1, JobTypes

LEMMA RequestTypes ==
  ASSUME PhoneTypes, NEW key \in Keys, NEW stolen \in BOOLEAN
  PROVE  /\ Requested(key, stolen) \in Rows
         /\ Requested(key, stolen).active # None =>
              Requested(key, stolen).active \in Requested(key, stolen).registered
<1>1. srv \in Rows /\ LatestId + 1 \in Nat
  BY DEF PhoneTypes, Rows, Reviews, LatestId
<1>2. PICK r : r = [id |-> LatestId + 1, status |-> "PENDING", key |-> key]
  OBVIOUS
<1>3. r \in Reviews
  BY <1>1, <1>2 DEF Reviews
<1>4. Requested(key, stolen) = [srv EXCEPT !.req = r, !.active = IF stolen THEN None ELSE @]
  BY <1>2 DEF Requested
<1> QED
  BY <1>1, <1>3, <1>4 DEF PhoneTypes, Rows

\* The request a screen shows or the account has, when there is one, names a key.
LEMMA ReviewTypes ==
  ASSUME PhoneTypes, NEW status \in {"APPROVED", "REJECTED", "CANCELLED"}, RequestOpen
  PROVE  /\ srv.req.key \in Keys
         /\ [srv EXCEPT !.req.status = status] \in Rows
         /\ [Activated(srv.req.key) EXCEPT !.req.status = status] \in Rows
<1>1. srv \in Rows /\ srv.req \in Reviews
  BY DEF PhoneTypes, Rows, RequestOpen
<1>2. PICK r : r = [srv.req EXCEPT !.status = status]
  OBVIOUS
<1>3. r \in Reviews /\ srv.req.key \in Keys
  BY <1>1, <1>2 DEF Reviews
<1>4. [srv EXCEPT !.req.status = status] = [srv EXCEPT !.req = r]
  BY <1>2
<1>5. Activated(srv.req.key).req = srv.req
  BY <1>1 DEF Activated, Rows
<1>6. [Activated(srv.req.key) EXCEPT !.req.status = status] = [Activated(srv.req.key) EXCEPT !.req = r]
  BY <1>2, <1>5
<1>7. Activated(srv.req.key) \in Rows
  BY <1>3, ActivatedTypes
<1> QED
  BY <1>1, <1>3, <1>4, <1>6, <1>7 DEF Rows

LEMMA AnswerTypes == PhoneTypes /\ KeyAnswers => PhoneTypes'
<1> SUFFICES ASSUME PhoneTypes, KeyAnswers
             PROVE  PhoneTypes'
  OBVIOUS
<1>0. /\ disk \in Disks /\ app \in Apps /\ held \in Memory /\ job \in Jobs /\ srv \in Rows
      /\ disk.active \in Slots /\ disk.pending \in Slots
      /\ <<>> \in Programs
      /\ job.kind \in Keyed => job.key \in Own /\ job.key \in Keys
  BY ShortPrograms, NoneIsNoKey DEF PhoneTypes, Disks
<1>1. CASE Register
  <2>1. job.kind = "setup" /\ job.key \in Own /\ job.key \in Keys
    BY <1>0, <1>1 DEF Register, At, Keyed
  <2>2. srv' \in Rows /\ (srv'.active # None => srv'.active \in srv'.registered)
    BY <1>1, <2>1, ActivatedTypes DEF Register, PhoneTypes
  <2>3. job' \in Jobs /\ (job'.kind = "none" \/ (job'.kind = "setup" /\ job'.key = job.key))
    BY <1>0, <1>1, <2>1, MoveProgram, FinishTypes, ThenTypes DEF Register, Places, Stores
  <2> QED
    BY <1>1, <2>1, <2>2, <2>3 DEF Register, PhoneTypes, Keyed
<1>2. CASE RegisterFails
  BY <1>2, AlarmTypes, FinishTypes DEF RegisterFails, PhoneTypes, Keyed
<1>3. CASE Onboarded
  BY <1>0, <1>3, OnboardingTypes, FinishTypes DEF Onboarded, At, PhoneTypes, Keyed
<1>4. CASE Stage
  <2>1. held' \in Memory
    BY <1>0, <1>4 DEF Stage, At, Keyed, Memory
  <2> QED
    BY <1>4, <2>1, FinishTypes DEF Stage, PhoneTypes, Keyed
<1>5. CASE Discard
  <2>1. job' \in Jobs /\ job'.kind = "cancel"
    BY <1>0, <1>5, WipeProgram, ThenTypes DEF Discard, At, Places, Stores
  <2> QED
    BY <1>0, <1>5, <2>1 DEF Discard, PhoneTypes, Memory, Keyed
<1>6. CASE Reload
  BY <1>0, <1>6, FinishTypes DEF Reload, PhoneTypes, Apps, Keyed
<1>7. CASE RegisterMove
  <2>1. job.kind = "transfer" /\ job.pub \in Own /\ job.pub \in Keys /\ job.key \in Own
    BY <1>0, <1>7, NoneIsNoKey DEF RegisterMove, At, PhoneTypes, Keyed
  <2>2. srv' \in Rows /\ srv'.active \in srv'.registered
    BY <1>7, <2>1, ActivatedTypes DEF RegisterMove
  <2>3. /\ job' \in Jobs
        /\ job'.kind = "none" \/ (job'.kind = "transfer" /\ job'.key = job.key /\ job'.pub = job.pub)
    BY <1>0, <1>7, <2>1, FinishTypes, ThenTypes DEF RegisterMove, Places
  <2> QED
    BY <1>7, <2>1, <2>2, <2>3 DEF RegisterMove, PhoneTypes, Keyed
<1>8. CASE MoveFails
  BY <1>8, AlarmTypes, FinishTypes DEF MoveFails, PhoneTypes, Keyed
<1>9. CASE Promote
  <2>1. /\ job' \in Jobs
        /\ job'.kind = "none" \/ (job'.kind = job.kind /\ job'.key = job.key /\ job'.pub = job.pub)
    BY <1>0, <1>9, MoveProgram, FinishTypes, ThenTypes DEF Promote, Places, Stores
  <2> QED
    BY <1>9, <2>1 DEF Promote, PhoneTypes, Keyed
<1>10. CASE Promoted
  <2>1. job.key \in Own /\ held' \in Memory /\ app' \in Apps
    BY <1>0, <1>10, OnboardingTypes DEF Promoted, Keyed
  <2>2. /\ job' \in Jobs
        /\ job'.kind = "none" \/ (job'.kind = job.kind /\ job'.key = job.key /\ job'.pub = job.pub)
    BY <1>0, <1>10, WipeProgram, FinishTypes, ThenTypes DEF Promoted, Places, Stores
  <2> QED
    BY <1>10, <2>1, <2>2 DEF Promoted, PhoneTypes, Keyed
<1>11. CASE ShowApproval
  <2>1. sigs' \subseteq [new : Keys, by : Keys]
    BY <1>0, <1>11, NoneIsNoKey DEF ShowApproval, At, Keyed, PhoneTypes, Keys
  <2> QED
    BY <1>11, <2>1, FinishTypes DEF ShowApproval, PhoneTypes, Keyed
<1>12. CASE ResetDone
  <2>1. held' \in Memory /\ app' \in Apps
    BY <1>12, KnownStates DEF ResetDone, Memory, Afters
  <2> QED
    BY <1>12, <2>1, PhoneEntryTypes, FinishTypes DEF ResetDone, PhoneTypes, Keyed
<1>13. CASE KeyWiped
  <2>1. held' \in Memory /\ app' \in Apps
    BY <1>0, <1>13, KnownStates DEF KeyWiped, Memory, Afters
  <2> QED
    BY <1>13, <2>1, FinishTypes DEF KeyWiped, PhoneTypes, Keyed
<1> QED
  BY <1>1, <1>2, <1>3, <1>4, <1>5, <1>6, <1>7, <1>8, <1>9, <1>10, <1>11, <1>12, <1>13 DEF KeyAnswers

LEMMA StartTypes == PhoneTypes /\ KeyStarts => PhoneTypes'
<1> SUFFICES ASSUME PhoneTypes, KeyStarts
             PROVE  PhoneTypes'
  OBVIOUS
<1>0. /\ disk \in Disks /\ app \in Apps /\ held \in Memory /\ job \in Jobs /\ srv \in Rows
      /\ disk.active \in Slots /\ disk.pending \in Slots
      /\ <<>> \in Programs /\ None \in Own \cup {None}
  BY ShortPrograms DEF PhoneTypes, Disks
<1>1. CASE Setup
  <2>1. PICK pin \in Pins :
          Start("setup", "register", SaveSlot("active", made + 1, made + 1, pin), made + 1, made + 1)
    BY <1>1 DEF Setup
  <2>2. made + 1 \in Own /\ made' \in 0..MaxKeys
    BY <1>1, VaultAssumption DEF Setup, PhoneTypes, Own
  <2>3. SaveSlot("active", made + 1, made + 1, pin) \in Programs
    BY <2>2, SaveProgram DEF Stores
  <2>4. job' \in Jobs /\ job'.kind = "setup" /\ job'.key \in Own
    BY <2>1, <2>2, <2>3, JobTypes DEF JobKinds, Keyed, Places
  <2> QED
    BY <1>1, <2>2, <2>4 DEF Setup, PhoneTypes, Keyed
<1>2. CASE ChangePin
  <2>1. PICK old \in Pins, new \in Pins :
          /\ Opens(disk.active, old)
          /\ StartWriting("changePin", "over",
                          SaveSlot("active", disk.active.blob.key, disk.active.pub, new))
    BY <1>2 DEF ChangePin
  <2>2. SaveSlot("active", disk.active.blob.key, disk.active.pub, new) \in Programs
    BY <1>0, <2>1, SlotHolds, SaveProgram DEF Stores
  <2>3. job' \in Jobs /\ job'.kind = "changePin"
    BY <2>1, <2>2, WritingTypes DEF JobKinds, Places
  <2> QED
    BY <1>2, <2>3 DEF ChangePin, PhoneTypes, Keyed
<1>3. CASE LoadStatus
  <2>1. app' \in Apps
    BY <1>0, <1>3 DEF LoadStatus, Apps, Rows
  <2>2. held' \in Memory /\ tail' \in Tails
    BY <1>3, AlarmTypes DEF LoadStatus
  <2> QED
    BY <1>3, <2>1, <2>2 DEF LoadStatus, PhoneTypes
<1>4. CASE Request
  <2>1. disk.pending.pub \in Keys
    BY <1>0, <1>4, NoneIsNoKey DEF Request, Slots
  <2>2. srv' \in Rows /\ (srv'.active # None => srv'.active \in srv'.registered)
    BY <1>4, <2>1, RequestTypes DEF Request
  <2> QED
    BY <1>4, <2>2 DEF Request, PhoneTypes
<1>5. CASE Cancel
  <2>1. srv' \in Rows /\ srv'.active = srv.active /\ srv'.registered = srv.registered
    BY <1>0, <1>5, ReviewTypes DEF Cancel, Rows
  <2>2. job' \in Jobs /\ (job' = job \/ job'.kind = "cancel")
    BY <1>0, <1>5, WritingTypes DEF Cancel, JobKinds, Places
  <2> QED
    BY <1>5, <2>1, <2>2 DEF Cancel, PhoneTypes, Keyed
<1>6. CASE Activate
  <2>1. ClearTries("pending") \in Programs
    BY WipeProgram DEF Stores
  <2>2. job' \in Jobs /\ job'.kind = "activate" /\ job'.key \in Own
    BY <1>0, <1>6, <2>1, SlotHolds, JobTypes DEF Activate, JobKinds, Keyed, Places, Memory
  <2> QED
    BY <1>6, <2>2 DEF Activate, PhoneTypes, Keyed
<1>7. CASE WrongPendingPin
  <2>1. /\ WrongTry(disk.pending, "pending") \in Programs
        /\ WrongTry(disk.pending, "pending") \o WipeSlot("pending") \in Programs
        /\ WrongTry(disk.pending, "pending") \o <<>> \in Programs
    BY <1>0, WrongProgram, WipeProgram, DueOfJoin DEF Stores
  <2>2. job' \in Jobs /\ job'.kind = "wrongPending"
    BY <1>7, <2>1, WritingTypes DEF WrongPendingPin, JobKinds, Places
  <2> QED
    BY <1>7, <2>2 DEF WrongPendingPin, PhoneTypes, Keyed
<1>8. CASE ScanApproval
  <2>1. job' \in Jobs /\ job'.kind = "transfer" /\ job'.key \in Own /\ job'.pub \in Own
    BY <1>0, <1>8, SlotHolds, JobTypes DEF ScanApproval, JobKinds, Keyed, Places, Memory
  <2> QED
    BY <1>8, <2>1 DEF ScanApproval, PhoneTypes
<1>9. CASE ApproveNewPhone
  <2>1. ClearTries("active") \in Programs
    BY WipeProgram DEF Stores
  <2>2. job' \in Jobs /\ job'.kind = "approve" /\ job'.key \in Own
    BY <1>0, <1>9, <2>1, SlotHolds, JobTypes DEF ApproveNewPhone, JobKinds, Keyed, Places
  <2> QED
    BY <1>9, <2>2 DEF ApproveNewPhone, PhoneTypes, Keyed
<1>10. CASE ResetApp
  <2>1. Deletes("active") \cup Deletes("pending") \cup {Write("phone", "token", None)} \in SUBSET Writes
    BY WipeProgram DEF Stores, Write, Writes, PhoneWrites
  <2>2. << Deletes("active") \cup Deletes("pending") \cup {Write("phone", "token", None)} >> \in Programs
    BY <2>1, ShortPrograms
  <2>3. job' \in Jobs /\ job'.kind = "reset"
    BY <1>10, <2>2, WritingTypes DEF ResetApp, JobKinds, Places
  <2> QED
    BY <1>10, <2>3 DEF ResetApp, PhoneTypes, Keyed
<1>11. CASE WipeKey
  <2>1. job' \in Jobs /\ job'.kind = "wipeKey"
    BY <1>11, WipeProgram, WritingTypes DEF WipeKey, JobKinds, Places, Stores
  <2> QED
    BY <1>11, <2>1 DEF WipeKey, PhoneTypes, Keyed
<1> QED
  BY <1>1, <1>2, <1>3, <1>4, <1>5, <1>6, <1>7, <1>8, <1>9, <1>10, <1>11 DEF KeyStarts

LEMMA OthersTypes == PhoneTypes /\ Others => PhoneTypes'
<1> SUFFICES ASSUME PhoneTypes, Others
             PROVE  PhoneTypes'
  OBVIOUS
<1>0. /\ disk \in Disks /\ held \in Memory /\ srv \in Rows /\ Other \in Keys
  BY DEF PhoneTypes, Keys
<1>1. CASE SupportApproves
  <2>1. srv' \in Rows /\ srv'.active \in srv'.registered
    <3>1. srv.req.key \in Keys /\ srv' \in Rows
      BY <1>1, ReviewTypes DEF SupportApproves
    <3>2. /\ Activated(srv.req.key) \in Rows
          /\ Activated(srv.req.key).active \in Activated(srv.req.key).registered
      BY <3>1, ActivatedTypes
    <3>3. srv'.active = Activated(srv.req.key).active /\ srv'.registered = Activated(srv.req.key).registered
      BY <1>1, <3>2 DEF SupportApproves, Rows
    <3> QED
      BY <3>1, <3>2, <3>3
  <2> QED
    BY <1>1, <2>1 DEF SupportApproves, PhoneTypes
<1>2. CASE SupportRejects
  <2>1. srv' \in Rows /\ srv'.active = srv.active /\ srv'.registered = srv.registered
    BY <1>0, <1>2, ReviewTypes DEF SupportRejects, Rows
  <2> QED
    BY <1>2, <2>1 DEF SupportRejects, PhoneTypes
<1>3. CASE OtherPhone
  <2>1. srv' \in Rows /\ (srv'.active # None => srv'.active \in srv'.registered)
    BY <1>0, <1>3, ActivatedTypes, RequestTypes DEF OtherPhone
  <2> QED
    BY <1>3, <2>1 DEF OtherPhone, PhoneTypes
<1>4. CASE OldPhoneSigns
  <2>1. PendingKey \in Keys
    BY <1>0, <1>4, NoneIsNoKey DEF OldPhoneSigns, PendingKey, Disks, Slots, Memory
  <2>2. sigs' \subseteq [new : Keys, by : Keys]
    BY <1>0, <1>4, <2>1 DEF OldPhoneSigns, PhoneTypes
  <2> QED
    BY <1>4, <2>2 DEF OldPhoneSigns, PhoneTypes
<1> QED
  BY <1>1, <1>2, <1>3, <1>4 DEF Others

LEMMA TypesStep == PhoneTypes /\ [PhoneNext]_phoneVars => PhoneTypes'
<1> SUFFICES ASSUME PhoneTypes, [PhoneNext]_phoneVars
             PROVE  PhoneTypes'
  OBVIOUS
<1>1. CASE UNCHANGED phoneVars
  BY <1>1 DEF phoneVars, PhoneTypes
<1>2. CASE PhoneNext
  BY <1>2, StoreTypes, BootTypes, TailTypes, PollTypes, SessionTypes, AnswerTypes, StartTypes,
     OthersTypes DEF PhoneNext, Continue, SessionStep
<1> QED
  BY <1>1, <1>2

\* Everything the phone stores, holds and has under way has its type, whatever
\* is killed, refused or answered late.
THEOREM PhoneIsTyped == PhoneSpec => []PhoneTypeOK
BY TypesStart, TypesStep, TypesFollow, PTL DEF PhoneSpec

-----------------------------------------------------------------------------
(* The inductive invariant.                                                  *)

\* The entries that make a key openable.
Core == {"salt", "blob", "pub"}

\* What the writes still due may do to a slot: count wrong PINs only, or also delete.
Spares(todo, s) == \A w \in Due(todo) : w.where = s => w.field = "tries"
Erases(todo, s) == \A w \in Due(todo) : w.where = s => w.field = "tries" \/ w.to = None

\* A changed PIN: the sealings written are of the key that is there.
Reseals(todo) ==
  \A w \in Due(todo) : w.where = "active" =>
    /\ w.field \in {"salt", "blob"} => w.to \in Seals
    /\ w.field = "blob" => w.to.key = disk.active.blob.key
    /\ w.field = "pub" => w.to = disk.active.pub

\* When the writes are done, slot s has the entries of `slot`.
Lands(s, f, v) ==
  /\ \A w \in Due(job.todo) : w.where = s /\ w.field = f => w.to = v
  /\ disk[s][f] = v \/ \E w \in Due(job.todo) : w.where = s /\ w.field = f
Copies(slot, s) == \A f \in Core : Lands(s, f, slot[f])

\* The slot being written is of the handler's key.
Target(slot) ==
  Complete(slot) /\ slot.blob.key = job.key /\ (kills = 0 => slot.pub = job.key)

\* The pending slot stays as it is until the last batch, which spares the active one.
KeptUntilLast(slot) ==
  /\ \A f \in Core : disk.pending[f] = slot[f]
  /\ \A i \in 1 .. Len(job.todo) - 1 : \A w \in job.todo[i] : w.where # "pending"
  /\ \A w \in job.todo[Len(job.todo)] : w.where # "active"

Moves      == job.kind \in {"activate", "transfer"}
Promoting  == Moves /\ job.at = "promoted"
Saving     == job.kind = "setup" /\ job.at \in {"register", "done"}
Staging    == job.kind = "setup" /\ job.at = "stage"
Wiping     ==
  \/ job.kind = "reset" /\ job.at = "reset"
  \/ job.kind = "wipeKey" /\ job.at = "wiped"
  \/ job.kind = "wrongPin" /\ job.at = "signOut"
Resealing  == job.kind = "changePin"
Dropping   == job.kind \in {"cancel", "wrongPending"}

\* What the writes of every handler do.
WritesSafe ==
  /\ Saving => /\ \E slot \in Slots : Target(slot) /\ Copies(slot, "active")
               /\ Spares(job.todo, "pending")
  /\ Staging => /\ \E slot \in Slots : Target(slot) /\ Copies(slot, "pending")
                /\ Erases(job.todo, "active")
  /\ Promoting => /\ \E slot \in Slots : /\ Target(slot) /\ Copies(slot, "active")
                                         /\ job.todo # <<>> => KeptUntilLast(slot)
                  /\ Erases(job.todo, "pending")
  /\ Resealing => Complete(disk.active) /\ Reseals(job.todo) /\ Spares(job.todo, "pending")
  /\ Wiping => Erases(job.todo, "active") /\ Erases(job.todo, "pending")
  /\ Dropping => Spares(job.todo, "active") /\ Erases(job.todo, "pending")
  /\ ~(Saving \/ Staging \/ Promoting \/ Resealing \/ Wiping \/ Dropping) =>
       Spares(job.todo, "active") /\ Spares(job.todo, "pending")

\* What the handlers that end with a key in memory know of it.
KeysSafe ==
  /\ job.kind \in {"setup", "boot"} => held.key = None
  /\ job.kind = "unlock" =>
       app.status # "onboarding" /\ Complete(disk.active) /\ disk.active.blob.key = job.key
  /\ Moves /\ job.at # "over" => held.key = None \/ (app.status \in Enrolling /\ tail.kind = "none")
  /\ Moves /\ job.at \in {"ask", "promote"} /\ Complete(disk.pending) => disk.pending.blob.key = job.key

Pure(slot) == Complete(slot) => slot.pub = slot.blob.key

\* What memory and the slots have to do with each other.
MemorySafe ==
  /\ app.status = "onboarding" => held.key = None
  /\ held.key # None /\ ~Wiping /\ ~Promoting =>
       Complete(disk.active) /\ disk.active.blob.key = held.key
  /\ held.staged # None /\ ~Staging /\ Complete(disk.pending) => disk.pending.blob.key = held.staged
  /\ kills = 0 /\ ~Saving /\ ~Promoting => Pure(disk.active)
  /\ kills = 0 /\ ~Staging => Pure(disk.pending)

\* A removed account has no key and no request; only it lets the handler of a
\* missing account delete a slot.
WorldSafe ==
  /\ ~srv.exists => srv.active = None /\ srv.req = None
  /\ tail.kind = "missing" => ~srv.exists
  /\ tail.kind # "missing" => \A w \in Due(tail.todo) : w.where = "phone"

PhoneSafe == WorldSafe /\ (srv.exists => WritesSafe /\ KeysSafe /\ MemorySafe)

-----------------------------------------------------------------------------
(* What writes do to a slot.                                                 *)

LEMMA SparedSlot ==
  ASSUME NEW d \in Disks, NEW ws \in SUBSET Writes, NEW s \in Stores,
         \A w \in ws : w.where = s => w.field = "tries"
  PROVE  \A f \in Core : Stored(d, ws)[s][f] = d[s][f]
<1> SUFFICES ASSUME NEW f \in Core
             PROVE  Stored(d, ws)[s][f] = d[s][f]
  OBVIOUS
<1>1. f \in Fields /\ f # "tries"
  BY DEF Core, Fields
<1> QED
  BY <1>1, StoredValue DEF Stores

LEMMA ErasedSlot ==
  ASSUME NEW d \in Disks, NEW ws \in SUBSET Writes, NEW s \in Stores,
         \A w \in ws : w.where = s => w.field = "tries" \/ w.to = None
  PROVE  Complete(Stored(d, ws)[s]) => \A f \in Core : Stored(d, ws)[s][f] = d[s][f]
<1> SUFFICES ASSUME Complete(Stored(d, ws)[s]), NEW f \in Core
             PROVE  Stored(d, ws)[s][f] = d[s][f]
  OBVIOUS
<1>1. f \in Fields /\ f # "tries"
  BY DEF Core, Fields
<1>2. Stored(d, ws)[s][f] # None
  BY DEF Complete, Core
<1> QED
  BY <1>1, <1>2, StoredValue DEF Stores

LEMMA SameCore ==
  ASSUME NEW slot, NEW slot2, \A f \in Core : slot2[f] = slot[f]
  PROVE  /\ Complete(slot2) = Complete(slot) /\ slot2.blob = slot.blob /\ slot2.pub = slot.pub
         /\ slot2.salt = slot.salt /\ Pure(slot2) = Pure(slot)
         /\ \A key : Holds(slot2, key) = Holds(slot, key)
<1>1. slot2.blob = slot.blob /\ slot2.pub = slot.pub /\ slot2.salt = slot.salt
  BY DEF Core
<1> QED
  BY <1>1 DEF Complete, Pure, Holds

\* What an awaited batch does to a slot that the program spares, erases or completes.
LEMMA BatchSlots ==
  ASSUME PhoneTypes, job.todo # <<>>, NEW ws \in SUBSET Head(job.todo)
  PROVE  /\ ws \in SUBSET Writes
         /\ Due(Tail(job.todo)) \subseteq Due(job.todo) /\ Head(job.todo) \subseteq Due(job.todo)
         /\ \A s \in Stores : Spares(job.todo, s) =>
              Spares(Tail(job.todo), s) /\ \A f \in Core : Stored(disk, ws)[s][f] = disk[s][f]
         /\ \A s \in Stores : Erases(job.todo, s) =>
              /\ Erases(Tail(job.todo), s)
              /\ Complete(Stored(disk, ws)[s]) => \A f \in Core : Stored(disk, ws)[s][f] = disk[s][f]
<1>1. job.todo \in Programs /\ disk \in Disks
  BY DEF PhoneTypes, Jobs
<1>2. /\ Head(job.todo) \in SUBSET Writes
      /\ Due(job.todo) = Head(job.todo) \cup Due(Tail(job.todo))
  BY <1>1, NextWrites
<1>3. ASSUME NEW s \in Stores, Spares(job.todo, s)
      PROVE  Spares(Tail(job.todo), s) /\ \A f \in Core : Stored(disk, ws)[s][f] = disk[s][f]
  <2>1. \A w \in ws : w.where = s => w.field = "tries"
    BY <1>2, <1>3 DEF Spares
  <2> QED
    BY <1>1, <1>2, <1>3, <2>1, SparedSlot DEF Spares
<1>4. ASSUME NEW s \in Stores, Erases(job.todo, s)
      PROVE  /\ Erases(Tail(job.todo), s)
             /\ Complete(Stored(disk, ws)[s]) => \A f \in Core : Stored(disk, ws)[s][f] = disk[s][f]
  <2>1. \A w \in ws : w.where = s => w.field = "tries" \/ w.to = None
    BY <1>2, <1>4 DEF Erases
  <2> QED
    BY <1>1, <1>2, <1>4, <2>1, ErasedSlot DEF Erases
<1> QED
  BY <1>2, <1>3, <1>4

LEMMA SparesErases == \A todo, s : Spares(todo, s) => Erases(todo, s)
BY DEF Spares, Erases

\* A slot being completed comes one batch nearer to it.
LEMMA LandsStep ==
  ASSUME PhoneTypes, StoreJob, NEW s \in Stores, NEW slot, Copies(slot, s)
  PROVE  Copies(slot, s)'
<1>0. job.todo \in Programs /\ disk \in Disks /\ job \in Jobs
  BY DEF PhoneTypes, Jobs
<1>1. /\ Head(job.todo) \in SUBSET Writes
      /\ Due(job.todo) = Head(job.todo) \cup Due(Tail(job.todo))
  BY <1>0, NextWrites DEF StoreJob
<1>2. job'.todo = Tail(job.todo) /\ disk' = Stored(disk, Head(job.todo))
  BY <1>0 DEF StoreJob, Jobs
<1> SUFFICES ASSUME NEW f \in Core
             PROVE  /\ \A w \in Due(job'.todo) : w.where = s /\ w.field = f => w.to = slot[f]
                    /\ disk'[s][f] = slot[f] \/ \E w \in Due(job'.todo) : w.where = s /\ w.field = f
  BY DEF Copies, Lands
<1>3. /\ \A w \in Due(job.todo) : w.where = s /\ w.field = f => w.to = slot[f]
      /\ disk[s][f] = slot[f] \/ \E w \in Due(job.todo) : w.where = s /\ w.field = f
  BY DEF Copies, Lands
<1>4. \/ (\A x \in Head(job.todo) : ~(x.where = s /\ x.field = f)) /\ disk'[s][f] = disk[s][f]
      \/ \E x \in Head(job.todo) : x.where = s /\ x.field = f /\ disk'[s][f] = x.to
  BY <1>0, <1>1, <1>2, StoredValue DEF Core, Fields, Stores
<1> QED
  BY <1>1, <1>2, <1>3, <1>4

\* A slot whose writes are done is complete.
LEMMA Landed ==
  ASSUME job.todo = <<>>, NEW s \in Stores, NEW slot, Copies(slot, s)
  PROVE  \A f \in Core : disk[s][f] = slot[f]
BY ShortPrograms DEF Copies, Lands

-----------------------------------------------------------------------------
(* The next writes of a handler.                                             *)

\* The states a handler can be in exclude one another.
LEMMA OneAtATime ==
  /\ ~(Saving /\ (Staging \/ Promoting \/ Resealing \/ Wiping \/ Dropping))
  /\ ~(Staging /\ (Promoting \/ Resealing \/ Wiping \/ Dropping))
  /\ ~(Promoting /\ (Resealing \/ Wiping \/ Dropping))
  /\ ~(Resealing /\ (Wiping \/ Dropping)) /\ ~(Wiping /\ Dropping)
BY DEF Saving, Staging, Promoting, Moves, Resealing, Wiping, Dropping

\* A changed PIN leaves the key, whichever of its entries are written.
LEMMA ResealedSlot ==
  ASSUME PhoneTypes, Complete(disk.active), Reseals(job.todo), job.todo # <<>>
  PROVE  /\ Complete(Stored(disk, Head(job.todo))["active"])
         /\ Stored(disk, Head(job.todo))["active"].blob.key = disk.active.blob.key
         /\ Stored(disk, Head(job.todo))["active"].pub = disk.active.pub
<1>0. job.todo \in Programs /\ disk \in Disks
  BY DEF PhoneTypes, Jobs
<1>1. Head(job.todo) \in SUBSET Writes /\ Head(job.todo) \subseteq Due(job.todo)
  BY <1>0, NextWrites
<1>2. ASSUME NEW f \in Core
      PROVE  \/ Stored(disk, Head(job.todo))["active"][f] = disk["active"][f]
             \/ \E x \in Due(job.todo) : x.where = "active" /\ x.field = f
                                         /\ Stored(disk, Head(job.todo))["active"][f] = x.to
  BY <1>0, <1>1, StoredValue DEF Core, Fields
<1>3. /\ disk.active.salt # None /\ disk.active.blob # None /\ disk.active.pub # None
  BY DEF Complete
<1>4. Stored(disk, Head(job.todo))["active"].salt # None
  BY <1>2, <1>3, NoneIsNoKey DEF Core, Reseals
<1>5. /\ Stored(disk, Head(job.todo))["active"].blob # None
      /\ Stored(disk, Head(job.todo))["active"].blob.key = disk.active.blob.key
  BY <1>2, <1>3, NoneIsNoKey DEF Core, Reseals
<1>6. Stored(disk, Head(job.todo))["active"].pub = disk.active.pub
  BY <1>2 DEF Core, Reseals
<1> QED
  BY <1>3, <1>4, <1>5, <1>6 DEF Complete

LEMMA StoreWritesSafe ==
  ASSUME PhoneTypes, WritesSafe, StoreJob
  PROVE  WritesSafe'
<1>0. job.todo \in Programs /\ disk \in Disks /\ job \in Jobs /\ job.todo # <<>>
  BY DEF PhoneTypes, Jobs, StoreJob
<1>1. /\ job'.kind = job.kind /\ job'.at = job.at /\ job'.key = job.key /\ job'.todo = Tail(job.todo)
      /\ disk' = Stored(disk, Head(job.todo)) /\ kills' = kills
  BY <1>0 DEF StoreJob, Jobs
<1>2. /\ Saving' = Saving /\ Staging' = Staging /\ Promoting' = Promoting
      /\ Resealing' = Resealing /\ Wiping' = Wiping /\ Dropping' = Dropping
  BY <1>1 DEF Saving, Staging, Promoting, Moves, Resealing, Wiping, Dropping
<1>3. \A s \in Stores : /\ Spares(job.todo, s) => Spares(job'.todo, s)
                        /\ Erases(job.todo, s) => Erases(job'.todo, s)
  BY <1>0, <1>1, BatchSlots
<1>4. \A slot : Target(slot)' = Target(slot)
  BY <1>1 DEF Target
<1>5. \A slot \in Slots : \A s \in Stores : Copies(slot, s) => Copies(slot, s)'
  BY LandsStep
<1>6. ASSUME Saving
      PROVE  (\E slot \in Slots : Target(slot)' /\ Copies(slot, "active")') /\ Spares(job'.todo, "pending")
  BY <1>3, <1>4, <1>5, <1>6 DEF WritesSafe, Stores
<1>7. ASSUME Staging
      PROVE  (\E slot \in Slots : Target(slot)' /\ Copies(slot, "pending")') /\ Erases(job'.todo, "active")
  BY <1>3, <1>4, <1>5, <1>7 DEF WritesSafe, Stores
<1>8. ASSUME Promoting
      PROVE  /\ \E slot \in Slots : /\ Target(slot)' /\ Copies(slot, "active")'
                                    /\ job'.todo # <<>> => KeptUntilLast(slot)'
             /\ Erases(job'.todo, "pending")
  <2>1. PICK slot \in Slots : Target(slot) /\ Copies(slot, "active") /\ KeptUntilLast(slot)
    BY <1>0, <1>8 DEF WritesSafe
  <2>2. ASSUME job'.todo # <<>>
        PROVE  KeptUntilLast(slot)'
    <3>1. /\ Head(job.todo) = job.todo[1] /\ Head(job.todo) \in SUBSET Writes
          /\ Len(job.todo) \in Nat \ {0} /\ Len(job'.todo) = Len(job.todo) - 1
          /\ \A i \in 1..Len(job.todo) - 1 : job'.todo[i] = job.todo[i + 1]
      BY <1>0, <1>1, NextWrites
    <3>2. job'.todo \in Programs
      BY <1>0, <1>1, NextWrites
    <3>3. Len(job'.todo) \in Nat \ {0}
      BY <2>2, <3>2, NextWrites
    <3>10. PICK n \in Nat : n = Len(job.todo)
      BY <3>1
    <3>11. Len(job'.todo) = n - 1 /\ n - 1 \in Nat \ {0}
      BY <3>1, <3>3, <3>10
    <3>12. 1 \in 1 .. n - 1 /\ n - 1 \in 1 .. n - 1 /\ (n - 1) + 1 = n
      BY <3>11
    <3>4. \A w \in Head(job.todo) : w.where # "pending"
      BY <2>1, <3>1, <3>10, <3>12 DEF KeptUntilLast
    <3>5. disk'["pending"] = disk["pending"]
      BY <1>0, <1>1, <3>1, <3>4, StoredKeeps
    <3>6. ASSUME NEW i \in 1 .. Len(job'.todo) - 1
          PROVE  \A w \in job'.todo[i] : w.where # "pending"
      <4>1. i + 1 \in 1 .. Len(job.todo) - 1 /\ job'.todo[i] = job.todo[i + 1]
        BY <3>1, <3>3
      <4> QED
        BY <2>1, <4>1 DEF KeptUntilLast
    <3>7. job'.todo[Len(job'.todo)] = job.todo[Len(job.todo)]
      BY <3>1, <3>10, <3>11, <3>12
    <3>8. \A w \in job'.todo[Len(job'.todo)] : w.where # "active"
      BY <2>1, <3>7 DEF KeptUntilLast
    <3>9. \A f \in Core : disk'.pending[f] = slot[f]
      BY <2>1, <3>5 DEF KeptUntilLast
    <3> QED
      BY <3>6, <3>8, <3>9 DEF KeptUntilLast
  <2>3. Target(slot)' /\ Copies(slot, "active")'
    BY <1>4, <1>5, <2>1 DEF Stores
  <2>4. Erases(job'.todo, "pending")
    BY <1>3, <1>8 DEF WritesSafe, Stores
  <2> QED
    BY <2>2, <2>3, <2>4
<1>9. ASSUME Resealing
      PROVE  Complete(disk'.active) /\ Reseals(job.todo)' /\ Spares(job'.todo, "pending")
  <2>1. Complete(disk.active) /\ Reseals(job.todo) /\ Spares(job.todo, "pending")
    BY <1>9 DEF WritesSafe
  <2>2. /\ Complete(disk'.active) /\ disk'.active.blob.key = disk.active.blob.key
        /\ disk'.active.pub = disk.active.pub
    BY <1>0, <1>1, <2>1, ResealedSlot
  <2>3. Due(job'.todo) \subseteq Due(job.todo)
    BY <1>0, <1>1, NextWrites
  <2> QED
    BY <1>3, <2>1, <2>2, <2>3 DEF Reseals, Stores
<1>10. ASSUME Wiping
       PROVE  Erases(job'.todo, "active") /\ Erases(job'.todo, "pending")
  BY <1>3, <1>10 DEF WritesSafe, Stores
<1>11. ASSUME Dropping
       PROVE  Spares(job'.todo, "active") /\ Erases(job'.todo, "pending")
  BY <1>3, <1>11 DEF WritesSafe, Stores
<1>12. ASSUME ~(Saving \/ Staging \/ Promoting \/ Resealing \/ Wiping \/ Dropping)
       PROVE  Spares(job'.todo, "active") /\ Spares(job'.todo, "pending")
  BY <1>3, <1>12 DEF WritesSafe, Stores
<1> QED
  BY <1>2, <1>6, <1>7, <1>8, <1>9, <1>10, <1>11, <1>12 DEF WritesSafe

LEMMA StoreMemorySafe ==
  ASSUME PhoneTypes, WritesSafe, KeysSafe, MemorySafe, StoreJob
  PROVE  KeysSafe' /\ MemorySafe'
<1>0. job.todo \in Programs /\ disk \in Disks /\ job \in Jobs /\ job.todo # <<>>
  BY DEF PhoneTypes, Jobs, StoreJob
<1>1. /\ job'.kind = job.kind /\ job'.at = job.at /\ job'.key = job.key /\ job'.todo = Tail(job.todo)
      /\ disk' = Stored(disk, Head(job.todo)) /\ kills' = kills
      /\ held' = held /\ app' = app /\ tail' = tail
  BY <1>0 DEF StoreJob, Jobs
<1>2. /\ Saving' = Saving /\ Staging' = Staging /\ Promoting' = Promoting /\ Wiping' = Wiping
      /\ Moves' = Moves
  BY <1>1 DEF Saving, Staging, Promoting, Moves, Wiping
<1>3. ASSUME NEW s \in Stores, Spares(job.todo, s)
      PROVE  /\ Complete(disk'[s]) = Complete(disk[s]) /\ disk'[s].blob = disk[s].blob
             /\ Pure(disk'[s]) = Pure(disk[s])
  <2>1. \A f \in Core : disk'[s][f] = disk[s][f]
    BY <1>0, <1>1, <1>3, BatchSlots
  <2> QED
    BY <2>1, SameCore
<1>4. ASSUME NEW s \in Stores, Erases(job.todo, s), Complete(disk'[s])
      PROVE  /\ Complete(disk[s]) /\ disk'[s].blob = disk[s].blob /\ disk'[s].pub = disk[s].pub
  <2>1. \A f \in Core : disk'[s][f] = disk[s][f]
    BY <1>0, <1>1, <1>4, BatchSlots
  <2> QED
    BY <1>4, <2>1, SameCore
<1>5. ~Staging => Erases(job.todo, "pending")
  BY SparesErases, OneAtATime DEF WritesSafe
<1>6. ~Saving /\ ~Promoting /\ ~Resealing => Erases(job.todo, "active")
  BY SparesErases, OneAtATime DEF WritesSafe
<1>7. ~Saving /\ ~Staging /\ ~Promoting /\ ~Resealing /\ ~Wiping => Spares(job.todo, "active")
  BY OneAtATime DEF WritesSafe
<1>8. Resealing => /\ Complete(disk.active) /\ Complete(disk'.active)
                   /\ disk'.active.blob.key = disk.active.blob.key /\ disk'.active.pub = disk.active.pub
  BY <1>0, <1>1, ResealedSlot DEF WritesSafe
<1>9. KeysSafe'
  <2>1. job.kind = "unlock" => Complete(disk'.active) /\ disk'.active.blob.key = job.key
    <3>1. job.kind = "unlock" => Spares(job.todo, "active")
      BY DEF WritesSafe, Saving, Staging, Promoting, Moves, Resealing, Wiping, Dropping
    <3> QED
      BY <1>3, <3>1 DEF KeysSafe, Stores
  <2>2. Moves /\ job.at \in {"ask", "promote"} /\ Complete(disk'.pending) => disk'.pending.blob.key = job.key
    <3>1. Moves => ~Staging
      BY DEF Moves, Staging
    <3> QED
      BY <1>4, <1>5, <3>1 DEF KeysSafe, Stores
  <2> QED
    BY <1>1, <1>2, <2>1, <2>2 DEF KeysSafe
<1>10. MemorySafe'
  <2>1. ASSUME held.key # None, ~Wiping, ~Promoting
        PROVE  Complete(disk'.active) /\ disk'.active.blob.key = held.key
    <3>1. ~Saving /\ ~Staging
      BY <2>1 DEF KeysSafe, Saving, Staging
    <3>2. Complete(disk.active) /\ disk.active.blob.key = held.key
      BY <2>1 DEF MemorySafe
    <3> QED
      BY <1>3, <1>7, <1>8, <2>1, <3>1, <3>2 DEF Stores
  <2>2. ASSUME held.staged # None, ~Staging, Complete(disk'.pending)
        PROVE  disk'.pending.blob.key = held.staged
    BY <1>4, <1>5, <2>2 DEF MemorySafe, Stores
  <2>3. ASSUME kills = 0, ~Saving, ~Promoting
        PROVE  Pure(disk'.active)
    BY <1>4, <1>6, <1>8, <2>3 DEF MemorySafe, Pure, Stores
  <2>4. ASSUME kills = 0, ~Staging
        PROVE  Pure(disk'.pending)
    BY <1>4, <1>5, <2>4 DEF MemorySafe, Pure, Stores
  <2> QED
    BY <1>1, <1>2, <2>1, <2>2, <2>3, <2>4 DEF MemorySafe
<1> QED
  BY <1>9, <1>10

-----------------------------------------------------------------------------
(* Steps beside, at the end of, and between the writes of a handler.         *)

\* A step that leaves the entries that make a key openable.
SlotsKept == \A s \in Stores : \A f \in Core : disk'[s][f] = disk[s][f]

LEMMA KeptFacts ==
  ASSUME SlotsKept
  PROVE  /\ Complete(disk'.active) = Complete(disk.active) /\ disk'.active.blob = disk.active.blob
         /\ disk'.active.pub = disk.active.pub /\ Pure(disk'.active) = Pure(disk.active)
         /\ Complete(disk'.pending) = Complete(disk.pending) /\ disk'.pending.blob = disk.pending.blob
         /\ disk'.pending.pub = disk.pending.pub /\ Pure(disk'.pending) = Pure(disk.pending)
<1>1. /\ \A f \in Core : disk'.active[f] = disk.active[f]
      /\ \A f \in Core : disk'.pending[f] = disk.pending[f]
  BY DEF SlotsKept, Stores
<1> QED
  BY <1>1, SameCore

\* The phone's own entries are not the slots'.
LEMMA PhoneWriteKeeps ==
  ASSUME PhoneTypes, NEW ws \in SUBSET Writes, \A w \in ws : w.where = "phone"
  PROVE  Stored(disk, ws).active = disk.active /\ Stored(disk, ws).pending = disk.pending
BY StoredKeeps DEF PhoneTypes

LEMMA PhoneEntryKeeps ==
  ASSUME PhoneTypes
  PROVE  /\ \A t \in Tokens \cup {None} :
              disk' = Stored(disk, {Write("phone", "token", t)}) => SlotsKept
         /\ \A p \in {"cached", None} :
              disk' = Stored(disk, {Write("phone", "profile", p)}) => SlotsKept
<1>1. ASSUME NEW t \in Tokens \cup {None}, disk' = Stored(disk, {Write("phone", "token", t)})
      PROVE  SlotsKept
  <2>1. {Write("phone", "token", t)} \in SUBSET Writes
    BY DEF Write, Writes, PhoneWrites
  <2>2. \A w \in {Write("phone", "token", t)} : w.where = "phone"
    BY DEF Write
  <2> QED
    BY <1>1, <2>1, <2>2, PhoneWriteKeeps DEF SlotsKept, Stores
<1>2. ASSUME NEW p \in {"cached", None}, disk' = Stored(disk, {Write("phone", "profile", p)})
      PROVE  SlotsKept
  <2>1. {Write("phone", "profile", p)} \in SUBSET Writes
    BY DEF Write, Writes, PhoneWrites
  <2>2. \A w \in {Write("phone", "profile", p)} : w.where = "phone"
    BY DEF Write
  <2> QED
    BY <1>2, <2>1, <2>2, PhoneWriteKeeps DEF SlotsKept, Stores
<1> QED
  BY <1>1, <1>2

\* A step beside the handler, which may take the key out of memory.
LEMMA SafeFrame ==
  ASSUME WritesSafe, KeysSafe, MemorySafe, SlotsKept, kills' = kills,
         job'.kind = job.kind, job'.at = job.at, job'.todo = job.todo, job'.key = job.key,
         held'.staged = held.staged, held'.key = held.key \/ held'.key = None,
         app'.status = "onboarding" => app.status = "onboarding",
         \/ held'.key = None \/ tail.kind # "none"
         \/ tail'.kind = tail.kind /\ (app.status \in Enrolling => app'.status \in Enrolling)
  PROVE  WritesSafe' /\ KeysSafe' /\ MemorySafe'
<1>1. /\ Saving' = Saving /\ Staging' = Staging /\ Promoting' = Promoting /\ Moves' = Moves
      /\ Resealing' = Resealing /\ Wiping' = Wiping /\ Dropping' = Dropping
  BY DEF Saving, Staging, Promoting, Moves, Resealing, Wiping, Dropping
<1>2. WritesSafe'
  <2>1. \A slot \in Slots : Target(slot)' = Target(slot)
    BY DEF Target
  <2>2. \A slot \in Slots : \A s \in Stores : Copies(slot, s)' = Copies(slot, s)
    BY DEF Copies, Lands, SlotsKept
  <2>3. \A slot \in Slots : KeptUntilLast(slot)' = KeptUntilLast(slot)
    BY DEF KeptUntilLast, SlotsKept, Stores
  <2>4. Reseals(job.todo)' = Reseals(job.todo) /\ Complete(disk'.active) = Complete(disk.active)
    BY KeptFacts DEF Reseals
  <2>5. Saving => \E slot \in Slots : Target(slot)' /\ Copies(slot, "active")'
    BY <2>1, <2>2 DEF WritesSafe, Stores
  <2>6. Staging => \E slot \in Slots : Target(slot)' /\ Copies(slot, "pending")'
    BY <2>1, <2>2 DEF WritesSafe, Stores
  <2>7. Promoting => \E slot \in Slots : /\ Target(slot)' /\ Copies(slot, "active")'
                                         /\ job'.todo # <<>> => KeptUntilLast(slot)'
    BY <2>1, <2>2, <2>3 DEF WritesSafe, Stores
  <2> QED
    BY <1>1, <2>4, <2>5, <2>6, <2>7 DEF WritesSafe
<1>3. KeysSafe'
  BY <1>1, KeptFacts DEF KeysSafe
<1>4. MemorySafe'
  BY <1>1, KeptFacts DEF MemorySafe
<1> QED
  BY <1>2, <1>3, <1>4

\* The end of a handler.
LEMMA EndSafe ==
  ASSUME SlotsKept, Finish, kills' = kills,
         app'.status = "onboarding" => held'.key = None,
         held'.key # None => Complete(disk.active) /\ disk.active.blob.key = held'.key,
         held'.staged # None /\ Complete(disk.pending) => disk.pending.blob.key = held'.staged,
         kills = 0 => Pure(disk.active) /\ Pure(disk.pending)
  PROVE  WritesSafe' /\ KeysSafe' /\ MemorySafe'
<1>1. job'.kind = "none" /\ job'.todo = <<>>
  BY FinishTypes
<1>2. /\ ~Saving' /\ ~Staging' /\ ~Promoting' /\ ~Moves' /\ ~Resealing' /\ ~Wiping' /\ ~Dropping'
  BY <1>1 DEF Saving, Staging, Promoting, Moves, Resealing, Wiping, Dropping
<1>3. Spares(job'.todo, "active") /\ Spares(job'.todo, "pending")
  BY <1>1, ShortPrograms DEF Spares
<1>4. WritesSafe'
  BY <1>2, <1>3 DEF WritesSafe
<1>5. KeysSafe'
  BY <1>1, <1>2 DEF KeysSafe
<1>6. MemorySafe'
  BY <1>2, KeptFacts DEF MemorySafe
<1> QED
  BY <1>4, <1>5, <1>6

\* Most handlers end with what they began with, or without the key in memory.
LEMMA PlainEnd ==
  ASSUME PhoneTypes, WritesSafe, KeysSafe, MemorySafe, SlotsKept, Finish, kills' = kills,
         job.todo = <<>>, ~Staging, ~Promoting,
         Wiping => held'.key = None,
         held'.staged = held.staged, held'.key = held.key \/ held'.key = None,
         app'.status = "onboarding" => app.status = "onboarding" \/ held'.key = None
  PROVE  WritesSafe' /\ KeysSafe' /\ MemorySafe'
<1>1. app'.status = "onboarding" => held'.key = None
  BY DEF MemorySafe
<1>2. held'.key # None => Complete(disk.active) /\ disk.active.blob.key = held'.key
  BY DEF MemorySafe
<1>3. held'.staged # None /\ Complete(disk.pending) => disk.pending.blob.key = held'.staged
  BY DEF MemorySafe
<1>4. kills = 0 => Pure(disk.active) /\ Pure(disk.pending)
  <2>1. ASSUME kills = 0, Saving
        PROVE  Pure(disk.active)
    <3>1. PICK slot \in Slots : Target(slot) /\ Copies(slot, "active")
      BY <2>1 DEF WritesSafe
    <3>2. \A f \in Core : disk.active[f] = slot[f]
      BY <3>1, Landed DEF Stores
    <3>3. disk.active.blob = slot.blob /\ disk.active.pub = slot.pub
      BY <3>2 DEF Core
    <3> QED
      BY <2>1, <3>1, <3>3 DEF Target, Pure
  <2> QED
    BY <2>1 DEF MemorySafe
<1> QED
  BY <1>1, <1>2, <1>3, <1>4, EndSafe

\* A handler that begins, or goes on.
LEMMA MemoryGoesOn ==
  ASSUME MemorySafe, SlotsKept, kills' = kills, ~Saving, ~Staging, ~Promoting, ~Wiping,
         held'.staged = held.staged \/ held'.staged = None, held'.key = held.key \/ held'.key = None,
         app'.status = "onboarding" => app.status = "onboarding"
  PROVE  MemorySafe'
BY KeptFacts DEF MemorySafe

-----------------------------------------------------------------------------
(* The invariant holds: start, 401s, polls, sign-in and the PIN screen.      *)

AccountSafe == WritesSafe /\ KeysSafe /\ MemorySafe

LEMMA SparingPrograms ==
  ASSUME NEW s \in Stores, NEW t \in Stores
  PROVE  /\ Spares(<<>>, t) /\ Spares(ClearTries(s), t) /\ Erases(WipeSlot(s), t)
         /\ s # t => Spares(WipeSlot(s), t)
         /\ \A x \in Tokens \cup {None} : Spares(SetToken(x), t)
         /\ \A p, q \in Programs : Spares(p, t) /\ Spares(q, t) => Spares(p \o q, t)
         /\ \A p, q \in Programs : Erases(p, t) /\ Erases(q, t) => Erases(p \o q, t)
<1>1. /\ Due(WipeSlot(s)) = Deletes(s) /\ Due(ClearTries(s)) = {Write(s, "tries", None)} /\ Due(<<>>) = {}
      /\ \A x \in Tokens \cup {None} : Due(SetToken(x)) = {Write("phone", "token", x)}
  BY WipeProgram, TokenProgram, ShortPrograms
<1>2. \A w \in Deletes(s) : w.where = s /\ w.to = None
  BY DEF Deletes, Write
<1>3. \A p, q \in Programs : Due(p \o q) = Due(p) \cup Due(q)
  BY DueOfJoin
<1>4. Spares(<<>>, t) /\ Spares(ClearTries(s), t)
  BY <1>1 DEF Spares, Write
<1>5. Erases(WipeSlot(s), t) /\ (s # t => Spares(WipeSlot(s), t))
  BY <1>1, <1>2 DEF Spares, Erases
<1>6. \A x \in Tokens \cup {None} : Spares(SetToken(x), t)
  BY <1>1 DEF Spares, Write, Stores
<1> QED
  BY <1>3, <1>4, <1>5, <1>6 DEF Spares, Erases

LEMMA StatusOf ==
  /\ Unauthed.status = "unauthed"
  /\ \A fresh : Authed(fresh).status = "authed"
  /\ \A user, fresh, after : LockedOrUnauthed(user, fresh, after).status \in {"locked", "unauthed"}
  /\ \A status, fresh, after : State(status, fresh, after).status = status
BY DEF Unauthed, Authed, LockedOrUnauthed, State

LEMMA AlarmHolds ==
  ASSUME PhoneTypes, NoAlarm \/ Unauthorized
  PROVE  /\ held'.staged = held.staged
         /\ held'.key = None \/ (held'.key = held.key /\ tail' = tail)
BY DEF NoAlarm, Unauthorized, PhoneTypes, Memory

\* A handler that only counts PINs and writes the phone's own entries.
LEMMA PlainJob ==
  ASSUME job'.kind \in {"boot", "signIn", "approve"},
         Spares(job'.todo, "active"), Spares(job'.todo, "pending"),
         job'.kind = "boot" => held'.key = None
  PROVE  WritesSafe' /\ KeysSafe'
<1>1. /\ ~Saving' /\ ~Staging' /\ ~Promoting' /\ ~Moves' /\ ~Resealing' /\ ~Wiping' /\ ~Dropping'
  BY DEF Saving, Staging, Promoting, Moves, Resealing, Wiping, Dropping
<1>2. WritesSafe'
  BY <1>1 DEF WritesSafe
<1>3. KeysSafe'
  BY <1>1 DEF KeysSafe
<1> QED
  BY <1>2, <1>3

LEMMA SameKept == UNCHANGED disk => SlotsKept
BY DEF SlotsKept

LEMMA BootSafe == PhoneTypes /\ AccountSafe /\ srv.exists /\ BootStep => AccountSafe'
<1> SUFFICES ASSUME PhoneTypes, WritesSafe, KeysSafe, MemorySafe, srv.exists, BootStep
             PROVE  WritesSafe' /\ KeysSafe' /\ MemorySafe'
  BY DEF AccountSafe
<1>1. job.kind = "boot" /\ held.key = None /\ job.todo = <<>> /\ kills' = kills /\ job \in Jobs
  BY DEF BootStep, BootRead, BootMeOk, BootMeFails, BootDropped, BootMeMissing, BootGone, At, Booting,
     KeysSafe, PhoneTypes
<1>2. ~Saving /\ ~Staging /\ ~Promoting /\ ~Wiping
  BY <1>1 DEF Saving, Staging, Promoting, Moves, Wiping
<1>3. Spares(<<>>, "active") /\ Spares(<<>>, "pending")
  BY SparingPrograms DEF Stores
<1>4. CASE BootRead
  <2>0. SlotsKept /\ held' = held
    BY <1>4, SameKept DEF BootRead
  <2>1. CASE BootDecides.at = "end"
    <3>1. Finish
      BY <1>4, <2>1 DEF BootRead, Finish
    <3>2. app'.status # "onboarding"
      BY <1>4, <2>1, StatusOf DEF BootRead, BootDecides
    <3> QED
      BY <1>1, <1>2, <2>0, <3>1, <3>2, PlainEnd
  <2>2. CASE BootDecides.at # "end"
    <3>1. job'.kind = "boot" /\ job'.todo = <<>>
      BY <1>1, <1>4, <2>2 DEF BootRead, Jobs
    <3>2. app' = app
      BY <1>4, <2>2 DEF BootRead, BootDecides
    <3> QED
      BY <1>1, <1>2, <1>3, <2>0, <3>1, <3>2, PlainJob, MemoryGoesOn
  <2> QED
    BY <2>1, <2>2
<1>5. CASE BootMeOk
  <2>1. SlotsKept /\ Finish /\ held' = held
    BY <1>5, PhoneEntryKeeps DEF BootMeOk
  <2> QED
    BY <1>1, <1>2, <2>1, PlainEnd
<1>6. CASE BootMeFails
  <2>1. SlotsKept /\ held'.key = None /\ held'.staged = held.staged
    BY <1>1, <1>6, SameKept, AlarmHolds DEF BootMeFails
  <2>2. CASE Finish
    BY <1>1, <1>2, <2>1, <2>2, PlainEnd
  <2>3. CASE app' = app /\ Then("dropped", SetToken(None))
    <3>1. job'.kind = "boot" /\ job'.todo = SetToken(None)
      BY <1>1, <2>3, TokenProgram, ThenTypes DEF Places
    <3>2. Spares(SetToken(None), "active") /\ Spares(SetToken(None), "pending")
      BY SparingPrograms DEF Stores
    <3> QED
      BY <1>1, <1>2, <2>1, <2>3, <3>1, <3>2, PlainJob, MemoryGoesOn
  <2> QED
    BY <1>6, <2>2, <2>3 DEF BootMeFails
<1>7. CASE BootDropped
  <2>1. SlotsKept /\ Finish /\ held' = held
    BY <1>7, SameKept DEF BootDropped
  <2> QED
    BY <1>1, <1>2, <2>1, PlainEnd
<1>8. CASE BootGone
  <2>1. SlotsKept /\ Finish /\ held'.key = None /\ held'.staged = held.staged
    BY <1>8, SameKept DEF BootGone, PhoneTypes, Memory
  <2> QED
    BY <1>1, <1>2, <2>1, PlainEnd
<1>9. ~BootMeMissing
  BY DEF BootMeMissing
<1> QED
  BY <1>4, <1>5, <1>6, <1>7, <1>8, <1>9 DEF BootStep

LEMMA TailSafe == PhoneTypes /\ WorldSafe /\ AccountSafe /\ srv.exists /\ TailStep => AccountSafe'
<1> SUFFICES ASSUME PhoneTypes, WorldSafe, WritesSafe, KeysSafe, MemorySafe, srv.exists, TailStep
             PROVE  WritesSafe' /\ KeysSafe' /\ MemorySafe'
  BY DEF AccountSafe
<1>1. ~MissingSettle
  BY DEF MissingSettle, WorldSafe
<1>2. /\ SlotsKept /\ job' = job /\ held' = held /\ kills' = kills /\ tail.kind # "none"
  BY <1>1, SameKept DEF TailStep, RefusedRead, RefusedSettle
<1>3. app'.status = "onboarding" => app.status = "onboarding"
  <2>1. CASE RefusedRead
    <3>1. app' \in {app, State("recovery_pending", FALSE, "unset"), Unauthed}
      BY <2>1 DEF RefusedRead
    <3>2. State("recovery_pending", FALSE, "unset").status = "recovery_pending"
      BY StatusOf
    <3> QED
      BY <3>1, <3>2, StatusOf
  <2>2. CASE RefusedSettle
    <3>1. app' \in {LockedOrUnauthed(UserAtHand, FALSE, "no"), Unauthed}
      BY <2>2 DEF RefusedSettle
    <3>2. LockedOrUnauthed(UserAtHand, FALSE, "no").status \in {"locked", "unauthed"}
      BY StatusOf
    <3> QED
      BY <3>1, <3>2, StatusOf
  <2> QED
    BY <1>1, <2>1, <2>2 DEF TailStep
<1> QED
  BY <1>2, <1>3, SafeFrame

LEMMA PollSafe == PhoneTypes /\ AccountSafe /\ srv.exists /\ PollStep => AccountSafe'
<1> SUFFICES ASSUME PhoneTypes, WritesSafe, KeysSafe, MemorySafe, srv.exists, PollStep
             PROVE  WritesSafe' /\ KeysSafe' /\ MemorySafe'
  BY DEF AccountSafe
<1>1. ~PollMissing
  BY DEF PollMissing
<1>2. SlotsKept
  <2>1. CASE PollAnswered
    BY <2>1, PhoneEntryKeeps DEF PollAnswered
  <2> QED
    BY <1>1, <2>1, SameKept DEF PollStep, Poll, PollFails
<1>3. job' = job /\ app' = app /\ kills' = kills
  BY <1>1 DEF PollStep, Poll, PollAnswered, PollFails
<1>4. NoAlarm \/ Unauthorized
  BY <1>1 DEF PollStep, Poll, PollAnswered, PollFails, NoAlarm
<1> QED
  BY <1>2, <1>3, <1>4, AlarmHolds, SafeFrame

LEMMA OthersSafe == PhoneTypes /\ AccountSafe /\ Others => AccountSafe'
<1> SUFFICES ASSUME PhoneTypes, WritesSafe, KeysSafe, MemorySafe, Others
             PROVE  WritesSafe' /\ KeysSafe' /\ MemorySafe'
  BY DEF AccountSafe
<1>1. SlotsKept /\ job' = job /\ app' = app /\ held' = held /\ tail' = tail /\ kills' = kills
  BY SameKept DEF Others, SupportApproves, SupportRejects, OtherPhone, OldPhoneSigns
<1> QED
  BY <1>1, SafeFrame

LEMMA SessionSafe ==
  PhoneTypes /\ AccountSafe /\ srv.exists /\ srv'.exists /\ SessionStep => AccountSafe'
<1> SUFFICES ASSUME PhoneTypes, WritesSafe, KeysSafe, MemorySafe, srv.exists, srv'.exists, SessionStep
             PROVE  WritesSafe' /\ KeysSafe' /\ MemorySafe'
  BY DEF AccountSafe
<1>0. /\ disk \in Disks /\ disk.active \in Slots /\ disk.pending \in Slots /\ job \in Jobs
      /\ held \in Memory
  BY DEF PhoneTypes, Disks
<1>s. "active" \in Stores /\ "pending" \in Stores
  BY DEF Stores
<1>1. CASE SignInMe
  <2>1. /\ job.kind = "signIn" /\ job.todo = <<>> /\ app' = app /\ kills' = kills /\ SlotsKept
        /\ NoAlarm \/ Unauthorized
    BY <1>1, SameKept DEF SignInMe, At
  <2>2. ~Saving /\ ~Staging /\ ~Promoting /\ ~Wiping
    BY <2>1 DEF Saving, Staging, Promoting, Moves, Wiping
  <2>3. CASE Finish
    BY <2>1, <2>2, <2>3, AlarmHolds, PlainEnd
  <2>4. CASE Then("enter", SetToken("fresh"))
    <3>1. job'.kind = "signIn" /\ job'.todo = SetToken("fresh")
      BY <1>0, <2>1, <2>4, TokenProgram, ThenTypes DEF Places, Tokens
    <3>2. Spares(SetToken("fresh"), "active") /\ Spares(SetToken("fresh"), "pending")
      BY <1>s, SparingPrograms DEF Tokens
    <3>3. WritesSafe' /\ KeysSafe'
      BY <3>1, <3>2, PlainJob
    <3>4. MemorySafe'
      BY <2>1, <2>2, AlarmHolds, MemoryGoesOn
    <3> QED
      BY <3>3, <3>4
  <2> QED
    BY <1>1, <2>3, <2>4 DEF SignInMe
<1>2. CASE SignIn
  <2>1. /\ job.kind = "signIn" /\ job.todo = <<>> /\ held' = held /\ kills' = kills /\ SlotsKept /\ Finish
    BY <1>2, PhoneEntryKeeps DEF SignIn, At
  <2>2. ~Saving /\ ~Staging /\ ~Promoting /\ ~Wiping
    BY <2>1 DEF Saving, Staging, Promoting, Moves, Wiping
  <2>3. held.key # None => ActiveThere
    BY <2>2 DEF MemorySafe, ActiveThere
  <2>4. app'.status = "onboarding" => held'.key = None
    <3>1. CASE ActiveThere
      <4>1. app' \in {State("recovery_pending", FALSE, "unset"), Authed(TRUE)}
        BY <1>2, <3>1 DEF SignIn
      <4>2. State("recovery_pending", FALSE, "unset").status = "recovery_pending"
        BY StatusOf
      <4> QED
        BY <4>1, <4>2, StatusOf
    <3> QED
      BY <2>1, <2>3, <3>1
  <2> QED
    BY <2>1, <2>2, <2>4, PlainEnd
<1>3. CASE Unlock
  <2>1. /\ job.kind = "unlock" /\ job.todo = <<>> /\ kills' = kills /\ SlotsKept /\ Finish
        /\ held'.key = job.key /\ held'.staged = held.staged
    BY <1>0, <1>3, SameKept DEF Unlock, At, Memory
  <2>2. ~Saving /\ ~Staging /\ ~Promoting /\ ~Wiping
    BY <2>1 DEF Saving, Staging, Promoting, Moves, Wiping
  <2>3. app'.status # "onboarding"
    BY <1>3, <2>1, StatusOf DEF Unlock, KeysSafe
  <2>4. Complete(disk.active) /\ disk.active.blob.key = held'.key
    BY <2>1 DEF KeysSafe
  <2>5. held'.staged # None /\ Complete(disk.pending) => disk.pending.blob.key = held'.staged
    BY <2>1, <2>2 DEF MemorySafe
  <2>6. kills = 0 => Pure(disk.active) /\ Pure(disk.pending)
    BY <2>2 DEF MemorySafe
  <2> QED
    BY <2>1, <2>3, <2>4, <2>5, <2>6, EndSafe
<1>4. CASE SignOut
  <2>1. /\ job.kind = "wrongPin" /\ job.todo = <<>> /\ kills' = kills /\ SlotsKept /\ Finish
        /\ held'.key = None /\ held'.staged = held.staged
    BY <1>0, <1>4, SameKept DEF SignOut, At, Memory
  <2>2. ~Saving /\ ~Staging /\ ~Promoting
    BY <2>1 DEF Saving, Staging, Promoting, Moves
  <2> QED
    BY <2>1, <2>2, PlainEnd
<1>5. CASE Over
  <2>1. /\ job.at = "over" /\ job.todo = <<>> /\ kills' = kills /\ SlotsKept /\ Finish
        /\ held' = held /\ app' = app
    BY <1>5, SameKept DEF Over
  <2>2. ~Saving /\ ~Staging /\ ~Promoting /\ ~Wiping
    BY <2>1 DEF Saving, Staging, Promoting, Moves, Wiping
  <2> QED
    BY <2>1, <2>2, PlainEnd
<1>6. CASE EnterCode
  <2>1. job.kind = "none" /\ SlotsKept /\ app' = app /\ kills' = kills
    BY <1>6, SameKept DEF EnterCode, Idle
  <2>2. CASE job' = job /\ Unauthorized
    BY <2>1, <2>2, AlarmHolds, SafeFrame
  <2>3. CASE StartWriting("signIn", "me", SetToken("fresh")) /\ NoAlarm
    <3>1. SetToken("fresh") \in Programs
      BY TokenProgram DEF Tokens
    <3>2. job'.kind = "signIn" /\ job'.todo = SetToken("fresh")
      BY <2>3, <3>1, WritingTypes DEF JobKinds, Places
    <3>3. Spares(SetToken("fresh"), "active") /\ Spares(SetToken("fresh"), "pending")
      BY <1>s, SparingPrograms DEF Tokens
    <3>4. ~Saving /\ ~Staging /\ ~Promoting /\ ~Wiping
      BY <2>1 DEF Saving, Staging, Promoting, Moves, Wiping
    <3>5. MemorySafe'
      BY <2>1, <2>3, <3>4, MemoryGoesOn DEF NoAlarm
    <3> QED
      BY <3>2, <3>3, <3>5, PlainJob
  <2> QED
    BY <1>6, <2>2, <2>3 DEF EnterCode
<1>7. CASE RightPin
  <2>1. /\ job.kind = "none" /\ SlotsKept /\ app' = app /\ held' = held /\ kills' = kills
        /\ app.status = "locked" /\ disk' = disk
    BY <1>7, SameKept DEF RightPin, Idle, PinAsked
  <2>2. /\ Complete(disk.active) /\ disk.active.blob.key \in Own /\ disk.active.pub \in Own
        /\ Start("unlock", "open", ClearTries("active"), disk.active.blob.key, disk.active.pub)
    BY <1>0, <1>7, SlotHolds DEF RightPin
  <2>3. /\ job'.kind = "unlock" /\ job'.todo = ClearTries("active") /\ job'.key = disk.active.blob.key
    BY <1>s, <2>2, WipeProgram, JobTypes DEF JobKinds, Keyed, Places
  <2>4. ~Saving /\ ~Staging /\ ~Promoting /\ ~Wiping
    BY <2>1 DEF Saving, Staging, Promoting, Moves, Wiping
  <2>5. MemorySafe'
    BY <2>1, <2>4, MemoryGoesOn
  <2>6. /\ ~Saving' /\ ~Staging' /\ ~Promoting' /\ ~Moves' /\ ~Resealing' /\ ~Wiping' /\ ~Dropping'
    BY <2>3 DEF Saving, Staging, Promoting, Moves, Resealing, Wiping, Dropping
  <2>7. WritesSafe'
    BY <1>s, <2>3, <2>6, SparingPrograms DEF WritesSafe
  <2>8. KeysSafe'
    BY <2>1, <2>2, <2>3, <2>6 DEF KeysSafe
  <2> QED
    BY <2>5, <2>7, <2>8
<1>8. CASE WrongPin
  <2>1. /\ job.kind = "none" /\ SlotsKept /\ app' = app /\ held' = held /\ kills' = kills
    BY <1>8, SameKept DEF WrongPin, Idle
  <2>2. ~Saving /\ ~Staging /\ ~Promoting /\ ~Wiping
    BY <2>1 DEF Saving, Staging, Promoting, Moves, Wiping
  <2>3. MemorySafe'
    BY <2>1, <2>2, MemoryGoesOn
  <2>4. CASE LastTry(disk.active)
    <3>1. WrongTry(disk.active, "active") = WipeSlot("active")
      BY <1>0, <1>s, <2>4, WrongProgram
    <3>2. WipeSlot("active") \in Programs /\ SetToken(None) \in Programs
      BY <1>s, WipeProgram, TokenProgram
    <3>3. PICK todo \in Programs : todo = WipeSlot("active") \o WipeSlot("active") \o SetToken(None)
      BY <3>2, DueOfJoin
    <3>4. job'.kind = "wrongPin" /\ job'.at = "signOut" /\ job'.todo = todo
      <4>1. StartWriting("wrongPin", "signOut", todo)
        BY <1>8, <2>4, <3>1, <3>3 DEF WrongPin
      <4> QED
        BY <4>1, WritingTypes DEF JobKinds, Places
    <3>5. ASSUME NEW t \in Stores
          PROVE  Erases(todo, t)
      <4>1. Erases(WipeSlot("active"), t) /\ Erases(SetToken(None), t)
        BY <1>s, SparingPrograms, SparesErases
      <4>2. /\ WipeSlot("active") \o WipeSlot("active") \in Programs
            /\ Erases(WipeSlot("active") \o WipeSlot("active"), t)
        BY <1>s, <3>2, <4>1, DueOfJoin, SparingPrograms
      <4> QED
        BY <1>s, <3>2, <3>3, <4>1, <4>2, SparingPrograms
    <3>6. /\ ~Saving' /\ ~Staging' /\ ~Promoting' /\ ~Moves' /\ ~Resealing' /\ Wiping' /\ ~Dropping'
      BY <3>4 DEF Saving, Staging, Promoting, Moves, Resealing, Wiping, Dropping
    <3>7. WritesSafe'
      BY <1>s, <3>4, <3>5, <3>6 DEF WritesSafe
    <3>8. KeysSafe'
      BY <3>4, <3>6 DEF KeysSafe
    <3> QED
      BY <2>3, <3>7, <3>8
  <2>5. CASE ~LastTry(disk.active)
    <3>1. PICK todo \in Programs : todo = WrongTry(disk.active, "active")
      BY <1>0, <1>s, WrongProgram
    <3>2. \A t \in Stores : Spares(todo, t)
      BY <1>0, <1>s, <2>5, <3>1, WrongProgram DEF Spares
    <3>3. job'.kind = "wrongPin" /\ job'.at = "over" /\ job'.todo = todo
      BY <1>8, <2>5, <3>1, WritingTypes DEF WrongPin, JobKinds, Places
    <3>4. /\ ~Saving' /\ ~Staging' /\ ~Promoting' /\ ~Moves' /\ ~Resealing' /\ ~Wiping' /\ ~Dropping'
      BY <3>3 DEF Saving, Staging, Promoting, Moves, Resealing, Wiping, Dropping
    <3>5. WritesSafe'
      BY <1>s, <3>2, <3>3, <3>4 DEF WritesSafe
    <3>6. KeysSafe'
      BY <3>3, <3>4 DEF KeysSafe
    <3> QED
      BY <2>3, <3>5, <3>6
  <2> QED
    BY <2>4, <2>5
<1>9. CASE Lock
  <2>1. /\ SlotsKept /\ job' = job /\ held'.key = None /\ held'.staged = held.staged /\ kills' = kills
    BY <1>0, <1>9, SameKept DEF Lock, Memory
  <2>2. app'.status # "onboarding"
    BY <1>9, StatusOf DEF Lock
  <2> QED
    BY <2>1, <2>2, SafeFrame
<1>10. CASE FreshCheck
  <2>1. /\ SlotsKept /\ job' = job /\ held' = held /\ tail' = tail /\ kills' = kills
        /\ app'.status = app.status
    BY <1>10, SameKept DEF FreshCheck, PhoneTypes, Apps
  <2> QED
    BY <2>1, SafeFrame
<1>11. CASE Age
  <2>1. /\ SlotsKept /\ held' = held /\ tail' = tail /\ kills' = kills /\ app' = app
    BY <1>11, PhoneEntryKeeps DEF Age, Tokens
  <2>2. job'.kind = job.kind /\ job'.at = job.at /\ job'.todo = job.todo /\ job'.key = job.key
    BY <1>0, <1>11 DEF Age, Jobs
  <2> QED
    BY <2>1, <2>2, SafeFrame
<1>12. CASE LockoutEnds
  <2>1. SlotsKept
    BY <1>0, <1>12 DEF LockoutEnds, SlotsKept, Stores, Core, Disks, Slots
  <2>2. job' = job /\ held' = held /\ tail' = tail /\ kills' = kills /\ app' = app
    BY <1>12 DEF LockoutEnds
  <2> QED
    BY <2>1, <2>2, SafeFrame
<1>13. ~AccountRemoved
  BY DEF AccountRemoved, PhoneTypes, Rows
<1> QED
  BY <1>1, <1>2, <1>3, <1>4, <1>5, <1>6, <1>7, <1>8, <1>9, <1>10, <1>11, <1>12, <1>13 DEF SessionStep

-----------------------------------------------------------------------------
(* The invariant holds: keys.                                                *)

LEMMA AnswersSafe == PhoneTypes /\ AccountSafe /\ KeyAnswers => AccountSafe'
<1> SUFFICES ASSUME PhoneTypes, WritesSafe, KeysSafe, MemorySafe, KeyAnswers
             PROVE  WritesSafe' /\ KeysSafe' /\ MemorySafe'
  BY DEF AccountSafe
<1>0. /\ disk \in Disks /\ disk.active \in Slots /\ disk.pending \in Slots /\ job \in Jobs
      /\ held \in Memory /\ <<>> \in Programs
  BY ShortPrograms DEF PhoneTypes, Disks
<1>s. "active" \in Stores /\ "pending" \in Stores
  BY DEF Stores
<1>e. Due(<<>>) = {} /\ Spares(<<>>, "active") /\ Spares(<<>>, "pending")
  BY <1>s, ShortPrograms, SparingPrograms
<1>1. CASE Register
  <2>1. /\ job.kind = "setup" /\ job.at = "register" /\ job.todo = <<>> /\ Saving /\ ~Staging /\ ~Promoting
        /\ ~Wiping /\ app' = app /\ held' = held /\ kills' = kills /\ disk' = disk /\ SlotsKept /\ held.key = None
    BY <1>1, SameKept DEF Register, At, KeysSafe, Saving, Staging, Promoting, Moves, Wiping
  <2>2. PICK slot \in Slots : Target(slot) /\ Copies(slot, "active")
    BY <2>1 DEF WritesSafe
  <2>3. \A f \in Core : disk.active[f] = slot[f]
    BY <1>s, <2>1, <2>2, Landed
  <2>4. /\ Complete(disk.active) /\ disk.active.blob.key = job.key
        /\ kills = 0 => disk.active.pub = job.key
    BY <2>2, <2>3, SameCore DEF Target
  <2>5. CASE Finish
    BY <2>1, <2>5, PlainEnd
  <2>6. CASE Then("done", <<>>)
    <3>1. job'.kind = "setup" /\ job'.at = "done" /\ job'.todo = <<>> /\ job'.key = job.key
      BY <1>0, <2>1, <2>6, ThenTypes DEF Places
    <3>2. /\ Saving' /\ ~Staging' /\ ~Promoting' /\ ~Moves' /\ ~Resealing' /\ ~Wiping' /\ ~Dropping'
      BY <3>1 DEF Saving, Staging, Promoting, Moves, Resealing, Wiping, Dropping
    <3>3. Target(slot)' /\ Copies(slot, "active")'
      BY <1>e, <2>1, <2>2, <2>3, <3>1 DEF Target, Copies, Lands
    <3>4. WritesSafe'
      BY <1>e, <3>1, <3>2, <3>3 DEF WritesSafe
    <3>5. KeysSafe'
      BY <2>1, <3>1, <3>2 DEF KeysSafe
    <3>6. MemorySafe'
      BY <2>1, <3>2 DEF MemorySafe
    <3> QED
      BY <3>4, <3>5, <3>6
  <2>7. CASE Then("stage", MoveSlot(disk.active, "active", "pending"))
    <3>0. PICK todo \in Programs :
            /\ todo = MoveSlot(disk.active, "active", "pending")
            /\ Due(todo) = {Write("pending", f, disk.active[f]) : f \in Fields} \cup Deletes("active")
      BY <1>0, <1>s, MoveProgram
    <3>1. job'.kind = "setup" /\ job'.at = "stage" /\ job'.todo = todo /\ job'.key = job.key
      BY <1>0, <2>1, <2>7, <3>0, ThenTypes DEF Places
    <3>2. /\ ~Saving' /\ Staging' /\ ~Promoting' /\ ~Moves' /\ ~Resealing' /\ ~Wiping' /\ ~Dropping'
      BY <3>1 DEF Saving, Staging, Promoting, Moves, Resealing, Wiping, Dropping
    <3>3. /\ \A w \in Deletes("active") : w.where = "active" /\ w.to = None
          /\ \A f \in Fields : Write("pending", f, disk.active[f]).where = "pending"
                               /\ Write("pending", f, disk.active[f]).field = f
                               /\ Write("pending", f, disk.active[f]).to = disk.active[f]
      BY DEF Deletes, Write
    <3>4. Copies(disk.active, "pending")'
      <4> SUFFICES ASSUME NEW f \in Core
                   PROVE  /\ \A w \in Due(todo) : w.where = "pending" /\ w.field = f => w.to = disk.active[f]
                          /\ \E w \in Due(todo) : w.where = "pending" /\ w.field = f
        BY <2>1, <3>1 DEF Copies, Lands
      <4>1. f \in Fields
        BY DEF Core, Fields
      <4> QED
        BY <3>0, <3>3, <4>1
    <3>5. Target(disk.active)'
      BY <2>1, <2>4, <3>1 DEF Target
    <3>6. Erases(todo, "active")
      BY <3>0, <3>3 DEF Erases
    <3>7. WritesSafe'
      <4>1. PICK s \in Slots : s = disk.active
        BY <1>0
      <4>2. Target(s)' /\ Copies(s, "pending")'
        BY <2>1, <3>4, <3>5, <4>1
      <4> QED
        BY <3>1, <3>2, <3>6, <4>2 DEF WritesSafe
    <3>8. KeysSafe'
      BY <2>1, <3>1, <3>2 DEF KeysSafe
    <3>9. MemorySafe'
      BY <2>1, <2>4, <3>2 DEF MemorySafe, Pure
    <3> QED
      BY <3>7, <3>8, <3>9
  <2> QED
    BY <1>1, <2>5, <2>6, <2>7 DEF Register
<1>2. CASE RegisterFails
  <2>1. /\ job.kind = "setup" /\ job.at = "register" /\ job.todo = <<>> /\ ~Staging /\ ~Promoting /\ ~Wiping
        /\ app' = app /\ kills' = kills /\ SlotsKept /\ Finish /\ (NoAlarm \/ Unauthorized)
    BY <1>2, SameKept DEF RegisterFails, Staging, Promoting, Moves, Wiping
  <2> QED
    BY <2>1, AlarmHolds, PlainEnd
<1>3. CASE Onboarded
  <2>1. /\ job.kind = "setup" /\ job.at = "done" /\ job.todo = <<>> /\ Saving /\ ~Staging
        /\ kills' = kills /\ SlotsKept /\ Finish /\ held.key = None /\ CompleteOnboarding(job.key)
    BY <1>3, SameKept DEF Onboarded, At, KeysSafe, Saving, Staging
  <2>2. PICK slot \in Slots : Target(slot) /\ Copies(slot, "active")
    BY <2>1 DEF WritesSafe
  <2>3. \A f \in Core : disk.active[f] = slot[f]
    BY <1>s, <2>1, <2>2, Landed
  <2>4. /\ Complete(disk.active) /\ disk.active.blob.key = job.key
        /\ kills = 0 => Pure(disk.active)
    BY <2>2, <2>3, SameCore DEF Target, Pure
  <2>5. kills = 0 => Pure(disk.pending)
    BY <2>1 DEF MemorySafe
  <2>6. /\ held'.key # None => held'.key = job.key
        /\ app'.status = "onboarding" => held'.key = None
        /\ held'.staged # None => held'.staged = held.staged
    <3>1. CASE app.status \in Enrolling
      <4>1. held' = [key |-> job.key, staged |-> None] /\ app' = Authed(TRUE)
        BY <2>1, <3>1 DEF CompleteOnboarding
      <4> QED
        BY <4>1, StatusOf
    <3>2. CASE app.status \notin Enrolling
      BY <2>1, <3>2 DEF CompleteOnboarding
    <3> QED
      BY <3>1, <3>2
  <2>7. held'.staged # None /\ Complete(disk.pending) => disk.pending.blob.key = held'.staged
    BY <2>1, <2>6 DEF MemorySafe
  <2> QED
    BY <2>1, <2>4, <2>5, <2>6, <2>7, EndSafe
<1>4. CASE Stage
  <2>1. /\ job.kind = "setup" /\ job.at = "stage" /\ job.todo = <<>> /\ Staging /\ ~Saving /\ ~Promoting
        /\ kills' = kills /\ SlotsKept /\ Finish /\ held'.key = None /\ held'.staged = job.key
    BY <1>0, <1>4, SameKept DEF Stage, At, KeysSafe, Saving, Staging, Promoting, Moves, Memory
  <2>2. PICK slot \in Slots : Target(slot) /\ Copies(slot, "pending")
    BY <2>1 DEF WritesSafe
  <2>3. \A f \in Core : disk.pending[f] = slot[f]
    BY <1>s, <2>1, <2>2, Landed
  <2>4. /\ disk.pending.blob.key = job.key
        /\ kills = 0 => Pure(disk.pending)
    BY <2>2, <2>3, SameCore DEF Target, Pure
  <2>5. kills = 0 => Pure(disk.active)
    BY <2>1 DEF MemorySafe
  <2> QED
    BY <2>1, <2>4, <2>5, EndSafe
<1>5. CASE Discard
  <2>1. /\ job.kind = "cancel" /\ app' = app /\ kills' = kills /\ SlotsKept
        /\ held'.key = held.key /\ held'.staged = None /\ Then("reload", WipeSlot("pending"))
    BY <1>0, <1>5, SameKept DEF Discard, At, Memory
  <2>2. job'.kind = "cancel" /\ job'.todo = WipeSlot("pending")
    BY <1>0, <1>s, <2>1, WipeProgram, ThenTypes DEF Places
  <2>3. ~Saving /\ ~Staging /\ ~Promoting /\ ~Wiping
    BY <2>1 DEF Saving, Staging, Promoting, Moves, Wiping
  <2>4. /\ ~Saving' /\ ~Staging' /\ ~Promoting' /\ ~Moves' /\ ~Resealing' /\ ~Wiping' /\ Dropping'
    BY <2>2 DEF Saving, Staging, Promoting, Moves, Resealing, Wiping, Dropping
  <2>5. MemorySafe'
    BY <2>1, <2>3, MemoryGoesOn
  <2>6. WritesSafe'
    BY <1>s, <2>2, <2>4, SparingPrograms DEF WritesSafe
  <2>7. KeysSafe'
    BY <2>2, <2>4 DEF KeysSafe
  <2> QED
    BY <2>5, <2>6, <2>7
<1>6. CASE Reload
  <2>1. /\ job.kind = "cancel" /\ job.todo = <<>> /\ ~Staging /\ ~Promoting /\ ~Wiping
        /\ app'.status = app.status /\ kills' = kills /\ SlotsKept /\ Finish /\ held' = held
    BY <1>6, SameKept DEF Reload, At, Staging, Promoting, Moves, Wiping, PhoneTypes, Apps
  <2> QED
    BY <2>1, PlainEnd
<1>7. CASE RegisterMove
  <2>1. /\ job.kind = "transfer" /\ job.at = "ask" /\ job.todo = <<>> /\ ~Saving /\ ~Staging /\ ~Promoting
        /\ ~Wiping /\ app' = app /\ kills' = kills /\ SlotsKept /\ disk' = disk /\ held' = held /\ tail' = tail
    BY <1>7, SameKept DEF RegisterMove, At, Saving, Staging, Promoting, Wiping
  <2>2. CASE Finish
    BY <2>1, <2>2, PlainEnd
  <2>3. CASE Then("promote", <<>>)
    <3>1. job'.kind = "transfer" /\ job'.at = "promote" /\ job'.todo = <<>> /\ job'.key = job.key
      BY <1>0, <2>1, <2>3, ThenTypes DEF Places
    <3>2. /\ ~Saving' /\ ~Staging' /\ ~Promoting' /\ ~Resealing' /\ ~Wiping' /\ ~Dropping'
      BY <3>1 DEF Saving, Staging, Promoting, Resealing, Wiping, Dropping
    <3>3. MemorySafe'
      BY <2>1, MemoryGoesOn
    <3>4. WritesSafe'
      BY <1>e, <3>1, <3>2 DEF WritesSafe
    <3>5. KeysSafe'
      BY <2>1, <3>1 DEF KeysSafe, Moves
    <3> QED
      BY <3>3, <3>4, <3>5
  <2> QED
    BY <1>7, <2>2, <2>3 DEF RegisterMove
<1>8. CASE MoveFails
  <2>1. /\ job.kind = "transfer" /\ job.at = "ask" /\ job.todo = <<>> /\ ~Staging /\ ~Promoting /\ ~Wiping
        /\ app' = app /\ kills' = kills /\ SlotsKept /\ Finish /\ (NoAlarm \/ Unauthorized)
    BY <1>8, SameKept DEF MoveFails, At, Staging, Promoting, Wiping
  <2> QED
    BY <2>1, AlarmHolds, PlainEnd
<1>9. CASE Promote
  <2>1. /\ Moves /\ job.at = "promote" /\ job.todo = <<>> /\ ~Saving /\ ~Staging /\ ~Promoting
        /\ ~Wiping /\ app' = app /\ kills' = kills /\ SlotsKept /\ disk' = disk /\ held' = held /\ tail' = tail
    BY <1>9, SameKept DEF Promote, Moves, Saving, Staging, Promoting, Wiping
  <2>2. CASE ~PendingThere
    <3>1. Finish
      BY <1>9, <2>2 DEF Promote
    <3> QED
      BY <2>1, <3>1, PlainEnd
  <2>3. CASE PendingThere
    <3>0. PICK slot \in Slots : slot = disk.pending
      BY <1>0
    <3>1. PICK todo \in Programs :
            /\ todo = MoveSlot(disk.pending, "pending", "active")
            /\ Due(todo) = {Write("active", f, slot[f]) : f \in Fields} \cup Deletes("pending")
            /\ Len(todo) = 5 /\ todo[5] = Deletes("pending")
            /\ \A i \in 1 .. 4 : \A w \in todo[i] : w.where = "active"
      BY <1>0, <1>s, <3>0, MoveProgram
    <3>2. job'.kind = job.kind /\ job'.at = "promoted" /\ job'.todo = todo /\ job'.key = job.key
      <4>1. Then("promoted", todo)
        BY <1>9, <2>3, <3>1 DEF Promote
      <4> QED
        BY <1>0, <4>1, ThenTypes DEF Places
    <3>3. /\ ~Saving' /\ ~Staging' /\ Promoting' /\ ~Resealing' /\ ~Wiping' /\ ~Dropping'
      BY <2>1, <3>2 DEF Saving, Staging, Promoting, Moves, Resealing, Wiping, Dropping
    <3>4. /\ \A w \in Deletes("pending") : w.where = "pending" /\ w.to = None
          /\ \A f \in Fields : Write("active", f, slot[f]).where = "active"
                               /\ Write("active", f, slot[f]).field = f
                               /\ Write("active", f, slot[f]).to = slot[f]
      BY DEF Deletes, Write
    <3>5. Copies(slot, "active")'
      <4> SUFFICES ASSUME NEW f \in Core
                   PROVE  /\ \A w \in Due(todo) : w.where = "active" /\ w.field = f => w.to = slot[f]
                          /\ \E w \in Due(todo) : w.where = "active" /\ w.field = f
        BY <3>2 DEF Copies, Lands
      <4>1. f \in Fields
        BY DEF Core, Fields
      <4> QED
        BY <3>1, <3>4, <4>1
    <3>6. Target(slot)'
      <4>1. Complete(disk.pending) /\ disk.pending.blob.key = job.key
        BY <2>1, <2>3 DEF PendingThere, KeysSafe
      <4>2. kills = 0 => disk.pending.pub = disk.pending.blob.key
        BY <2>1, <4>1 DEF MemorySafe, Pure
      <4> QED
        BY <2>1, <3>0, <3>2, <4>1, <4>2 DEF Target
    <3>7. KeptUntilLast(slot)'
      <4>1. \A w \in job'.todo[Len(job'.todo)] : w.where # "active"
        BY <3>1, <3>2, <3>4
      <4>2. \A i \in 1 .. Len(job'.todo) - 1 : \A w \in job'.todo[i] : w.where # "pending"
        <5>1. job'.todo = todo /\ Len(job'.todo) - 1 = 4
          BY <3>1, <3>2
        <5> QED
          BY <3>1, <5>1
      <4> QED
        BY <2>1, <3>0, <4>1, <4>2 DEF KeptUntilLast
    <3>8. Erases(todo, "pending")
      BY <3>1, <3>4 DEF Erases
    <3>9. WritesSafe'
      BY <3>2, <3>3, <3>5, <3>6, <3>7, <3>8 DEF WritesSafe
    <3>10. KeysSafe'
      BY <2>1, <3>2 DEF KeysSafe, Moves
    <3>11. MemorySafe'
      BY <2>1, MemoryGoesOn
    <3> QED
      BY <3>9, <3>10, <3>11
  <2> QED
    BY <2>2, <2>3
<1>10. CASE Promoted
  <2>1. /\ Moves /\ job.at = "promoted" /\ job.todo = <<>> /\ Promoting /\ ~Saving /\ ~Staging
        /\ kills' = kills /\ SlotsKept /\ disk' = disk /\ tail' = tail /\ CompleteOnboarding(job.key)
    BY <1>10, SameKept DEF Promoted, Moves, Saving, Staging, Promoting
  <2>2. PICK slot \in Slots : Target(slot) /\ Copies(slot, "active")
    BY <2>1 DEF WritesSafe
  <2>3. \A f \in Core : disk.active[f] = slot[f]
    BY <1>s, <2>1, <2>2, Landed
  <2>4. /\ Complete(disk.active) /\ disk.active.blob.key = job.key
        /\ kills = 0 => Pure(disk.active)
    BY <2>2, <2>3, SameCore DEF Target, Pure
  <2>5. kills = 0 => Pure(disk.pending)
    BY <2>1 DEF MemorySafe
  <2>6. /\ held'.key # None => held'.key = job.key
        /\ app'.status = "onboarding" => held'.key = None
        /\ held'.staged # None => held'.staged = held.staged
    <3>1. CASE app.status \in Enrolling
      <4>1. held' = [key |-> job.key, staged |-> None] /\ app' = Authed(TRUE)
        BY <2>1, <3>1 DEF CompleteOnboarding
      <4> QED
        BY <4>1, StatusOf
    <3>2. CASE app.status \notin Enrolling
      <4>1. held' = held /\ app' = app /\ held.key = None
        BY <2>1, <3>2 DEF CompleteOnboarding, KeysSafe
      <4> QED
        BY <4>1
    <3> QED
      BY <3>1, <3>2
  <2>7. held'.staged # None /\ Complete(disk.pending) => disk.pending.blob.key = held'.staged
    BY <2>1, <2>6 DEF MemorySafe
  <2>8. CASE Finish
    BY <2>1, <2>4, <2>5, <2>6, <2>7, <2>8, EndSafe
  <2>9. CASE Then("over", ClearTries("pending"))
    <3>1. job'.kind = job.kind /\ job'.at = "over" /\ job'.todo = ClearTries("pending")
      BY <1>0, <1>s, <2>9, WipeProgram, ThenTypes DEF Places
    <3>2. /\ ~Saving' /\ ~Staging' /\ ~Promoting' /\ ~Resealing' /\ ~Wiping' /\ ~Dropping'
      BY <2>1, <3>1 DEF Moves, Saving, Staging, Promoting, Resealing, Wiping, Dropping
    <3>3. WritesSafe'
      BY <1>s, <3>1, <3>2, SparingPrograms DEF WritesSafe
    <3>4. KeysSafe'
      BY <2>1, <3>1 DEF KeysSafe, Moves
    <3>5. MemorySafe'
      BY <2>1, <2>4, <2>5, <2>6, <2>7 DEF MemorySafe
    <3> QED
      BY <3>3, <3>4, <3>5
  <2> QED
    BY <1>10, <2>8, <2>9 DEF Promoted
<1>11. CASE ShowApproval
  <2>1. /\ job.kind = "approve" /\ job.todo = <<>> /\ ~Staging /\ ~Promoting /\ ~Wiping
        /\ app' = app /\ kills' = kills /\ SlotsKept /\ Finish /\ held' = held
    BY <1>11, SameKept DEF ShowApproval, At, Staging, Promoting, Moves, Wiping
  <2> QED
    BY <2>1, PlainEnd
<1>12. CASE ResetDone
  <2>1. /\ job.kind = "reset" /\ ~Saving /\ ~Staging /\ ~Promoting
        /\ kills' = kills /\ SlotsKept /\ Finish /\ held' = [key |-> None, staged |-> None]
    BY <1>12, PhoneEntryKeeps DEF ResetDone, At, Saving, Staging, Promoting, Moves
  <2>2. kills = 0 => Pure(disk.active) /\ Pure(disk.pending)
    BY <2>1 DEF MemorySafe
  <2> QED
    BY <2>1, <2>2, EndSafe
<1>13. CASE KeyWiped
  <2>1. /\ job.kind = "wipeKey" /\ job.todo = <<>> /\ ~Staging /\ ~Promoting
        /\ kills' = kills /\ SlotsKept /\ Finish /\ held'.key = None /\ held'.staged = held.staged
    BY <1>0, <1>13, SameKept DEF KeyWiped, At, Staging, Promoting, Moves, Memory
  <2> QED
    BY <2>1, PlainEnd
<1> QED
  BY <1>1, <1>2, <1>3, <1>4, <1>5, <1>6, <1>7, <1>8, <1>9, <1>10, <1>11, <1>12, <1>13 DEF KeyAnswers

LEMMA StartsSafe == PhoneTypes /\ AccountSafe /\ KeyStarts => AccountSafe'
<1> SUFFICES ASSUME PhoneTypes, WritesSafe, KeysSafe, MemorySafe, KeyStarts
             PROVE  WritesSafe' /\ KeysSafe' /\ MemorySafe'
  BY DEF AccountSafe
<1>0. /\ disk \in Disks /\ disk.active \in Slots /\ disk.pending \in Slots /\ job \in Jobs
      /\ held \in Memory /\ <<>> \in Programs
  BY ShortPrograms DEF PhoneTypes, Disks
<1>s. "active" \in Stores /\ "pending" \in Stores
  BY DEF Stores
<1>e. Due(<<>>) = {} /\ Spares(<<>>, "active") /\ Spares(<<>>, "pending")
  BY <1>s, ShortPrograms, SparingPrograms
<1>i. ASSUME job.kind = "none"
      PROVE  ~Saving /\ ~Staging /\ ~Promoting /\ ~Wiping
  BY <1>i DEF Saving, Staging, Promoting, Moves, Wiping
<1>1. CASE Setup
  <2>1. /\ job.kind = "none" /\ app.status = "onboarding" /\ held.key = None /\ disk' = disk /\ SlotsKept
        /\ held' = held /\ app' = app /\ kills' = kills
    BY <1>1, SameKept DEF Setup, Idle, SetupOffered, MemorySafe
  <2>2. PICK pin \in Pins :
          Start("setup", "register", SaveSlot("active", made + 1, made + 1, pin), made + 1, made + 1)
    BY <1>1 DEF Setup
  <2>3. PICK key \in Own : key = made + 1
    BY <1>1, VaultAssumption DEF Setup, PhoneTypes, Own
  <2>4. PICK seal : seal = [key |-> key, pin |-> pin]
    OBVIOUS
  <2>5. PICK todo \in Programs :
          /\ todo = SaveSlot("active", key, key, pin)
          /\ Due(todo) = {Write("active", "salt", seal), Write("active", "blob", seal),
                          Write("active", "pub", key), Write("active", "tries", None)}
    BY <1>s, <2>3, <2>4, SaveProgram
  <2>6. seal \in Seals /\ seal.key = key
    BY <2>4 DEF Seals
  <2>7. job'.kind = "setup" /\ job'.at = "register" /\ job'.todo = todo /\ job'.key = key
    <3>1. Start("setup", "register", todo, key, key)
      BY <2>2, <2>3, <2>5
    <3> QED
      BY <3>1, JobTypes DEF JobKinds, Keyed, Places
  <2>8. /\ Saving' /\ ~Staging' /\ ~Promoting' /\ ~Moves' /\ ~Resealing' /\ ~Wiping' /\ ~Dropping'
    BY <2>7 DEF Saving, Staging, Promoting, Moves, Resealing, Wiping, Dropping
  <2>9. PICK slot \in Slots : slot = [salt |-> seal, blob |-> seal, pub |-> key, tries |-> None]
    BY <2>6 DEF Slots
  <2>10. Target(slot)'
    BY <2>6, <2>7, <2>9, NoneIsNoKey DEF Target, Complete
  <2>11. Copies(slot, "active")'
    <3> SUFFICES ASSUME NEW f \in Core
                 PROVE  /\ \A w \in Due(todo) : w.where = "active" /\ w.field = f => w.to = slot[f]
                        /\ \E w \in Due(todo) : w.where = "active" /\ w.field = f
      BY <2>7 DEF Copies, Lands
    <3>1. f \in {"salt", "blob", "pub"}
      BY DEF Core
    <3>2. slot["salt"] = seal /\ slot["blob"] = seal /\ slot["pub"] = key
      BY <2>9
    <3>3. \A w \in Due(todo) : /\ w.field = "salt" => w.to = seal
                               /\ w.field = "blob" => w.to = seal
                               /\ w.field = "pub" => w.to = key
      BY <2>5 DEF Write
    <3>4. \A g \in {"salt", "blob", "pub"} : \E w \in Due(todo) : w.where = "active" /\ w.field = g
      <4>1. \A g, v : Write("active", g, v).where = "active" /\ Write("active", g, v).field = g
        BY DEF Write
      <4>2. /\ Write("active", "salt", seal) \in Due(todo)
            /\ Write("active", "blob", seal) \in Due(todo)
            /\ Write("active", "pub", key) \in Due(todo)
        BY <2>5
      <4> QED
        BY <4>1, <4>2
    <3> QED
      BY <3>1, <3>2, <3>3, <3>4
  <2>12. Spares(todo, "pending")
    BY <2>5 DEF Spares, Write
  <2>13. WritesSafe'
    BY <2>7, <2>8, <2>10, <2>11, <2>12 DEF WritesSafe
  <2>14. KeysSafe'
    BY <2>1, <2>7, <2>8 DEF KeysSafe
  <2> QED
    BY <1>i, <2>1, <2>13, <2>14, MemoryGoesOn
<1>2. CASE ChangePin
  <2>1. /\ job.kind = "none" /\ disk' = disk /\ SlotsKept /\ held' = held /\ app' = app /\ kills' = kills
    BY <1>2, SameKept DEF ChangePin, Idle
  <2>2. PICK old \in Pins, new \in Pins :
          /\ Opens(disk.active, old)
          /\ StartWriting("changePin", "over",
                          SaveSlot("active", disk.active.blob.key, disk.active.pub, new))
    BY <1>2 DEF ChangePin
  <2>3. PICK key \in Own, pub \in Own : key = disk.active.blob.key /\ pub = disk.active.pub
    BY <1>0, <2>2, SlotHolds
  <2>4. PICK seal : seal = [key |-> key, pin |-> new]
    OBVIOUS
  <2>5. PICK todo \in Programs :
          /\ todo = SaveSlot("active", key, pub, new)
          /\ Due(todo) = {Write("active", "salt", seal), Write("active", "blob", seal),
                          Write("active", "pub", pub), Write("active", "tries", None)}
    BY <1>s, <2>4, SaveProgram
  <2>6. seal \in Seals /\ seal.key = key
    BY <2>4 DEF Seals
  <2>7. job'.kind = "changePin" /\ job'.todo = todo
    <3>1. StartWriting("changePin", "over", todo)
      BY <2>2, <2>3, <2>5
    <3> QED
      BY <3>1, WritingTypes DEF JobKinds, Places
  <2>8. /\ ~Saving' /\ ~Staging' /\ ~Promoting' /\ ~Moves' /\ Resealing' /\ ~Wiping' /\ ~Dropping'
    BY <2>7 DEF Saving, Staging, Promoting, Moves, Resealing, Wiping, Dropping
  <2>9. Reseals(todo)'
    BY <2>1, <2>3, <2>5, <2>6 DEF Reseals, Write
  <2>10. Complete(disk'.active) /\ Spares(todo, "pending")
    BY <1>0, <2>1, <2>2, <2>5, SlotHolds DEF Spares, Write
  <2>11. WritesSafe'
    <3>1. Reseals(job.todo)'
      BY <2>7, <2>9 DEF Reseals
    <3> QED
      BY <2>7, <2>8, <2>10, <3>1 DEF WritesSafe
  <2>12. KeysSafe'
    BY <2>7, <2>8 DEF KeysSafe
  <2> QED
    BY <1>i, <2>1, <2>11, <2>12, MemoryGoesOn
<1>3. CASE LoadStatus
  <2>1. /\ SlotsKept /\ job' = job /\ kills' = kills /\ app'.status = app.status
        /\ NoAlarm \/ Unauthorized
    BY <1>3, SameKept DEF LoadStatus, PhoneTypes, Apps
  <2> QED
    BY <2>1, AlarmHolds, SafeFrame
<1>4. CASE Request
  <2>1. SlotsKept /\ job' = job /\ kills' = kills /\ app' = app /\ held' = held /\ tail' = tail
    BY <1>4, SameKept DEF Request
  <2> QED
    BY <2>1, SafeFrame
<1>5. CASE Cancel
  <2>1. job.kind = "none" /\ SlotsKept /\ kills' = kills /\ app' = app /\ held' = held /\ tail' = tail
    BY <1>5, SameKept DEF Cancel, Idle
  <2>2. CASE job' = job
    BY <2>1, <2>2, SafeFrame
  <2>3. CASE StartWriting("cancel", "discard", <<>>)
    <3>1. job'.kind = "cancel" /\ job'.todo = <<>>
      BY <1>0, <2>3, WritingTypes DEF JobKinds, Places
    <3>2. /\ ~Saving' /\ ~Staging' /\ ~Promoting' /\ ~Moves' /\ ~Resealing' /\ ~Wiping' /\ Dropping'
      BY <3>1 DEF Saving, Staging, Promoting, Moves, Resealing, Wiping, Dropping
    <3>3. WritesSafe'
      BY <1>e, <3>1, <3>2, SparesErases DEF WritesSafe
    <3>4. KeysSafe'
      BY <3>1, <3>2 DEF KeysSafe
    <3> QED
      BY <1>i, <2>1, <3>3, <3>4, MemoryGoesOn
  <2> QED
    BY <1>5, <2>2, <2>3 DEF Cancel
<1>6. CASE Activate
  <2>1. /\ job.kind = "none" /\ tail.kind = "none" /\ disk' = disk /\ SlotsKept /\ kills' = kills
        /\ app' = app /\ held' = held /\ tail' = tail /\ app.status \in Enrolling
    BY <1>6, SameKept DEF Activate, Idle, Shows, RecoveryOffered
  <2>2. PICK key \in Own, todo \in {<<>>, ClearTries("pending")} :
          /\ Start("activate", "promote", todo, key, None)
          /\ key = held.staged \/ key = disk.pending.blob.key
    <3>1. CASE held.staged # None /\ Start("activate", "promote", <<>>, held.staged, None)
      BY <1>0, <3>1 DEF Memory
    <3>2. ASSUME NEW pin \in Pins, Opens(disk.pending, pin),
                 Start("activate", "promote", ClearTries("pending"), disk.pending.blob.key, None)
          PROVE  disk.pending.blob.key \in Own
      BY <1>0, <3>2, SlotHolds
    <3> QED
      BY <1>6, <3>1, <3>2 DEF Activate
  <2>3. /\ todo \in Programs /\ Spares(todo, "active") /\ Spares(todo, "pending")
    BY <1>0, <1>s, <1>e, WipeProgram, SparingPrograms
  <2>4. job'.kind = "activate" /\ job'.at = "promote" /\ job'.todo = todo /\ job'.key = key
    BY <2>2, <2>3, JobTypes DEF JobKinds, Keyed, Places
  <2>5. /\ ~Saving' /\ ~Staging' /\ ~Promoting' /\ ~Resealing' /\ ~Wiping' /\ ~Dropping'
    BY <2>4 DEF Saving, Staging, Promoting, Resealing, Wiping, Dropping
  <2>6. Complete(disk.pending) => disk.pending.blob.key = key
    BY <1>i, <2>1, <2>2, NoneIsNoKey DEF MemorySafe
  <2>7. WritesSafe'
    BY <2>3, <2>4, <2>5 DEF WritesSafe
  <2>8. KeysSafe'
    BY <2>1, <2>4, <2>6 DEF KeysSafe, Moves
  <2> QED
    BY <1>i, <2>1, <2>7, <2>8, MemoryGoesOn
<1>7. CASE WrongPendingPin
  <2>1. job.kind = "none" /\ SlotsKept /\ kills' = kills /\ app' = app /\ held' = held
    BY <1>7, SameKept DEF WrongPendingPin, Idle
  <2>2. PICK todo \in Programs :
          /\ StartWriting("wrongPending", "over", todo)
          /\ Spares(todo, "active") /\ Erases(todo, "pending")
    <3>0. WrongTry(disk.pending, "pending") \in Programs /\ WipeSlot("pending") \in Programs
      BY <1>0, <1>s, WrongProgram, WipeProgram
    <3>1. CASE LastTry(disk.pending)
      <4>1. WrongTry(disk.pending, "pending") = WipeSlot("pending")
        BY <1>0, <1>s, <3>1, WrongProgram
      <4>2. PICK todo \in Programs : todo = WipeSlot("pending") \o WipeSlot("pending")
        BY <3>0, DueOfJoin
      <4>3. Spares(todo, "active") /\ Erases(todo, "pending")
        BY <1>s, <3>0, <4>2, SparingPrograms
      <4>4. StartWriting("wrongPending", "over", todo)
        BY <1>7, <3>1, <4>1, <4>2 DEF WrongPendingPin
      <4> QED
        BY <4>3, <4>4
    <3>2. CASE ~LastTry(disk.pending)
      <4>1. PICK todo \in Programs : todo = WrongTry(disk.pending, "pending") \o <<>>
        BY <1>0, <3>0, DueOfJoin
      <4>2. \A t \in Stores : Spares(todo, t)
        <5>1. Due(todo) = Due(WrongTry(disk.pending, "pending"))
          BY <1>0, <1>e, <3>0, <4>1, DueOfJoin
        <5> QED
          BY <1>0, <1>s, <3>2, <5>1, WrongProgram DEF Spares
      <4>3. StartWriting("wrongPending", "over", todo)
        BY <1>7, <3>2, <4>1 DEF WrongPendingPin
      <4> QED
        BY <1>s, <4>2, <4>3, SparesErases
    <3> QED
      BY <3>1, <3>2
  <2>3. job'.kind = "wrongPending" /\ job'.todo = todo
    BY <2>2, WritingTypes DEF JobKinds, Places
  <2>4. /\ ~Saving' /\ ~Staging' /\ ~Promoting' /\ ~Moves' /\ ~Resealing' /\ ~Wiping' /\ Dropping'
    BY <2>3 DEF Saving, Staging, Promoting, Moves, Resealing, Wiping, Dropping
  <2>5. WritesSafe'
    BY <2>2, <2>3, <2>4 DEF WritesSafe
  <2>6. KeysSafe'
    BY <2>3, <2>4 DEF KeysSafe
  <2> QED
    BY <1>i, <2>1, <2>5, <2>6, MemoryGoesOn
<1>8. CASE ScanApproval
  <2>1. /\ job.kind = "none" /\ tail.kind = "none" /\ disk' = disk /\ SlotsKept /\ kills' = kills
        /\ app' = app /\ held' = held /\ tail' = tail /\ app.status \in Enrolling
    BY <1>8, SameKept DEF ScanApproval, Idle, MoveOffered, RecoveryOffered
  <2>2. PICK key \in Own, pub \in Own :
          /\ Start("transfer", "ask", <<>>, key, pub)
          /\ key = held.staged \/ key = disk.pending.blob.key
    <3>1. CASE held.staged # None /\ Start("transfer", "ask", <<>>, held.staged, held.staged)
      BY <1>0, <3>1 DEF Memory
    <3>2. ASSUME NEW pin \in Pins, Opens(disk.pending, pin),
                 Start("transfer", "ask", <<>>, disk.pending.blob.key, disk.pending.pub)
          PROVE  disk.pending.blob.key \in Own /\ disk.pending.pub \in Own
      BY <1>0, <3>2, SlotHolds
    <3> QED
      BY <1>8, <3>1, <3>2 DEF ScanApproval
  <2>3. job'.kind = "transfer" /\ job'.at = "ask" /\ job'.todo = <<>> /\ job'.key = key
    BY <1>0, <2>2, JobTypes DEF JobKinds, Keyed, Places
  <2>4. /\ ~Saving' /\ ~Staging' /\ ~Promoting' /\ ~Resealing' /\ ~Wiping' /\ ~Dropping'
    BY <2>3 DEF Saving, Staging, Promoting, Resealing, Wiping, Dropping
  <2>5. Complete(disk.pending) => disk.pending.blob.key = key
    BY <1>i, <2>1, <2>2, NoneIsNoKey DEF MemorySafe
  <2>6. WritesSafe'
    BY <1>e, <2>3, <2>4 DEF WritesSafe
  <2>7. KeysSafe'
    BY <2>1, <2>3, <2>5 DEF KeysSafe, Moves
  <2> QED
    BY <1>i, <2>1, <2>6, <2>7, MemoryGoesOn
<1>9. CASE ApproveNewPhone
  <2>1. job.kind = "none" /\ SlotsKept /\ kills' = kills /\ app' = app /\ held' = held
    BY <1>9, SameKept DEF ApproveNewPhone, Idle
  <2>2. PICK pin \in Pins : /\ Opens(disk.active, pin)
                            /\ Start("approve", "sign", ClearTries("active"), disk.active.blob.key, None)
    BY <1>9 DEF ApproveNewPhone
  <2>3. disk.active.blob.key \in Own
    BY <1>0, <2>2, SlotHolds
  <2>4. job'.kind = "approve" /\ job'.todo = ClearTries("active")
    BY <1>s, <2>2, <2>3, WipeProgram, JobTypes DEF JobKinds, Keyed, Places
  <2>5. Spares(ClearTries("active"), "active") /\ Spares(ClearTries("active"), "pending")
    BY <1>s, SparingPrograms
  <2> QED
    BY <1>i, <2>1, <2>4, <2>5, PlainJob, MemoryGoesOn
<1>10. CASE ResetApp
  <2>1. job.kind = "none" /\ SlotsKept /\ kills' = kills /\ app' = app /\ held' = held
    BY <1>10, SameKept DEF ResetApp, Idle
  <2>2. PICK batch \in SUBSET Writes :
          batch = Deletes("active") \cup Deletes("pending") \cup {Write("phone", "token", None)}
    <3>1. Deletes("active") \in SUBSET Writes /\ Deletes("pending") \in SUBSET Writes
      BY <1>s, WipeProgram
    <3>2. {Write("phone", "token", None)} \in SUBSET Writes
      BY DEF Write, Writes, PhoneWrites
    <3> QED
      BY <3>1, <3>2
  <2>3. PICK todo \in Programs : todo = <<batch>> /\ Due(todo) = batch
    BY ShortPrograms
  <2>4. job'.kind = "reset" /\ job'.at = "reset" /\ job'.todo = todo
    BY <1>10, <2>2, <2>3, WritingTypes DEF ResetApp, JobKinds, Places
  <2>5. \A w \in batch : w.where = "phone" \/ w.to = None
    BY <2>2 DEF Deletes, Write
  <2>6. /\ ~Saving' /\ ~Staging' /\ ~Promoting' /\ ~Moves' /\ ~Resealing' /\ Wiping' /\ ~Dropping'
    BY <2>4 DEF Saving, Staging, Promoting, Moves, Resealing, Wiping, Dropping
  <2>7. WritesSafe'
    BY <2>3, <2>4, <2>5, <2>6 DEF WritesSafe, Erases
  <2>8. KeysSafe'
    BY <2>4, <2>6 DEF KeysSafe
  <2> QED
    BY <1>i, <2>1, <2>7, <2>8, MemoryGoesOn
<1>11. CASE WipeKey
  <2>1. job.kind = "none" /\ SlotsKept /\ kills' = kills /\ app' = app /\ held' = held
    BY <1>11, SameKept DEF WipeKey, Idle
  <2>2. job'.kind = "wipeKey" /\ job'.at = "wiped" /\ job'.todo = WipeSlot("active")
    BY <1>11, <1>s, WipeProgram, WritingTypes DEF WipeKey, JobKinds, Places
  <2>3. /\ ~Saving' /\ ~Staging' /\ ~Promoting' /\ ~Moves' /\ ~Resealing' /\ Wiping' /\ ~Dropping'
    BY <2>2 DEF Saving, Staging, Promoting, Moves, Resealing, Wiping, Dropping
  <2>4. WritesSafe'
    BY <1>s, <2>2, <2>3, SparingPrograms DEF WritesSafe
  <2>5. KeysSafe'
    BY <2>2, <2>3 DEF KeysSafe
  <2> QED
    BY <1>i, <2>1, <2>4, <2>5, MemoryGoesOn
<1> QED
  BY <1>1, <1>2, <1>3, <1>4, <1>5, <1>6, <1>7, <1>8, <1>9, <1>10, <1>11 DEF KeyStarts

-----------------------------------------------------------------------------
(* The invariant holds: the account, kills, and every step.                  *)

\* An account that is there was there before; a removed one stays removed.
LEMMA AccountStays ==
  ASSUME PhoneTypes, WorldSafe, [PhoneNext]_phoneVars
  PROVE  /\ srv'.exists => srv.exists
         /\ ~srv'.exists => srv'.active = None /\ srv'.req = None
<1>0. srv \in Rows
  BY DEF PhoneTypes
<1>1. CASE srv' = srv
  BY <1>1 DEF WorldSafe
<1>2. CASE Register \/ RegisterMove \/ OtherPhone \/ Request \/ Cancel
  <2>1. srv.exists
    BY <1>2 DEF Register, RegisterMove, OtherPhone, Request, Cancel, Admitted
  <2>2. srv'.exists = srv.exists
    BY <1>0, <1>2 DEF Register, RegisterMove, OtherPhone, Request, Cancel, Activated, Requested, Rows
  <2> QED
    BY <2>1, <2>2
<1>3. CASE SupportApproves \/ SupportRejects
  <2>1. srv.exists
    BY <1>3 DEF SupportApproves, SupportRejects, RequestOpen, WorldSafe
  <2>2. srv'.exists = srv.exists
    BY <1>0, <1>3 DEF SupportApproves, SupportRejects, Activated, Rows
  <2> QED
    BY <2>1, <2>2
<1>4. CASE AccountRemoved
  BY <1>0, <1>4 DEF AccountRemoved, Rows
<1>5. \/ srv' = srv \/ Register \/ RegisterMove \/ OtherPhone \/ Request \/ Cancel
      \/ SupportApproves \/ SupportRejects \/ AccountRemoved
  BY DEF PhoneNext, phoneVars, Continue, StoreJob, StoreTail, BootStep, BootRead, BootMeOk, BootMeFails,
     BootDropped, BootMeMissing, BootGone, TailStep, RefusedRead, RefusedSettle, MissingSettle, SignInMe,
     SignIn, Unlock, SignOut, Over, KeyAnswers, RegisterFails, Onboarded, Stage, Discard, Reload, MoveFails,
     Promote, Promoted, ShowApproval, ResetDone, KeyWiped, PollStep, Poll, PollAnswered, PollFails,
     PollMissing, Kill, KeyStarts, Setup, ChangePin, LoadStatus, Activate, WrongPendingPin, ScanApproval,
     ApproveNewPhone, ResetApp, WipeKey, Others, OldPhoneSigns, EnterCode, RightPin, WrongPin, Lock,
     FreshCheck, Age, LockoutEnds
<1> QED
  BY <1>1, <1>2, <1>3, <1>4, <1>5

\* What is left of a 401 or a 404 after a step.
LEMMA TailsStep ==
  ASSUME PhoneTypes, WorldSafe, [PhoneNext]_phoneVars
  PROVE  \/ tail' = tail
         \/ tail'.kind # "missing" /\ \A w \in Due(tail'.todo) : w.where = "phone"
         \/ StoreTail \/ PollMissing
<1>1. CASE tail' = NoTail
  BY <1>1, ShortPrograms DEF NoTail
<1>2. CASE Unauthorized
  BY <1>2, ShortPrograms DEF Unauthorized, NoTail
<1>3. CASE RefusedRead
  <2>1. CASE PendingThere
    BY <1>1, <1>3, <2>1 DEF RefusedRead
  <2>2. CASE ~PendingThere
    <3>1. tail'.kind = "refused" /\ tail'.todo = SetToken(None)
      BY <1>3, <2>2 DEF RefusedRead, PhoneTypes, Tails
    <3> QED
      BY <3>1, TokenProgram DEF Write
  <2> QED
    BY <2>1, <2>2
<1>4. tail' = tail \/ tail' = NoTail \/ Unauthorized \/ RefusedRead \/ StoreTail \/ PollMissing
  BY DEF PhoneNext, phoneVars, Continue, StoreJob, BootStep, BootRead, BootMeOk, BootMeFails,
     BootDropped, BootMeMissing, BootGone, TailStep, RefusedSettle, MissingSettle, SignInMe,
     SignIn, Unlock, SignOut, Over, KeyAnswers, Register, RegisterFails, Onboarded, Stage, Discard, Reload,
     RegisterMove, MoveFails,
     Promote, Promoted, ShowApproval, ResetDone, KeyWiped, PollStep, Poll, PollAnswered, PollFails,
     Kill, KeyStarts, Setup, ChangePin, LoadStatus, Request, Cancel, Activate, WrongPendingPin, ScanApproval,
     ApproveNewPhone, ResetApp, WipeKey, Others, SupportApproves, SupportRejects, OtherPhone, OldPhoneSigns,
     EnterCode, RightPin, WrongPin, Lock, FreshCheck, Age, LockoutEnds, AccountRemoved, NoAlarm
<1> QED
  BY <1>1, <1>2, <1>3, <1>4

LEMMA WorldStep ==
  ASSUME PhoneTypes, WorldSafe, [PhoneNext]_phoneVars
  PROVE  WorldSafe'
<1>0. tail \in Tails
  BY DEF PhoneTypes
<1>1. CASE tail' = tail
  BY <1>1, AccountStays DEF WorldSafe
<1>2. CASE tail'.kind # "missing" /\ \A w \in Due(tail'.todo) : w.where = "phone"
  BY <1>2, AccountStays DEF WorldSafe
<1>3. CASE StoreTail
  <2>1. tail'.kind = tail.kind /\ tail'.todo = Tail(tail.todo) /\ tail.todo # <<>> /\ tail.todo \in Programs
    BY <1>0, <1>3 DEF StoreTail, Tails
  <2>2. Due(tail'.todo) \subseteq Due(tail.todo)
    BY <2>1, NextWrites
  <2> QED
    BY <2>1, <2>2, AccountStays DEF WorldSafe
<1>4. CASE PollMissing
  <2>1. ~srv'.exists /\ tail'.kind = "missing"
    BY <1>4 DEF PollMissing
  <2> QED
    BY <2>1, AccountStays DEF WorldSafe
<1> QED
  BY <1>1, <1>2, <1>3, <1>4, TailsStep

\* A killed app forgets the key; what it was writing may be cut short.
LEMMA KillSafe == PhoneTypes /\ Kill => AccountSafe'
<1> SUFFICES ASSUME PhoneTypes, Kill
             PROVE  WritesSafe' /\ KeysSafe' /\ MemorySafe'
  BY DEF AccountSafe
<1>1. /\ job'.kind = "boot" /\ job'.todo = <<>> /\ held' = [key |-> None, staged |-> None]
      /\ kills' # 0
  BY DEF Kill, Boot, NoJob, PhoneTypes
<1>2. WritesSafe' /\ KeysSafe'
  <2>1. Spares(<<>>, "active") /\ Spares(<<>>, "pending")
    BY SparingPrograms DEF Stores
  <2> QED
    BY <1>1, <2>1, PlainJob
<1>3. MemorySafe'
  BY <1>1 DEF MemorySafe
<1> QED
  BY <1>2, <1>3

LEMMA StoreTailSafe == PhoneTypes /\ WorldSafe /\ AccountSafe /\ srv.exists /\ StoreTail => AccountSafe'
<1> SUFFICES ASSUME PhoneTypes, WorldSafe, WritesSafe, KeysSafe, MemorySafe, srv.exists, StoreTail
             PROVE  WritesSafe' /\ KeysSafe' /\ MemorySafe'
  BY DEF AccountSafe
<1>1. tail.todo \in Programs /\ tail.todo # <<>> /\ \A w \in Due(tail.todo) : w.where = "phone"
  BY DEF WorldSafe, StoreTail, PhoneTypes, Tails
<1>2. Head(tail.todo) \in SUBSET Writes /\ \A w \in Head(tail.todo) : w.where = "phone"
  BY <1>1, NextWrites
<1>3. SlotsKept
  BY <1>2, PhoneWriteKeeps DEF StoreTail, SlotsKept, Stores
<1>4. job' = job /\ held' = held /\ app' = app /\ kills' = kills /\ tail'.kind = tail.kind
  BY DEF StoreTail, PhoneTypes, Tails
<1> QED
  BY <1>3, <1>4, SafeFrame

LEMMA SafeStart == PhoneInit => PhoneSafe
<1> SUFFICES ASSUME PhoneInit
             PROVE  WorldSafe /\ WritesSafe /\ KeysSafe /\ MemorySafe
  BY DEF PhoneSafe
<1>1. /\ job.kind = "boot" /\ job.todo = <<>> /\ held.key = None /\ held.staged = None
      /\ disk.active = Empty /\ disk.pending = Empty /\ app.status = "loading" /\ tail = NoTail
      /\ srv.exists
  BY DEF PhoneInit, Boot, NoJob
<1>2. /\ ~Saving /\ ~Staging /\ ~Promoting /\ ~Moves /\ ~Resealing /\ ~Wiping /\ ~Dropping
  BY <1>1 DEF Saving, Staging, Promoting, Moves, Resealing, Wiping, Dropping
<1>3. WorldSafe
  BY <1>1, ShortPrograms DEF WorldSafe, NoTail
<1>4. Spares(<<>>, "active") /\ Spares(<<>>, "pending")
  BY SparingPrograms DEF Stores
<1>5. WritesSafe
  BY <1>1, <1>2, <1>4 DEF WritesSafe
<1>6. KeysSafe
  BY <1>1, <1>2 DEF KeysSafe
<1>7. ~Complete(disk.active) /\ ~Complete(disk.pending)
  BY <1>1 DEF Complete, Empty
<1>8. MemorySafe
  BY <1>1, <1>7 DEF MemorySafe, Pure
<1> QED
  BY <1>3, <1>5, <1>6, <1>8

LEMMA SafeStep == PhoneTypes /\ PhoneSafe /\ [PhoneNext]_phoneVars => PhoneSafe'
<1> SUFFICES ASSUME PhoneTypes, PhoneSafe, [PhoneNext]_phoneVars, srv'.exists
             PROVE  AccountSafe'
  BY WorldStep DEF PhoneSafe, AccountSafe
<1>0. srv.exists /\ WorldSafe /\ AccountSafe
  BY AccountStays DEF PhoneSafe, AccountSafe
<1>1. CASE UNCHANGED phoneVars
  <2>1. SlotsKept
    BY <1>1, SameKept DEF phoneVars
  <2> QED
    BY <1>0, <1>1, <2>1, SafeFrame DEF phoneVars, AccountSafe
<1>2. CASE StoreJob
  BY <1>0, <1>2, StoreWritesSafe, StoreMemorySafe DEF AccountSafe
<1>3. CASE StoreTail
  BY <1>0, <1>3, StoreTailSafe
<1>4. CASE Kill
  BY <1>4, KillSafe
<1>5. CASE BootStep
  BY <1>0, <1>5, BootSafe
<1>6. CASE TailStep
  BY <1>0, <1>6, TailSafe
<1>7. CASE PollStep
  BY <1>0, <1>7, PollSafe
<1>8. CASE SessionStep
  BY <1>0, <1>8, SessionSafe
<1>9. CASE KeyAnswers
  BY <1>0, <1>9, AnswersSafe
<1>10. CASE KeyStarts
  BY <1>0, <1>10, StartsSafe
<1>11. CASE Others
  BY <1>0, <1>11, OthersSafe
<1> QED
  BY <1>1, <1>2, <1>3, <1>4, <1>5, <1>6, <1>7, <1>8, <1>9, <1>10, <1>11 DEF PhoneNext, Continue, SessionStep

PhoneInv == PhoneTypes /\ PhoneSafe

LEMMA InvHolds == PhoneSpec => []PhoneInv
<1>1. PhoneInit => PhoneInv
  BY TypesStart, SafeStart DEF PhoneInv
<1>2. PhoneInv /\ [PhoneNext]_phoneVars => PhoneInv'
  BY TypesStep, SafeStep DEF PhoneInv
<1> QED
  BY <1>1, <1>2, PTL DEF PhoneSpec

LEMMA SafeImpliesStored == PhoneInv => HeldIsStored
<1> SUFFICES ASSUME PhoneInv, Idle, srv.exists, held.key # None
             PROVE  /\ Complete(disk.active) /\ disk.active.blob.key = held.key
                    /\ kills = 0 => disk.active.pub = held.key
  BY DEF HeldIsStored
<1>1. MemorySafe /\ job.kind = "none"
  BY DEF PhoneInv, PhoneSafe, Idle
<1>2. ~Saving /\ ~Promoting /\ ~Wiping
  BY <1>1 DEF Saving, Promoting, Moves, Wiping
<1>3. Complete(disk.active) /\ disk.active.blob.key = held.key
  BY <1>1, <1>2 DEF MemorySafe
<1>4. kills = 0 => Pure(disk.active)
  BY <1>1, <1>2 DEF MemorySafe
<1> QED
  BY <1>3, <1>4 DEF Pure

\* The key in memory is the one sealed in the active slot: the handlers that
\* write or erase that slot either write the same key or end by forgetting it.
THEOREM HeldKeyIsStored == PhoneSpec => []HeldIsStored
BY InvHolds, SafeImpliesStored, PTL

-----------------------------------------------------------------------------
(* The key stays openable.                                                   *)

\* Only awaited writes and a kill that cuts them short change what makes a key openable.
LEMMA SlotSteps ==
  ASSUME PhoneTypes, [PhoneNext]_phoneVars
  PROVE  SlotsKept \/ StoreJob \/ StoreTail \/ Kill
<1>0. disk \in Disks
  BY DEF PhoneTypes
<1>1. CASE BootMeOk \/ PollAnswered \/ SignIn \/ Age \/ ResetDone
  BY <1>1, PhoneEntryKeeps DEF BootMeOk, PollAnswered, SignIn, Age, ResetDone, Tokens
<1>2. CASE LockoutEnds
  BY <1>0, <1>2 DEF LockoutEnds, SlotsKept, Stores, Core, Disks, Slots
<1>3. \/ disk' = disk \/ BootMeOk \/ PollAnswered \/ SignIn \/ Age \/ ResetDone \/ LockoutEnds
      \/ StoreJob \/ StoreTail \/ Kill
  BY DEF PhoneNext, phoneVars, Continue, BootStep, BootRead, BootMeFails,
     BootDropped, BootMeMissing, BootGone, TailStep, RefusedRead, RefusedSettle, MissingSettle, SignInMe,
     Unlock, SignOut, Over, KeyAnswers, Register, RegisterFails, Onboarded, Stage, Discard, Reload,
     RegisterMove, MoveFails, Promote, Promoted, ShowApproval, KeyWiped, PollStep, Poll, PollFails,
     PollMissing, KeyStarts, Setup, ChangePin, LoadStatus, Request, Cancel, Activate, WrongPendingPin,
     ScanApproval, ApproveNewPhone, ResetApp, WipeKey, Others, SupportApproves, SupportRejects, OtherPhone,
     OldPhoneSigns, EnterCode, RightPin, WrongPin, Lock, FreshCheck, AccountRemoved
<1> QED
  BY <1>1, <1>2, <1>3, SameKept

\* Any part of a batch leaves one openable copy of the account's key.
LEMMA BatchKeepsKey ==
  ASSUME PhoneTypes, WritesSafe, OnThisPhone, ~Replaced,
         Preserves,
         NEW ws, ws = {} \/ (job.todo # <<>> /\ ws \subseteq Head(job.todo))
  PROVE  \E s \in Stores : Holds(Stored(disk, ws)[s], srv.active)
<1>0. disk \in Disks /\ job.todo \in Programs
  BY DEF PhoneTypes, Jobs
<1>1. PICK s \in Stores : Holds(disk[s], srv.active)
  BY DEF OnThisPhone, Stores
<1>2. ASSUME \A f \in Core : Stored(disk, ws)[s][f] = disk[s][f]
      PROVE  Holds(Stored(disk, ws)[s], srv.active)
  <2>1. \A key : Holds(Stored(disk, ws)[s], key) = Holds(disk[s], key)
    BY <1>2, SameCore
  <2> QED
    BY <1>1, <2>1
<1>3. CASE ws = {}
  <2>1. {} \in SUBSET Writes /\ \A w \in {} : w.where = s => w.field = "tries"
    OBVIOUS
  <2>2. \A f \in Core : Stored(disk, ws)[s][f] = disk[s][f]
    BY <1>0, <1>3, <2>1, SparedSlot
  <2> QED
    BY <1>2, <2>2
<1>4. CASE job.todo # <<>> /\ ws \subseteq Head(job.todo) /\ ~Promoting
  <2>1. ~(Saving \/ Staging \/ Promoting \/ Resealing \/ Wiping \/ Dropping)
    BY <1>4 DEF Preserves, Saving, Staging, Resealing, Wiping, Dropping
  <2>2. Spares(job.todo, s)
    BY <2>1 DEF WritesSafe, Stores
  <2>3. \A f \in Core : Stored(disk, ws)[s][f] = disk[s][f]
    BY <1>4, <2>2, BatchSlots
  <2> QED
    BY <1>2, <2>3
<1>5. CASE job.todo # <<>> /\ ws \subseteq Head(job.todo) /\ Promoting
  <2>1. PICK slot \in Slots : Target(slot) /\ Copies(slot, "active") /\ KeptUntilLast(slot)
    BY <1>5 DEF WritesSafe
  <2>2. \A f \in Core : disk.pending[f] = slot[f]
    BY <2>1 DEF KeptUntilLast
  <2>3. Holds(disk.pending, srv.active)
    <3>1. Complete(disk.pending)
      BY <2>1, <2>2, SameCore DEF Target
    <3> QED
      BY <1>5, <3>1 DEF Replaced, PendingThere, Promoting
  <2>4. /\ Head(job.todo) = job.todo[1] /\ Head(job.todo) \in SUBSET Writes
        /\ Len(job.todo) \in Nat \ {0} /\ Len(Tail(job.todo)) = Len(job.todo) - 1
        /\ Tail(job.todo) \in Programs /\ Due(job.todo) = Head(job.todo) \cup Due(Tail(job.todo))
    BY <1>0, <1>5, NextWrites
  <2>5. PICK n \in Nat \ {0} : n = Len(job.todo)
    BY <2>4
  <2>6. CASE n = 1
    <3>1. Tail(job.todo) = <<>>
      <4>1. Len(Tail(job.todo)) = 0
        BY <2>4, <2>5, <2>6
      <4>2. Tail(job.todo) # <<>> => Len(Tail(job.todo)) \in Nat \ {0}
        BY <2>4, NextWrites
      <4> QED
        BY <4>1, <4>2
    <3>2. \A w \in Head(job.todo) : w.where # "active"
      BY <2>1, <2>4, <2>5, <2>6 DEF KeptUntilLast
    <3>3. \A w \in Due(job.todo) : w.where # "active"
      BY <2>4, <3>1, <3>2, ShortPrograms
    <3>4. \A f \in Core : disk.active[f] = slot[f]
      BY <2>1, <3>3 DEF Copies, Lands
    <3>5. \A f \in Core : disk.active[f] = disk.pending[f]
      BY <2>2, <3>4
    <3>6. Holds(disk.active, srv.active)
      BY <2>3, <3>5, SameCore
    <3>7. Stored(disk, ws)["active"] = disk["active"]
      BY <1>0, <1>5, <2>4, <3>2, StoredKeeps
    <3> QED
      BY <3>6, <3>7 DEF Stores
  <2>7. CASE n # 1
    <3>1. 1 \in 1 .. n - 1
      BY <2>7
    <3>2. \A w \in Head(job.todo) : w.where # "pending"
      BY <2>1, <2>4, <2>5, <3>1 DEF KeptUntilLast
    <3>3. Stored(disk, ws)["pending"] = disk["pending"]
      BY <1>0, <1>5, <2>4, <3>2, StoredKeeps
    <3> QED
      BY <2>3, <3>3 DEF Stores
  <2> QED
    BY <2>6, <2>7
<1> QED
  BY <1>3, <1>4, <1>5

LEMMA KeyStep ==
  ASSUME PhoneInv, [PhoneNext]_phoneVars, OnThisPhone, ~Replaced,
         Preserves
  PROVE  \E s \in {"active", "pending"} : Holds(disk'[s], srv.active)
<1>0. PhoneTypes /\ WorldSafe /\ srv.exists /\ WritesSafe /\ disk \in Disks
  BY DEF PhoneInv, PhoneSafe, WorldSafe, OnThisPhone, PhoneTypes
<1>t. /\ tail.todo \in Programs /\ job.todo \in Programs
      /\ \A w \in Due(tail.todo) : w.where = "phone"
  BY <1>0 DEF PhoneTypes, Tails, Jobs, WorldSafe
<1>1. CASE SlotsKept
  <2>1. PICK s \in Stores : Holds(disk[s], srv.active)
    BY DEF OnThisPhone, Stores
  <2>2. \A f \in Core : disk'[s][f] = disk[s][f]
    BY <1>1 DEF SlotsKept
  <2>3. Holds(disk'[s], srv.active)
    BY <2>1, <2>2, SameCore
  <2> QED
    BY <2>3 DEF Stores
<1>2. CASE StoreJob
  BY <1>0, <1>2, BatchKeepsKey DEF StoreJob, Stores
<1>3. CASE StoreTail
  <2>1. Head(tail.todo) \in SUBSET Writes /\ \A w \in Head(tail.todo) : w.where = "phone"
    BY <1>3, <1>t, NextWrites DEF StoreTail
  <2>2. SlotsKept
    BY <1>0, <1>3, <2>1, PhoneWriteKeeps DEF StoreTail, SlotsKept, Stores
  <2> QED
    BY <1>1, <2>2
<1>4. CASE Kill
  <2>1. PICK done \in Cuts(job.todo), late \in Cuts(tail.todo) : disk' = Stored(Stored(disk, done), late)
    BY <1>4 DEF Kill
  <2>2. /\ done = {} \/ (job.todo # <<>> /\ done \subseteq Head(job.todo))
        /\ done \in SUBSET Writes /\ late \in SUBSET Writes /\ late \subseteq Due(tail.todo)
    BY <1>t, CutsWithin, CutsTypes
  <2>3. PICK s \in Stores : Holds(Stored(disk, done)[s], srv.active)
    BY <1>0, <2>2, BatchKeepsKey
  <2>4. Stored(disk, done) \in Disks
    BY <1>0, <2>2, StoredTypes
  <2>5. Stored(Stored(disk, done), late)[s] = Stored(disk, done)[s]
    BY <1>t, <2>2, <2>4, StoredKeeps DEF Stores
  <2> QED
    BY <2>1, <2>3, <2>5 DEF Stores
<1> QED
  BY <1>0, <1>1, <1>2, <1>3, <1>4, SlotSteps

\* The key the account trusts stays openable over every step of a handler that
\* neither makes, reseals nor deletes one, a promotion killed halfway included.
THEOREM KeyIsKept == PhoneSpec => KeyNeverLost
<1>1. PhoneInv /\ [PhoneNext]_phoneVars =>
        [OnThisPhone /\ ~Replaced /\ Preserves
           => \E s \in {"active", "pending"} : Holds(disk'[s], srv.active)]_phoneVars
  BY KeyStep
<1> QED
  BY <1>1, InvHolds, PTL DEF PhoneSpec, KeyNeverLost
=============================================================================
