----------------------------- MODULE MerchantDesk -----------------------------
(***************************************************************************)
(* The payout accounts of merchants: the admins' merchants page with its   *)
(* form, and POST and PATCH /admin/merchants, which ask the gateway whose  *)
(* account it is.                                                          *)
(*                                                                         *)
(* Of a merchant only the account is kept that cashouts are paid to: the   *)
(* other fields of the form are kept apart from it by the page and by the  *)
(* server, and the status is in Access.                                    *)
(***************************************************************************)
EXTENDS Integers, FiniteSets

CONSTANTS
  Admins,       \* admins, each with the page open
  Profiles,     \* merchants, and e-mails a merchant can be created for
  Banks, Numbers, BankNames, People, Blank,
  ListName,     \* the gateway's name of a bank in the list of banks ...
  GatewayName,  \* ... and when it resolves an account
  Holder,       \* whose account a bank and a number are, or Blank
  FirstRows,    \* what the rows may be first: as merchants typed them, or NoRow
  MaxForms, MaxChanges  \* bounds: forms opened and fields changed, by all admins

VARIABLES
  rows,   \* MerchantProfile
  seen,   \* the list each admin's page has loaded
  form,   \* the form each admin has open, or Closed
  banks,  \* the banks each form has loaded
  asked,  \* handleResolve in flight
  saving, \* isSaving
  calls,  \* how far the server is with the save of each admin
  inputs  \* forms opened and fields changed so far, for the bounds

deskVars == <<rows, seen, form, banks, asked, saving, calls, inputs>>

NoRow   == [at |-> "none"]
Closed  == [mode |-> "closed"]
Nothing == [at |-> "nothing"]

Payout ==
  [code : Banks \cup {Blank}, bank : BankNames \cup {Blank},
   number : Numbers \cup {Blank}, name : People \cup {Blank}]
Row == Payout \cup {NoRow}
Form == [mode : {"create", "edit"}, of : Profiles, before : Row,
         values : Payout, resolution : Payout, loading : BOOLEAN]

\* What a request changes: Blank is a field it leaves out, as no field is cleared.
\* (And, for PayoutAsShown, the account in the form and the row in the list as the
\* admin pressed Save.)
Change == Payout
Call   == [at : {"sent", "read", "saved", "refused"}, mode : {"create", "edit"},
           of : Profiles, change : Change, row : Row, shown : Payout, listed : Row]
Asked  == [at : {"sent"}, code : Banks, number : Numbers]

ASSUME MerchantDeskAssumption ==
  /\ ListName \in [Banks -> BankNames] /\ GatewayName \in [Banks -> BankNames]
  /\ Holder \in [Banks \X Numbers -> People \cup {Blank}]
  /\ FirstRows \subseteq [Profiles -> Row]
  /\ MaxForms \in Nat /\ MaxChanges \in Nat

NoPayout == [code |-> Blank, bank |-> Blank, number |-> Blank, name |-> Blank]

MerchantDeskInit ==
  /\ rows \in FirstRows
  /\ seen = [a \in Admins |-> rows]
  /\ form = [a \in Admins |-> Closed]
  /\ banks = [a \in Admins |-> {}]
  /\ asked = [a \in Admins |-> Nothing]
  /\ saving = [a \in Admins |-> FALSE]
  /\ calls = [a \in Admins |-> Nothing]
  /\ inputs = [forms |-> 0, changes |-> 0]

-----------------------------------------------------------------------------
(***************************************************************************)
(* The gateway                                                             *)
(***************************************************************************)
Known(code, number) == code # Blank /\ number # Blank /\ Holder[code, number] # Blank

Resolved(code, number) ==
  [code |-> code, bank |-> GatewayName[code],
   number |-> number, name |-> Holder[code, number]]

Accounts == {Resolved(x[1], x[2]) : x \in {y \in Banks \X Numbers : Known(y[1], y[2])}}

-----------------------------------------------------------------------------
(***************************************************************************)
(* The form: MerchantFormModal                                             *)
(***************************************************************************)
IsOpen(a) == form[a] # Closed
Busy(a)   == saving[a]
Opened    == inputs.forms < MaxForms /\ inputs' = [inputs EXCEPT !.forms = @ + 1]
Changed   == inputs.changes < MaxChanges /\ inputs' = [inputs EXCEPT !.changes = @ + 1]

\* The bank in the select that has this code: the list, and the merchant's own.
Option(f, a, code) ==
  IF code \in banks[a] THEN ListName[code]
  ELSE IF f.before # NoRow /\ code # Blank /\ code = f.before.code
       THEN f.before.bank ELSE Blank

\* The two effects that run after every change of the fields.
NameBank(f, a) ==
  LET name == Option(f, a, f.values.code)
  IN  IF name = Blank THEN f ELSE [f EXCEPT !.values.bank = name]

ForgetResolution(f) ==
  IF f.resolution = NoPayout
       \/ (f.values.code = f.resolution.code /\ f.values.number = f.resolution.number)
  THEN f ELSE [f EXCEPT !.resolution = NoPayout, !.values.name = Blank]

Shown(f, a) == ForgetResolution(NameBank(f, a))

\* Reads what the row has as resolved when no field is missing.
InitialResolution(p) ==
  IF Blank \in {p.code, p.bank, p.number, p.name} THEN NoPayout ELSE p

OpenForm(a, m) ==
  /\ ~IsOpen(a) /\ Opened
  /\ LET p == IF seen[a][m] = NoRow THEN NoPayout ELSE seen[a][m]
         f == [mode |-> IF seen[a][m] = NoRow THEN "create" ELSE "edit", of |-> m,
               before |-> seen[a][m], values |-> p,
               resolution |-> InitialResolution(p), loading |-> TRUE]
     IN form' = [form EXCEPT ![a] = Shown(f, a)]
  /\ UNCHANGED <<rows, seen, banks, asked, saving, calls>>

CloseForm(a) ==
  /\ IsOpen(a) /\ ~Busy(a)
  /\ form' = [form EXCEPT ![a] = Closed]
  /\ UNCHANGED <<rows, seen, banks, asked, saving, calls, inputs>>

LoadBanks(a) ==
  /\ IsOpen(a) /\ form[a].loading
  /\ banks' = [banks EXCEPT ![a] = Banks]
  /\ form' = [form EXCEPT ![a] = ForgetResolution(
       LET f == [@ EXCEPT !.loading = FALSE]
       IN  IF f.values.code = Blank THEN f
           ELSE [f EXCEPT !.values.bank = ListName[f.values.code]])]
  /\ UNCHANGED <<rows, seen, asked, saving, calls, inputs>>

LoadBanksFails(a) ==
  /\ IsOpen(a) /\ form[a].loading
  /\ form' = [form EXCEPT ![a].loading = FALSE]
  /\ UNCHANGED <<rows, seen, banks, asked, saving, calls, inputs>>

SelectBank(a, b) ==
  /\ IsOpen(a) /\ ~Busy(a) /\ Changed /\ ~form[a].loading
  /\ Option(form[a], a, b) # Blank /\ b # form[a].values.code
  /\ form' = [form EXCEPT ![a] = Shown([@ EXCEPT !.values.code = b], a)]
  /\ UNCHANGED <<rows, seen, banks, asked, saving, calls>>

TypeNumber(a, n) ==
  /\ IsOpen(a) /\ ~Busy(a) /\ Changed /\ n # form[a].values.number
  /\ form' = [form EXCEPT ![a] = Shown([@ EXCEPT !.values.number = n], a)]
  /\ UNCHANGED <<rows, seen, banks, asked, saving, calls>>

\* The name of the account's holder can be typed too, but not into a form that can be
\* saved.
IsResolved(f) == f.resolution # NoPayout /\ f.values = f.resolution

CanResolve(a) ==
  /\ IsOpen(a) /\ ~form[a].loading /\ ~Busy(a) /\ asked[a] = Nothing
  /\ form[a].values.code # Blank /\ form[a].values.number # Blank

Resolve(a) ==
  /\ CanResolve(a)
  /\ asked' = [asked EXCEPT ![a] =
       [at |-> "sent", code |-> form[a].values.code, number |-> form[a].values.number]]
  /\ UNCHANGED <<rows, seen, form, banks, saving, calls, inputs>>

\* The answer goes to the form that is open now, whatever its fields say by then.
\* A form that is closed forgets it when it opens again.
ResolveEnds(a) ==
  LET result == Resolved(asked[a].code, asked[a].number) IN
  /\ asked[a] # Nothing /\ Known(asked[a].code, asked[a].number)
  /\ asked' = [asked EXCEPT ![a] = Nothing]
  /\ form' = IF ~IsOpen(a) THEN form
             ELSE [form EXCEPT ![a] =
                    Shown([@ EXCEPT !.values = result, !.resolution = result], a)]
  /\ UNCHANGED <<rows, seen, banks, saving, calls, inputs>>

\* The gateway knows no such account, or does not answer.
ResolveFails(a) ==
  /\ asked[a] # Nothing
  /\ asked' = [asked EXCEPT ![a] = Nothing]
  /\ form' = IF ~IsOpen(a) THEN form
             ELSE [form EXCEPT ![a].values.name = Blank, ![a].resolution = NoPayout]
  /\ UNCHANGED <<rows, seen, banks, saving, calls, inputs>>

-----------------------------------------------------------------------------
(***************************************************************************)
(* Saving: MerchantsPage                                                   *)
(***************************************************************************)
Field(old, new) == IF new = old THEN Blank ELSE new

\* buildCreatePayload, and buildUpdatePayload: what differs from the row in the list.
Payload(f) ==
  IF f.mode = "create" THEN f.values
  ELSE [k \in DOMAIN NoPayout |-> Field(f.before[k], f.values[k])]

Save(a) ==
  /\ IsOpen(a) /\ ~Busy(a) /\ ~form[a].loading /\ IsResolved(form[a])
  /\ Payload(form[a]) # NoPayout
  /\ calls[a] = Nothing
  /\ saving' = [saving EXCEPT ![a] = TRUE]
  /\ calls' = [calls EXCEPT ![a] =
       [at |-> "sent", mode |-> form[a].mode, of |-> form[a].of,
        change |-> Payload(form[a]), row |-> NoRow,
        shown |-> form[a].values, listed |-> form[a].before]]
  /\ UNCHANGED <<rows, seen, form, banks, asked, inputs>>

\* getMerchants follows, and the form closes.
Saved(a) ==
  /\ calls[a] # Nothing /\ calls[a].at = "saved" /\ saving[a]
  /\ calls' = [calls EXCEPT ![a] = Nothing]
  /\ saving' = [saving EXCEPT ![a] = FALSE]
  /\ seen' = [seen EXCEPT ![a] = rows]
  /\ form' = [form EXCEPT ![a] = Closed]
  /\ UNCHANGED <<rows, banks, asked, inputs>>

\* The server refuses, or the save or the reload after it gets no answer: the form
\* stays open over the old list.  The server goes on.
SaveFails(a) ==
  /\ saving[a]
  /\ saving' = [saving EXCEPT ![a] = FALSE]
  /\ UNCHANGED <<rows, seen, form, banks, asked, calls, inputs>>

LoadPage(a) ==
  /\ ~IsOpen(a)
  /\ seen' = [seen EXCEPT ![a] = rows]
  /\ asked' = [asked EXCEPT ![a] = Nothing]
  /\ banks' = [banks EXCEPT ![a] = {}]
  /\ UNCHANGED <<rows, form, saving, calls, inputs>>

-----------------------------------------------------------------------------
(***************************************************************************)
(* POST and PATCH /admin/merchants                                         *)
(***************************************************************************)
At(a, pc) == calls[a] # Nothing /\ calls[a].at = pc
Goes(a, pc) == calls' = [calls EXCEPT ![a].at = pc]

ServerReads(a) ==
  /\ At(a, "sent")
  /\ IF calls[a].mode = "create" /\ rows[calls[a].of] # NoRow
     THEN Goes(a, "refused")
     ELSE calls' = [calls EXCEPT ![a].at = "read", ![a].row = rows[calls[a].of]]
  /\ UNCHANGED <<rows, seen, form, banks, asked, saving, inputs>>

\* Mutant: the request only fills in what the row lacks.
RowFirst(c) ==
  [k \in DOMAIN NoPayout |->
     IF c.row = NoRow \/ c.row[k] = Blank THEN c.change[k] ELSE c.row[k]]

\* The account the gateway is asked for: what the request leaves out, as the row
\* had it when it was read.
Meant(c) ==
  [k \in DOMAIN NoPayout |->
     IF c.change[k] # Blank \/ c.row = NoRow THEN c.change[k] ELSE c.row[k]]

Stored(p) == Resolved(p.code, p.number)

Gatewayed(c) == Known(Meant(c).code, Meant(c).number)

CreateWrites(a) ==
  LET c == calls[a] IN
  /\ At(a, "read") /\ c.mode = "create" /\ Gatewayed(c) /\ rows[c.of] = NoRow
  /\ rows' = [rows EXCEPT ![c.of] = Stored(Meant(c))]
  /\ Goes(a, "saved")
  /\ UNCHANGED <<seen, form, banks, asked, saving, inputs>>

UpdateWrites(a) ==
  LET c == calls[a] IN
  /\ At(a, "read") /\ c.mode = "edit" /\ Gatewayed(c)
  /\ rows' = [rows EXCEPT ![c.of] = Stored(Meant(c))]
  /\ Goes(a, "saved")
  /\ UNCHANGED <<seen, form, banks, asked, saving, inputs>>

\* The gateway fails or does not know the account, or the e-mail is taken meanwhile.
ServerRefuses(a) ==
  /\ At(a, "read")
  /\ Goes(a, "refused")
  /\ UNCHANGED <<rows, seen, form, banks, asked, saving, inputs>>

Ended(a) ==
  /\ At(a, "saved") \/ At(a, "refused")
  /\ ~saving[a]
  /\ calls' = [calls EXCEPT ![a] = Nothing]
  /\ UNCHANGED <<rows, seen, form, banks, asked, saving, inputs>>

MerchantDeskNext ==
  \E a \in Admins :
    \/ \E m \in Profiles : OpenForm(a, m)
    \/ \E b \in Banks : SelectBank(a, b)
    \/ \E n \in Numbers : TypeNumber(a, n)
    \/ CloseForm(a) \/ LoadBanks(a) \/ LoadBanksFails(a) \/ LoadPage(a)
    \/ Resolve(a) \/ ResolveEnds(a) \/ ResolveFails(a)
    \/ Save(a) \/ Saved(a) \/ SaveFails(a)
    \/ ServerReads(a) \/ CreateWrites(a) \/ UpdateWrites(a) \/ ServerRefuses(a) \/ Ended(a)

MerchantDeskTypeOK ==
  /\ rows \in [Profiles -> Row]
  /\ seen \in [Admins -> [Profiles -> Row]]
  /\ form \in [Admins -> Form \cup {Closed}]
  /\ banks \in [Admins -> {{}, Banks}]
  /\ asked \in [Admins -> Asked \cup {Nothing}]
  /\ saving \in [Admins -> BOOLEAN]
  /\ calls \in [Admins -> Call \cup {Nothing}]
  /\ inputs \in [forms : 0..MaxForms, changes : 0..MaxChanges]

\* Who is paid is who the admin saw: the account a save stores is the one the form
\* showed, with its holder's name, when the admin pressed Save, although the request
\* carries only the fields that differ from a list loaded long ago and the server
\* takes the rest from the row (buildUpdatePayload, updateMerchant).  Unless the
\* row was not as in the list any more when the server read it: then the bank of
\* one account may be stored with the number of another.
PayoutAsShown ==
  [][\A a \in Admins :
       (At(a, "read") /\ At(a, "saved")' /\ calls[a].row = calls[a].listed)
         => rows'[calls[a].of] = calls[a].shown]_deskVars
=============================================================================
