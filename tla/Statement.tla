------------------------------- MODULE Statement -------------------------------
(***************************************************************************)
(* The transaction history: GET /me/ledger, which answers one page of the  *)
(* user's ledger at a time, and the screen that puts the pages together    *)
(* while new entries keep arriving, and merges the payments of the phone's *)
(* own table into them.                                                    *)
(*                                                                         *)
(* A ledger entry is the number of its place in time: createdAt orders the *)
(* entries and no two of one user have the same.                           *)
(***************************************************************************)
EXTENDS Integers, FiniteSets, SequencesExt

CONSTANTS
  PageSize,    \* entries on a page, 20 in the app
  MaxEntries,  \* bound: entries the user's ledger ever has
  OwnPayments, \* the payments this phone has a row of; above MaxEntries: those
               \* that are never made
  MaxLoads     \* bound: requests of the screen in flight together

VARIABLES
  written,     \* the ledger: entries 1..written
  own,         \* status of the phone's own rows
  shown,       \* serverEntries, newest first
  cursor,      \* nextCursor: 0 is null
  loading,     \* a page is being loaded
  refreshing,  \* the first page is being loaded
  fresh,       \* jwtFresh
  loads,       \* requests in flight
  mixed        \* a page was asked for while the first was, or the other way

statementVars ==
  <<written, own, shown, cursor, loading, refreshing, fresh, loads, mixed>>

ASSUME StatementAssumption ==
  /\ PageSize \in Nat \ {0} /\ MaxEntries \in Nat \ {0} /\ MaxLoads \in Nat
  /\ OwnPayments \subseteq Nat \ {0} /\ IsFiniteSet(OwnPayments)

OwnStatus == {"pending", "reconciled", "rejected", "released"}

Loads ==
  [kind : {"first", "more"}, at : {"sent"}, from : 0..MaxEntries]
    \cup [kind : {"first", "more"}, at : {"answered"},
          page : Seq(1..MaxEntries), next : 0..MaxEntries]

StatementInit ==
  /\ written \in 0..MaxEntries
  /\ own = [p \in OwnPayments |-> IF p <= written THEN "reconciled" ELSE "pending"]
  /\ shown = <<>> /\ cursor = 0
  /\ loading = FALSE /\ refreshing = FALSE /\ fresh = FALSE
  /\ loads = <<>> /\ mixed = FALSE

-----------------------------------------------------------------------------
(***************************************************************************)
(* GET /me/ledger                                                          *)
(***************************************************************************)

\* Mutant: the page starts with the entry the cursor names.
FromCursor(c) == IF c = 0 THEN written ELSE c

\* The newest entry that is older than the cursor's; 0 if there is none.
BeforeCursor(c) == IF c = 0 THEN written ELSE c - 1

\* One entry more than a page is read, which tells whether there are more.
HasMore(c)    == BeforeCursor(c) > PageSize
PageLength(c) == IF HasMore(c) THEN PageSize ELSE BeforeCursor(c)
PageOf(c)     == [i \in 1..PageLength(c) |-> BeforeCursor(c) + 1 - i]
NextCursor(c) == IF HasMore(c) THEN Last(PageOf(c)) ELSE 0

AnswerLedger(i) ==
  /\ loads[i].at = "sent"
  /\ loads' = [loads EXCEPT ![i] =
       [kind |-> @.kind, at |-> "answered",
        page |-> PageOf(@.from), next |-> NextCursor(@.from)]]
  /\ UNCHANGED <<written, own, shown, cursor, loading, refreshing, fresh, mixed>>

\* A top-up, a payment or a cashout is written to the user's ledger.
WriteEntry ==
  /\ written < MaxEntries
  /\ written' = written + 1
  /\ UNCHANGED <<own, shown, cursor, loading, refreshing, fresh, loads, mixed>>

\* A poll or a submission tells the phone what became of a payment.
OwnUpdated(p) ==
  /\ own[p] = "pending"
  /\ \/ p <= written /\ own' = [own EXCEPT ![p] = "reconciled"]
     \/ p > MaxEntries /\ \E s \in {"rejected", "released"} : own' = [own EXCEPT ![p] = s]
  /\ UNCHANGED <<written, shown, cursor, loading, refreshing, fresh, loads, mixed>>

-----------------------------------------------------------------------------
(***************************************************************************)
(* The screen: loadData                                                    *)
(***************************************************************************)
InFlight(kind) == \E i \in DOMAIN loads : loads[i].kind = kind

LoadFirst ==
  /\ Len(loads) < MaxLoads
  /\ refreshing' = TRUE
  /\ loads' = Append(loads, [kind |-> "first", at |-> "sent", from |-> 0])
  /\ mixed' = (mixed \/ InFlight("more"))
  /\ UNCHANGED <<written, own, shown, cursor, loading>>

\* The session becomes fresh, which loads the first page whatever is in flight.
SessionFresh ==
  /\ ~fresh
  /\ fresh' = TRUE
  /\ LoadFirst

SessionStale ==
  /\ fresh
  /\ fresh' = FALSE
  /\ UNCHANGED <<written, own, shown, cursor, loading, refreshing, loads, mixed>>

PullToRefresh ==
  /\ fresh /\ ~refreshing
  /\ LoadFirst
  /\ UNCHANGED fresh

\* onEndReached does not look at refreshing.
EndReached ==
  /\ fresh /\ cursor # 0 /\ ~loading
  /\ Len(loads) < MaxLoads
  /\ loading' = TRUE
  /\ loads' = Append(loads, [kind |-> "more", at |-> "sent", from |-> cursor])
  /\ mixed' = (mixed \/ InFlight("first"))
  /\ UNCHANGED <<written, own, shown, cursor, refreshing, fresh>>

\* Whichever request ends first clears both flags.
LoadEnded(i) ==
  /\ loads' = RemoveAt(loads, i)
  /\ loading' = FALSE /\ refreshing' = FALSE

TakePage(i) ==
  /\ loads[i].at = "answered"
  /\ shown' = (IF loads[i].kind = "first" THEN <<>> ELSE shown) \o loads[i].page
  /\ cursor' = loads[i].next
  /\ mixed' = (mixed /\ ~(loads[i].kind = "first" /\ Len(loads) = 1))
  /\ LoadEnded(i)
  /\ UNCHANGED <<written, own, fresh>>

LoadFails(i) ==
  /\ LoadEnded(i)
  /\ UNCHANGED <<written, own, shown, cursor, fresh, mixed>>

StatementNext ==
  \/ WriteEntry
  \/ \E p \in OwnPayments : OwnUpdated(p)
  \/ SessionFresh \/ SessionStale \/ PullToRefresh \/ EndReached
  \/ \E i \in DOMAIN loads : AnswerLedger(i) \/ TakePage(i) \/ LoadFails(i)

-----------------------------------------------------------------------------
(***************************************************************************)
(* What the screen shows: the pages, and the phone's own payments that are *)
(* on no page                                                              *)
(***************************************************************************)
Tone(status) == IF status = "reconciled" THEN "confirmed" ELSE status

ServerRows == {[entry |-> e, source |-> "server", tone |-> "confirmed"] : e \in Range(shown)}

LocalRows ==
  {[entry |-> p, source |-> "local", tone |-> Tone(own[p])] :
     p \in OwnPayments \ Range(shown)}

Rows == ServerRows \cup LocalRows

\* The footer says END OF HISTORY.
AtTheEnd == ~loading /\ cursor = 0 /\ Rows # {}

StatementTypeOK ==
  /\ written \in 0..MaxEntries
  /\ own \in [OwnPayments -> OwnStatus]
  /\ shown \in Seq(1..MaxEntries) /\ cursor \in 0..MaxEntries
  /\ {loading, refreshing, fresh, mixed} \subseteq BOOLEAN
  /\ \A i \in DOMAIN loads : loads[i] \in Loads

\* HistoryWhole: when the screen says that this is the end of the history, it
\* shows every entry from the newest it has down to the first, each once and in
\* order, and a row of every payment this phone signed or scanned; unless a page
\* was asked for while the list was being refreshed (getLedger's createdAt cursor
\* and loadData, with entries written between any two pages).
HistoryWhole ==
  AtTheEnd /\ shown # <<>> /\ ~mixed =>
    /\ shown = [i \in 1..shown[1] |-> shown[1] + 1 - i]
    /\ {r.entry : r \in Rows} = 1..shown[1] \cup OwnPayments
    /\ Cardinality(Rows) = Cardinality({r.entry : r \in Rows})
=============================================================================
