----------------------------- MODULE CashoutScreen -----------------------------
(***************************************************************************)
(* The merchant's cashout screen: what it learns from two reads of the     *)
(* server and from the answer to its own request, and when it offers a     *)
(* cashout.  The server is Cashout; an admin pays by hand.                 *)
(***************************************************************************)
EXTENDS Cashout

CONSTANT Sales  \* bound: payments of one unit that settle meanwhile

VARIABLES
  screen, \* the screen of each merchant
  wish,   \* the requests each merchant's screen sent, by the server's slot
  known,  \* the cashouts a merchant was told of
  crossed,\* the last refresh began while a request was under way
  sales

screenVars == <<screen, wish, known, crossed, sales>>

Nil == "none"

ASSUME CashoutScreenAssumption ==
  /\ Cashouts \cap {Nil, "sent", "taken"} = {}
  /\ Sales \in Nat

\* me and mine are what fetchMe and getCashoutStatus have brought so far; active is
\* the cashout the screen takes to be under way.
Screen ==
  [at : {"loading", "confirmed", "unconfirmed"}, amount : Nat, active : Cashouts \cup {Nil},
   me : Nat \cup {-1}, mine : SUBSET Cashouts, read : BOOLEAN, busy : BOOLEAN]

Blind == [at |-> "unconfirmed", amount |-> 0, active |-> Nil,
          me |-> -1, mine |-> {}, read |-> FALSE, busy |-> FALSE]

CashoutScreenInit ==
  /\ screen = [m \in Merchants |-> Blind]
  /\ wish = [m \in Merchants |-> [q \in Requesters |-> Nil]]
  /\ known = [m \in Merchants |-> {}]
  /\ crossed = [m \in Merchants |-> FALSE]
  /\ sales = 0

Set(m, s) == screen' = [screen EXCEPT ![m] = s]

-----------------------------------------------------------------------------
(***************************************************************************)
(* refreshCashoutBalance: on focus and by hand, one at a time              *)
(***************************************************************************)
Refresh(m) ==
  /\ screen[m].at # "loading"
  /\ Set(m, [screen[m] EXCEPT !.at = "loading"])
  /\ crossed' = [crossed EXCEPT ![m] = screen[m].busy]
  /\ UNCHANGED <<funds, cashoutVars, wish, known, sales>>

FetchMe(m) ==
  /\ screen[m].at = "loading" /\ screen[m].me = -1
  /\ Set(m, [screen[m] EXCEPT !.me = funds[m]])
  /\ UNCHANGED <<funds, cashoutVars, wish, known, crossed, sales>>

\* Mutant: a cashout that is being paid is not under way.
OnlyPending(m) == {c \in Open(m) : cashouts[c].status = "PENDING"}

UnderWay(m) == Open(m)

\* The code answers the ten latest rows only. A merchant has more than
\* that many open rows only by overlapping requests, so every one is read here.
GetCashoutStatus(m) ==
  /\ screen[m].at = "loading" /\ ~screen[m].read
  /\ Set(m, [screen[m] EXCEPT !.read = TRUE, !.mine = UnderWay(m)])
  /\ known' = [known EXCEPT ![m] = @ \cup Open(m)]
  /\ UNCHANGED <<funds, cashoutVars, wish, crossed, sales>>

RefreshEnds(m) ==
  /\ screen[m].at = "loading" /\ screen[m].me # -1 /\ screen[m].read
  /\ \E a \in IF screen[m].mine = {} THEN {Nil} ELSE screen[m].mine :
       Set(m, [Blind EXCEPT !.at = "confirmed", !.amount = screen[m].me, !.active = a,
                            !.busy = screen[m].busy])
  /\ UNCHANGED <<funds, cashoutVars, wish, known, crossed, sales>>

RefreshFails(m) ==
  /\ screen[m].at = "loading"
  /\ Set(m, [Blind EXCEPT !.busy = screen[m].busy])
  /\ UNCHANGED <<funds, cashoutVars, wish, known, crossed, sales>>

-----------------------------------------------------------------------------
(***************************************************************************)
(* handleRequestCashout                                                    *)
(***************************************************************************)

\* getCashoutRequestDecision
Offers(m) ==
  /\ screen[m].at = "confirmed" /\ ~screen[m].busy
  /\ screen[m].active = Nil
  /\ screen[m].amount >= MinGross

RequestCashout(m, q) ==
  /\ Offers(m)
  /\ wish[m][q] = Nil /\ requesters[q] = NoRequester
  /\ wish' = [wish EXCEPT ![m][q] = "sent"]
  /\ Set(m, [screen[m] EXCEPT !.busy = TRUE])
  /\ UNCHANGED <<funds, cashoutVars, known, crossed, sales>>

\* The server's three steps; a refusal leaves no trace there.
ServeRequest(m, q) ==
  \/ /\ wish[m][q] = "sent" /\ RequestRead(q, m)
     /\ wish' = [wish EXCEPT ![m][q] = "taken"]
  \/ /\ wish[m][q] = "taken" /\ RequestCheck(q)
     /\ UNCHANGED wish
  \/ /\ wish[m][q] = "taken"
     /\ \E c \in Cashouts : RequestCreate(q, c) /\ wish' = [wish EXCEPT ![m][q] = c]

Answered(m, q) == wish' = [wish EXCEPT ![m][q] = Nil]

RequestSucceeds(m, q) ==
  /\ wish[m][q] \in Cashouts /\ screen[m].busy
  /\ Set(m, [screen[m] EXCEPT !.busy = FALSE, !.active = wish[m][q]])
  /\ known' = [known EXCEPT ![m] = @ \cup {wish[m][q]}]
  /\ Answered(m, q)
  /\ UNCHANGED <<funds, cashoutVars, crossed, sales>>

\* Refused, or the answer is lost and the server goes on.
RequestFails(m) ==
  /\ screen[m].busy
  /\ Set(m, [screen[m] EXCEPT !.busy = FALSE])
  /\ UNCHANGED <<funds, cashoutVars, wish, known, crossed, sales>>

RequestForgotten(m, q) ==
  /\ ~screen[m].busy
  /\ wish[m][q] # Nil /\ requesters[q] = NoRequester
  /\ Answered(m, q)
  /\ UNCHANGED <<funds, cashoutVars, screen, known, crossed, sales>>

-----------------------------------------------------------------------------
\* A payment settles.
Earn(s, m) ==
  /\ sales < Sales
  /\ funds[s] >= 1 /\ funds[m] + 1 <= MaxBalance
  /\ funds' = Move(s, m, 1)
  /\ sales' = sales + 1
  /\ UNCHANGED <<cashoutVars, screen, wish, known, crossed>>

CashoutScreenNext ==
  \/ \E m \in Merchants :
       \/ Refresh(m) \/ FetchMe(m) \/ GetCashoutStatus(m)
       \/ RefreshEnds(m) \/ RefreshFails(m) \/ RequestFails(m)
       \/ \E q \in Requesters :
            \/ RequestCashout(m, q) \/ RequestSucceeds(m, q) \/ RequestForgotten(m, q)
            \/ ServeRequest(m, q) /\ UNCHANGED <<screen, known, crossed, sales>>
  \/ /\ \E c \in Cashouts :
          ApproveCashout(c, "manual") \/ MarkManualPaid(c) \/ CancelManual(c)
     /\ UNCHANGED screenVars
  \/ \E s \in Students, m \in Merchants : Earn(s, m)

CashoutScreenTypeOK ==
  /\ screen \in [Merchants -> Screen]
  /\ wish \in [Merchants -> [Requesters -> Cashouts \cup {Nil, "sent", "taken"}]]
  /\ known \in [Merchants -> SUBSET Cashouts]
  /\ crossed \in [Merchants -> BOOLEAN]
  /\ sales \in 0..Sales

\* OfferIsFresh: the screen offers no cashout while one that the merchant was told
\* of, by an answer or by a list, is still open, unless its last refresh began
\* while a request was under way (refreshCashoutBalance, getActiveCashoutSummary).
OfferIsFresh ==
  \A m \in Merchants : Offers(m) /\ ~crossed[m] => known[m] \cap Open(m) = {}
=============================================================================
