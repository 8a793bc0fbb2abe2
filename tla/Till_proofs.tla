------------------------------ MODULE Till_proofs ------------------------------
(***************************************************************************)
(* What two phones say of payments is true, and what they sign or accept   *)
(* the server can make: for any number of payments, refreshes, submissions *)
(* and fetches in flight, top-ups, cashouts and phones of the student, and *)
(* whatever answers are lost or late.                                      *)
(*                                                                         *)
(* An answer on its way stays true because its two causes are for good: a  *)
(* payment that was made stays made, and one that the server closed is     *)
(* claimed no more (RowsTrue).  A balance that was fetched stays useful    *)
(* because only the payments it does not account for took from the         *)
(* student's balance since, and only they and the merchant's other income  *)
(* added to the merchant's (PayerKnows, PayeeKnows): where these payments  *)
(* are pending on the phone, it still reckons with them.                   *)
(***************************************************************************)
EXTENDS Till, FiniteSums

-----------------------------------------------------------------------------
(* Who moves what.                                                           *)

\* What is the server's alone, whatever the phones send.
LEMMA WalletLeavesServer ==
  ASSUME WalletStep
  PROVE  /\ UNCHANGED <<moneyVars, claims>>
         /\ UNCHANGED <<issued, closed>> \/ (\E a \in Amounts : Sign(a)) \/ NewPhone
BY DEF WalletStep, Sign, BeginRefresh, SyncOutgoing, AnswerBatch, TakeAnswers, PollFails, AnswerMe,
       StoreBalance, FetchFails, KillWallet, NewPhone, serverVars

LEMMA TillLeavesServer ==
  ASSUME TillStep
  PROVE  UNCHANGED <<serverVars, walletVars>>
BY DEF TillStep, Scan, Submit, Reconcile, TakeResults, SyncFails, AnswerProfile, TakeProfile,
       ProfileFails, KillTill

LEMMA ReceiveLeaves ==
  ASSUME NEW s \in Screens, NEW e \in Payments, Receive(s, e)
  PROVE  /\ UNCHANGED <<moneyVars, issued, closed, walletVars, tillVars>>
         /\ syncs[s] # Resting /\ e \in syncs[s].todo /\ e \notin closed
         /\ claims' = claims \cup {e}
BY DEF Receive, Admit

LEMMA ServerStepLeaves ==
  ASSUME ServerStep
  PROVE  issued' = issued /\ claims' \subseteq claims /\ closed \subseteq closed'
BY DEF ServerStep, Commit, DropClaim, Close, TopUp, CashOut, GiveBack

\* A step of one phone leaves the other's variables.
LEMMA PhonesApart ==
  ASSUME [Next]_vars
  PROVE  /\ (WalletStep /\ UNCHANGED tillVars) \/ UNCHANGED walletVars
         /\ TillStep \/ UNCHANGED tillVars
BY TillLeavesServer, ReceiveLeaves DEF Next, vars

\* Money moves in transactions of the server.
LEMMA MoneyMoves ==
  ASSUME [Next]_vars
  PROVE  \/ UNCHANGED moneyVars
         \/ /\ UNCHANGED <<walletVars, tillVars, issued>>
            /\ \/ \E e \in Payments : Commit(e)
               \/ \E c \in Credits : TopUp(c)
               \/ \E w \in Cashouts : CashOut(w) \/ GiveBack(w)
<1>1. CASE ServerStep /\ UNCHANGED <<walletVars, tillVars>>
  BY <1>1, ServerStepLeaves DEF ServerStep, DropClaim, Close
<1>2. ASSUME NEW s \in Screens, NEW e \in Payments, Receive(s, e)
      PROVE  UNCHANGED moneyVars
  BY <1>2, ReceiveLeaves
<1>3. UNCHANGED vars => UNCHANGED moneyVars
  BY DEF vars, serverVars
<1>4. TillStep => UNCHANGED moneyVars
  BY TillLeavesServer DEF serverVars
<1> QED
  BY <1>1, <1>2, <1>3, <1>4, WalletLeavesServer DEF Next

LEMMA SettledMoves ==
  ASSUME [Next]_vars
  PROVE  /\ settled \subseteq settled'
         /\ \A e \in settled' : e \in settled \cup claims
<1>1. CASE UNCHANGED moneyVars
  BY <1>1 DEF moneyVars, ledgerVars
<1>2. ASSUME NEW e \in Payments, Commit(e)
      PROVE  e \in claims /\ settled' = settled \cup {e}
  BY <1>2 DEF Commit, Pay
<1>3. CASE \E c \in Credits : TopUp(c)
  BY <1>3 DEF TopUp, Credit
<1>4. CASE \E w \in Cashouts : CashOut(w) \/ GiveBack(w)
  BY <1>4 DEF CashOut, GiveBack
<1> QED
  BY <1>1, <1>2, <1>3, <1>4, MoneyMoves

\* No claim is taken of a closed payment, and closed it stays.
LEMMA ClaimsMove ==
  ASSUME [Next]_vars
  PROVE  /\ closed \subseteq closed'
         /\ \A e \in claims' :
              \/ e \in claims
              \/ /\ e \notin closed /\ issued' = issued
                 /\ \E s \in Screens : syncs[s] # Resting /\ e \in syncs[s].todo
<1>1. CASE WalletStep
  <2>1. closed \subseteq closed'
    BY <1>1, WalletLeavesServer DEF Sign, NewPhone
  <2> QED
    BY <1>1, <2>1, WalletLeavesServer
<1>2. CASE TillStep
  BY <1>2, TillLeavesServer DEF serverVars
<1>3. ASSUME NEW s \in Screens, NEW e \in Payments, Receive(s, e)
      PROVE  /\ closed' = closed /\ issued' = issued /\ claims' = claims \cup {e}
             /\ syncs[s] # Resting /\ e \in syncs[s].todo /\ e \notin closed
  BY <1>3, ReceiveLeaves
<1>4. CASE ServerStep
  BY <1>4, ServerStepLeaves
<1>5. UNCHANGED vars => UNCHANGED <<closed, claims>>
  BY DEF vars, serverVars
<1> QED
  BY <1>1, <1>2, <1>3, <1>4, <1>5 DEF Next

-----------------------------------------------------------------------------
(* What the phones are told.                                                 *)

AnswersTrue(answers) ==
  \A e \in DOMAIN answers :
    /\ answers[e] = "reconciled" => e \in settled
    /\ answers[e] = "rejected" => e \in closed

RefreshesTrue ==
  /\ refreshes = [r \in Refreshes |-> refreshes[r]]
  /\ \A r \in Refreshes : refreshes[r].at = "answered" => AnswersTrue(refreshes[r].answers)

\* A merchant's request may be refused for want of money, which is not for good.
MadeTrue(answers) == \A e \in DOMAIN answers : answers[e] = "reconciled" => e \in settled

Submitted(todo, rest, answers) ==
  [at |-> "submitted", todo |-> todo, rest |-> rest, answers |-> answers]
SyncTrue(x) ==
  x = Resting \/ \E todo, rest, answers : x = Submitted(todo, rest, answers) /\ MadeTrue(answers)

SyncsTrue ==
  /\ syncs = [s \in Screens |-> syncs[s]]
  /\ \A s \in Screens : SyncTrue(syncs[s])

RowsTrue ==
  /\ rows = [e \in Payments |-> rows[e]]
  /\ till = [e \in Payments |-> till[e]]
  /\ \A e \in Payments :
       /\ rows[e] = "reconciled" \/ till[e] = "reconciled" => e \in settled
       /\ rows[e] = "rejected" => e \in closed

TruthInv == RefreshesTrue /\ SyncsTrue /\ RowsTrue

LEMMA TruthStarts == Init => TruthInv
<1> SUFFICES ASSUME Init
             PROVE  TruthInv
  OBVIOUS
<1>1. RowsTrue
  BY DEF Init, WalletInit, RowsTrue, EmptyRows
<1>2. RefreshesTrue
  BY DEF Init, WalletInit, RefreshesTrue, Idle
<1>3. SyncsTrue
  BY DEF Init, SyncsTrue, SyncTrue
<1> QED
  BY <1>1, <1>2, <1>3 DEF TruthInv

\* What was made and what was closed stay so.
Growing == settled \subseteq settled' /\ closed \subseteq closed'

LEMMA Grows ==
  ASSUME [Next]_vars
  PROVE  Growing
BY SettledMoves, ClaimsMove DEF Growing

-----------------------------------------------------------------------------
(* The student's refreshes.                                                  *)

LEMMA OneRefresh ==
  ASSUME RefreshesTrue, Growing, NEW r \in Refreshes, NEW x, Advance(r, x),
         x.at = "answered" => AnswersTrue(x.answers)'
  PROVE  RefreshesTrue'
<1>1. /\ refreshes' = [q \in Refreshes |-> refreshes'[q]] /\ refreshes'[r] = x
      /\ \A q \in Refreshes : q # r => refreshes'[q] = refreshes[q]
  BY DEF RefreshesTrue, Advance
<1>2. ASSUME NEW q \in Refreshes, refreshes'[q].at = "answered"
      PROVE  AnswersTrue(refreshes[q].answers)'
  BY <1>1, <1>2 DEF RefreshesTrue, AnswersTrue, Growing
<1> QED
  BY <1>1, <1>2 DEF RefreshesTrue

LEMMA RefreshesKept ==
  ASSUME RefreshesTrue, Growing, UNCHANGED refreshes \/ Forget
  PROVE  RefreshesTrue'
<1>1. CASE UNCHANGED refreshes
  BY <1>1 DEF RefreshesTrue, AnswersTrue, Growing
<1>2. CASE Forget
  BY <1>2 DEF Forget, RefreshesTrue, Idle
<1> QED
  BY <1>1, <1>2

LEMMA AskIsQuiet == ASSUME NEW todo PROVE Ask(todo).at # "answered"
<1>1. CASE todo = {}
  BY <1>1 DEF Ask
<1>2. CASE todo # {}
  BY <1>2 DEF Ask
<1> QED
  BY <1>1, <1>2

LEMMA RefreshesStep ==
  ASSUME TruthInv, [Next]_vars
  PROVE  RefreshesTrue'
<1>1. RefreshesTrue /\ Growing
  BY Grows DEF TruthInv
<1>2. CASE UNCHANGED refreshes \/ Forget
  BY <1>1, <1>2, RefreshesKept
<1>3. ASSUME NEW r \in Refreshes, BeginRefresh(r) \/ SyncOutgoing(r) \/ TakeAnswers(r)
      PROVE  RefreshesTrue'
  <2>1. PICK x : Advance(r, x) /\ x.at # "answered"
    BY <1>3, AskIsQuiet DEF BeginRefresh, SyncOutgoing, TakeAnswers
  <2> QED
    BY <1>1, <2>1, OneRefresh
<1>4. ASSUME NEW r \in Refreshes, PollFails(r) \/ AnswerMe(r) \/ StoreBalance(r) \/ FetchFails(r)
      PROVE  RefreshesTrue'
  <2>1. PICK x : Advance(r, x) /\ x.at # "answered"
    BY <1>4 DEF PollFails, AnswerMe, StoreBalance, FetchFails, Idle
  <2> QED
    BY <1>1, <2>1, OneRefresh
<1>5. ASSUME NEW r \in Refreshes, AnswerBatch(r)
      PROVE  RefreshesTrue'
  <2>1. PICK b : Advance(r, [at |-> "answered", todo |-> refreshes[r].todo \ b,
                             answers |-> [e \in b |-> Verdict(e)]])
    BY <1>5 DEF AnswerBatch
  <2>2. PICK a : a = [e \in b |-> Verdict(e)]
    OBVIOUS
  <2>3. AnswersTrue(a)
    BY <2>2 DEF AnswersTrue, Verdict
  <2>4. AnswersTrue(a)'
    BY <1>1, <2>3 DEF AnswersTrue, Growing
  <2>5. PICK x : x = [at |-> "answered", todo |-> refreshes[r].todo \ b, answers |-> a]
    OBVIOUS
  <2>6. Advance(r, x) /\ x.answers = a
    BY <2>1, <2>2, <2>5 DEF Advance
  <2> QED
    BY <1>1, <2>4, <2>6, OneRefresh DEF AnswersTrue
<1>6. CASE WalletStep
  <2>1. ASSUME NEW a \in Amounts, Sign(a)
        PROVE  UNCHANGED refreshes
    BY <2>1 DEF Sign
  <2> QED
    BY <1>2, <1>3, <1>4, <1>5, <1>6, <2>1 DEF WalletStep, KillWallet, NewPhone
<1>7. UNCHANGED walletVars => UNCHANGED refreshes
  BY DEF walletVars
<1> QED
  BY <1>2, <1>6, <1>7, PhonesApart

-----------------------------------------------------------------------------
(* The merchant's submissions.                                               *)

LEMMA OneSync ==
  ASSUME SyncsTrue, Growing, NEW s \in Screens, NEW x, syncs' = [syncs EXCEPT ![s] = x],
         x = Resting \/ \E todo, rest, answers : x = Submitted(todo, rest, answers) /\ MadeTrue(answers)'
  PROVE  SyncsTrue'
<1>1. /\ syncs' = [z \in Screens |-> syncs'[z]] /\ syncs'[s] = x
      /\ \A z \in Screens : z # s => syncs'[z] = syncs[z]
  BY DEF SyncsTrue
<1>2. ASSUME NEW z \in Screens
      PROVE  SyncTrue(syncs[z])'
  <2>1. CASE z = s
    BY <1>1, <2>1 DEF SyncTrue, MadeTrue
  <2>2. CASE z # s
    <3>1. SyncTrue(syncs[z]) /\ syncs'[z] = syncs[z]
      BY <1>1, <2>2 DEF SyncsTrue
    <3>2. CASE syncs[z] = Resting
      BY <3>1, <3>2 DEF SyncTrue
    <3>3. CASE syncs[z] # Resting
      <4>1. PICK todo, rest, answers : syncs[z] = Submitted(todo, rest, answers) /\ MadeTrue(answers)
        BY <3>1, <3>3 DEF SyncTrue
      <4>2. MadeTrue(answers)'
        BY <4>1 DEF MadeTrue, Growing
      <4> QED
        BY <3>1, <4>1, <4>2 DEF SyncTrue, MadeTrue, Submitted
    <3> QED
      BY <3>2, <3>3
  <2> QED
    BY <2>1, <2>2
<1> QED
  BY <1>1, <1>2 DEF SyncsTrue

LEMMA SyncsKept ==
  ASSUME SyncsTrue, Growing, UNCHANGED syncs
  PROVE  SyncsTrue'
<1>1. ASSUME NEW z \in Screens
      PROVE  SyncTrue(syncs[z])'
  <2>1. CASE syncs[z] = Resting
    BY <2>1 DEF SyncTrue
  <2>2. CASE syncs[z] # Resting
    <3>1. PICK todo, rest, answers : syncs[z] = Submitted(todo, rest, answers) /\ MadeTrue(answers)
      BY <2>2 DEF SyncsTrue, SyncTrue
    <3>2. MadeTrue(answers)'
      BY <3>1 DEF MadeTrue, Growing
    <3> QED
      BY <3>1, <3>2 DEF SyncTrue, MadeTrue, Submitted
  <2> QED
    BY <2>1, <2>2
<1> QED
  BY <1>1 DEF SyncsTrue

\* An answer is added to those of the request.
LEMMA AnsweredSync ==
  ASSUME SyncsTrue, Growing, NEW s \in Screens, syncs[s] # Resting, NEW e, NEW status,
         Answered(s, e, status), status = "reconciled" => e \in settled'
  PROVE  SyncsTrue'
<1>1. PICK todo, rest, answers : syncs[s] = Submitted(todo, rest, answers) /\ MadeTrue(answers)
  BY DEF SyncsTrue, SyncTrue
<1>2. PICK a : a = AndAlso(answers, e, status)
  OBVIOUS
<1>3. /\ DOMAIN a = DOMAIN answers \cup {e} /\ a[e] = status
      /\ \A f \in DOMAIN a : f # e => f \in DOMAIN answers /\ a[f] = answers[f]
  BY <1>2 DEF AndAlso
<1>4. MadeTrue(a)'
  BY <1>1, <1>3 DEF MadeTrue, Growing
<1>5. PICK left : left = todo \ {e}
  OBVIOUS
<1>6. syncs' = [syncs EXCEPT ![s] = Submitted(left, rest, a)]
  <2>1. syncs[s].todo = todo /\ syncs[s].answers = answers
    BY <1>1 DEF Submitted
  <2>2. syncs' = [syncs EXCEPT ![s] = [syncs[s] EXCEPT !.todo = left, !.answers = a]]
    BY <1>2, <1>5, <2>1 DEF Answered, SyncsTrue
  <2>3. [Submitted(todo, rest, answers) EXCEPT !.todo = left] = Submitted(left, rest, answers)
    BY DEF Submitted
  <2>4. [Submitted(left, rest, answers) EXCEPT !.answers = a] = Submitted(left, rest, a)
    BY DEF Submitted
  <2> QED
    BY <1>1, <2>2, <2>3, <2>4
<1> QED
  BY <1>4, <1>6, OneSync DEF MadeTrue

LEMMA SyncsStep ==
  ASSUME TruthInv, [Next]_vars
  PROVE  SyncsTrue'
<1>1. SyncsTrue /\ Growing
  BY Grows DEF TruthInv
<1>2. CASE UNCHANGED syncs
  BY <1>1, <1>2, SyncsKept
<1>3. ASSUME NEW s \in Screens, NEW batch, NEW rest,
             syncs' = [syncs EXCEPT ![s] = Sending(batch, rest)]
      PROVE  SyncsTrue'
  <2>1. syncs' = [syncs EXCEPT ![s] = Submitted(batch, rest, <<>>)]
    BY <1>3 DEF Sending, Submitted
  <2>2. MadeTrue(<<>>)'
    BY DEF MadeTrue
  <2> QED
    BY <1>1, <2>1, <2>2, OneSync DEF MadeTrue
<1>4. ASSUME NEW s \in Screens, Reconcile(s)
      PROVE  SyncsTrue'
  <2>1. syncs[s] # Resting
    BY <1>4 DEF Reconcile
  <2>2. PICK e : MadeOrBefore(s, e) \/ Refuse(s, e)
    BY <1>4 DEF Reconcile
  <2>3. CASE MadeOrBefore(s, e)
    BY <1>1, <2>1, <2>3, AnsweredSync DEF MadeOrBefore, Growing
  <2>4. CASE Refuse(s, e)
    BY <1>1, <2>1, <2>4, AnsweredSync DEF Refuse
  <2> QED
    BY <2>2, <2>3, <2>4
<1>5. ASSUME NEW s \in Screens, syncs' = [syncs EXCEPT ![s] = Resting]
      PROVE  SyncsTrue'
  BY <1>1, <1>5, OneSync
<1>6. CASE KillTill
  BY <1>6 DEF KillTill, SyncsTrue, SyncTrue
<1>7. CASE TillStep
  <2>1. ASSUME NEW e \in Payments, Scan(e)
        PROVE  UNCHANGED syncs
    BY <2>1 DEF Scan
  <2>2. ASSUME NEW s \in Screens, Submit(s) \/ TakeResults(s) \/ SyncFails(s)
        PROVE  \/ syncs' = [syncs EXCEPT ![s] = Resting]
               \/ \E batch, rest : syncs' = [syncs EXCEPT ![s] = Sending(batch, rest)]
    BY <2>2 DEF Submit, TakeResults, SyncFails
  <2>3. ASSUME NEW s \in Screens, Submit(s) \/ TakeResults(s) \/ SyncFails(s)
        PROVE  SyncsTrue'
    BY <1>3, <1>5, <2>2, <2>3
  <2>4. ASSUME NEW f \in Fetches, AnswerProfile(f) \/ TakeProfile(f) \/ ProfileFails(f)
        PROVE  UNCHANGED syncs
    BY <2>4 DEF AnswerProfile, TakeProfile, ProfileFails
  <2> QED
    BY <1>2, <1>4, <1>6, <1>7, <2>1, <2>3, <2>4 DEF TillStep
<1>8. UNCHANGED tillVars => UNCHANGED syncs
  BY DEF tillVars
<1> QED
  BY <1>2, <1>7, <1>8, PhonesApart

-----------------------------------------------------------------------------
(* The two tables.                                                           *)


\* A step that gives a row a final status only when the status is true.
LEMMA RowsKept ==
  ASSUME RowsTrue, Growing,
         rows' = [e \in Payments |-> rows'[e]], till' = [e \in Payments |-> till'[e]],
         \A e \in Payments :
           /\ rows'[e] = "reconciled" => rows[e] = "reconciled" \/ e \in settled
           /\ rows'[e] = "rejected" => rows[e] = "rejected" \/ e \in closed
           /\ till'[e] = "reconciled" => till[e] = "reconciled" \/ e \in settled
  PROVE  RowsTrue'
BY DEF RowsTrue, Growing

LEMMA InsertedTable ==
  ASSUME NEW table, table = [p \in Payments |-> table[p]], NEW e
  PROVE  Insert(table, e) = [p \in Payments |-> Insert(table, e)[p]]
BY DEF Insert

LEMMA UpdatedTable ==
  ASSUME NEW table, NEW answers
  PROVE  Update(table, answers) = [p \in Payments |-> Update(table, answers)[p]]
BY DEF Update

LEMMA Inserted ==
  ASSUME NEW table, table = [p \in Payments |-> table[p]], NEW e, NEW p \in Payments
  PROVE  Insert(table, e)[p] \in {table[p], "pending"}
BY DEF Insert

LEMMA Updated ==
  ASSUME NEW table, NEW answers, NEW p \in Payments, Update(table, answers)[p] # table[p]
  PROVE  p \in DOMAIN answers /\ Update(table, answers)[p] = answers[p]
BY DEF Update

LEMMA RowsStep ==
  ASSUME TruthInv, [Next]_vars
  PROVE  RowsTrue'
<1>1. RowsTrue /\ Growing /\ RefreshesTrue /\ SyncsTrue
  BY Grows DEF TruthInv
<1>2. CASE UNCHANGED <<rows, till>>
  BY <1>1, <1>2, RowsKept DEF RowsTrue
<1>3. ASSUME NEW a \in Amounts, Sign(a), UNCHANGED tillVars
      PROVE  RowsTrue'
  <2>1. UNCHANGED till /\ rows' = Insert(rows, Signed(a))
    BY <1>3 DEF Sign, tillVars
  <2> QED
    BY <1>1, <2>1, RowsKept, Inserted, InsertedTable DEF RowsTrue
<1>4. ASSUME NEW e \in Payments, Scan(e)
      PROVE  RowsTrue'
  <2>1. UNCHANGED rows /\ till' = Insert(till, e)
    BY <1>4 DEF Scan, walletVars
  <2> QED
    BY <1>1, <2>1, RowsKept, Inserted, InsertedTable DEF RowsTrue
<1>5. ASSUME NEW r \in Refreshes, TakeAnswers(r), UNCHANGED tillVars
      PROVE  RowsTrue'
  <2>1. UNCHANGED till /\ rows' = Update(rows, refreshes[r].answers) /\ AnswersTrue(refreshes[r].answers)
    BY <1>1, <1>5 DEF TakeAnswers, tillVars, RefreshesTrue
  <2> QED
    BY <1>1, <2>1, RowsKept, Updated, UpdatedTable DEF RowsTrue, AnswersTrue
<1>6. ASSUME NEW s \in Screens, TakeResults(s)
      PROVE  RowsTrue'
  <2>1. PICK todo, rest, answers : syncs[s] = Submitted(todo, rest, answers) /\ MadeTrue(answers)
    BY <1>1, <1>6 DEF TakeResults, SyncsTrue, SyncTrue
  <2>2. UNCHANGED rows /\ till' = Update(till, answers)
    BY <1>6, <2>1 DEF TakeResults, walletVars, Submitted
  <2> QED
    BY <1>1, <2>1, <2>2, RowsKept, Updated, UpdatedTable DEF RowsTrue, MadeTrue
<1>7. CASE NewPhone /\ UNCHANGED tillVars
  BY <1>1, <1>7, RowsKept DEF RowsTrue, NewPhone, EmptyRows, tillVars
<1>8. CASE WalletStep /\ UNCHANGED tillVars
  <2>1. ASSUME NEW r \in Refreshes,
               BeginRefresh(r) \/ SyncOutgoing(r) \/ AnswerBatch(r) \/ PollFails(r) \/ AnswerMe(r)
                 \/ StoreBalance(r) \/ FetchFails(r)
        PROVE  UNCHANGED rows
    BY <2>1 DEF BeginRefresh, SyncOutgoing, AnswerBatch, PollFails, AnswerMe, StoreBalance, FetchFails
  <2> QED
    BY <1>2, <1>3, <1>5, <1>7, <1>8, <2>1 DEF WalletStep, KillWallet, tillVars
<1>9. CASE TillStep
  <2>1. ASSUME NEW s \in Screens, Submit(s) \/ Reconcile(s) \/ SyncFails(s)
        PROVE  UNCHANGED <<rows, till>>
    BY <2>1 DEF Submit, Reconcile, SyncFails, walletVars
  <2>2. ASSUME NEW f \in Fetches, AnswerProfile(f) \/ TakeProfile(f) \/ ProfileFails(f)
        PROVE  UNCHANGED <<rows, till>>
    BY <2>2 DEF AnswerProfile, TakeProfile, ProfileFails, walletVars
  <2>3. KillTill => UNCHANGED <<rows, till>>
    BY DEF KillTill, walletVars
  <2> QED
    BY <1>2, <1>4, <1>6, <1>9, <2>1, <2>2, <2>3 DEF TillStep
<1>10. UNCHANGED <<walletVars, tillVars>> => UNCHANGED <<rows, till>>
  BY DEF walletVars, tillVars
<1> QED
  BY <1>2, <1>8, <1>9, <1>10, PhonesApart

LEMMA TruthStep == TruthInv /\ [Next]_vars => TruthInv'
BY RefreshesStep, SyncsStep, RowsStep DEF TruthInv

\* What a phone shows as settled is settled, and what the student's phone shows
\* as refused is neither claimed nor made any more, but for a claim the server
\* was handling: in whatever order answers arrive (db.ts
\* updateTransactionStatus, which overwrites without looking).
THEOREM StatusIsTrue == Spec => StatusTrue
<1> DEFINE Shown == \A e \in Payments :
                      rows[e] = "reconciled" \/ till[e] = "reconciled" => e \in settled
           Quiet == \A e \in Payments :
                      (rows[e] = "rejected" /\ e \notin claims \cup settled)
                        => e \notin (claims \cup settled)'
<1>1. Init => TruthInv
  BY TruthStarts
<1>2. TruthInv /\ [Next]_vars => TruthInv'
  BY TruthStep
<1>3. TruthInv => Shown
  BY DEF TruthInv, RowsTrue
<1>4. TruthInv /\ [Next]_vars => [Quiet]_vars
  <2> SUFFICES ASSUME TruthInv, [Next]_vars, NEW e \in Payments,
                      rows[e] = "rejected", e \notin claims \cup settled
               PROVE  e \notin claims' \cup settled'
    OBVIOUS
  <2>1. e \in closed
    BY DEF TruthInv, RowsTrue
  <2> QED
    BY <2>1, ClaimsMove, SettledMoves
<1> QED
  BY <1>1, <1>2, <1>3, <1>4, PTL DEF Spec, StatusTrue

-----------------------------------------------------------------------------
(* Types.  A payment that a phone knows of, or that is on its way to the     *)
(* server, was signed.                                                       *)

Known ==
  /\ \A e \in Payments : rows[e] # "none" \/ till[e] # "none" => e \in issued
  /\ \A s \in Screens : syncs[s] # Resting => syncs[s].todo \cup syncs[s].rest \subseteq issued

TablesInv == TillTypeOK /\ IsFiniteSet(issued) /\ Known

LEMMA Parties ==
  /\ Student \in Users /\ Merchant \in Users /\ Student # Merchant
  /\ Users = {Student, Merchant} /\ MaxBalance \in Nat
  /\ \A e \in Payments : /\ e.sender = Student /\ e.to = Merchant
                         /\ e.amount \in Nat /\ e.amount > 0
  /\ \A c \in Credits : c.user \in Users /\ c.amount \in Nat /\ c.amount > 0
  /\ \A w \in Cashouts : w.amount \in Nat /\ w.amount > 0
<1>1. Student # Merchant /\ Users = {Student, Merchant} /\ MaxBalance \in Nat
  BY ServerAssumption
<1>2. \A e \in Payments : /\ e.sender = Student /\ e.to = Merchant
                          /\ e.amount \in Nat /\ e.amount > 0
  <2> SUFFICES ASSUME NEW e \in Payments
               PROVE  /\ e.sender = Student /\ e.to = Merchant
                      /\ e.amount \in Nat /\ e.amount > 0
    OBVIOUS
  <2>1. e \in [sender : {Student}, to : {Merchant}, phone : Nat \ {0},
               seq : Nat \ {0}, amount : Nat \ {0}]
    BY ServerAssumption
  <2> QED
    BY <2>1
<1>3. /\ \A c \in Credits : c.user \in Users /\ c.amount \in Nat \ {0}
      /\ \A w \in Cashouts : w.amount \in Nat \ {0}
  BY ServerAssumption
<1> QED
  BY <1>1, <1>2, <1>3

LEMMA RefreshFields ==
  ASSUME WalletTypeOK, NEW r \in Refreshes
  PROVE  /\ refreshes[r] \in Refresh
         /\ refreshes[r].at = "asking" => refreshes[r].todo \in SUBSET Payments
         /\ refreshes[r].at = "answered" => /\ refreshes[r].todo \in SUBSET Payments
                                            /\ refreshes[r].answers \in Answers(Payments)
         /\ refreshes[r].at = "fetched" => refreshes[r].me \in Snapshot
<1> DEFINE x == refreshes[r]
<1>1. x \in Refresh
  BY DEF WalletTypeOK
<1>2. CASE x = Idle \/ x = [at |-> "polled"]
  BY <1>1, <1>2 DEF Idle
<1>3. CASE x \in [at : {"asking"}, todo : SUBSET Payments]
  BY <1>1, <1>3
<1>4. CASE x \in [at : {"answered"}, todo : SUBSET Payments, answers : Answers(Payments)]
  BY <1>1, <1>4
<1>5. CASE x \in [at : {"fetched"}, me : Snapshot]
  BY <1>1, <1>5
<1> QED
  BY <1>1, <1>2, <1>3, <1>4, <1>5 DEF Refresh

LEMMA SyncFields ==
  ASSUME TillTypeOK, NEW s \in Screens, syncs[s] # Resting
  PROVE  /\ syncs[s] \in [at : {"submitted"}, todo : SUBSET Payments, rest : SUBSET Payments,
                          answers : Answers(Payments)]
         /\ syncs[s].todo \in SUBSET Payments /\ syncs[s].rest \in SUBSET Payments
         /\ syncs[s].answers \in Answers(Payments)
<1>1. syncs[s] \in [at : {"submitted"}, todo : SUBSET Payments, rest : SUBSET Payments,
                    answers : Answers(Payments)]
  BY DEF TillTypeOK, Sync
<1> QED
  BY <1>1

LEMMA FetchFields ==
  ASSUME TillTypeOK, NEW f \in Fetches, profiles[f] # NotAsked
  PROVE  profiles[f].at = "fetched" /\ profiles[f].me \in Profile
<1>1. profiles[f] \in [at : {"fetched"}, me : Profile]
  BY DEF TillTypeOK, Fetch
<1> QED
  BY <1>1

LEMMA AnswersAre ==
  ASSUME NEW f
  PROVE  f \in Answers(Payments)
           <=> \E b \in SUBSET Payments : f \in [b -> {"reconciled", "rejected", "unknown"}]
BY DEF Answers

LEMMA TableChanges ==
  ASSUME NEW table \in Rows
  PROVE  /\ \A e \in Payments : Insertable(table, e) =>
              /\ Insert(table, e) \in Rows /\ Insert(table, e)[e] = "pending"
              /\ \A p \in Payments : p # e => Insert(table, e)[p] = table[p]
         /\ \A answers \in Answers(Payments) :
              /\ Update(table, answers) \in Rows
              /\ \A p \in Payments : Update(table, answers)[p] = "none" <=> table[p] = "none"
<1>1. ASSUME NEW e \in Payments
      PROVE  /\ Insert(table, e) \in Rows /\ Insert(table, e)[e] = "pending"
             /\ \A p \in Payments : p # e => Insert(table, e)[p] = table[p]
  BY DEF Insert, Rows, RowStatus
<1>2. ASSUME NEW answers \in Answers(Payments)
      PROVE  /\ Update(table, answers) \in Rows
             /\ \A p \in Payments : Update(table, answers)[p] = "none" <=> table[p] = "none"
  <2>1. PICK b \in SUBSET Payments : answers \in [b -> {"reconciled", "rejected", "unknown"}]
    BY AnswersAre
  <2>2. \A p \in DOMAIN answers : answers[p] # "unknown" => answers[p] \in {"reconciled", "rejected"}
    BY <2>1
  <2>3. \A p \in Payments : /\ Update(table, answers)[p] \in RowStatus
                            /\ Update(table, answers)[p] = "none" <=> table[p] = "none"
    BY <2>2 DEF Update, Rows, RowStatus
  <2> QED
    BY <2>3, UpdatedTable DEF Update, Rows
<1> QED
  BY <1>1, <1>2

-----------------------------------------------------------------------------
(* Sums of amounts.                                                          *)

\* Everything that has an amount.
Priced == Payments \cup Credits \cup Cashouts

LEMMA PricedAmount == ASSUME NEW x \in Priced PROVE x.amount \in Nat
BY Parties DEF Priced

LEMMA TotalOfNone == Total({}) = 0
<1> DEFINE f == [e \in {} |-> e.amount]
<1>1. DOMAIN f = {}
  OBVIOUS
<1> HIDE DEF f
<1>2. SumFunction(f) = 0
  BY <1>1, TotalEmpty
<1> QED
  BY <1>2 DEF Total, f

LEMMA TotalType ==
  ASSUME NEW S \in SUBSET Priced, IsFiniteSet(S)
  PROVE  Total(S) \in Nat
<1> DEFINE f == [e \in S |-> e.amount]
<1>1. f \in [S -> Nat]
  BY PricedAmount
<1> HIDE DEF f
<1>2. SumFunction(f) \in Nat
  BY <1>1, TotalIsNat
<1> QED
  BY <1>2 DEF Total, f

LEMMA TotalWith ==
  ASSUME NEW S \in SUBSET Priced, IsFiniteSet(S), NEW e \in Priced, e \notin S
  PROVE  Total(S \cup {e}) = Total(S) + e.amount
<1> DEFINE f == [x \in S |-> x.amount]
           h == [x \in S \cup {e} |-> x.amount]
<1>1. /\ f \in [S -> Int] /\ h \in [S \cup {e} -> Int]
      /\ \A x \in S : h[x] = f[x]
      /\ h[e] = e.amount
  BY PricedAmount
<1> HIDE DEF f, h
<1>2. SumFunction(h) = SumFunction(f) + h[e]
  BY <1>1, TotalAdd
<1> QED
  BY <1>1, <1>2 DEF Total, f, h

LEMMA TotalApart ==
  ASSUME NEW S \in SUBSET Priced, IsFiniteSet(S), NEW R \in SUBSET S
  PROVE  Total(S) = Total(R) + Total(S \ R)
<1>1. PICK T : T = S \ R
  OBVIOUS
<1> DEFINE f == [x \in S |-> x.amount]
           g == [x \in R |-> x.amount]
           h == [x \in T |-> x.amount]
<1>2. f \in [S -> Int] /\ g \in [R -> Int] /\ h \in [T -> Int]
  BY <1>1, PricedAmount
<1>3. (\A x \in R : g[x] = f[x]) /\ (\A x \in T : h[x] = f[x])
  BY <1>1
<1>4. S = R \cup T /\ R \cap T = {}
  BY <1>1
<1> HIDE DEF f, g, h
<1>5. SumFunction(f) = SumFunction(g) + SumFunction(h)
  BY <1>2, <1>3, <1>4, TotalSplit
<1> QED
  BY <1>1, <1>5 DEF Total, f, g, h

LEMMA TotalLess ==
  ASSUME NEW S \in SUBSET Priced, IsFiniteSet(S), NEW R \in SUBSET S
  PROVE  Total(R) <= Total(S)
<1>1. Total(S) = Total(R) + Total(S \ R)
  BY TotalApart
<1>2. Total(R) \in Nat /\ Total(S \ R) \in Nat
  <2>1. R \in SUBSET Priced /\ IsFiniteSet(R)
    BY FS_Subset
  <2>2. S \ R \in SUBSET Priced /\ IsFiniteSet(S \ R)
    BY FS_Subset
  <2> QED
    BY <2>1, <2>2, TotalType
<1> QED
  BY <1>1, <1>2

\* With one more pending payment, what is still owed and what a snapshot does
\* not know to be made are together no more than what is pending.
LEMMA OwedWithOne ==
  ASSUME NEW P \in SUBSET Payments, IsFiniteSet(P), NEW e \in Payments, e \notin P,
         NEW U \in SUBSET P, NEW gone, U \subseteq gone
  PROVE  /\ Total((P \cup {e}) \ gone) \in Nat /\ Total(U) \in Nat /\ Total(P) \in Nat
         /\ Total((P \cup {e}) \ gone) + Total(U) <= Total(P) + e.amount
<1> DEFINE Q == P \cup {e}
<1>1. /\ Q \in SUBSET Priced /\ IsFiniteSet(Q) /\ U \in SUBSET Q
      /\ P \in SUBSET Priced /\ e \in Priced
  BY FS_AddElement DEF Priced
<1>2. /\ Q \ U \in SUBSET Priced /\ IsFiniteSet(Q \ U)
      /\ Q \ gone \in SUBSET (Q \ U)
      /\ Q \ gone \in SUBSET Priced /\ IsFiniteSet(Q \ gone)
      /\ U \in SUBSET Priced /\ IsFiniteSet(U)
  BY <1>1, FS_Subset
<1> HIDE DEF Q
<1>3. Total(Q) = Total(U) + Total(Q \ U)
  BY <1>1, TotalApart
<1>4. Total(Q \ gone) <= Total(Q \ U)
  BY <1>2, TotalLess
<1>5. Total(Q) = Total(P) + e.amount
  BY <1>1, TotalWith DEF Q
<1>6. /\ Total(Q \ gone) \in Nat /\ Total(U) \in Nat /\ Total(P) \in Nat
      /\ Total(Q \ U) \in Nat
  BY <1>1, <1>2, TotalType
<1>7. e.amount \in Nat
  BY Parties
<1>8. Total(Q \ gone) + Total(U) <= Total(P) + e.amount
  BY <1>3, <1>4, <1>5, <1>6, <1>7
<1> QED
  BY <1>6, <1>8 DEF Q

-----------------------------------------------------------------------------
(* The server.                                                               *)

LEMMA MoneySets ==
  ASSUME ServerTypeOK, IsFiniteSet(issued)
  PROVE  /\ settled \in SUBSET Priced /\ IsFiniteSet(settled)
         /\ OtherIncome \in SUBSET Priced /\ IsFiniteSet(OtherIncome)
         /\ returned \in SUBSET Priced /\ IsFiniteSet(returned) /\ Total(returned) \in Nat
         /\ balance[Student] \in Nat /\ balance[Merchant] \in Nat
<1>1. settled \in SUBSET Priced /\ IsFiniteSet(settled)
  BY FS_Subset DEF ServerTypeOK, Priced
<1>2. /\ returned \in SUBSET Priced /\ IsFiniteSet(returned)
  <2>1. returned \subseteq Cashouts
    BY DEF ServerTypeOK
  <2> QED
    BY <2>1, ServerAssumption, FS_Subset DEF Priced
<1>3. OtherIncome \in SUBSET Priced /\ IsFiniteSet(OtherIncome)
  <2>1. {c \in credited : c.user = Merchant} \subseteq Credits
    BY DEF ServerTypeOK
  <2>2. IsFiniteSet({c \in credited : c.user = Merchant})
    BY <2>1, ServerAssumption, FS_Subset
  <2> QED
    BY <1>2, <2>1, <2>2, FS_Union DEF OtherIncome, Priced
<1>4. balance[Student] \in Nat /\ balance[Merchant] \in Nat
  BY Parties DEF ServerTypeOK
<1> QED
  BY <1>1, <1>2, <1>3, <1>4, TotalType

\* The balance and its bounds after a change of what the two have.
LEMMA BalanceMoves ==
  ASSUME ServerTypeOK, IsFiniteSet(issued), NEW s \in Nat, NEW m \in Nat, NEW limit,
         balance' = [balance EXCEPT ![Student] = s, ![Merchant] = m],
         s <= MaxBalance, m <= limit
  PROVE  /\ balance' \in [Users -> Nat]
         /\ balance'[Student] = s /\ balance'[Merchant] = m
         /\ balance'[Student] <= MaxBalance /\ balance'[Merchant] <= limit
BY Parties DEF ServerTypeOK

LEMMA PaidEffect ==
  ASSUME ServerTypeOK, IsFiniteSet(issued), NEW e \in Payments, Commit(e)
  PROVE  /\ ServerTypeOK'
         /\ balance'[Student] = balance[Student] - e.amount
         /\ balance'[Merchant] = balance[Merchant] + e.amount
         /\ settled' = settled \cup {e} /\ e \notin settled
         /\ UNCHANGED <<OtherIncome, issued>>
<1>1. /\ e.amount \in Nat /\ e.amount <= balance[Student]
      /\ balance[Merchant] + e.amount <= MaxBalance
      /\ balance' = [balance EXCEPT ![Student] = @ - e.amount, ![Merchant] = @ + e.amount]
      /\ settled' = settled \cup {e} /\ e \notin settled
      /\ UNCHANGED <<credited, issued, closed, paidOut, returned>>
      /\ e \in claims /\ claims' \subseteq claims
  BY Parties DEF Commit, Pay, Fundable, Fits, NumberUsed
<1>2. /\ balance[Student] \in Nat /\ balance[Merchant] \in Nat /\ Total(returned) \in Nat
      /\ balance[Student] <= MaxBalance /\ MaxBalance \in Nat
  BY MoneySets, Parties DEF ServerTypeOK
<1>3. /\ balance[Student] - e.amount \in Nat /\ balance[Student] - e.amount <= MaxBalance
      /\ balance[Merchant] + e.amount \in Nat
      /\ balance[Merchant] + e.amount <= MaxBalance + Total(returned)
  BY <1>1, <1>2
<1>4. balance' = [balance EXCEPT ![Student] = balance[Student] - e.amount,
                                 ![Merchant] = balance[Merchant] + e.amount]
  BY <1>1, Parties DEF ServerTypeOK
<1>5. /\ balance' \in [Users -> Nat]
      /\ balance'[Student] = balance[Student] - e.amount
      /\ balance'[Merchant] = balance[Merchant] + e.amount
      /\ balance'[Student] <= MaxBalance
      /\ balance'[Merchant] <= MaxBalance + Total(returned)
  BY <1>3, <1>4, BalanceMoves
<1>6. settled' \subseteq issued'
  BY <1>1 DEF ServerTypeOK
<1>7. ServerTypeOK'
  BY <1>1, <1>5, <1>6 DEF ServerTypeOK
<1> QED
  BY <1>1, <1>5, <1>7 DEF OtherIncome

LEMMA TopUpEffect ==
  ASSUME ServerTypeOK, IsFiniteSet(issued), NEW c \in Credits, TopUp(c)
  PROVE  /\ ServerTypeOK'
         /\ balance'[Student] >= balance[Student]
         /\ \/ balance'[Merchant] = balance[Merchant] /\ UNCHANGED OtherIncome
            \/ /\ balance'[Merchant] = balance[Merchant] + c.amount
               /\ OtherIncome' = OtherIncome \cup {c} /\ c \notin OtherIncome /\ c \in Priced
         /\ UNCHANGED <<settled, issued>>
<1>1. /\ c.amount \in Nat /\ c.user \in {Student, Merchant}
      /\ balance[c.user] + c.amount <= MaxBalance
      /\ balance' = [balance EXCEPT ![c.user] = balance[c.user] + c.amount]
      /\ credited' = credited \cup {c} /\ c \notin credited
      /\ UNCHANGED <<settled, issued, closed, claims, paidOut, returned>>
  BY Parties DEF TopUp, Credit, ServerTypeOK
<1>2. /\ balance[Student] \in Nat /\ balance[Merchant] \in Nat /\ Total(returned) \in Nat
      /\ balance[Student] <= MaxBalance /\ MaxBalance \in Nat
      /\ balance[Merchant] <= MaxBalance + Total(returned)
  BY MoneySets, Parties DEF ServerTypeOK
<1>3. balance \in [Users -> Nat] /\ credited' \subseteq Credits
  BY <1>1 DEF ServerTypeOK
<1>4. c \notin returned /\ c \in Priced
  BY ServerAssumption DEF ServerTypeOK, Priced
<1>5. CASE c.user = Student
  <2>1. /\ balance' = [balance EXCEPT ![Student] = balance[Student] + c.amount]
        /\ balance[Student] + c.amount \in Nat /\ balance[Student] + c.amount <= MaxBalance
    BY <1>1, <1>2, <1>5
  <2>2. /\ balance' \in [Users -> Nat]
        /\ balance'[Student] = balance[Student] + c.amount
        /\ balance'[Merchant] = balance[Merchant]
    BY <1>3, <2>1, Parties
  <2>3. UNCHANGED OtherIncome
    BY <1>1, <1>5, Parties DEF OtherIncome
  <2>4. ServerTypeOK'
    BY <1>1, <1>2, <1>3, <2>1, <2>2 DEF ServerTypeOK
  <2>5. balance'[Student] >= balance[Student]
    BY <1>1, <1>2, <2>2
  <2> QED
    BY <1>1, <2>2, <2>3, <2>4, <2>5
<1>6. CASE c.user = Merchant
  <2>1. /\ balance' = [balance EXCEPT ![Merchant] = balance[Merchant] + c.amount]
        /\ balance[Merchant] + c.amount \in Nat
        /\ balance[Merchant] + c.amount <= MaxBalance + Total(returned)
    BY <1>1, <1>2, <1>6
  <2>2. /\ balance' \in [Users -> Nat]
        /\ balance'[Student] = balance[Student]
        /\ balance'[Merchant] = balance[Merchant] + c.amount
    BY <1>3, <2>1, Parties
  <2>3. OtherIncome' = OtherIncome \cup {c} /\ c \notin OtherIncome
    BY <1>1, <1>4, <1>6 DEF OtherIncome
  <2>4. ServerTypeOK'
    BY <1>1, <1>2, <1>3, <2>1, <2>2 DEF ServerTypeOK
  <2>5. balance'[Student] >= balance[Student]
    BY <1>2, <2>2
  <2> QED
    BY <1>1, <1>4, <2>2, <2>3, <2>4, <2>5
<1> QED
  BY <1>1, <1>5, <1>6

LEMMA CashoutEffect ==
  ASSUME ServerTypeOK, IsFiniteSet(issued), NEW w \in Cashouts, CashOut(w) \/ GiveBack(w)
  PROVE  /\ ServerTypeOK'
         /\ balance'[Student] = balance[Student]
         /\ \/ balance'[Merchant] <= balance[Merchant] /\ UNCHANGED OtherIncome
            \/ /\ balance'[Merchant] = balance[Merchant] + w.amount
               /\ OtherIncome' = OtherIncome \cup {w} /\ w \notin OtherIncome /\ w \in Priced
         /\ UNCHANGED <<settled, issued>>
<1>1. /\ balance[Student] \in Nat /\ balance[Merchant] \in Nat /\ Total(returned) \in Nat
      /\ MaxBalance \in Nat /\ w.amount \in Nat
      /\ balance[Merchant] <= MaxBalance + Total(returned)
      /\ returned \in SUBSET Priced /\ IsFiniteSet(returned)
  BY MoneySets, Parties DEF ServerTypeOK
<1>2. balance \in [Users -> Nat] /\ UNCHANGED <<settled, credited, issued, closed, claims>>
  BY DEF CashOut, GiveBack, ServerTypeOK
<1>3. w \in Priced /\ w \notin credited
  BY ServerAssumption DEF ServerTypeOK, Priced
<1>4. CASE CashOut(w)
  <2>1. /\ balance' = [balance EXCEPT ![Merchant] = balance[Merchant] - w.amount]
        /\ balance[Merchant] - w.amount \in Nat
        /\ balance[Merchant] - w.amount <= balance[Merchant]
        /\ paidOut' = paidOut \cup {w} /\ returned' = returned
    BY <1>1, <1>2, <1>4 DEF CashOut
  <2>2. /\ balance' \in [Users -> Nat]
        /\ balance'[Student] = balance[Student]
        /\ balance'[Merchant] = balance[Merchant] - w.amount
    BY <1>2, <2>1, Parties
  <2>3. balance'[Merchant] <= MaxBalance + Total(returned)
    BY <1>1, <2>1, <2>2
  <2>4. ServerTypeOK'
    BY <1>2, <2>1, <2>2, <2>3 DEF ServerTypeOK
  <2> QED
    BY <1>2, <2>1, <2>2, <2>4 DEF OtherIncome
<1>5. CASE GiveBack(w)
  <2>1. /\ balance' = [balance EXCEPT ![Merchant] = balance[Merchant] + w.amount]
        /\ balance[Merchant] + w.amount \in Nat
        /\ w \in paidOut /\ w \notin returned
        /\ returned' = returned \cup {w} /\ paidOut' = paidOut
    BY <1>1, <1>2, <1>5 DEF GiveBack
  <2>2. /\ balance' \in [Users -> Nat]
        /\ balance'[Student] = balance[Student]
        /\ balance'[Merchant] = balance[Merchant] + w.amount
    BY <1>2, <2>1, Parties
  <2>3. Total(returned') = Total(returned) + w.amount
    BY <1>1, <1>3, <2>1, TotalWith
  <2>4. balance'[Merchant] <= MaxBalance + Total(returned')
    BY <1>1, <2>2, <2>3
  <2>5. ServerTypeOK'
    BY <1>2, <2>1, <2>2, <2>4 DEF ServerTypeOK
  <2>6. OtherIncome' = OtherIncome \cup {w} /\ w \notin OtherIncome
    BY <1>2, <1>3, <2>1 DEF OtherIncome
  <2> QED
    BY <1>2, <1>3, <2>2, <2>5, <2>6
<1> QED
  BY <1>4, <1>5

\* What was signed, and what the server takes of it.
LEMMA IssuedStep ==
  ASSUME TablesInv, [Next]_vars
  PROVE  /\ issued' \in SUBSET Payments /\ issued \subseteq issued' /\ IsFiniteSet(issued')
         /\ closed' \subseteq issued' /\ claims' \subseteq issued'
<1> DEFINE Fine == /\ issued' \in SUBSET Payments /\ issued \subseteq issued'
                   /\ IsFiniteSet(issued') /\ closed' \subseteq issued'
<1>1. /\ issued \in SUBSET Payments /\ closed \subseteq issued /\ settled \subseteq issued
      /\ claims \subseteq issued /\ IsFiniteSet(issued)
  BY DEF TablesInv, TillTypeOK, WalletTypeOK, ServerTypeOK
<1>2. ASSUME UNCHANGED <<issued, closed>>
      PROVE  Fine
  BY <1>1, <1>2
<1>3. ASSUME NEW a \in Amounts, Sign(a)
      PROVE  Fine
  <2>1. Signed(a) \in Payments /\ issued' = issued \cup {Signed(a)} /\ closed' = closed
    BY <1>3 DEF Sign
  <2>2. IsFiniteSet(issued')
    BY <1>1, <2>1, FS_AddElement
  <2> QED
    BY <1>1, <2>1, <2>2
<1>4. ASSUME NewPhone
      PROVE  Fine
  BY <1>1, <1>4 DEF NewPhone
<1>5. ASSUME ServerStep
      PROVE  Fine
  <2>1. closed' = closed \/ \E e \in Payments : Close(e)
    BY <1>5 DEF ServerStep, Commit, DropClaim, TopUp, CashOut, GiveBack
  <2> QED
    BY <1>1, <1>5, <2>1, ServerStepLeaves DEF Close
<1>6. ASSUME NEW s \in Screens, NEW e \in Payments, Receive(s, e)
      PROVE  Fine
  BY <1>2, <1>6, ReceiveLeaves
<1>7. TillStep => UNCHANGED <<issued, closed>>
  BY TillLeavesServer DEF serverVars
<1>8. UNCHANGED vars => UNCHANGED <<issued, closed>>
  BY DEF vars, serverVars
<1>9. WalletStep => Fine
  BY <1>2, <1>3, <1>4, WalletLeavesServer
<1>10. Fine
  BY <1>2, <1>5, <1>6, <1>7, <1>8, <1>9 DEF Next
<1>11. \A e \in claims' : e \in issued'
  <2>1. \A s \in Screens : syncs[s] # Resting => syncs[s].todo \subseteq issued
    BY DEF TablesInv, Known
  <2> QED
    BY <1>1, <1>10, <2>1, ClaimsMove
<1> QED
  BY <1>10, <1>11

LEMMA ServerTyped ==
  ASSUME TablesInv, [Next]_vars
  PROVE  ServerTypeOK'
<1>1. ServerTypeOK /\ IsFiniteSet(issued)
  BY DEF TablesInv, TillTypeOK, WalletTypeOK
<1>2. CASE UNCHANGED moneyVars
  BY <1>1, <1>2, IssuedStep DEF ServerTypeOK, moneyVars, ledgerVars
<1>3. CASE ~UNCHANGED moneyVars
  BY <1>1, <1>3, MoneyMoves, PaidEffect, TopUpEffect, CashoutEffect
<1> QED
  BY <1>2, <1>3

-----------------------------------------------------------------------------
(* The phones.                                                               *)

LEMMA RefreshTypes ==
  /\ Idle \in Refresh /\ [at |-> "polled"] \in Refresh
  /\ \A todo \in SUBSET Payments : Ask(todo) \in Refresh
  /\ \A todo \in SUBSET Payments, answers \in Answers(Payments) :
       [at |-> "answered", todo |-> todo, answers |-> answers] \in Refresh
  /\ \A me \in Snapshot : [at |-> "fetched", me |-> me] \in Refresh
BY DEF Refresh, Ask

LEMMA AdvanceTypes ==
  ASSUME WalletTypeOK, NEW r \in Refreshes, NEW x \in Refresh, Advance(r, x)
  PROVE  refreshes' \in [Refreshes -> Refresh]
BY DEF WalletTypeOK, Advance

LEMMA ServerSnapshot ==
  ASSUME ServerTypeOK
  PROVE  /\ [available |-> balance[Student], made |-> settled] \in Snapshot
         /\ Me \in Profile
<1>1. balance[Student] \in Nat /\ balance[Merchant] \in Nat
  BY Parties DEF ServerTypeOK
<1>2. settled \in SUBSET Payments
  BY DEF ServerTypeOK
<1>3. OtherIncome \in SUBSET (Credits \cup Cashouts)
  BY DEF ServerTypeOK, OtherIncome
<1> QED
  BY <1>1, <1>2, <1>3 DEF Snapshot, Profile, Me

LEMMA RefreshesTyped ==
  ASSUME TillTypeOK, WalletStep
  PROVE  refreshes' \in [Refreshes -> Refresh]
<1>1. WalletTypeOK /\ ServerTypeOK
  BY DEF TillTypeOK, WalletTypeOK
<1>2. Pending(rows) \in SUBSET Payments
  BY DEF Pending
<1>3. ASSUME NEW r \in Refreshes, BeginRefresh(r) \/ SyncOutgoing(r)
      PROVE  refreshes' \in [Refreshes -> Refresh]
  BY <1>1, <1>2, <1>3, AdvanceTypes, RefreshTypes DEF BeginRefresh, SyncOutgoing
<1>4. ASSUME NEW r \in Refreshes, AnswerBatch(r)
      PROVE  refreshes' \in [Refreshes -> Refresh]
  <2>1. refreshes[r].todo \in SUBSET Payments
    BY <1>1, <1>4, RefreshFields DEF AnswerBatch
  <2>2. PICK b \in SUBSET refreshes[r].todo :
          Advance(r, [at |-> "answered", todo |-> refreshes[r].todo \ b,
                      answers |-> [e \in b |-> Verdict(e)]])
    BY <1>4 DEF AnswerBatch, Batches
  <2>3. [e \in b |-> Verdict(e)] \in Answers(Payments)
    <3>1. [e \in b |-> Verdict(e)] \in [b -> {"reconciled", "rejected", "unknown"}]
      BY DEF Verdict
    <3>2. b \in SUBSET Payments
      BY <2>1
    <3> QED
      BY <3>1, <3>2, AnswersAre
  <2>4. refreshes[r].todo \ b \in SUBSET Payments
    BY <2>1
  <2> QED
    BY <1>1, <2>2, <2>3, <2>4, AdvanceTypes, RefreshTypes
<1>5. ASSUME NEW r \in Refreshes, TakeAnswers(r)
      PROVE  refreshes' \in [Refreshes -> Refresh]
  BY <1>1, <1>5, AdvanceTypes, RefreshTypes, RefreshFields DEF TakeAnswers
<1>6. ASSUME NEW r \in Refreshes, AnswerMe(r)
      PROVE  refreshes' \in [Refreshes -> Refresh]
  BY <1>1, <1>6, AdvanceTypes, RefreshTypes, ServerSnapshot DEF AnswerMe
<1>7. ASSUME NEW r \in Refreshes, PollFails(r) \/ StoreBalance(r) \/ FetchFails(r)
      PROVE  refreshes' \in [Refreshes -> Refresh]
  BY <1>1, <1>7, AdvanceTypes, RefreshTypes DEF PollFails, StoreBalance, FetchFails
<1>8. ASSUME Forget
      PROVE  refreshes' \in [Refreshes -> Refresh]
  BY <1>8, RefreshTypes DEF Forget
<1>9. ASSUME NEW a \in Amounts, Sign(a)
      PROVE  refreshes' \in [Refreshes -> Refresh]
  BY <1>1, <1>9 DEF Sign, WalletTypeOK
<1> QED
  BY <1>3, <1>4, <1>5, <1>6, <1>7, <1>8, <1>9 DEF WalletStep, KillWallet, NewPhone

\* What a step of the student's phone does to its table and stored balance.
LEMMA RowsMove ==
  ASSUME TillTypeOK, WalletStep
  PROVE  \/ UNCHANGED <<rows, phone>> /\ UNCHANGED <<issued, closed>>
              /\ (UNCHANGED stored \/ \E r \in Refreshes : StoreBalance(r))
         \/ \E r \in Refreshes : TakeAnswers(r)
         \/ \E a \in Amounts : Sign(a)
         \/ NewPhone
BY DEF WalletStep, BeginRefresh, SyncOutgoing, AnswerBatch, PollFails, AnswerMe, StoreBalance, FetchFails,
       KillWallet, serverVars

LEMMA WalletTyped ==
  ASSUME TillTypeOK, WalletStep
  PROVE  /\ phone' \in 1 .. MaxPhones /\ rows' \in Rows
         /\ stored' \in Snapshot \cup {None}
<1>1. /\ phone \in 1 .. MaxPhones /\ rows \in Rows /\ stored \in Snapshot \cup {None}
      /\ WalletTypeOK
  BY DEF TillTypeOK, WalletTypeOK
<1>2. ASSUME NEW r \in Refreshes, StoreBalance(r)
      PROVE  stored' \in Snapshot
  BY <1>1, <1>2, RefreshFields DEF StoreBalance
<1>3. ASSUME NEW r \in Refreshes, TakeAnswers(r)
      PROVE  rows' \in Rows /\ UNCHANGED <<phone, stored>>
  BY <1>1, <1>3, RefreshFields, TableChanges DEF TakeAnswers
<1>4. ASSUME NEW a \in Amounts, Sign(a)
      PROVE  rows' \in Rows /\ UNCHANGED <<phone, stored>>
  BY <1>1, <1>4, TableChanges DEF Sign
<1>5. ASSUME NewPhone
      PROVE  phone' \in 1 .. MaxPhones /\ rows' \in Rows /\ stored' = None
  BY <1>1, <1>5, WalletAssumption DEF NewPhone, EmptyRows, Rows, RowStatus
<1> QED
  BY <1>1, <1>2, <1>3, <1>4, <1>5, RowsMove

LEMMA SyncTypes ==
  ASSUME NEW todo \in SUBSET Payments, NEW rest \in SUBSET Payments
  PROVE  /\ Sending(todo, rest) \in Sync
         /\ \A answers \in Answers(Payments) : Submitted(todo, rest, answers) \in Sync
<1>1. <<>> \in Answers(Payments)
  <2>1. <<>> \in [{} -> {"reconciled", "rejected", "unknown"}]
    OBVIOUS
  <2> QED
    BY <2>1 DEF Answers
<1> QED
  BY <1>1 DEF Sending, Submitted, Sync

LEMMA SyncsTyped ==
  ASSUME TillTypeOK, TillStep
  PROVE  syncs' \in [Screens -> Sync]
<1>1. syncs \in [Screens -> Sync] /\ Resting \in Sync
  BY DEF TillTypeOK, Sync
<1>2. ASSUME NEW s \in Screens, NEW all \in SUBSET Payments, NEW b \in Batches(all),
             syncs' = [syncs EXCEPT ![s] = Sending(b, all \ b)]
      PROVE  syncs' \in [Screens -> Sync]
  <2>1. b \in SUBSET Payments /\ all \ b \in SUBSET Payments
    BY DEF Batches
  <2> QED
    BY <1>1, <1>2, <2>1, SyncTypes
<1>3. ASSUME NEW s \in Screens, Submit(s)
      PROVE  syncs' \in [Screens -> Sync]
  <2>1. Pending(till) \in SUBSET Payments
    BY DEF Pending
  <2> QED
    BY <1>2, <1>3, <2>1 DEF Submit
<1>4. ASSUME NEW s \in Screens, Reconcile(s)
      PROVE  syncs' \in [Screens -> Sync]
  <2>1. /\ syncs[s] \in [at : {"submitted"}, todo : SUBSET Payments, rest : SUBSET Payments,
                         answers : Answers(Payments)]
        /\ syncs[s].todo \in SUBSET Payments
        /\ syncs[s].answers \in Answers(Payments)
    BY <1>4, SyncFields DEF Reconcile
  <2>2. PICK e \in syncs[s].todo, status \in {"reconciled", "rejected"} : Answered(s, e, status)
    BY <1>4 DEF Reconcile, MadeOrBefore, Refuse
  <2>3. PICK b \in SUBSET Payments : syncs[s].answers \in [b -> {"reconciled", "rejected", "unknown"}]
    BY <2>1, AnswersAre
  <2>4. AndAlso(syncs[s].answers, e, status)
          \in [b \cup {e} -> {"reconciled", "rejected", "unknown"}]
    BY <2>3 DEF AndAlso
  <2>5. AndAlso(syncs[s].answers, e, status) \in Answers(Payments)
    <3>1. b \cup {e} \in SUBSET Payments
      BY <2>1
    <3> QED
      BY <2>4, <3>1, AnswersAre
  <2>6. syncs[s].todo \ {e} \in SUBSET Payments
    BY <2>1
  <2>7. [syncs[s] EXCEPT !.todo = @ \ {e}, !.answers = AndAlso(@, e, status)] \in Sync
    BY <2>1, <2>5, <2>6 DEF Sync
  <2>8. syncs' = [syncs EXCEPT ![s] = [syncs[s] EXCEPT !.todo = @ \ {e},
                                                       !.answers = AndAlso(@, e, status)]]
    BY <1>1, <2>2 DEF Answered
  <2> QED
    BY <1>1, <2>7, <2>8
<1>5. ASSUME NEW s \in Screens, TakeResults(s)
      PROVE  syncs' \in [Screens -> Sync]
  <2>1. syncs[s].rest \in SUBSET Payments
    BY <1>5, SyncFields DEF TakeResults
  <2> QED
    BY <1>1, <1>2, <1>5, <2>1 DEF TakeResults
<1>6. ASSUME NEW s \in Screens, SyncFails(s)
      PROVE  syncs' \in [Screens -> Sync]
  BY <1>1, <1>6 DEF SyncFails
<1>7. CASE KillTill
  BY <1>1, <1>7 DEF KillTill
<1> QED
  BY <1>1, <1>3, <1>4, <1>5, <1>6, <1>7 DEF TillStep, Scan, AnswerProfile, TakeProfile, ProfileFails

\* The merchant's table changes when a payment is scanned and when a submission
\* is answered.
LEMMA TillMoves ==
  ASSUME TillTypeOK, TillStep
  PROVE  \/ UNCHANGED till
         \/ \E s \in Screens : TakeResults(s)
         \/ \E e \in Payments : Scan(e)
BY DEF TillStep, Submit, Reconcile, SyncFails, AnswerProfile, TakeProfile, ProfileFails, KillTill

LEMMA TillTyped ==
  ASSUME TillTypeOK, TillStep
  PROVE  till' \in Rows /\ verified' \in Profile /\ profiles' \in [Fetches -> Fetch]
<1>1. till \in Rows /\ verified \in Profile /\ profiles \in [Fetches -> Fetch]
  BY DEF TillTypeOK
<1>2. till' \in Rows
  <2>1. ASSUME NEW s \in Screens, TakeResults(s)
        PROVE  till' \in Rows
    BY <1>1, <2>1, SyncFields, TableChanges DEF TakeResults
  <2>2. ASSUME NEW e \in Payments, Scan(e)
        PROVE  till' \in Rows
    BY <1>1, <2>2, TableChanges DEF Scan
  <2> QED
    BY <1>1, <2>1, <2>2, TillMoves
<1>3. NotAsked \in Fetch /\ \A me \in Profile : [at |-> "fetched", me |-> me] \in Fetch
  BY DEF Fetch
<1>4. ASSUME NEW f \in Fetches, AnswerProfile(f)
      PROVE  verified' \in Profile /\ profiles' \in [Fetches -> Fetch]
  <2>1. Me \in Profile
    BY ServerSnapshot DEF TillTypeOK, WalletTypeOK
  <2> QED
    BY <1>1, <1>3, <1>4, <2>1 DEF AnswerProfile
<1>5. ASSUME NEW f \in Fetches, TakeProfile(f) \/ ProfileFails(f)
      PROVE  verified' \in Profile /\ profiles' \in [Fetches -> Fetch]
  BY <1>1, <1>3, <1>5, FetchFields DEF TakeProfile, ProfileFails
<1>6. CASE KillTill
  BY <1>1, <1>2, <1>3, <1>6 DEF KillTill
<1>7. CASE \E e \in Payments : Scan(e)
  BY <1>1, <1>2, <1>7 DEF Scan
<1>8. CASE \E s \in Screens : Submit(s) \/ Reconcile(s) \/ TakeResults(s) \/ SyncFails(s)
  BY <1>1, <1>2, <1>8 DEF Submit, Reconcile, TakeResults, SyncFails
<1> QED
  BY <1>2, <1>4, <1>5, <1>6, <1>7, <1>8 DEF TillStep

LEMMA TypesStep ==
  ASSUME TablesInv, [Next]_vars
  PROVE  TillTypeOK'
<1>1. TillTypeOK
  BY DEF TablesInv
<1>2. WalletTypeOK'
  <2>1. CASE WalletStep
    BY <1>1, <2>1, WalletTyped, RefreshesTyped, ServerTyped DEF WalletTypeOK
  <2>2. CASE UNCHANGED walletVars
    BY <1>1, <2>2, ServerTyped DEF TillTypeOK, WalletTypeOK, walletVars
  <2> QED
    BY <2>1, <2>2, PhonesApart
<1>3. /\ till' \in Rows /\ verified' \in Profile
      /\ syncs' \in [Screens -> Sync] /\ profiles' \in [Fetches -> Fetch]
  <2>1. CASE TillStep
    BY <1>1, <2>1, TillTyped, SyncsTyped
  <2>2. CASE UNCHANGED tillVars
    BY <1>1, <2>2 DEF TillTypeOK, tillVars
  <2> QED
    BY <2>1, <2>2, PhonesApart
<1> QED
  BY <1>2, <1>3 DEF TillTypeOK

\* A phone has rows of signed payments only.
LEMMA RowsKnown ==
  ASSUME TablesInv, [Next]_vars
  PROVE  \A e \in Payments : rows'[e] # "none" \/ till'[e] # "none" => e \in issued'
<1>1. /\ rows \in Rows /\ till \in Rows /\ TillTypeOK /\ WalletTypeOK
      /\ \A e \in Payments : rows[e] # "none" \/ till[e] # "none" => e \in issued
  BY DEF TablesInv, TillTypeOK, WalletTypeOK, Known
<1>2. issued \subseteq issued'
  BY IssuedStep
<1> DEFINE Old == \A e \in Payments : rows'[e] # "none" => e \in issued'
           Scanned == \A e \in Payments : till'[e] # "none" => e \in issued
<1>3. ASSUME NEW r \in Refreshes, TakeAnswers(r)
      PROVE  Old
  <2>1. \A e \in Payments : rows'[e] = "none" <=> rows[e] = "none"
    BY <1>1, <1>3, RefreshFields, TableChanges DEF TakeAnswers
  <2> QED
    BY <1>1, <1>2, <2>1
<1>4. ASSUME NEW a \in Amounts, Sign(a)
      PROVE  Old
  <2>1. /\ Signed(a) \in Payments /\ Insertable(rows, Signed(a))
        /\ rows' = Insert(rows, Signed(a)) /\ issued' = issued \cup {Signed(a)}
    BY <1>4 DEF Sign
  <2>2. \A p \in Payments : p # Signed(a) => rows'[p] = rows[p]
    BY <1>1, <2>1, TableChanges
  <2> QED
    BY <1>1, <2>1, <2>2
<1>5. NewPhone => Old
  BY DEF NewPhone, EmptyRows
<1>6. ASSUME UNCHANGED rows
      PROVE  Old
  BY <1>1, <1>2, <1>6
<1>7. WalletStep => Old
  BY <1>1, <1>3, <1>4, <1>5, <1>6, RowsMove
<1>8. UNCHANGED walletVars => UNCHANGED rows
  BY DEF walletVars
<1>9. Old
  BY <1>6, <1>7, <1>8, PhonesApart
<1>10. ASSUME NEW s \in Screens, TakeResults(s)
       PROVE  Scanned
  <2>1. \A e \in Payments : till'[e] = "none" <=> till[e] = "none"
    BY <1>1, <1>10, SyncFields, TableChanges DEF TakeResults
  <2> QED
    BY <1>1, <2>1
<1>11. ASSUME NEW e \in Payments, Scan(e)
       PROVE  Scanned
  <2>1. e \in issued /\ \A p \in Payments : p # e => till'[p] = till[p]
    BY <1>1, <1>11, TableChanges DEF Scan
  <2> QED
    BY <1>1, <2>1
<1>12. ASSUME UNCHANGED till
       PROVE  Scanned
  BY <1>1, <1>12
<1>13. TillStep => Scanned
  BY <1>1, <1>10, <1>11, <1>12, TillMoves
<1>14. UNCHANGED tillVars => UNCHANGED till
  BY DEF tillVars
<1>15. Scanned
  BY <1>12, <1>13, <1>14, PhonesApart
<1> QED
  BY <1>2, <1>9, <1>15

\* The merchant's phone submits signed payments only.
LEMMA SyncsKnown ==
  ASSUME TablesInv, [Next]_vars, NEW s \in Screens, syncs'[s] # Resting
  PROVE  syncs'[s].todo \cup syncs'[s].rest \subseteq issued
<1> DEFINE Signs == syncs'[s].todo \cup syncs'[s].rest \subseteq issued
<1>1. /\ TillTypeOK /\ syncs \in [Screens -> Sync]
      /\ \A z \in Screens : syncs[z] # Resting => syncs[z].todo \cup syncs[z].rest \subseteq issued
      /\ \A e \in Payments : till[e] # "none" => e \in issued
  BY DEF TablesInv, TillTypeOK, Known
<1>2. ASSUME syncs'[s] = syncs[s]
      PROVE  Signs
  BY <1>1, <1>2
<1>3. ASSUME NEW z \in Screens, NEW all \in SUBSET issued, NEW b \in Batches(all),
             syncs' = [syncs EXCEPT ![z] = Sending(b, all \ b)]
      PROVE  Signs
  <2>1. CASE z = s
    <3>1. syncs'[s] = Sending(b, all \ b) /\ b \subseteq all
      BY <1>1, <1>3, <2>1 DEF Batches
    <3> QED
      BY <3>1 DEF Sending
  <2>2. CASE z # s
    BY <1>1, <1>2, <1>3, <2>2
  <2> QED
    BY <2>1, <2>2
<1>4. ASSUME NEW z \in Screens, Submit(z)
      PROVE  Signs
  <2>1. Pending(till) \in SUBSET issued
    BY <1>1 DEF Pending
  <2> QED
    BY <1>3, <1>4, <2>1 DEF Submit
<1>5. ASSUME NEW z \in Screens, Reconcile(z)
      PROVE  Signs
  <2>1. PICK e, status : Answered(z, e, status)
    BY <1>5 DEF Reconcile, MadeOrBefore, Refuse
  <2>2. syncs[z] # Resting
    BY <1>5 DEF Reconcile
  <2>3. CASE z = s
    <3>1. syncs[s] \in [at : {"submitted"}, todo : SUBSET Payments, rest : SUBSET Payments,
                        answers : Answers(Payments)]
      BY <1>1, <2>2, <2>3, SyncFields
    <3>2. syncs'[s].todo = syncs[s].todo \ {e} /\ syncs'[s].rest = syncs[s].rest
      BY <1>1, <2>1, <2>3, <3>1 DEF Answered
    <3> QED
      BY <1>1, <2>2, <2>3, <3>2
  <2>4. CASE z # s
    BY <1>1, <1>2, <2>1, <2>4 DEF Answered
  <2> QED
    BY <2>3, <2>4
<1>6. ASSUME NEW z \in Screens, syncs' = [syncs EXCEPT ![z] = Resting]
      PROVE  Signs
  BY <1>1, <1>2, <1>6
<1>7. ASSUME NEW z \in Screens, TakeResults(z) \/ SyncFails(z)
      PROVE  Signs
  <2>1. syncs[z] # Resting => syncs[z].rest \in SUBSET issued
    BY <1>1
  <2> QED
    BY <1>3, <1>6, <1>7, <2>1 DEF TakeResults, SyncFails
<1>8. ~KillTill
  BY DEF KillTill
<1>9. CASE UNCHANGED syncs
  BY <1>2, <1>9
<1>10. CASE TillStep
  BY <1>4, <1>5, <1>7, <1>8, <1>9, <1>10 DEF TillStep, Scan, AnswerProfile, TakeProfile, ProfileFails
<1> QED
  BY <1>9, <1>10, PhonesApart DEF tillVars

LEMMA TablesStart == Init => TablesInv
<1> SUFFICES ASSUME Init
             PROVE  TablesInv
  OBVIOUS
<1>1. /\ balance = InitialBalance /\ settled = {} /\ credited = {} /\ issued = {} /\ closed = {}
      /\ claims = {} /\ paidOut = {} /\ returned = {}
      /\ phone = 1 /\ stored = None
      /\ rows = EmptyRows /\ till = EmptyRows /\ profiles = [f \in Fetches |-> NotAsked]
      /\ refreshes = [r \in Refreshes |-> Idle] /\ syncs = [s \in Screens |-> Resting]
  BY DEF Init, WalletInit, ServerInit, LedgerInit
<1>2. EmptyRows \in Rows /\ \A e \in Payments : EmptyRows[e] = "none"
  BY DEF EmptyRows, Rows, RowStatus
<1>3. ServerTypeOK
  <2>1. balance \in [Users -> 0 .. MaxBalance]
    BY <1>1, ServerAssumption
  <2>2. /\ balance \in [Users -> Nat] /\ MaxBalance \in Nat
        /\ balance[Student] <= MaxBalance /\ balance[Merchant] <= MaxBalance
    BY <2>1, Parties
  <2>3. Total(returned) = 0
    BY <1>1, TotalOfNone
  <2> QED
    BY <1>1, <2>2, <2>3 DEF ServerTypeOK
<1>4. WalletTypeOK
  BY <1>1, <1>2, <1>3, RefreshTypes, WalletAssumption DEF WalletTypeOK
<1>5. verified \in Profile
  BY <1>3, ServerSnapshot DEF Init
<1>6. syncs \in [Screens -> Sync] /\ profiles \in [Fetches -> Fetch]
  BY <1>1 DEF Sync, Fetch
<1>7. TillTypeOK
  BY <1>1, <1>2, <1>4, <1>5, <1>6 DEF TillTypeOK
<1>8. Known
  BY <1>1, <1>2 DEF Known
<1> QED
  BY <1>1, <1>7, <1>8, FS_EmptySet DEF TablesInv

LEMMA TablesStep == TablesInv /\ [Next]_vars => TablesInv'
<1> SUFFICES ASSUME TablesInv, [Next]_vars
             PROVE  TablesInv'
  OBVIOUS
<1>1. \A s \in Screens : syncs'[s] # Resting => syncs'[s].todo \cup syncs'[s].rest \subseteq issued'
  BY IssuedStep, SyncsKnown
<1> QED
  BY <1>1, TypesStep, IssuedStep, RowsKnown DEF TablesInv, Known

\* Every table, request in flight and snapshot of the two phones keeps its
\* type, and no balance leaves its bounds (buildAndSignEnvelope,
\* syncPendingEnvelopes, refreshData of the home screens).
THEOREM PhonesAreTyped == Spec => []TillTypeOK
<1>1. Init => TablesInv
  BY TablesStart
<1>2. TablesInv /\ [Next]_vars => TablesInv'
  BY TablesStep
<1>3. TablesInv => TillTypeOK
  BY DEF TablesInv
<1> QED
  BY <1>1, <1>2, <1>3, PTL DEF Spec

-----------------------------------------------------------------------------
(* What a phone knows of its balance.  Since the server answered with it     *)
(* only the payments it does not account for took from the student's         *)
(* balance, and only they and the merchant's other income added to the       *)
(* merchant's.                                                               *)

PayerKnows(m) ==
  /\ m.made \subseteq settled
  /\ m.available <= balance[Student] + Total(settled \ m.made)

PayeeKnows(m) ==
  /\ m.made \subseteq settled
  /\ m.other \subseteq OtherIncome
  /\ balance[Merchant]
       <= m.available + Total(settled \ m.made) + Total(OtherIncome \ m.other)

SnapshotsInv ==
  /\ stored # None => PayerKnows(stored)
  /\ \A r \in Refreshes : refreshes[r].at = "fetched" => PayerKnows(refreshes[r].me)
  /\ PayeeKnows(verified)
  /\ \A f \in Fetches : profiles[f] # NotAsked => PayeeKnows(profiles[f].me)

LEMMA SumsAre ==
  ASSUME TablesInv
  PROVE  /\ balance[Student] \in Nat /\ balance[Merchant] \in Nat
         /\ \A made : /\ settled \ made \in SUBSET Priced /\ IsFiniteSet(settled \ made)
                      /\ Total(settled \ made) \in Nat
         /\ \A other : /\ OtherIncome \ other \in SUBSET Priced
                       /\ IsFiniteSet(OtherIncome \ other)
                       /\ Total(OtherIncome \ other) \in Nat
<1>1. /\ settled \in SUBSET Priced /\ IsFiniteSet(settled)
      /\ OtherIncome \in SUBSET Priced /\ IsFiniteSet(OtherIncome)
      /\ balance[Student] \in Nat /\ balance[Merchant] \in Nat
  BY MoneySets DEF TablesInv, TillTypeOK, WalletTypeOK
<1>2. \A made : settled \ made \in SUBSET Priced /\ IsFiniteSet(settled \ made)
  BY <1>1, FS_Subset
<1>3. \A other : OtherIncome \ other \in SUBSET Priced /\ IsFiniteSet(OtherIncome \ other)
  BY <1>1, FS_Subset
<1> QED
  BY <1>1, <1>2, <1>3, TotalType

LEMMA FreshPayer ==
  ASSUME TablesInv, NEW m, m = [available |-> balance[Student], made |-> settled]
  PROVE  PayerKnows(m)
<1>1. settled \ settled = {} /\ balance[Student] \in Nat
  BY SumsAre
<1>2. m.available = balance[Student] /\ m.made = settled
  OBVIOUS
<1> QED
  BY <1>1, <1>2, TotalOfNone DEF PayerKnows

LEMMA FreshPayee ==
  ASSUME TablesInv, NEW m, m = Me
  PROVE  PayeeKnows(m)
<1>1. /\ settled \ settled = {} /\ OtherIncome \ OtherIncome = {}
      /\ balance[Merchant] \in Nat
  BY SumsAre
<1>2. m.available = balance[Merchant] /\ m.made = settled /\ m.other = OtherIncome
  BY DEF Me
<1> QED
  BY <1>1, <1>2, TotalOfNone DEF PayeeKnows

\* One more in a set of amounts that a snapshot does not account for.
LEMMA OneMore ==
  ASSUME NEW S, NEW T, NEW e \in Priced, NEW old, T = S \cup {e}, e \notin S, old \subseteq S,
         S \ old \in SUBSET Priced, IsFiniteSet(S \ old)
  PROVE  old \subseteq T /\ Total(T \ old) = Total(S \ old) + e.amount
<1>1. T \ old = (S \ old) \cup {e} /\ e \notin S \ old
  OBVIOUS
<1> QED
  BY <1>1, TotalWith

LEMMA PayerStep ==
  ASSUME TablesInv, [Next]_vars, NEW m \in Snapshot, PayerKnows(m)
  PROVE  PayerKnows(m)'
<1>1. /\ m.made \subseteq settled /\ m.available \in Nat
      /\ m.available <= balance[Student] + Total(settled \ m.made)
      /\ Total(settled \ m.made) \in Nat /\ balance[Student] \in Nat
      /\ settled \ m.made \in SUBSET Priced /\ IsFiniteSet(settled \ m.made)
      /\ ServerTypeOK /\ IsFiniteSet(issued)
  BY SumsAre DEF PayerKnows, Snapshot, TablesInv, TillTypeOK, WalletTypeOK
<1>2. ASSUME NEW e \in Payments, Commit(e)
      PROVE  PayerKnows(m)'
  <2>1. /\ balance'[Student] = balance[Student] - e.amount
        /\ settled' = settled \cup {e} /\ e \notin settled
    BY <1>1, <1>2, PaidEffect
  <2>2. e \in Priced /\ e.amount \in Nat
    BY Parties DEF Priced
  <2>3. /\ m.made \subseteq settled'
        /\ Total(settled' \ m.made) = Total(settled \ m.made) + e.amount
    BY <1>1, <2>1, <2>2, OneMore
  <2>4. m.available <= balance'[Student] + Total(settled' \ m.made)
    BY <1>1, <2>1, <2>2, <2>3
  <2> QED
    BY <2>3, <2>4 DEF PayerKnows
<1>3. ASSUME settled' = settled, balance'[Student] \in Nat, balance'[Student] >= balance[Student]
      PROVE  PayerKnows(m)'
  <2>1. m.available <= balance'[Student] + Total(settled' \ m.made)
    BY <1>1, <1>3
  <2> QED
    BY <1>1, <1>3, <2>1 DEF PayerKnows
<1>4. balance'[Student] \in Nat
  BY ServerTyped, Parties DEF ServerTypeOK
<1>5. ASSUME NEW c \in Credits, TopUp(c)
      PROVE  PayerKnows(m)'
  BY <1>1, <1>3, <1>4, <1>5, TopUpEffect
<1>6. ASSUME NEW w \in Cashouts, CashOut(w) \/ GiveBack(w)
      PROVE  PayerKnows(m)'
  <2>1. settled' = settled /\ balance'[Student] = balance[Student]
    BY <1>1, <1>6, CashoutEffect
  <2> QED
    BY <1>1, <1>3, <2>1
<1>7. CASE UNCHANGED moneyVars
  BY <1>1, <1>3, <1>7 DEF moneyVars, ledgerVars
<1> QED
  BY <1>2, <1>5, <1>6, <1>7, MoneyMoves

LEMMA PayeeStep ==
  ASSUME TablesInv, [Next]_vars, NEW m \in Profile, PayeeKnows(m)
  PROVE  PayeeKnows(m)'
<1> DEFINE before == Total(settled \ m.made)
           others == Total(OtherIncome \ m.other)
<1>1. /\ m.made \subseteq settled /\ m.other \subseteq OtherIncome /\ m.available \in Nat
      /\ balance[Merchant] <= m.available + before + others
      /\ before \in Nat /\ others \in Nat /\ balance[Merchant] \in Nat
      /\ settled \ m.made \in SUBSET Priced /\ IsFiniteSet(settled \ m.made)
      /\ OtherIncome \ m.other \in SUBSET Priced /\ IsFiniteSet(OtherIncome \ m.other)
      /\ ServerTypeOK /\ IsFiniteSet(issued)
  BY SumsAre DEF PayeeKnows, Profile, TablesInv, TillTypeOK, WalletTypeOK
<1>2. balance'[Merchant] \in Nat
  BY ServerTyped, Parties DEF ServerTypeOK
<1>3. ASSUME NEW e \in Payments, Commit(e)
      PROVE  PayeeKnows(m)'
  <2>1. /\ balance'[Merchant] = balance[Merchant] + e.amount
        /\ settled' = settled \cup {e} /\ e \notin settled /\ OtherIncome' = OtherIncome
    BY <1>1, <1>3, PaidEffect
  <2>2. e \in Priced /\ e.amount \in Nat
    BY Parties DEF Priced
  <2>3. /\ m.made \subseteq settled'
        /\ Total(settled' \ m.made) = before + e.amount
    <3>1. m.made \subseteq settled /\ settled \ m.made \in SUBSET Priced /\ IsFiniteSet(settled \ m.made)
      BY <1>1
    <3> QED
      BY <2>1, <2>2, <3>1, OneMore
  <2>4. balance'[Merchant] <= m.available + Total(settled' \ m.made) + others
    <3> HIDE DEF before, others
    <3> QED
      BY <1>1, <2>1, <2>2, <2>3
  <2> QED
    BY <1>1, <2>1, <2>3, <2>4 DEF PayeeKnows
<1>4. ASSUME NEW x \in Priced, x.amount \in Nat, settled' = settled,
             balance'[Merchant] = balance[Merchant] + x.amount,
             OtherIncome' = OtherIncome \cup {x}, x \notin OtherIncome
      PROVE  PayeeKnows(m)'
  <2>1. /\ m.other \subseteq OtherIncome'
        /\ Total(OtherIncome' \ m.other) = others + x.amount
    BY <1>1, <1>4, OneMore
  <2>2. balance'[Merchant] <= m.available + before + Total(OtherIncome' \ m.other)
    <3> HIDE DEF before, others
    <3> QED
      BY <1>1, <1>4, <2>1
  <2> QED
    BY <1>1, <1>4, <2>1, <2>2 DEF PayeeKnows
<1>5. ASSUME settled' = settled, OtherIncome' = OtherIncome,
             balance'[Merchant] <= balance[Merchant]
      PROVE  PayeeKnows(m)'
  <2>1. balance'[Merchant] <= m.available + before + others
    <3> HIDE DEF before, others
    <3> QED
      BY <1>1, <1>2, <1>5
  <2> QED
    BY <1>1, <1>5, <2>1 DEF PayeeKnows
<1>6. ASSUME NEW c \in Credits, TopUp(c)
      PROVE  PayeeKnows(m)'
  <2>1. c.amount \in Nat
    BY Parties
  <2>2. settled' = settled
    BY <1>1, <1>6, TopUpEffect
  <2>3. CASE balance'[Merchant] = balance[Merchant] /\ UNCHANGED OtherIncome
    BY <1>1, <1>5, <2>2, <2>3
  <2>4. CASE ~(balance'[Merchant] = balance[Merchant] /\ UNCHANGED OtherIncome)
    <3>1. /\ balance'[Merchant] = balance[Merchant] + c.amount
          /\ OtherIncome' = OtherIncome \cup {c} /\ c \notin OtherIncome /\ c \in Priced
      BY <1>1, <1>6, <2>4, TopUpEffect
    <3> QED
      BY <1>4, <2>1, <2>2, <3>1
  <2> QED
    BY <2>3, <2>4
<1>7. ASSUME NEW w \in Cashouts, CashOut(w) \/ GiveBack(w)
      PROVE  PayeeKnows(m)'
  <2>1. w.amount \in Nat
    BY Parties
  <2>2. settled' = settled
    BY <1>1, <1>7, CashoutEffect
  <2>3. CASE balance'[Merchant] <= balance[Merchant] /\ UNCHANGED OtherIncome
    BY <1>5, <2>2, <2>3
  <2>4. CASE ~(balance'[Merchant] <= balance[Merchant] /\ UNCHANGED OtherIncome)
    <3>1. /\ balance'[Merchant] = balance[Merchant] + w.amount
          /\ OtherIncome' = OtherIncome \cup {w} /\ w \notin OtherIncome /\ w \in Priced
      BY <1>1, <1>7, <2>4, CashoutEffect
    <3> QED
      BY <1>4, <2>1, <2>2, <3>1
  <2> QED
    BY <2>3, <2>4
<1>8. CASE UNCHANGED moneyVars
  BY <1>1, <1>5, <1>8 DEF moneyVars, ledgerVars, OtherIncome
<1> QED
  BY <1>3, <1>6, <1>7, <1>8, MoneyMoves

\* Where the snapshots of the student's phone come from.
LEMMA FetchedFrom ==
  ASSUME TablesInv, [Next]_vars, NEW r \in Refreshes, refreshes'[r].at = "fetched"
  PROVE  \/ refreshes'[r] = refreshes[r]
         \/ refreshes'[r].me = [available |-> balance[Student], made |-> settled]
<1> DEFINE From == \/ refreshes'[r] = refreshes[r]
                   \/ refreshes'[r].me = [available |-> balance[Student], made |-> settled]
<1>1. refreshes \in [Refreshes -> Refresh]
  BY DEF TablesInv, TillTypeOK, WalletTypeOK
<1>2. ~Forget
  BY DEF Forget, Idle
<1>3. ASSUME NEW q \in Refreshes, NEW x, Advance(q, x), x.at # "fetched"
      PROVE  refreshes'[r] = refreshes[r]
  BY <1>1, <1>3 DEF Advance
<1>4. \A todo : Ask(todo).at # "fetched"
  BY DEF Ask
<1>5. ASSUME NEW q \in Refreshes, BeginRefresh(q) \/ SyncOutgoing(q) \/ TakeAnswers(q)
      PROVE  refreshes'[r] = refreshes[r]
  BY <1>3, <1>4, <1>5 DEF BeginRefresh, SyncOutgoing, TakeAnswers
<1>6. ASSUME NEW q \in Refreshes, PollFails(q) \/ StoreBalance(q) \/ FetchFails(q)
      PROVE  refreshes'[r] = refreshes[r]
  BY <1>3, <1>6 DEF PollFails, StoreBalance, FetchFails, Idle
<1>7. ASSUME NEW q \in Refreshes, AnswerBatch(q)
      PROVE  refreshes'[r] = refreshes[r]
  <2>1. PICK x : Advance(q, x) /\ x.at = "answered"
    BY <1>7 DEF AnswerBatch
  <2> QED
    BY <1>3, <2>1
<1>8. ASSUME NEW q \in Refreshes, AnswerMe(q)
      PROVE  From
  <2>1. CASE q = r
    BY <1>1, <1>8, <2>1 DEF AnswerMe, Advance
  <2>2. CASE q # r
    BY <1>1, <1>8, <2>2 DEF AnswerMe, Advance
  <2> QED
    BY <2>1, <2>2
<1>9. ASSUME NEW a \in Amounts, Sign(a)
      PROVE  refreshes'[r] = refreshes[r]
  BY <1>9 DEF Sign
<1>10. WalletStep => From
  BY <1>2, <1>5, <1>6, <1>7, <1>8, <1>9 DEF WalletStep, KillWallet, NewPhone
<1>11. UNCHANGED walletVars => From
  BY DEF walletVars
<1> QED
  BY <1>10, <1>11, PhonesApart

\* And those of the merchant's.
LEMMA ProfileFrom ==
  ASSUME TablesInv, [Next]_vars
  PROVE  /\ UNCHANGED verified
              \/ \E f \in Fetches : profiles[f] # NotAsked /\ verified' = profiles[f].me
         /\ \A f \in Fetches : profiles'[f] # NotAsked =>
              profiles'[f] = profiles[f] \/ profiles'[f] = [at |-> "fetched", me |-> Me]
<1> DEFINE Taken == UNCHANGED verified
                      \/ \E f \in Fetches : profiles[f] # NotAsked /\ verified' = profiles[f].me
           From  == \A f \in Fetches : profiles'[f] # NotAsked =>
                      profiles'[f] = profiles[f] \/ profiles'[f] = [at |-> "fetched", me |-> Me]
<1>1. profiles \in [Fetches -> Fetch]
  BY DEF TablesInv, TillTypeOK
<1>2. ASSUME NEW f \in Fetches, AnswerProfile(f)
      PROVE  Taken /\ From
  BY <1>1, <1>2 DEF AnswerProfile
<1>3. ASSUME NEW f \in Fetches, TakeProfile(f) \/ ProfileFails(f)
      PROVE  Taken /\ From
  BY <1>1, <1>3 DEF TakeProfile, ProfileFails
<1>4. KillTill => Taken /\ From
  BY DEF KillTill
<1>5. UNCHANGED <<verified, profiles>> => Taken /\ From
  OBVIOUS
<1>6. TillStep => Taken /\ From
  BY <1>2, <1>3, <1>4, <1>5 DEF TillStep, Scan, Submit, Reconcile, TakeResults, SyncFails
<1>7. UNCHANGED tillVars => UNCHANGED <<verified, profiles>>
  BY DEF tillVars
<1> QED
  BY <1>5, <1>6, <1>7, PhonesApart

LEMMA SnapshotsStep ==
  ASSUME TablesInv, SnapshotsInv, [Next]_vars
  PROVE  SnapshotsInv'
<1>1. /\ stored \in Snapshot \cup {None} /\ verified \in Profile
      /\ WalletTypeOK /\ TillTypeOK /\ ServerTypeOK
  BY DEF TablesInv, TillTypeOK, WalletTypeOK
<1>2. ASSUME NEW m \in Snapshot, PayerKnows(m)
      PROVE  /\ \A r \in Refreshes : refreshes'[r].me = m => PayerKnows(refreshes[r].me)'
             /\ stored' = m => PayerKnows(stored)'
  <2>1. PayerKnows(m)'
    BY <1>2, PayerStep
  <2> QED
    BY <2>1 DEF PayerKnows
<1>3. ASSUME NEW r \in Refreshes, refreshes'[r].at = "fetched"
      PROVE  PayerKnows(refreshes[r].me)'
  <2>1. CASE refreshes'[r] = refreshes[r]
    <3>1. refreshes[r].me \in Snapshot /\ PayerKnows(refreshes[r].me)
      BY <1>1, <1>3, <2>1, RefreshFields DEF SnapshotsInv
    <3> QED
      BY <1>2, <2>1, <3>1
  <2>2. CASE refreshes'[r].me = [available |-> balance[Student], made |-> settled]
    BY <1>1, <1>2, <2>2, FreshPayer, ServerSnapshot
  <2> QED
    BY <1>3, <2>1, <2>2, FetchedFrom
<1>4. ASSUME stored' # None
      PROVE  PayerKnows(stored)'
  <2>1. CASE UNCHANGED stored
    <3>1. stored \in Snapshot /\ PayerKnows(stored)
      BY <1>1, <1>4, <2>1 DEF SnapshotsInv
    <3> QED
      BY <1>2, <2>1, <3>1
  <2>2. ASSUME NEW r \in Refreshes, StoreBalance(r)
        PROVE  PayerKnows(stored)'
    <3>1. stored' = refreshes[r].me /\ refreshes[r].at = "fetched"
      BY <2>2 DEF StoreBalance
    <3>2. refreshes[r].me \in Snapshot /\ PayerKnows(refreshes[r].me)
      BY <1>1, <3>1, RefreshFields DEF SnapshotsInv
    <3> QED
      BY <1>2, <3>1, <3>2
  <2>3. ASSUME NEW a \in Amounts, Sign(a)
        PROVE  UNCHANGED stored
    BY <2>3 DEF Sign
  <2>4. ~NewPhone
    BY <1>4 DEF NewPhone
  <2>5. ASSUME NEW r \in Refreshes, TakeAnswers(r)
        PROVE  UNCHANGED stored
    BY <2>5 DEF TakeAnswers
  <2>6. WalletStep => UNCHANGED stored \/ \E r \in Refreshes : StoreBalance(r)
    BY <1>1, <2>3, <2>4, <2>5, RowsMove
  <2> QED
    BY <2>1, <2>2, <2>6, PhonesApart DEF walletVars
<1>5. ASSUME NEW m \in Profile, PayeeKnows(m)
      PROVE  /\ \A f \in Fetches : profiles'[f].me = m => PayeeKnows(profiles[f].me)'
             /\ verified' = m => PayeeKnows(verified)'
  <2>1. PayeeKnows(m)'
    BY <1>5, PayeeStep
  <2> QED
    BY <2>1 DEF PayeeKnows
<1>6. \A f \in Fetches : profiles[f] # NotAsked =>
        profiles[f].me \in Profile /\ PayeeKnows(profiles[f].me)
  BY <1>1, FetchFields DEF SnapshotsInv
<1>7. PayeeKnows(verified)'
  <2>1. PayeeKnows(verified)
    BY DEF SnapshotsInv
  <2> QED
    BY <1>1, <1>5, <1>6, <2>1, ProfileFrom
<1>8. ASSUME NEW f \in Fetches, profiles'[f] # NotAsked
      PROVE  PayeeKnows(profiles[f].me)'
  <2>1. CASE profiles'[f] = profiles[f]
    BY <1>5, <1>6, <1>8, <2>1
  <2>2. CASE profiles'[f] = [at |-> "fetched", me |-> Me]
    <3>1. profiles'[f].me = Me
      BY <2>2
    <3>2. Me \in Profile /\ PayeeKnows(Me)
      BY <1>1, FreshPayee, ServerSnapshot
    <3> QED
      BY <1>5, <3>1, <3>2
  <2> QED
    BY <1>8, <2>1, <2>2, ProfileFrom
<1> QED
  BY <1>3, <1>4, <1>7, <1>8 DEF SnapshotsInv

LEMMA SnapshotsStart == Init => SnapshotsInv
<1> SUFFICES ASSUME Init
             PROVE  SnapshotsInv
  OBVIOUS
<1>1. /\ stored = None /\ profiles = [f \in Fetches |-> NotAsked]
      /\ refreshes = [r \in Refreshes |-> Idle] /\ verified = Me
  BY DEF Init, WalletInit
<1>2. PayeeKnows(verified)
  BY <1>1, TablesStart, FreshPayee
<1>3. \A r \in Refreshes : refreshes[r].at # "fetched"
  BY <1>1 DEF Idle
<1> QED
  BY <1>1, <1>2, <1>3 DEF SnapshotsInv

LEMMA PhonesInv == Spec => [](TablesInv /\ SnapshotsInv)
<1>1. Init => TablesInv /\ SnapshotsInv
  BY TablesStart, SnapshotsStart
<1>2. TablesInv /\ SnapshotsInv /\ [Next]_vars => TablesInv' /\ SnapshotsInv'
  BY TablesStep, SnapshotsStep
<1> QED
  BY <1>1, <1>2, PTL DEF Spec

-----------------------------------------------------------------------------
(* What a phone signs or accepts.                                            *)

LEMMA PendingFinite ==
  ASSUME TablesInv
  PROVE  /\ Pending(rows) \in SUBSET Payments /\ IsFiniteSet(Pending(rows))
         /\ Pending(till) \in SUBSET Payments /\ IsFiniteSet(Pending(till))
<1>1. Pending(rows) \subseteq issued /\ Pending(till) \subseteq issued /\ IsFiniteSet(issued)
  BY DEF TablesInv, Known, Pending
<1> QED
  BY <1>1, FS_Subset DEF Pending

LEMMA SignedFits ==
  ASSUME TablesInv, SnapshotsInv, [Next]_vars, NEW e \in Payments,
         rows[e] = "none", rows'[e] = "pending", Accounted(rows, stored.made)
  PROVE  Total(Owed(rows)') <= balance[Student]
<1>1. TillTypeOK /\ WalletTypeOK /\ rows \in Rows
  BY DEF TablesInv, TillTypeOK, WalletTypeOK
<1>2. PICK a \in Amounts : Sign(a)
  <2>1. ~\E r \in Refreshes : TakeAnswers(r)
    BY <1>1, RefreshFields, TableChanges DEF TakeAnswers
  <2>2. ~NewPhone
    BY DEF NewPhone, EmptyRows
  <2>3. ~UNCHANGED rows
    OBVIOUS
  <2> QED
    BY <1>1, <2>1, <2>2, <2>3, PhonesApart, RowsMove DEF walletVars
<1>3. /\ stored # None /\ stored.available - Total(Pending(rows)) >= a
      /\ Signed(a) \in Payments /\ Insertable(rows, Signed(a))
      /\ rows' = Insert(rows, Signed(a)) /\ UNCHANGED settled
  BY <1>2 DEF Sign, Spendable, SumPending, moneyVars, ledgerVars
<1>4. \A p \in Payments : p # Signed(a) => rows'[p] = rows[p]
  BY <1>1, <1>3, TableChanges
<1>5. e = Signed(a) /\ e.amount = a /\ a \in Nat
  BY <1>3, <1>4, Parties DEF Signed
<1> DEFINE P == Pending(rows)
           U == settled \ stored.made
           gone == settled
<1>6. Owed(rows)' = (P \cup {e}) \ gone
  BY <1>3, <1>4, <1>5 DEF Owed, Pending
<1>7. PayerKnows(stored) /\ stored \in Snapshot
  BY <1>1, <1>3 DEF SnapshotsInv, WalletTypeOK
<1>8. U \subseteq P /\ U \subseteq gone
  BY DEF Accounted
<1>9. e \notin P
  BY DEF Pending
<1>10. P \in SUBSET Payments /\ IsFiniteSet(P)
  BY PendingFinite
<1>11. stored.available <= balance[Student] + Total(U) /\ stored.available \in Nat
  BY <1>7 DEF PayerKnows, Snapshot
<1>12. balance[Student] \in Nat
  BY SumsAre
<1>13. stored.available - Total(P) >= a
  BY <1>3
<1> HIDE DEF P, U, gone
<1>14. /\ Total((P \cup {e}) \ gone) \in Nat /\ Total(U) \in Nat /\ Total(P) \in Nat
       /\ Total((P \cup {e}) \ gone) + Total(U) <= Total(P) + e.amount
  BY <1>8, <1>9, <1>10, OwedWithOne
<1>15. Total((P \cup {e}) \ gone) <= balance[Student]
  BY <1>5, <1>11, <1>12, <1>13, <1>14
<1> QED
  BY <1>6, <1>15

LEMMA ScannedFits ==
  ASSUME TablesInv, SnapshotsInv, [Next]_vars, NEW e \in Payments,
         till[e] = "none", till'[e] = "pending", Accounted(till, verified.made)
  PROVE  balance[Merchant] + Total(Owed(till)')
           <= MaxBalance + Total(OtherIncome \ verified.other)
<1>1. TillTypeOK /\ till \in Rows
  BY DEF TablesInv, TillTypeOK
<1>2. Scan(e)
  <2>1. ~\E s \in Screens : TakeResults(s)
    BY <1>1, SyncFields, TableChanges DEF TakeResults
  <2>2. ~UNCHANGED till
    OBVIOUS
  <2>3. PICK f \in Payments : Scan(f)
    BY <1>1, <2>1, <2>2, PhonesApart, TillMoves DEF tillVars
  <2>4. \A p \in Payments : p # f => till'[p] = till[p]
    BY <1>1, <2>3, TableChanges DEF Scan
  <2> QED
    BY <2>3, <2>4
<1>3. /\ verified.available + Total(Pending(till)) + e.amount <= MaxBalance
      /\ Insertable(till, e) /\ till' = Insert(till, e) /\ UNCHANGED settled
  BY <1>2 DEF Scan, Headroom, SumPending, serverVars, moneyVars, ledgerVars
<1>4. \A p \in Payments : p # e => till'[p] = till[p]
  BY <1>1, <1>3, TableChanges
<1> DEFINE P == Pending(till)
           U == settled \ verified.made
           W == OtherIncome \ verified.other
           gone == settled
<1>5. Owed(till)' = (P \cup {e}) \ gone
  BY <1>3, <1>4 DEF Owed, Pending
<1>6. U \subseteq P /\ U \subseteq gone
  BY DEF Accounted
<1>7. e \notin P
  BY DEF Pending
<1>8. P \in SUBSET Payments /\ IsFiniteSet(P)
  BY PendingFinite
<1>9. balance[Merchant] <= verified.available + Total(U) + Total(W) /\ verified.available \in Nat
  BY <1>1 DEF TillTypeOK, SnapshotsInv, PayeeKnows, Profile
<1>10. verified.available + Total(P) + e.amount <= MaxBalance
  BY <1>3
<1>11. e.amount \in Nat /\ MaxBalance \in Nat
  BY Parties
<1>12. Total(W) \in Nat /\ balance[Merchant] \in Nat
  BY SumsAre
<1> HIDE DEF P, U, W, gone
<1>13. /\ Total((P \cup {e}) \ gone) \in Nat /\ Total(U) \in Nat /\ Total(P) \in Nat
       /\ Total((P \cup {e}) \ gone) + Total(U) <= Total(P) + e.amount
  BY <1>6, <1>7, <1>8, OwedWithOne
<1>14. balance[Merchant] + Total((P \cup {e}) \ gone) <= MaxBalance + Total(W)
  BY <1>9, <1>10, <1>11, <1>12, <1>13
<1> QED
  BY <1>5, <1>14 DEF W

\* A student whose stored balance accounts for every payment made that is not
\* pending in the phone can sign nothing that the server could not pay, with all
\* that is still open: for any number of refreshes in flight, whatever is lost
\* or late (buildAndSignEnvelope).
THEOREM SignedIsPayable == Spec => SignedIsCovered
<1>1. TablesInv /\ SnapshotsInv /\ [Next]_vars =>
        [\A e \in Payments :
           (rows[e] = "none" /\ rows'[e] = "pending" /\ Accounted(rows, stored.made))
             => Total(Owed(rows)') <= balance[Student]]_vars
  BY SignedFits
<1> QED
  BY <1>1, PhonesInv, PTL DEF Spec, SignedIsCovered

\* Likewise the merchant's phone accepts no payment its account has no room for,
\* but for what came in otherwise since its balance was fetched: top-ups, and
\* cashouts that were given back whatever the cap
\* (assertIncomingWithinRegulatoryHeadroom).
THEOREM AcceptedHasRoom == Spec => AcceptedFits
<1>1. TablesInv /\ SnapshotsInv /\ [Next]_vars =>
        [\A e \in Payments :
           (till[e] = "none" /\ till'[e] = "pending" /\ Accounted(till, verified.made))
             => balance[Merchant] + Total(Owed(till)')
                  <= MaxBalance + Total(OtherIncome \ verified.other)]_vars
  BY ScannedFits
<1> QED
  BY <1>1, PhonesInv, PTL DEF Spec, AcceptedFits

-----------------------------------------------------------------------------
(* The phones and the ledger.  Whatever the phones do, the server they talk  *)
(* to is PaymentLedger, which Settlement implements, with the cashouts of    *)
(* the merchant: what is proved here of two phones is proved of any service  *)
(* that keeps that promise.                                                  *)

\* No refresh, submission, restart or change of phone moves money: it moves in
\* payments and top-ups, as PaymentLedger has them, and in cashouts.
THEOREM TillKeepsLedger ==
  Spec => /\ LedgerInit
          /\ [][LedgerNext \/ \E w \in Cashouts : CashOut(w) \/ GiveBack(w)]_ledgerVars
<1>1. Init => LedgerInit
  BY DEF Init, WalletInit, ServerInit
<1>2. [Next]_vars => [LedgerNext \/ \E w \in Cashouts : CashOut(w) \/ GiveBack(w)]_ledgerVars
  BY MoneyMoves DEF LedgerNext, Commit, TopUp, moneyVars
<1> QED
  BY <1>1, <1>2, PTL DEF Spec
=============================================================================
