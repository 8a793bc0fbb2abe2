------------------------------ MODULE PayoutFees ------------------------------
(***************************************************************************)
(* What a cashout's row says of the gateway's fee: who bears it and what   *)
(* the merchant receives.                                                  *)
(*                                                                         *)
(* Two handlers write it, the one that sent the payout when it is answered *)
(* and the webhook that says the payout was made.  Each computes from the  *)
(* row as it read it before, and only the webhook's update asks for the    *)
(* status.  The rows, the money and the gateway are those of Cashout.      *)
(***************************************************************************)
EXTENDS Cashout, SequencesExt

CONSTANTS
  Messages,  \* what the gateway may say of a payout
  Grosses    \* amounts of the cashouts that are paid

Unknown == -1  \* null

\* A JSON object and the objects in its field `data`, outermost first: the fields
\* that may hold the fee, in thousandths of a naira or Unknown for what is no
\* number, and whether one of six flags says that the recipient bears it ("odd"
\* if one of them is no boolean).
Layer   == [fees : Seq(Nat \cup {Unknown}), proof : {"no", "yes", "odd"}]
Message == [by : {"answer", "hook"}, layers : Seq(Layer)]

ASSUME PayoutFeesAssumption ==
  /\ Messages \subseteq Message
  /\ \A m \in Messages : Len(m.layers) >= (IF m.by = "answer" THEN 2 ELSE 1)
  /\ Grosses \subseteq Nat \ {0}

VARIABLES
  books,    \* the fee columns of the Cashout rows
  answered, \* the answer to the payout's request, and the columns read before it
  hooks,    \* the webhook being handled, and the columns read by it
  heard     \* the messages whose update was made, in that order, and whether
            \* the columns were then still as its handler had read them

feeVars == <<books, answered, hooks, heard>>

Book == [fee : Nat \cup {Unknown}, bearer : {"UNKNOWN", "MERCHANT", "ONETO"},
         deducted : {"unknown", "no", "yes"}, net : Nat \cup {Unknown}]

NewBook == [fee |-> Unknown, bearer |-> "UNKNOWN", deducted |-> "unknown", net |-> Unknown]

Silence == [at |-> "nothing"]
Heard   == {Silence} \cup [at : {"message"}, message : Messages, read : Book]

PayoutFeesTypeOK ==
  /\ books \in [Cashouts -> Book]
  /\ answered \in [Cashouts -> Heard]
  /\ hooks \in [Cashouts -> Heard]
  /\ \A c \in Cashouts : ToSet(heard[c]) \subseteq [message : Messages, fresh : BOOLEAN]

PayoutFeesInit ==
  /\ books = [c \in Cashouts |-> NewBook]
  /\ answered = [c \in Cashouts |-> Silence]
  /\ hooks = [c \in Cashouts |-> Silence]
  /\ heard = [c \in Cashouts |-> <<>>]

\* One cashout was approved just now and will be paid through the gateway.
PayoutReady ==
  \E c \in Cashouts, m \in Merchants, gross \in Grosses :
    /\ cashouts = [d \in Cashouts |->
         IF d = c THEN [status |-> "PROCESSING", merchant |-> m, gross |-> gross, manual |-> FALSE]
                  ELSE NoCashout]
    /\ payouts = [d \in Cashouts |-> IF d = c THEN "ready" ELSE "idle"]
    /\ refunds = {}
    /\ requesters = [q \in Requesters |-> NoRequester]
    /\ gateway = [d \in Cashouts |-> "none"]

-----------------------------------------------------------------------------
(***************************************************************************)
(* resolvePayoutFeeAccounting                                              *)
(***************************************************************************)
FirstOf(a, b) == IF a # Unknown THEN a ELSE b

\* Naira with at most two decimals, to kobo.
ParseMajorNgnToKobo(x) == IF x # Unknown /\ x % 10 = 0 THEN x \div 10 ELSE Unknown

\* The first field that can be read; an answer has its fields in `data`, and a
\* webhook's data is all that is looked at.
ExtractPayoutFee(m) ==
  LET fees  == m.layers[IF m.by = "answer" THEN 2 ELSE 1].fees
      known == {i \in DOMAIN fees : ParseMajorNgnToKobo(fees[i]) # Unknown}
  IN  IF known = {} THEN Unknown ELSE ParseMajorNgnToKobo(fees[Min(known)])

\* A layer that cannot be parsed hides those under it.
HasDeductionProof(m) ==
  \E i \in DOMAIN m.layers :
    m.layers[i].proof = "yes" /\ \A j \in 1..i : m.layers[j].proof # "odd"

\* Mutant: a fee that is known is taken to be the merchant's.
FeeIsProof(read, fee, m) == IF fee = Unknown THEN read.bearer ELSE "MERCHANT"

FeeBearer(read, fee, m) ==
  IF fee = Unknown THEN read.bearer
  ELSE IF HasDeductionProof(m) THEN "MERCHANT" ELSE "ONETO"

Deducted(read, fee, m) ==
  IF fee = Unknown THEN read.deducted
  ELSE IF HasDeductionProof(m) THEN "yes" ELSE "no"

TransferAmount(c) == cashouts[c].gross - OnetoFee(cashouts[c].gross)

NetPayout(c, bearer, deducted, fee) ==
  CASE bearer = "MERCHANT" /\ deducted = "yes" /\ fee # Unknown ->
         IF fee <= TransferAmount(c) THEN TransferAmount(c) - fee ELSE Unknown
    [] bearer = "ONETO" -> TransferAmount(c)
    [] OTHER            -> Unknown

\* The columns after a message, for a handler that read those of `read`.
Accounted(c, read, m) ==
  LET fee      == FirstOf(ExtractPayoutFee(m), read.fee)
      bearer   == FeeBearer(read, fee, m)
      deducted == Deducted(read, fee, m)
  IN  [fee |-> fee, bearer |-> bearer, deducted |-> deducted,
       net |-> NetPayout(c, bearer, deducted, fee)]

Writes(c, told) ==
  /\ books' = [books EXCEPT ![c] = Accounted(c, told.read, told.message)]
  /\ heard' = [heard EXCEPT ![c] = 
       Append(@, [message |-> told.message, fresh |-> told.read = books[c]])]

Tells(c, m) == [at |-> "message", message |-> m, read |-> books[c]]

-----------------------------------------------------------------------------
(***************************************************************************)
(* initiateKorapayPayout                                                   *)
(***************************************************************************)
Sends(c) ==
  /\ SendPayout(c)
  /\ IF payouts'[c] = "sent"
     THEN \E m \in {n \in Messages : n.by = "answer"} :
            answered' = [answered EXCEPT ![c] = Tells(c, m)]
     ELSE UNCHANGED answered
  /\ UNCHANGED <<books, hooks, heard>>

\* An update by the row's id, whatever became of the row meanwhile.
Records(c) ==
  /\ RecordPayout(c)
  /\ IF payouts'[c] = "idle" THEN Writes(c, answered[c]) ELSE UNCHANGED <<books, heard>>
  /\ answered' = [answered EXCEPT ![c] = Silence]
  /\ UNCHANGED hooks

Forgets(c) ==
  /\ ForgetPayout(c)
  /\ answered' = [answered EXCEPT ![c] = Silence]
  /\ UNCHANGED <<books, hooks, heard>>

-----------------------------------------------------------------------------
(***************************************************************************)
(* handlePayoutWebhook                                                     *)
(***************************************************************************)
HookReads(c) ==
  /\ gateway[c] = "paid" /\ hooks[c] = Silence
  /\ \E m \in {n \in Messages : n.by = "hook"} : hooks' = [hooks EXCEPT ![c] = Tells(c, m)]
  /\ UNCHANGED <<funds, cashoutVars, books, answered, heard>>

HookWrites(c) ==
  /\ hooks[c] # Silence
  /\ \/ Complete(c) /\ Writes(c, hooks[c])
     \/ ~Processing(c) /\ UNCHANGED <<funds, cashouts, refunds, books, heard>>
  /\ hooks' = [hooks EXCEPT ![c] = Silence]
  /\ UNCHANGED <<requesters, payouts, gateway, answered>>

\* The server restarts; the gateway sends the webhook again.
HookFails(c) ==
  /\ hooks[c] # Silence
  /\ hooks' = [hooks EXCEPT ![c] = Silence]
  /\ UNCHANGED <<funds, cashoutVars, books, answered, heard>>

FailedHook(c) ==
  /\ gateway[c] = "failed"
  /\ PayoutHook(c)
  /\ UNCHANGED feeVars

PayoutFeesNext ==
  \E c \in Cashouts :
    \/ Sends(c) \/ Records(c) \/ Forgets(c)
    \/ RefundPayout(c) /\ UNCHANGED feeVars
    \/ GatewaySettles(c) /\ UNCHANGED feeVars
    \/ HookReads(c) \/ HookWrites(c) \/ HookFails(c)
    \/ FailedHook(c)

-----------------------------------------------------------------------------
\* getKorapayPayoutFeeText and getFinalMerchantPayoutText on the merchant's phone.
FeeShown(b)      == IF b.bearer = "UNKNOWN" THEN Unknown ELSE b.fee
FinalShown(c, b) ==
  IF b.bearer = "UNKNOWN" THEN Unknown
  ELSE FirstOf(b.net, IF b.bearer = "ONETO" THEN TransferAmount(c) ELSE Unknown)

\* FeesBacked: what a cashout's row, and the merchant's phone, say of the payout
\* is backed by what the gateway said, in whatever order the answer, the
\* webhooks and a restart come: a fee was named, a fee of the merchant was said
\* to be deducted, and the final amount is what is left of the transfer.  A fee
\* that was named is not forgotten either, unless the answer and the webhook are
\* handled at once (resolvePayoutFeeAccounting, initiateKorapayPayout).
FeesBacked ==
  \A c \in Cashouts :
    LET b     == books[c]
        said  == {h.message : h \in ToSet(heard[c])}
        named == {m \in said : ExtractPayoutFee(m) # Unknown}
    IN  /\ b.fee # Unknown => \E m \in named : b.fee = ExtractPayoutFee(m)
        /\ b.bearer = "MERCHANT" => \E m \in said : HasDeductionProof(m)
        /\ FinalShown(c, b) # Unknown =>
             FinalShown(c, b) + (IF b.bearer = "MERCHANT" THEN FeeShown(b) ELSE 0) = TransferAmount(c)
        /\ named # {} /\ (\A h \in ToSet(heard[c]) : h.fresh) => b.fee # Unknown
=============================================================================
