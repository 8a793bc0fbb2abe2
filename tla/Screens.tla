------------------------------- MODULE Screens -------------------------------
(***************************************************************************)
(* The screens of the apps over the server, one at a time: a behaviour     *)
(* plays one scene, for no two of them share a state that both change      *)
(* while either is open.  The two scenes of cashouts play on the rows of   *)
(* Cashout, the checkout on those of Topup.                                *)
(***************************************************************************)
EXTENDS Statement, MerchantDesk, CashoutPage, CashoutScreen, Checkout, PayoutFees

Scenes == {"statement", "merchant desk", "cashout page", "cashout screen", "checkout",
           "payout fees"}

VARIABLE scene

moneyVars   == <<funds, cashoutVars, topupVars>>
screensVars == <<scene, statementVars, deskVars, moneyVars, pageVars, screenVars, checkoutVars,
                 feeVars>>

ScreensInit ==
  /\ scene \in Scenes
  /\ StatementInit /\ MerchantDeskInit
  /\ FundsInit /\ TopupInit
  /\ IF scene = "payout fees" THEN PayoutReady ELSE CashoutInit
  /\ CashoutPageInit /\ CashoutScreenInit /\ CheckoutInit /\ PayoutFeesInit
  /\ scene # "statement" => written = 0
  /\ scene # "merchant desk" => rows = CHOOSE first \in FirstRows : TRUE

PlayStatement ==
  /\ scene = "statement"
  /\ StatementNext
  /\ UNCHANGED <<deskVars, moneyVars, pageVars, screenVars, checkoutVars, feeVars>>

PlayMerchantDesk ==
  /\ scene = "merchant desk"
  /\ MerchantDeskNext
  /\ UNCHANGED <<statementVars, moneyVars, pageVars, screenVars, checkoutVars, feeVars>>

PlayCashoutPage ==
  /\ scene = "cashout page"
  /\ CashoutPageNext
  /\ UNCHANGED <<statementVars, deskVars, topupVars, screenVars, checkoutVars, feeVars>>

PlayCashoutScreen ==
  /\ scene = "cashout screen"
  /\ CashoutScreenNext
  /\ UNCHANGED <<statementVars, deskVars, topupVars, pageVars, checkoutVars, feeVars>>

PlayCheckout ==
  /\ scene = "checkout"
  /\ CheckoutNext
  /\ UNCHANGED <<statementVars, deskVars, cashoutVars, pageVars, screenVars, feeVars>>

PlayPayoutFees ==
  /\ scene = "payout fees"
  /\ PayoutFeesNext
  /\ UNCHANGED <<statementVars, deskVars, topupVars, pageVars, screenVars, checkoutVars>>

ScreensNext ==
  /\ \/ PlayStatement \/ PlayMerchantDesk
     \/ PlayCashoutPage \/ PlayCashoutScreen \/ PlayCheckout \/ PlayPayoutFees
  /\ UNCHANGED scene

ScreensSpec == ScreensInit /\ [][ScreensNext]_screensVars

\* ScreensTypeOK: every screen, request and row has its type in every scene
\* (the state of the screens in admin-web/src/pages and mobile/app).
ScreensTypeOK ==
  /\ StatementTypeOK /\ MerchantDeskTypeOK
  /\ FundsTypeOK /\ CashoutTypeOK /\ TopupTypeOK
  /\ CashoutPageTypeOK /\ CashoutScreenTypeOK /\ CheckoutTypeOK
  /\ PayoutFeesTypeOK
=============================================================================
