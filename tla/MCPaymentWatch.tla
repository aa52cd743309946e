--------------------------- MODULE MCPaymentWatch ---------------------------
(***************************************************************************)
(* Instances of PaymentWatch.  In the passing run a check reads three pages *)
(* of one signature: five transactions can land above the first cursor, at *)
(* any page, and four of them, no match among the newest three, overrun it.*)
(***************************************************************************)
EXTENDS PaymentWatch

CONSTANTS old, payment, failing, phantom, noise, dust

MCTxs == {old, payment, failing, phantom, noise, dust}
MCMatching == {payment, failing, phantom}
MCFailed == {failing}
MCPhantoms == {phantom}
MCUnreadable == {dust}
MCBefore == <<old>>

=============================================================================
