----------------------------- MODULE MCCheckout -----------------------------
(***************************************************************************)
(* Checkout on a small instance: one page load, with phone wallets that    *)
(* pay beside it.  Its timer and its check are two concurrent requests of  *)
(* the proxy.                                                              *)
(***************************************************************************)
EXTENDS Checkout

CONSTANT t1

=============================================================================
