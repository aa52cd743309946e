----------------------------- MODULE MCFeedGate -----------------------------
(***************************************************************************)
(* FeedGate on a small instance.                                           *)
(***************************************************************************)
EXTENDS FeedGate

CONSTANTS alice, bob, n1, n2, n3

MCPayers == {alice, bob}
MCNonces == {n1, n2, n3}

Pay(tx, payer, nonce, amount) ==
    [tx |-> tx, payer |-> payer, nonce |-> nonce, amount |-> amount,
     memo |-> TRUE, signed |-> TRUE]

\* Alice may spend 2 a day here.  Two payments that together exceed her cap; a
\* third with the nonce of the first.
FewPayments == {Pay("a", alice, n1, 1), Pay("b", alice, n2, 2)}
NoncePayments == FewPayments \cup {Pay("c", alice, n1, 1)}

\* Bob's name on bytes he never signed; a transfer below the price; an odd one;
\* a payment with no memo.
BadPayments ==
    {[Pay("f", bob, n3, 1) EXCEPT !.signed = FALSE],
     Pay("u", alice, n3, 0), Pay("o", alice, n3, 3),
     [Pay("m", bob, n3, 1) EXCEPT !.memo = FALSE, !.signed = FALSE]}

SafetyPayments == NoncePayments \cup BadPayments

=============================================================================
