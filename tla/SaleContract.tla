---------------------------- MODULE SaleContract ----------------------------
(***************************************************************************)
(* What the x402 gate promises, without saying how: a reading is sold for a *)
(* payment the cluster confirmed, a nonce buys one reading, and a payer     *)
(* buys at most the daily cap on each UTC day (the module documentation of  *)
(* x402-feed-gate/src/lib.rs and of handle_reading).  There is no process,  *)
(* no log and no crash here; FeedGate implements it.                        *)
(***************************************************************************)
EXTENDS Integers

CONSTANTS Payments, Payers, Nonces, Days, Cap

VARIABLES
    confirmed,    \* payments the cluster confirmed
    timesSold,    \* readings sold for each nonce
    soldAmounts   \* atomic units sold for, by (payer, day)

vars == <<confirmed, timesSold, soldAmounts>>

Init ==
    /\ confirmed = {}
    /\ timesSold = [n \in Nonces |-> 0]
    /\ soldAmounts = [k \in Payers \X Days |-> 0]

Land(p) ==
    /\ confirmed' = confirmed \cup {p}
    /\ UNCHANGED <<timesSold, soldAmounts>>

Sell(p, d) ==
    /\ p \in confirmed
    /\ timesSold[p.nonce] = 0
    /\ soldAmounts[<<p.payer, d>>] + p.amount <= Cap
    /\ timesSold' = [timesSold EXCEPT ![p.nonce] = 1]
    /\ soldAmounts' = [soldAmounts EXCEPT ![<<p.payer, d>>] = @ + p.amount]
    /\ UNCHANGED confirmed

Next == \E p \in Payments : Land(p) \/ \E d \in Days : Sell(p, d)

Spec == Init /\ [][Next]_vars

=============================================================================
