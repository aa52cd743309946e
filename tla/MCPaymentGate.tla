---------------------------- MODULE MCPaymentGate ----------------------------
(***************************************************************************)
(* The two libraries the gate decides with, side by side and chosen by     *)
(* focus: the daily ledger under overlapping reservations, and the reading *)
(* of one presented transaction.                                           *)
(***************************************************************************)
EXTENDS MCDailyLedger, PaymentCheck

CONSTANT merchant

VARIABLE focus

\* alice lets bob move her tokens; bob lets nobody.
MCDelegates == (alice :> bob) @@ (bob :> bob) @@ (merchant :> merchant)
MCFunds == (alice :> 3) @@ (bob :> 1) @@ (merchant :> 0)

\* Payments as a buyer means them; ones that only look like them (by a delegate,
\* out of the gate's own account, by another program, of another mint, an odd
\* amount, nothing at all, more than the owner has); transfers beside them.
Instructions ==
    {Transfer("token", TRUE, alice, merchant, alice, 1), Transfer("token", TRUE, bob, merchant, bob, 1),
     Transfer("token", TRUE, alice, merchant, alice, 2), Transfer("token", TRUE, alice, merchant, bob, 1),
     Transfer("token", TRUE, merchant, merchant, alice, 1), Transfer("token-2022", TRUE, alice, merchant, alice, 1),
     Transfer("plain", TRUE, alice, merchant, alice, 1), Transfer("token", FALSE, alice, merchant, alice, 1),
     Transfer("token", TRUE, alice, merchant, alice, 3), Transfer("token", TRUE, alice, merchant, alice, 0),
     Transfer("token", TRUE, bob, merchant, bob, 2), Transfer("token", TRUE, alice, bob, alice, 2),
     Memo(n1), Memo(n2), Memo(Garbled)}

MCPresentable ==
    {Tx(TRUE, declared, signed, ixs) :
        declared \in {{alice}, MCPayers}, signed \in {{alice}, MCPayers},
        ixs \in SeqOf(Instructions, 3) \ {<<>>}}
    \cup {Tx(FALSE, {alice}, {alice}, <<Transfer("token", TRUE, alice, merchant, alice, 1), Memo(n1)>>)}

NoTx == Tx(FALSE, {}, {}, <<>>)

GateInit ==
    \/ /\ focus = "ledger" /\ MCInit
       /\ tx = NoTx /\ verdict = "none" /\ metered = NoHold /\ funds = MCFunds /\ landed = "no"
    \/ /\ focus = "check" /\ CheckInit
       /\ restored = <<>> /\ spent = [k \in Keys |-> 0] /\ settled = spent
       /\ used_nonces = {} /\ held = {}

GateNext ==
    /\ UNCHANGED focus
    /\ \/ focus = "ledger" /\ MCNext /\ UNCHANGED checkVars
       \/ focus = "check" /\ CheckNext /\ UNCHANGED <<ledgerVars, restored>>

GateSpec == GateInit /\ [][GateNext]_<<ledgerVars, restored, checkVars, focus>>

=============================================================================
