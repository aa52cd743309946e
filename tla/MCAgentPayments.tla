---------------------------- MODULE MCAgentPayments ----------------------------
(***************************************************************************)
(* The two ways an agent puts an amount before a payer: a purchase it signs *)
(* itself, and a link it makes for a customer.  They share no state, and a  *)
(* behaviour is of one or of the other.                                     *)
(*                                                                         *)
(* One shop, one other wallet, two mints and two pools.  The transactions   *)
(* that may replace a built one are the payment with one field changed, and *)
(* every pair of instructions around a good one; on the publish path, every *)
(* pair, and every instruction before or after a good reading.              *)
(***************************************************************************)
EXTENDS CertifiedSigning, PayLink, TLC

CONSTANTS shop, other, owner, agent, usdc, dollar, groceries, rent, nonce, m1, m2, feed,
          recalled, oldMint, name, oldName

MCWallets == {shop, other, owner}
MCMints   == {usdc, dollar}
MCPools   == {groceries, rent}
MCMemos   == {m1, m2}
MCPrices  == {1, 2, 3}
\* The pool for groceries holds usdc; the rent pool is recurring and holds a mint of the
\* other token program.  Three more worlds differ in what the certifier cannot know.
Usual == [delegatee |-> [p \in MCPools |-> agent],
          kind |-> groceries :> "fixed" @@ rent :> "recurring",
          mint |-> groceries :> usdc @@ rent :> dollar,
          program |-> usdc :> "token" @@ dollar :> "token2022",
          authority |-> agent]
MCWorlds ==
    {Usual, [Usual EXCEPT !.kind[groceries] = "recurring"],
     [Usual EXCEPT !.program[usdc] = "token2022"], [Usual EXCEPT !.authority = owner]}

Option(w, m, a, t) == [payTo |-> w, asset |-> m, amount |-> a, memo |-> t]
MCMenus ==
    {<<Option(shop, usdc, a, t)>> : a \in {0, 1, 2, 3}, t \in MCMemos}
    \cup {<<Option(w, m, a, m1), Option(shop, usdc, b, m2)>> :
             w \in MCWallets, m \in MCMints, a \in {1, 2}, b \in {1, 2, 3}}

UsdcOf(w)   == Ata(w, usdc, "token")
DollarOf(w) == Ata(w, dollar, "token")
OurAdvance  == Advance(agent)
Buy == Transfer(groceries, "fixed", UsdcOf(shop), 1)
Spends ==
    {Buy} \cup {[Buy EXCEPT !.amount = a] : a \in {2, 3}}
    \cup {[Buy EXCEPT !.op = "recurring"], [Buy EXCEPT !.signer = FALSE],
          [Buy EXCEPT !.writable = FALSE], [Buy EXCEPT !.mint = dollar],
          [Buy EXCEPT !.accounts.receiver_ata = UsdcOf(other)],
          [Buy EXCEPT !.accounts.receiver_ata = DollarOf(shop)],
          [Buy EXCEPT !.accounts.receiver_ata = UsdcOf(other),
                      !.accounts.event_authority = UsdcOf(shop)],
          [Buy EXCEPT !.accounts.delegation = rent],
          [Buy EXCEPT !.accounts.token_program = "token2022"], [Buy EXCEPT !.accounts.token_mint = dollar],
          [Buy EXCEPT !.accounts.delegatee = other], [Buy EXCEPT !.accounts.program = "another"]}

TokenMove == [prog |-> "token", amount |-> 1, accounts |-> [receiver_ata |-> UsdcOf(other)]]
SystemMove(account) ==
    [prog |-> "system", op |-> "transfer", account |-> account, authority |-> agent, value |-> 9]
Others ==
    {OurAdvance, [OurAdvance EXCEPT !.authority = other], [OurAdvance EXCEPT !.account = "elsewhere"],
     SystemMove(None), TokenMove, Memo(m1), Memo(m2),
     CreateAta(UsdcOf(shop)), CreateAta(UsdcOf(other)),
     [CreateAta(UsdcOf(shop)) EXCEPT !.op = "create"],
     [CreateAta(UsdcOf(shop)) EXCEPT !.mint = dollar],
     [prog |-> "budget", op |-> "heap", value |-> 1]}
    \cup {[prog |-> "budget", op |-> op, value |-> v] : op \in {"limit", "price"}, v \in {1, 2, 9}}
Ixs == Spends \cup Others

Tx(ixs) == [read |-> ixs, runs |-> ixs, wire |-> "legacy", slots |-> 1, stamp |-> 0]
Honest    == Tx(<<OurAdvance, Buy>>)
Elsewhere == <<Transfer(groceries, "fixed", UsdcOf(other), 1)>>
MCForged ==
    {Tx(<<x>>) : x \in Ixs} \cup {Tx(<<x, Buy>>) : x \in Ixs} \cup {Tx(<<OurAdvance, x>>) : x \in Ixs}
    \cup {Tx(<<OurAdvance, x, y>>) : x \in Ixs, y \in Ixs}
    \cup {Tx(<<OurAdvance, Buy, x, y>>) : x \in Others, y \in Others}
    \cup {[Honest EXCEPT !.runs = Elsewhere, !.wire = w] : w \in {"lookups", "trailing", "v1"}}
    \cup {[Honest EXCEPT !.slots = 2]}

Reading == [prog |-> "oracle", accounts |-> <<feed, "device">>]
PublishIxs ==
    {OurAdvance, [OurAdvance EXCEPT !.account = "elsewhere"], Reading, TokenMove, SystemMove(nonce),
     [Reading EXCEPT !.accounts = <<"x", "device">>], [Reading EXCEPT !.accounts = <<feed, "device", "x">>]}
PublishTx(ixs, slots, device) ==
    [read |-> ixs, runs |-> ixs, wire |-> "publish", slots |-> slots, stamp |-> 0, device |-> device]
MCForgedPublish ==
    {PublishTx(<<OurAdvance, Reading>>, slots, device) : slots \in {1, 2}, device \in BOOLEAN}
    \cup {PublishTx(<<x, y>>, 2, TRUE) : x \in PublishIxs, y \in PublishIxs}
    \cup {PublishTx(<<x, Reading, y>>, 2, TRUE) : x \in PublishIxs, y \in PublishIxs}
----------------------------------------------------------------------------
(* Two days of two sources.  4.8 and 3 reais give half a cent, 4.9 is       *)
(* within the band of 4.8, 5.1 is not within that of 4.8, and 12 is         *)
(* plausible to neither.                                                    *)
MCRates == {48, 49, 51, 120}
MCOrders == {[brl |-> 3, quote |-> <<3, 3, 4>>], [brl |-> 7, quote |-> <<3, 3, 4>>],
             [brl |-> 20, quote |-> <<20>>]}
MCValues == {4, 6, 10}

MCInit == SignInit /\ LinkInit
MCNext ==
    \/ LinkInit /\ SignNext /\ UNCHANGED linkVars
    \/ SignInit /\ chain.world = Usual /\ LinkNext /\ UNCHANGED signVars
MCSpec == MCInit /\ [][MCNext]_<<signVars, linkVars>>
=============================================================================
