------------------------------ MODULE Checkout ------------------------------
(***************************************************************************)
(* The web checkout of one order (webshop-pay/src/app.js) and the          *)
(* settlement proxy it falls back on (rpc-proxy/src/index.js).             *)
(*                                                                         *)
(* A page load is a card with a Pay button.  Three things run on it at     *)
(* once: the payment (connect, build, check, wallet, confirm), the timer   *)
(* that asks whether the order's reference has settled, and the same       *)
(* question asked once more before the wallet opens.  Every RPC is one     *)
(* step.  The first lookup is made at load and the timer's come after it;  *)
(* that the first two may overlap is left out, and so is the figure on     *)
(* the Paid card.                                                          *)
(***************************************************************************)
EXTENDS Integers, Sequences, FiniteSets

CONSTANTS
    Loads,      \* page loads of the order's link: tabs, customers, reloads
    Limit,      \* limit of getSignaturesForAddress
    Attempts,   \* CONFIRM_ATTEMPTS
    PollMax,    \* POLL_MAX
    MaxTxs,     \* bound: transactions made for the order
    MaxFaults   \* bound: failed calls, and wallets that throw after they sent

ASSUME CheckoutAssumption ==
    /\ {Limit, Attempts, MaxTxs} \subseteq Nat \ {0}
    /\ {PollMax, MaxFaults} \subseteq Nat

Slots == {"watch", "check"}

VARIABLES
    history,   \* confirmed transactions that carry the reference, oldest first
    pool,      \* transactions broadcast and not yet landed
    made,      \* transactions made so far; a transaction is its number
    pruned,    \* how many of the oldest the pinned endpoint no longer has
    kv,        \* the proxy's stored answer: positions of history, or none
    quiet,     \* the proxy's negative marker
    late,      \* answers of requests the page gave up on, not yet stored
    pay,       \* where the payment is; "ready" is an enabled Pay button
    card,      \* what the card shows
    sent,      \* history: transactions each load made, in order
    polls,     \* confirmation polls made
    ticks,     \* timer polls made
    lookup,    \* where each settlement lookup is
    held,      \* the answer a proxy request is about to store
    known,     \* history: the order was settled when the check began, and
               \* no call of the check failed
    faults

chainVars == <<history, pool, made, pruned>>
proxyVars == <<kv, quiet, late>>
pageVars == <<pay, card, sent, polls, ticks>>
lookupVars == <<lookup, held>>
vars == <<chainVars, proxyVars, pageVars, lookupVars, known, faults>>

Fault ==
    /\ faults < MaxFaults
    /\ faults' = faults + 1

\* What an endpoint that has lost the `n` oldest lists: the newest Limit.
Listed(n) == {i \in n + 1 .. Len(history) : i > Len(history) - Limit}

\* DEFECT: a failed transaction taken for a settlement.
AnyListed(list) == list # {}

\* The answer names a transaction that did not fail (oldestSettled).
Settles(list) == \E i \in list : history[i].ok

Settled == \E i \in DOMAIN history : history[i].ok

\* The card was replaced: #status and #pay are gone, and whatever writes to
\* #status throws.
Replaced(t) == card[t] \in {"paid", "alreadyPaid"}

\* The payment writes its status line and goes on, or throws twice (in the
\* catch too) and is over.
Goes(t, step) == pay' = [pay EXCEPT ![t] = IF Replaced(t) THEN "over" ELSE step]

Shows(t, what) == card' = [card EXCEPT ![t] = what]

-----------------------------------------------------------------------------
(***************************************************************************)
(* The chain.                                                              *)
(***************************************************************************)

Broadcast ==
    /\ made < MaxTxs
    /\ made' = made + 1
    /\ pool' = pool \cup {made + 1}

\* A phone wallet scans the QR or opens the link, and pays without the page.
PhonePays ==
    /\ Broadcast
    /\ UNCHANGED <<history, pruned, proxyVars, pageVars, lookupVars, known, faults>>

Land(x, ok) ==
    /\ x \in pool
    /\ history' = Append(history, [tx |-> x, ok |-> ok])
    /\ pool' = pool \ {x}
    /\ UNCHANGED <<made, pruned, proxyVars, pageVars, lookupVars, known, faults>>

Expire(x) ==
    /\ x \in pool
    /\ pool' = pool \ {x}
    /\ UNCHANGED <<history, made, pruned, proxyVars, pageVars, lookupVars, known, faults>>

\* The pinned endpoint keeps days of history and the marker lives a minute: one
\* set while nothing had landed is gone when the first entry is.
Prune ==
    /\ pruned < Len(history)
    /\ ~quiet
    /\ pruned' = pruned + 1
    /\ UNCHANGED <<history, pool, made, proxyVars, pageVars, lookupVars, known, faults>>

-----------------------------------------------------------------------------
(***************************************************************************)
(* A lookup: the pinned endpoint, then the proxy.                          *)
(***************************************************************************)

At(t, s, step) == lookup[t][s] = step
Moves(t, s, step) == lookup' = [lookup EXCEPT ![t][s] = step]

\* A failed call of a check: what it then says of the order is not known.
Hurt(t, s) == known' = [known EXCEPT ![t] = @ /\ s # "check"]

\* The lookup ends with an answer.  With a settlement the page goes on to
\* refuse.  Without one the timer is set again, and the check lets the wallet
\* open.
Answered(t, s, list) ==
    IF Settles(list)
    THEN Moves(t, s, "found") /\ UNCHANGED pageVars
    ELSE /\ Moves(t, s, "off")
         /\ IF s = "check" THEN Goes(t, "wallet") ELSE UNCHANGED pay
         /\ UNCHANGED <<card, sent, polls, ticks>>

\* DEFECT: an endpoint that answered is believed, also when it lists nothing.
PrimaryIsBelieved(t, s) ==
    /\ At(t, s, "primary")
    /\ Answered(t, s, Listed(pruned))
    /\ UNCHANGED <<chainVars, proxyVars, held, known, faults>>

PrimaryAnswers(t, s) ==
    /\ At(t, s, "primary")
    /\ Moves(t, s, IF Settles(Listed(pruned)) THEN "found" ELSE "proxy")
    /\ UNCHANGED <<chainVars, proxyVars, pageVars, held, known, faults>>

PrimaryFails(t, s) ==
    /\ At(t, s, "primary")
    /\ Fault
    /\ Hurt(t, s)
    /\ Moves(t, s, "proxy")
    /\ UNCHANGED <<chainVars, proxyVars, pageVars, held>>

\* The proxy is offline, refuses, or answers after the page's 6 seconds.
ProxyFails(t, s) ==
    /\ At(t, s, "proxy")
    /\ Fault
    /\ Hurt(t, s)
    /\ Answered(t, s, {})
    /\ UNCHANGED <<chainVars, proxyVars, held>>

ProxyHit(t, s) ==
    /\ At(t, s, "proxy")
    /\ kv # {}
    /\ Answered(t, s, kv)
    /\ UNCHANGED <<chainVars, proxyVars, held, known, faults>>

\* Only an answer of the deep endpoint justifies the marker.
Marks(deepUp) == deepUp

\* Nothing is stored: the fast endpoint is asked, and the deep one when it
\* lists nothing and the marker is gone.
ProxyReads(t, s, fastUp, deepUp) ==
    LET fast == IF fastUp THEN Listed(pruned) ELSE {}
        escalates == fast = {} /\ ~quiet
        list == IF escalates /\ deepUp THEN Listed(0) ELSE fast
    IN  /\ At(t, s, "proxy")
        /\ kv = {}
        /\ IF fastUp /\ (deepUp \/ ~escalates)
           THEN UNCHANGED <<known, faults>>
           ELSE Fault /\ Hurt(t, s)
        /\ IF list # {}
           THEN /\ held' = [held EXCEPT ![t][s] = list]
                /\ Moves(t, s, "store")
                /\ UNCHANGED <<pageVars, quiet>>
           ELSE /\ Answered(t, s, {})
                /\ quiet' = (quiet \/ (escalates /\ Marks(deepUp)))
                /\ UNCHANGED held
        /\ UNCHANGED <<chainVars, kv, late>>

Forgets(t, s) == held' = [held EXCEPT ![t][s] = {}]

\* The answer is stored for good, then returned.
Stored(t, s) ==
    /\ At(t, s, "store")
    /\ kv' = held[t][s]
    /\ Answered(t, s, held[t][s])
    /\ Forgets(t, s)
    /\ UNCHANGED <<chainVars, quiet, late, known, faults>>

\* The store throws, or the page gives up on the request, which may still store
\* its answer later.
StoreFails(t, s) ==
    /\ At(t, s, "store")
    /\ Fault
    /\ Hurt(t, s)
    /\ \/ UNCHANGED late
       \/ late' = late \cup {held[t][s]}
    /\ Answered(t, s, {})
    /\ Forgets(t, s)
    /\ UNCHANGED <<chainVars, kv, quiet>>

StoredLate(list) ==
    /\ list \in late
    /\ kv' = list
    /\ late' = late \ {list}
    /\ UNCHANGED <<chainVars, quiet, pageVars, lookupVars, known, faults>>

ExpireMarker ==
    /\ quiet
    /\ quiet' = FALSE
    /\ UNCHANGED <<chainVars, kv, late, pageVars, lookupVars, known, faults>>

\* The transaction was read for its figure, or was not; the card is replaced.
\* The timer stops; a check ends the payment.
Refuse(t, s) ==
    /\ At(t, s, "found")
    /\ Shows(t, "alreadyPaid")
    /\ Moves(t, s, "stopped")
    /\ IF s = "check" THEN pay' = [pay EXCEPT ![t] = "over"] ELSE UNCHANGED pay
    /\ UNCHANGED <<chainVars, proxyVars, sent, polls, ticks, held, known, faults>>

Look(t, s) ==
    \/ PrimaryAnswers(t, s) \/ PrimaryFails(t, s)
    \/ ProxyFails(t, s) \/ ProxyHit(t, s)
    \/ \E fastUp, deepUp \in BOOLEAN : ProxyReads(t, s, fastUp, deepUp)
    \/ Stored(t, s) \/ StoreFails(t, s)
    \/ Refuse(t, s)

-----------------------------------------------------------------------------
(***************************************************************************)
(* The page.                                                               *)
(***************************************************************************)

unasked == <<chainVars, proxyVars, held, faults>>

Open(t) ==
    /\ card[t] = "closed"
    /\ Shows(t, "payable")
    /\ pay' = [pay EXCEPT ![t] = "ready"]
    /\ Moves(t, "watch", "primary")
    /\ UNCHANGED <<unasked, sent, polls, ticks, known>>

TimerFires(t) ==
    /\ At(t, "watch", "off")
    /\ card[t] # "closed"
    /\ ticks[t] < PollMax
    /\ ticks' = [ticks EXCEPT ![t] = @ + 1]
    /\ Moves(t, "watch", "primary")
    /\ UNCHANGED <<unasked, pay, card, sent, polls, known>>

unlooked == <<unasked, lookup, known, sent, ticks>>

\* Connecting and building; the button is disabled.
Click(t) ==
    /\ pay[t] = "ready"
    /\ card[t] = "payable"
    /\ pay' = [pay EXCEPT ![t] = "building"]
    /\ UNCHANGED <<unlooked, card, polls>>

\* The wallet does not connect, holds too little, or a read fails: the button
\* is enabled again.
BuildFails(t) ==
    /\ pay[t] = "building"
    /\ Goes(t, "ready")
    /\ UNCHANGED <<unlooked, card, polls>>

\* DEFECT: the wallet opens on the answer of the timer's last lookup.
TrustsTimer(t) ==
    /\ pay[t] = "building"
    /\ Goes(t, "wallet")
    /\ known' = [known EXCEPT ![t] = Settled]
    /\ UNCHANGED <<unasked, lookup, card, sent, polls, ticks>>

CheckAgain(t) ==
    /\ pay[t] = "building"
    /\ Goes(t, "checking")
    /\ IF Replaced(t)
       THEN UNCHANGED <<lookup, known>>
       ELSE Moves(t, "check", "primary") /\ known' = [known EXCEPT ![t] = Settled]
    /\ UNCHANGED <<unasked, card, sent, polls, ticks>>

\* The customer declines.
Decline(t) ==
    /\ pay[t] = "wallet"
    /\ Goes(t, "ready")
    /\ UNCHANGED <<unlooked, card, polls>>

\* The customer approves: the wallet signs and broadcasts in one call, whatever
\* the card shows by now.
Approve(t) ==
    /\ pay[t] = "wallet"
    /\ Broadcast
    /\ sent' = [sent EXCEPT ![t] = Append(@, made + 1)]
    /\ pay' = [pay EXCEPT ![t] = "sent"]
    /\ UNCHANGED <<history, pruned, proxyVars, card, polls, ticks, lookupVars, known, faults>>

WalletReturns(t) ==
    /\ pay[t] = "sent"
    /\ Goes(t, "confirming")
    /\ polls' = [polls EXCEPT ![t] = 0]
    /\ UNCHANGED <<unlooked, card>>

\* The wallet throws after it broadcast; the catch enables the button.
WalletThrows(t) ==
    /\ pay[t] = "sent"
    /\ Fault
    /\ Goes(t, "ready")
    /\ UNCHANGED <<chainVars, proxyVars, card, sent, polls, ticks, lookupVars, known>>

Status(t) == {history[i].ok : i \in {j \in DOMAIN history : history[j].tx = sent[t][Len(sent[t])]}}

\* showPaid clears whatever the card holds.
PollConfirmed(t) ==
    /\ pay[t] = "confirming"
    /\ TRUE \in Status(t)
    /\ Shows(t, "paid")
    /\ pay' = [pay EXCEPT ![t] = "over"]
    /\ UNCHANGED <<unlooked, polls>>

\* DEFECT: nothing moved, so the button is enabled again.
EndsReady(t, outcome) ==
    /\ IF Replaced(t) THEN UNCHANGED card ELSE Shows(t, "payable")
    /\ pay' = [pay EXCEPT ![t] = "ready"]

\* The outcome is written beside a button that stays disabled.
Ends(t, outcome) ==
    /\ IF Replaced(t) THEN UNCHANGED card ELSE Shows(t, outcome)
    /\ pay' = [pay EXCEPT ![t] = "over"]

PollFailed(t) ==
    /\ pay[t] = "confirming"
    /\ FALSE \in Status(t)
    /\ Ends(t, "failed")
    /\ UNCHANGED <<unlooked, polls>>

AsksAgain(t) == polls[t] + 1 < Attempts

\* Not confirmed yet, or the endpoint did not answer.
PollNothing(t) ==
    /\ pay[t] = "confirming"
    /\ \/ Status(t) = {} /\ UNCHANGED faults
       \/ Fault
    /\ polls' = [polls EXCEPT ![t] = @ + 1]
    /\ IF AsksAgain(t)
       THEN Goes(t, "confirming") /\ UNCHANGED card
       ELSE Ends(t, "unknown")
    /\ UNCHANGED <<chainVars, proxyVars, lookupVars, known, sent, ticks>>

Confirm(t) == PollConfirmed(t) \/ PollFailed(t) \/ PollNothing(t)

-----------------------------------------------------------------------------

Init ==
    /\ history = <<>> /\ pool = {} /\ made = 0 /\ pruned = 0
    /\ kv = {} /\ quiet = FALSE /\ late = {}
    /\ pay = [t \in Loads |-> "closed"]
    /\ card = [t \in Loads |-> "closed"]
    /\ sent = [t \in Loads |-> <<>>]
    /\ polls = [t \in Loads |-> 0]
    /\ ticks = [t \in Loads |-> 0]
    /\ lookup = [t \in Loads |-> [s \in Slots |-> "off"]]
    /\ held = [t \in Loads |-> [s \in Slots |-> {}]]
    /\ known = [t \in Loads |-> FALSE]
    /\ faults = 0

Page(t) ==
    \/ Open(t) \/ TimerFires(t) \/ Click(t) \/ BuildFails(t) \/ CheckAgain(t)
    \/ Decline(t) \/ Approve(t) \/ WalletReturns(t) \/ WalletThrows(t)
    \/ Confirm(t)

Next ==
    \/ PhonePays \/ Prune \/ ExpireMarker
    \/ \E x \in pool : Expire(x) \/ \E ok \in BOOLEAN : Land(x, ok)
    \/ \E list \in late : StoredLate(list)
    \/ \E t \in Loads : Page(t) \/ \E s \in Slots : Look(t, s)

Spec == Init /\ [][Next]_vars

\* The browser's timer fires and every call ends, with an answer or by the 6
\* seconds of rpc().
FairSpec ==
    /\ Spec
    /\ \A t \in Loads : WF_vars(TimerFires(t)) /\ WF_vars(Look(t, "watch"))

-----------------------------------------------------------------------------
(***************************************************************************)
(* Properties.                                                             *)
(***************************************************************************)

PaySteps == {"closed", "ready", "building", "checking", "wallet", "sent", "confirming", "over"}
Cards == {"closed", "payable", "failed", "unknown", "paid", "alreadyPaid"}
LookupSteps == {"off", "primary", "proxy", "store", "found", "stopped"}

ChainTypeOK ==
    /\ history \in Seq([tx : 1..MaxTxs, ok : BOOLEAN])
    /\ made \in 0..MaxTxs
    /\ pool \subseteq 1..made
    /\ pruned \in 0..Len(history)

ProxyTypeOK ==
    /\ kv \subseteq DOMAIN history
    /\ quiet \in BOOLEAN
    /\ late \subseteq SUBSET DOMAIN history

PageTypeOK ==
    /\ pay \in [Loads -> PaySteps]
    /\ card \in [Loads -> Cards]
    /\ sent \in [Loads -> Seq(1..made)]
    /\ polls \in [Loads -> 0..Attempts]
    /\ ticks \in [Loads -> 0..PollMax]

LookupTypeOK ==
    /\ lookup \in [Loads -> [Slots -> LookupSteps]]
    /\ held \in [Loads -> [Slots -> SUBSET DOMAIN history]]
    /\ known \in [Loads -> BOOLEAN]

\* The values the variables take; an answer names transactions that landed.
TypeOK ==
    ChainTypeOK /\ ProxyTypeOK /\ PageTypeOK /\ LookupTypeOK /\ faults \in 0..MaxFaults

\* A good link is refused, and an order shown as paid, only when a transaction
\* that did not fail carries its reference: no failure of the network, of the
\* proxy or of another payment turns a link away (app.js:276-279).
PaidIsSettled == \A t \in Loads : Replaced(t) => Settled

\* A failed transaction carries the reference.  A list that holds nothing else
\* is not empty: it does not escalate, and the proxy answers with it for good
\* (README, section 4).
SomeFailed == \E i \in DOMAIN history : ~history[i].ok

\* The wallet never opens on an order that was settled when the check before it
\* began, unless a call of that check failed or a failed transaction may stand
\* in front of the settlement: neither the endpoint's window nor the marker nor
\* a race with another lookup hides a settlement (payWith, app.js:715-756).
RecheckCatchesSettled ==
    \A t \in Loads : pay[t] = "wallet" /\ known[t] => SomeFailed

\* Whatever its confirmation reports, a page load sends a second transaction
\* only after a wallet threw: no outcome hands the button back
\* (renderOutcome, app.js:491-499).
OneSendPerLoad == \A t \in Loads : Len(sent[t]) <= 1 + faults

\* More timer polls are left than calls that may still fail.
EnoughPolls(t) == PollMax - ticks[t] > MaxFaults - faults

\* An open card whose order has settled flips to paid while the timer runs,
\* also when the settlement has left the endpoint's window (watchForSettlement,
\* app.js:377-398).
SettledCardFlips ==
    \A t \in Loads :
        (Settled /\ card[t] # "closed" /\ EnoughPolls(t)) ~> (Replaced(t) \/ SomeFailed)

\* The card that says "This order has already been paid. Nothing has been sent"
\* is shown only where nothing was sent (app.js:415).
NothingSentIsTrue == \A t \in Loads : card[t] = "alreadyPaid" => sent[t] = <<>>

=============================================================================
