---------------------------- MODULE CheckoutProofs ----------------------------
(***************************************************************************)
(* Theorems about Checkout, for any number of page loads, transactions,    *)
(* faults and polls: no card says paid where nothing settled, no load      *)
(* sends twice unless a wallet threw, and the check before the wallet      *)
(* misses no settlement it could have seen.                                *)
(***************************************************************************)
EXTENDS Checkout, TLAPS

\* Only a wallet that confirms has polls left.
TypeInv ==
    /\ TypeOK
    /\ \A t \in Loads : pay[t] = "confirming" => polls[t] < Attempts

-----------------------------------------------------------------------------
(***************************************************************************)
(* What the helpers do.                                                    *)
(***************************************************************************)

LEMMA Numbers ==
    /\ Limit \in Nat \ {0} /\ Attempts \in Nat \ {0} /\ MaxTxs \in Nat \ {0}
    /\ PollMax \in Nat /\ MaxFaults \in Nat
BY CheckoutAssumption

LEMMA MovesEffect ==
    ASSUME LookupTypeOK, NEW t \in Loads, NEW s \in Slots, NEW step \in LookupSteps,
           Moves(t, s, step)
    PROVE  /\ lookup' \in [Loads -> [Slots -> LookupSteps]]
           /\ lookup'[t][s] = step
           /\ \A u \in Loads, v \in Slots :
                u # t \/ v # s => lookup'[u][v] = lookup[u][v]
BY DEF LookupTypeOK, Moves

LEMMA GoesEffect ==
    ASSUME PageTypeOK, NEW t \in Loads, NEW step \in PaySteps, Goes(t, step)
    PROVE  /\ pay' \in [Loads -> PaySteps]
           /\ pay'[t] = IF Replaced(t) THEN "over" ELSE step
           /\ \A u \in Loads : u # t => pay'[u] = pay[u]
BY DEF PageTypeOK, Goes, PaySteps

LEMMA PayEffect ==
    ASSUME PageTypeOK, NEW t \in Loads, NEW step \in PaySteps,
           pay' = [pay EXCEPT ![t] = step]
    PROVE  /\ pay' \in [Loads -> PaySteps]
           /\ pay'[t] = step
           /\ \A u \in Loads : u # t => pay'[u] = pay[u]
BY DEF PageTypeOK

LEMMA ShowsEffect ==
    ASSUME PageTypeOK, NEW t \in Loads, NEW what \in Cards, Shows(t, what)
    PROVE  /\ card' \in [Loads -> Cards]
           /\ card'[t] = what
           /\ \A u \in Loads : u # t => card'[u] = card[u]
BY DEF PageTypeOK, Shows

LEMMA ListedType ==
    ASSUME ChainTypeOK, NEW n \in Nat
    PROVE  Listed(n) \subseteq DOMAIN history
BY DEF ChainTypeOK, Listed

\* What an endpoint lists settles an order only if the chain does.
LEMMA SettlesIsSettled ==
    ASSUME NEW list \in SUBSET DOMAIN history, Settles(list)
    PROVE  Settled
BY DEF Settles, Settled

LEMMA AnsweredEffect ==
    ASSUME PageTypeOK, LookupTypeOK, NEW t \in Loads, NEW s \in Slots, NEW list,
           Answered(t, s, list)
    PROVE  /\ lookup' \in [Loads -> [Slots -> LookupSteps]]
           /\ lookup'[t][s] = IF Settles(list) THEN "found" ELSE "off"
           /\ \A u \in Loads, v \in Slots :
                u # t \/ v # s => lookup'[u][v] = lookup[u][v]
           /\ pay' \in [Loads -> PaySteps]
           /\ \A u \in Loads : \/ pay'[u] = pay[u]
                               \/ u = t /\ s = "check" /\ ~Settles(list)
                                    /\ pay'[u] \in {"wallet", "over"}
           /\ UNCHANGED <<card, sent, polls, ticks>>
<1>1. CASE Settles(list)
    BY <1>1, MovesEffect DEF Answered, pageVars, LookupSteps, PageTypeOK
<1>2. CASE ~Settles(list)
    <2>1. Moves(t, s, "off") /\ UNCHANGED <<card, sent, polls, ticks>>
        BY <1>2 DEF Answered
    <2>2. CASE s = "check"
        BY <1>2, <2>1, <2>2, MovesEffect, GoesEffect DEF Answered, LookupSteps, PaySteps
    <2>3. CASE s # "check"
        BY <1>2, <2>1, <2>3, MovesEffect DEF Answered, LookupSteps, PageTypeOK
    <2> QED
        BY <2>2, <2>3
<1> QED
    BY <1>1, <1>2

\* A call of a check that fails leaves nothing known of the order.
LEMMA HurtEffect ==
    ASSUME LookupTypeOK, NEW t \in Loads, NEW s \in Slots, Hurt(t, s)
    PROVE  /\ known' \in [Loads -> BOOLEAN]
           /\ s = "check" => ~known'[t]
           /\ \A u \in Loads : known'[u] => known[u]
<1>1. known' = [known EXCEPT ![t] = known[t] /\ s # "check"]
    BY DEF Hurt
<1>2. known \in [Loads -> BOOLEAN]
    BY DEF LookupTypeOK
<1> QED
    BY <1>1, <1>2

\* The chain does not move, no payment is made, and the step is of one lookup.
LEMMA LookFrame ==
    ASSUME NEW t \in Loads, NEW s \in Slots, Look(t, s)
    PROVE  /\ UNCHANGED <<chainVars, sent, polls, ticks>>
           /\ lookup[t][s] \in {"primary", "proxy", "store", "found"}
BY DEF Look, PrimaryAnswers, PrimaryFails, ProxyFails, ProxyHit, ProxyReads, Stored,
       StoreFails, Refuse, At, Answered, pageVars

LEMMA LookTypes ==
    ASSUME TypeOK, NEW t \in Loads, NEW s \in Slots, Look(t, s)
    PROVE  /\ ProxyTypeOK' /\ LookupTypeOK'
           /\ pay' \in [Loads -> PaySteps] /\ card' \in [Loads -> Cards]
           /\ faults' \in faults..MaxFaults
<1> USE DEF proxyVars
<1>1. /\ ChainTypeOK /\ ProxyTypeOK /\ PageTypeOK /\ LookupTypeOK
      /\ faults \in 0..MaxFaults /\ pruned \in Nat
    BY DEF TypeOK, ChainTypeOK
<1>2. UNCHANGED history
    BY LookFrame DEF chainVars
<1>3. pay' \in [Loads -> PaySteps] /\ card' \in [Loads -> Cards]
    <2>1. CASE Refuse(t, s)
        BY <1>1, <2>1, ShowsEffect, PayEffect DEF Refuse, Cards, PaySteps, PageTypeOK
    <2>2. CASE \E list : Answered(t, s, list)
        BY <1>1, <2>2, AnsweredEffect DEF PageTypeOK
    <2>3. CASE UNCHANGED pageVars
        BY <1>1, <2>3 DEF pageVars, PageTypeOK
    <2> QED
        BY <2>1, <2>2, <2>3
        DEF Look, PrimaryAnswers, PrimaryFails, ProxyFails, ProxyHit, ProxyReads, Stored, StoreFails
<1>4. lookup' \in [Loads -> [Slots -> LookupSteps]]
    <2>1. CASE \E list : Answered(t, s, list)
        BY <1>1, <2>1, AnsweredEffect
    <2>2. CASE \E step \in LookupSteps : Moves(t, s, step)
        BY <1>1, <2>2, MovesEffect
    <2> QED
        BY <2>1, <2>2
        DEF Look, PrimaryAnswers, PrimaryFails, ProxyFails, ProxyHit, ProxyReads, Stored,
            StoreFails, Refuse, LookupSteps
<1>5. held' \in [Loads -> [Slots -> SUBSET DOMAIN history]]
    <2>1. held \in [Loads -> [Slots -> SUBSET DOMAIN history]]
        BY <1>1 DEF LookupTypeOK
    <2>2. CASE UNCHANGED held
        BY <2>1, <2>2
    <2>3. CASE Forgets(t, s)
        BY <2>1, <2>3 DEF Forgets
    <2>4. CASE \E fastUp, deepUp \in BOOLEAN : ProxyReads(t, s, fastUp, deepUp)
        <3>1. Listed(pruned) \subseteq DOMAIN history /\ Listed(0) \subseteq DOMAIN history
            BY <1>1, ListedType
        <3>2. UNCHANGED held \/ \E list \in SUBSET DOMAIN history :
                    held' = [held EXCEPT ![t][s] = list]
            BY <2>4, <3>1 DEF ProxyReads
        <3> QED
            BY <2>1, <3>2
    <2> QED
        BY <2>2, <2>3, <2>4
        DEF Look, PrimaryAnswers, PrimaryFails, ProxyFails, ProxyHit, Stored, StoreFails, Refuse
<1>6. known' \in [Loads -> BOOLEAN]
    <2>1. CASE UNCHANGED known
        BY <1>1, <2>1 DEF LookupTypeOK
    <2>2. CASE Hurt(t, s)
        BY <1>1, <2>2, HurtEffect
    <2> QED
        BY <2>1, <2>2
        DEF Look, PrimaryAnswers, PrimaryFails, ProxyFails, ProxyHit, ProxyReads, Stored,
            StoreFails, Refuse
<1>7. faults' \in faults..MaxFaults
    <2>1. UNCHANGED faults \/ Fault
        BY DEF Look, PrimaryAnswers, PrimaryFails, ProxyFails, ProxyHit, ProxyReads, Stored,
               StoreFails, Refuse
    <2> QED
        BY <1>1, <2>1, Numbers DEF Fault
<1>8. kv' \subseteq DOMAIN history /\ late' \subseteq SUBSET DOMAIN history
    <2>1. held[t][s] \subseteq DOMAIN history
        BY <1>1 DEF LookupTypeOK
    <2> QED
        BY <1>1, <2>1
        DEF Look, PrimaryAnswers, PrimaryFails, ProxyFails, ProxyHit, ProxyReads, Stored,
            StoreFails, Refuse, ProxyTypeOK
<1>9. quiet' \in BOOLEAN
    BY <1>1
    DEF Look, PrimaryAnswers, PrimaryFails, ProxyFails, ProxyHit, ProxyReads, Stored,
        StoreFails, Refuse, ProxyTypeOK
<1> QED
    BY <1>2, <1>3, <1>4, <1>5, <1>6, <1>7, <1>8, <1>9 DEF ProxyTypeOK, LookupTypeOK

-----------------------------------------------------------------------------
(***************************************************************************)
(* Types.                                                                  *)
(***************************************************************************)

LEMMA TypeInit == Init => TypeInv
<1> SUFFICES ASSUME Init PROVE TypeInv
    OBVIOUS
<1>1. ChainTypeOK /\ ProxyTypeOK
    <2>1. history \in Seq([tx : 1..MaxTxs, ok : BOOLEAN]) /\ Len(history) = 0
        BY DEF Init
    <2>2. made \in 0..MaxTxs /\ pool = {} /\ pruned = 0
        BY Numbers DEF Init
    <2>3. quiet \in BOOLEAN
        BY DEF Init
    <2> QED
        BY <2>1, <2>2, <2>3 DEF Init, ChainTypeOK, ProxyTypeOK
<1>2. PageTypeOK
    BY Numbers DEF Init, PageTypeOK, PaySteps, Cards
<1>3. LookupTypeOK
    BY DEF Init, LookupTypeOK, LookupSteps
<1> QED
    BY <1>1, <1>2, <1>3, Numbers DEF Init, TypeInv, TypeOK

LEMMA BroadcastType ==
    ASSUME ChainTypeOK, Broadcast, UNCHANGED <<history, pruned>>
    PROVE  ChainTypeOK' /\ made' = made + 1 /\ made + 1 \in 1..made'
BY Numbers DEF ChainTypeOK, Broadcast

LEMMA ReceiptType ==
    ASSUME NEW X, NEW x \in X, NEW ok \in BOOLEAN
    PROVE  [tx |-> x, ok |-> ok] \in [tx : X, ok : BOOLEAN]
OBVIOUS

\* A step of the chain or of the proxy on its own.
LEMMA WorldType ==
    ASSUME TypeOK,
           \/ PhonePays \/ Prune \/ ExpireMarker
           \/ \E x \in pool : Expire(x) \/ \E ok \in BOOLEAN : Land(x, ok)
           \/ \E list \in late : StoredLate(list)
    PROVE  /\ TypeOK' /\ UNCHANGED <<pay, card, sent, polls, ticks, lookup, known, faults>>
<1> USE DEF chainVars, proxyVars, pageVars, lookupVars
<1>1. ChainTypeOK /\ ProxyTypeOK /\ PageTypeOK /\ LookupTypeOK
    BY DEF TypeOK
<1>2. UNCHANGED <<pay, card, sent, polls, ticks, lookup, held, known, faults>>
    BY DEF PhonePays, Prune, ExpireMarker, Expire, Land, StoredLate
<1>3. ChainTypeOK' /\ made' \in made..MaxTxs /\ DOMAIN history \subseteq DOMAIN history'
    <2>1. CASE PhonePays
        BY <1>1, <2>1, BroadcastType DEF PhonePays, ChainTypeOK
    <2>2. ASSUME NEW x \in pool, NEW ok \in BOOLEAN, Land(x, ok)
          PROVE  ChainTypeOK' /\ made' \in made..MaxTxs /\ DOMAIN history \subseteq DOMAIN history'
        <3>0. x \in 1..MaxTxs
            BY <1>1, Numbers DEF ChainTypeOK
        <3>1. [tx |-> x, ok |-> ok] \in [tx : 1..MaxTxs, ok : BOOLEAN]
            BY <3>0
        <3>2. history \in Seq([tx : 1..MaxTxs, ok : BOOLEAN]) /\ history' = Append(history, [tx |-> x, ok |-> ok])
            BY <1>1, <2>2 DEF Land, ChainTypeOK
        <3>3. /\ history' \in Seq([tx : 1..MaxTxs, ok : BOOLEAN])
              /\ Len(history') = Len(history) + 1
            BY <3>1, <3>2
        <3>4. DOMAIN history \subseteq DOMAIN history' /\ 0..Len(history) \subseteq 0..Len(history')
            BY <3>2, <3>3
        <3> QED
            BY <1>1, <2>2, <3>3, <3>4 DEF Land, ChainTypeOK
    <2>3. CASE Prune \/ ExpireMarker \/ \E x \in pool : Expire(x)
        <3>1. /\ UNCHANGED <<history, made>> /\ pool' \subseteq pool
              /\ pruned' = pruned \/ (pruned' = pruned + 1 /\ pruned < Len(history))
            <4>1. CASE Prune
                BY <4>1 DEF Prune
            <4>2. CASE ExpireMarker
                BY <4>2 DEF ExpireMarker
            <4>3. CASE \E x \in pool : Expire(x)
                BY <4>3 DEF Expire
            <4> QED
                BY <2>3, <4>1, <4>2, <4>3
        <3>2. Len(history) \in Nat
            BY <1>1 DEF ChainTypeOK
        <3> QED
            BY <1>1, <3>1, <3>2 DEF ChainTypeOK
    <2>4. CASE \E list \in late : StoredLate(list)
        BY <1>1, <2>4 DEF StoredLate, ChainTypeOK
    <2> QED
        BY <2>1, <2>2, <2>3, <2>4
<1>4. ProxyTypeOK'
    <2>1. quiet' \in BOOLEAN
        BY <1>1 DEF PhonePays, Prune, ExpireMarker, Expire, Land, StoredLate, ProxyTypeOK
    <2>2. kv' \subseteq DOMAIN history /\ late' \subseteq SUBSET DOMAIN history
        BY <1>1 DEF PhonePays, Prune, ExpireMarker, Expire, Land, StoredLate, ProxyTypeOK
    <2> QED
        BY <1>3, <2>1, <2>2 DEF ProxyTypeOK
<1>5. PageTypeOK'
    <2>1. Seq(1..made) \subseteq Seq(1..made')
        BY <1>1, <1>3 DEF ChainTypeOK
    <2> QED
        BY <1>1, <1>2, <2>1 DEF PageTypeOK
<1>6. LookupTypeOK'
    <2>1. held' \in [Loads -> [Slots -> SUBSET DOMAIN history']]
        BY <1>1, <1>2, <1>3 DEF LookupTypeOK
    <2> QED
        BY <1>1, <1>2, <2>1 DEF LookupTypeOK
<1> QED
    BY <1>2, <1>3, <1>4, <1>5, <1>6 DEF TypeOK

\* A step of the page itself leaves the proxy and the requests alone, but for the
\* request it starts.
LEMMA PageType ==
    ASSUME TypeInv, NEW t \in Loads, Page(t)
    PROVE  TypeInv'
<1> USE DEF chainVars, proxyVars, pageVars, lookupVars, unasked, unlooked
<1> USE DEF Open, TimerFires, Click, BuildFails, CheckAgain, Decline, Approve,
            WalletReturns, WalletThrows, Confirm, PollConfirmed, PollFailed, PollNothing
<1>1. /\ ChainTypeOK /\ ProxyTypeOK /\ PageTypeOK /\ LookupTypeOK
      /\ faults \in 0..MaxFaults
      /\ \A u \in Loads : pay[u] = "confirming" => polls[u] < Attempts
    BY DEF TypeInv, TypeOK
<1>2. UNCHANGED <<history, pruned, kv, quiet, late, held>>
    BY DEF Page
<1>3. ChainTypeOK' /\ made' \in made..MaxTxs
    <2>1. CASE Approve(t)
        BY <1>1, <2>1, BroadcastType DEF ChainTypeOK
    <2>2. CASE UNCHANGED chainVars
        BY <1>1, <2>2 DEF ChainTypeOK
    <2> QED
        BY <2>1, <2>2 DEF Page
<1>4. ProxyTypeOK'
    BY <1>1, <1>2 DEF ProxyTypeOK
<1>5. lookup' \in [Loads -> [Slots -> LookupSteps]]
    <2>1. CASE UNCHANGED lookup
        BY <1>1, <2>1 DEF LookupTypeOK
    <2>2. CASE \E s \in Slots : Moves(t, s, "primary")
        BY <1>1, <2>2, MovesEffect DEF LookupSteps
    <2> QED
        BY <2>1, <2>2 DEF Page, Slots
<1>6. known' \in [Loads -> BOOLEAN]
    <2>1. CASE UNCHANGED known
        BY <1>1, <2>1 DEF LookupTypeOK
    <2>2. CASE known' = [known EXCEPT ![t] = Settled]
        <3>1. Settled \in BOOLEAN
            BY DEF Settled
        <3> QED
            BY <1>1, <2>2, <3>1 DEF LookupTypeOK
    <2> QED
        BY <2>1, <2>2 DEF Page
<1>7. LookupTypeOK'
    BY <1>1, <1>2, <1>5, <1>6 DEF LookupTypeOK
<1>8. pay' \in [Loads -> PaySteps]
    <2>1. CASE UNCHANGED pay
        BY <1>1, <2>1 DEF PageTypeOK
    <2>2. CASE \E step \in PaySteps : Goes(t, step) \/ pay' = [pay EXCEPT ![t] = step]
        BY <1>1, <2>2, GoesEffect, PayEffect
    <2> QED
        BY <2>1, <2>2 DEF Page, Ends, PaySteps
<1>9. card' \in [Loads -> Cards]
    <2>1. CASE UNCHANGED card
        BY <1>1, <2>1 DEF PageTypeOK
    <2>2. CASE \E what \in Cards : Shows(t, what)
        BY <1>1, <2>2, ShowsEffect
    <2> QED
        BY <2>1, <2>2 DEF Page, Ends, Cards
<1>10. sent' \in [Loads -> Seq(1..made')]
    <2>1. Seq(1..made) \subseteq Seq(1..made') /\ sent \in [Loads -> Seq(1..made)]
        BY <1>1, <1>3 DEF ChainTypeOK, PageTypeOK
    <2>2. CASE Approve(t)
        <3>1. made + 1 \in 1..made' /\ sent[t] \in Seq(1..made')
            BY <1>1, <2>1, <2>2, BroadcastType
        <3>2. Append(sent[t], made + 1) \in Seq(1..made')
            BY <3>1
        <3> QED
            BY <2>1, <2>2, <3>2
    <2>3. CASE UNCHANGED sent
        BY <2>1, <2>3
    <2> QED
        BY <2>2, <2>3 DEF Page
<1>11. polls' \in [Loads -> 0..Attempts] /\ ticks' \in [Loads -> 0..PollMax]
    <2>1. polls \in [Loads -> 0..Attempts] /\ ticks \in [Loads -> 0..PollMax]
        BY <1>1 DEF PageTypeOK
    <2>2. \/ UNCHANGED polls
          \/ polls' = [polls EXCEPT ![t] = 0]
          \/ polls[t] < Attempts /\ polls' = [polls EXCEPT ![t] = @ + 1]
        BY <1>1 DEF Page
    <2>3. polls' \in [Loads -> 0..Attempts]
        BY <2>1, <2>2, Numbers
    <2>4. \/ UNCHANGED ticks
          \/ ticks[t] < PollMax /\ ticks' = [ticks EXCEPT ![t] = @ + 1]
        BY DEF Page
    <2>5. ticks' \in [Loads -> 0..PollMax]
        BY <2>1, <2>4, Numbers
    <2> QED
        BY <2>3, <2>5
<1>12. faults' \in 0..MaxFaults
    <2>1. UNCHANGED faults \/ Fault
        BY DEF Page
    <2> QED
        BY <1>1, <2>1, Numbers DEF Fault
<1>13. \A u \in Loads : pay'[u] = "confirming" => polls'[u] < Attempts
    <2>1. CASE WalletReturns(t)
        BY <1>1, <2>1, GoesEffect, Numbers DEF PageTypeOK, PaySteps
    <2>2. CASE PollNothing(t)
        <3>1. polls'[t] = polls[t] + 1 /\ \A u \in Loads : u # t => polls'[u] = polls[u]
            BY <1>1, <2>2 DEF PageTypeOK
        <3>2. /\ \A u \in Loads : u # t => pay'[u] = pay[u]
              /\ pay'[t] = "confirming" => AsksAgain(t)
            BY <1>1, <2>2, GoesEffect, PayEffect DEF Ends, PaySteps
        <3> QED
            BY <1>1, <3>1, <3>2, Numbers DEF AsksAgain, PageTypeOK
    <2>3. CASE /\ UNCHANGED polls
               /\ \A u \in Loads : u # t => pay'[u] = pay[u]
               /\ pay'[t] # "confirming"
        BY <1>1, <2>3
    <2>4. CASE UNCHANGED <<pay, polls>>
        BY <1>1, <2>4
    <2>5. /\ \A step \in PaySteps \ {"confirming"} :
                Goes(t, step) \/ pay' = [pay EXCEPT ![t] = step] =>
                    /\ \A u \in Loads : u # t => pay'[u] = pay[u]
                    /\ pay'[t] # "confirming"
        BY <1>1, GoesEffect, PayEffect
    <2> QED
        BY <2>1, <2>2, <2>3, <2>4, <2>5 DEF Page, Ends, PaySteps
<1> QED
    BY <1>3, <1>4, <1>7, <1>8, <1>9, <1>10, <1>11, <1>12, <1>13
    DEF TypeInv, TypeOK, PageTypeOK

LEMMA TypeNext == TypeInv /\ [Next]_vars => TypeInv'
<1> SUFFICES ASSUME TypeInv, [Next]_vars PROVE TypeInv'
    OBVIOUS
<1>1. CASE \/ PhonePays \/ Prune \/ ExpireMarker
           \/ \E x \in pool : Expire(x) \/ \E ok \in BOOLEAN : Land(x, ok)
           \/ \E list \in late : StoredLate(list)
    BY <1>1, WorldType DEF TypeInv
<1>2. ASSUME NEW t \in Loads, Page(t) PROVE TypeInv'
    BY <1>2, PageType
<1>3. ASSUME NEW t \in Loads, NEW s \in Slots, Look(t, s) PROVE TypeInv'
    <2>1. /\ ProxyTypeOK' /\ LookupTypeOK'
          /\ pay' \in [Loads -> PaySteps] /\ card' \in [Loads -> Cards]
          /\ faults' \in 0..MaxFaults
        BY <1>3, LookTypes DEF TypeInv, TypeOK
    <2>2. ChainTypeOK' /\ PageTypeOK'
        BY <1>3, <2>1, LookFrame DEF chainVars, TypeInv, TypeOK, ChainTypeOK, PageTypeOK
    <2>3. \A u \in Loads : pay'[u] = "confirming" => pay[u] = "confirming"
        <3>1. CASE \E list : Answered(t, s, list)
            BY <3>1, AnsweredEffect DEF TypeInv, TypeOK
        <3>2. CASE Refuse(t, s)
            BY <3>2, PayEffect DEF Refuse, PaySteps, TypeInv, TypeOK
        <3>3. CASE UNCHANGED pay
            BY <3>3
        <3> QED
            BY <1>3, <3>1, <3>2, <3>3
            DEF Look, PrimaryAnswers, PrimaryFails, ProxyFails, ProxyHit, ProxyReads, Stored,
                StoreFails, pageVars
    <2> QED
        BY <1>3, <2>1, <2>2, <2>3, LookFrame DEF TypeInv, TypeOK
<1>4. CASE UNCHANGED vars
    BY <1>4 DEF vars, chainVars, proxyVars, pageVars, lookupVars, TypeInv, TypeOK, ChainTypeOK,
        ProxyTypeOK, PageTypeOK, LookupTypeOK
<1> QED
    BY <1>1, <1>2, <1>3, <1>4 DEF Next

\* The checkout's variables keep their types, whatever fails.
THEOREM TypeCorrect == Spec => []TypeOK
<1>1. TypeInv => TypeOK
    BY DEF TypeInv
<1> QED
    BY <1>1, TypeInit, TypeNext, PTL DEF Spec

-----------------------------------------------------------------------------
(***************************************************************************)
(* What a lookup can do to the page it runs on.                            *)
(***************************************************************************)

Active == {"primary", "proxy", "store", "found"}

LEMMA LookOutcome ==
    ASSUME TypeOK, NEW t \in Loads, NEW s \in Slots, Look(t, s)
    PROVE  /\ lookup'[t][s] = "found" => Settled
           /\ \A u \in Loads, v \in Slots :
                u # t \/ v # s => lookup'[u][v] = lookup[u][v]
           /\ \/ UNCHANGED card
              \/ /\ lookup[t][s] = "found"
                 /\ \A u \in Loads : u # t => card'[u] = card[u]
           /\ \A u \in Loads : \/ pay'[u] = pay[u]
                               \/ u = t /\ s = "check" /\ pay'[u] \in {"wallet", "over"}
           /\ lookup'[t][s] \in Active => pay'[t] = pay[t]
<1>1. /\ ChainTypeOK /\ ProxyTypeOK /\ PageTypeOK /\ LookupTypeOK /\ pruned \in Nat
    BY DEF TypeOK, ChainTypeOK
<1>2. ASSUME NEW list \in SUBSET DOMAIN history, Answered(t, s, list)
      PROVE  /\ lookup'[t][s] = "found" => Settled
             /\ \A u \in Loads, v \in Slots :
                  u # t \/ v # s => lookup'[u][v] = lookup[u][v]
             /\ UNCHANGED card
             /\ \A u \in Loads : \/ pay'[u] = pay[u]
                                 \/ u = t /\ s = "check" /\ pay'[u] \in {"wallet", "over"}
             /\ lookup'[t][s] \in Active => pay'[t] = pay[t]
    <2>1. lookup'[t][s] = IF Settles(list) THEN "found" ELSE "off"
        BY <1>1, <1>2, AnsweredEffect
    <2> QED
        BY <1>1, <1>2, <2>1, AnsweredEffect, SettlesIsSettled DEF Active
<1>3. CASE PrimaryAnswers(t, s) \/ PrimaryFails(t, s)
    <2>1. UNCHANGED <<pay, card>>
        BY <1>3 DEF PrimaryAnswers, PrimaryFails, pageVars
    <2>2. \E step \in {"found", "proxy"} :
            Moves(t, s, step) /\ (step = "found" => Settles(Listed(pruned)))
        BY <1>3 DEF PrimaryAnswers, PrimaryFails
    <2> QED
        BY <1>1, <2>1, <2>2, MovesEffect, ListedType, SettlesIsSettled DEF LookupSteps
<1>4. CASE ProxyFails(t, s)
    BY <1>2, <1>4 DEF ProxyFails
<1>5. CASE ProxyHit(t, s)
    BY <1>1, <1>2, <1>5 DEF ProxyHit, ProxyTypeOK
<1>6. ASSUME NEW fastUp \in BOOLEAN, NEW deepUp \in BOOLEAN, ProxyReads(t, s, fastUp, deepUp)
      PROVE  Answered(t, s, {}) \/ (Moves(t, s, "store") /\ UNCHANGED pageVars)
    BY <1>6 DEF ProxyReads
<1>7. CASE Moves(t, s, "store") /\ UNCHANGED pageVars
    BY <1>1, <1>7, MovesEffect DEF LookupSteps, pageVars
<1>8. CASE Stored(t, s) \/ StoreFails(t, s)
    <2>1. held[t][s] \subseteq DOMAIN history
        BY <1>1 DEF LookupTypeOK
    <2> QED
        BY <1>2, <1>8, <2>1 DEF Stored, StoreFails
<1>9. CASE Refuse(t, s)
    <2>1. /\ lookup[t][s] = "found" /\ lookup'[t][s] = "stopped"
          /\ \A u \in Loads, v \in Slots :
                u # t \/ v # s => lookup'[u][v] = lookup[u][v]
        BY <1>1, <1>9, MovesEffect DEF Refuse, At, LookupSteps
    <2>2. \A u \in Loads : u # t => card'[u] = card[u]
        BY <1>1, <1>9, ShowsEffect DEF Refuse, Cards
    <2>3. \A u \in Loads : \/ pay'[u] = pay[u]
                           \/ u = t /\ s = "check" /\ pay'[u] = "over"
        BY <1>1, <1>9, PayEffect DEF Refuse, PaySteps
    <2> QED
        BY <2>1, <2>2, <2>3 DEF Active
<1> QED
    BY <1>2, <1>3, <1>4, <1>5, <1>6, <1>7, <1>8, <1>9 DEF Look

\* A settlement, and a failed transaction, stay in the history.
LEMMA HistoryStays ==
    ASSUME TypeOK, [Next]_vars
    PROVE  (Settled => Settled') /\ (SomeFailed => SomeFailed')
<1>1. \/ UNCHANGED history
      \/ \E r : history' = Append(history, r)
    BY LookFrame
    DEF Next, Page, vars, chainVars, unasked, unlooked, PhonePays, Prune, ExpireMarker, Expire,
        Land, StoredLate, Open, TimerFires, Click, BuildFails, CheckAgain, Decline, Approve,
        WalletReturns, WalletThrows, Confirm, PollConfirmed, PollFailed, PollNothing
<1>2. history \in Seq([tx : 1..MaxTxs, ok : BOOLEAN])
    BY DEF TypeOK, ChainTypeOK
<1>3. \A i \in DOMAIN history : i \in DOMAIN history' /\ history'[i] = history[i]
    <2>1. ASSUME NEW r, history' = Append(history, r)
          PROVE  \A i \in DOMAIN history : i \in DOMAIN history' /\ history'[i] = history[i]
        BY <1>2, <2>1
    <2> QED
        BY <1>1, <2>1
<1> QED
    BY <1>3 DEF Settled, SomeFailed

-----------------------------------------------------------------------------
(***************************************************************************)
(* Cards.  A replaced card, and a lookup about to replace one, belong to a *)
(* settled order.                                                          *)
(***************************************************************************)

PaidInv ==
    /\ PaidIsSettled
    /\ \A t \in Loads, s \in Slots : lookup[t][s] = "found" => Settled

LEMMA PaidNext == TypeInv /\ PaidInv /\ [Next]_vars => PaidInv'
<1> SUFFICES ASSUME TypeInv, PaidInv, [Next]_vars PROVE PaidInv'
    OBVIOUS
<1>1. TypeOK /\ PageTypeOK /\ LookupTypeOK
    BY DEF TypeInv, TypeOK
<1>2. Settled => Settled'
    BY <1>1, HistoryStays
<1>3. CASE UNCHANGED <<card, lookup>>
    BY <1>2, <1>3 DEF PaidInv, PaidIsSettled, Replaced
<1>4. ASSUME NEW t \in Loads, NEW s \in Slots, Look(t, s) PROVE PaidInv'
    BY <1>1, <1>2, <1>4, LookOutcome DEF PaidInv, PaidIsSettled, Replaced
<1>5. ASSUME NEW t \in Loads, Page(t) PROVE PaidInv'
    <2>1. \A u \in Loads : Replaced(u)' => Replaced(u) \/ Settled
        <3>1. CASE UNCHANGED card
            BY <3>1 DEF Replaced
        <3>2. CASE PollConfirmed(t)
            <4>1. Settled
                BY <3>2 DEF PollConfirmed, Status, Settled
            <4> QED
                BY <4>1
        <3>3. CASE \E what \in Cards \ {"paid", "alreadyPaid"} : Shows(t, what)
            BY <1>1, <3>3, ShowsEffect DEF Replaced
        <3> QED
            BY <1>5, <3>1, <3>2, <3>3
            DEF Page, Open, TimerFires, Click, BuildFails, CheckAgain, Decline, Approve,
                WalletReturns, WalletThrows, Confirm, PollFailed, PollNothing, Ends, Cards
    <2>2. \A u \in Loads, v \in Slots : lookup'[u][v] = "found" => lookup[u][v] = "found"
        <3>1. CASE UNCHANGED lookup
            BY <3>1
        <3>2. CASE \E s \in Slots : Moves(t, s, "primary")
            BY <1>1, <3>2, MovesEffect DEF LookupSteps
        <3> QED
            BY <1>5, <3>1, <3>2
            DEF Page, Open, TimerFires, Click, BuildFails, CheckAgain, Decline, Approve, Slots,
                WalletReturns, WalletThrows, Confirm, PollConfirmed, PollFailed, PollNothing,
                unlooked, lookupVars
    <2> QED
        BY <1>2, <2>1, <2>2 DEF PaidInv, PaidIsSettled
<1> QED
    BY <1>1, <1>3, <1>4, <1>5, WorldType DEF Next, vars, pageVars, lookupVars

\* No card says paid, and no good link is turned away, unless a transaction that
\* did not fail carries the order's reference, whatever fails on the way.
THEOREM PaidMeansSettled == Spec => []PaidIsSettled
<1>1. Init => PaidInv
    BY DEF Init, PaidInv, PaidIsSettled, Replaced
<1>2. PaidInv => PaidIsSettled
    BY DEF PaidInv
<1> QED
    BY <1>1, <1>2, TypeInit, TypeNext, PaidNext, PTL DEF Spec

-----------------------------------------------------------------------------
(***************************************************************************)
(* Sends.  OneSendPerLoad counts faults after the fact; what carries it is *)
(* that a load whose wallet may still open has sent no more than wallets   *)
(* threw, and that a check runs only where the payment waits for it.       *)
(***************************************************************************)

MayOpen == {"closed", "ready", "building", "checking", "wallet"}

SendInv ==
    /\ OneSendPerLoad
    /\ \A t \in Loads : pay[t] \in MayOpen => Len(sent[t]) <= faults
    /\ \A t \in Loads : lookup[t]["check"] \in Active => pay[t] = "checking"
    /\ \A t \in Loads : card[t] = "closed" => pay[t] = "closed"

LEMMA SendPage ==
    ASSUME TypeInv, SendInv, NEW t \in Loads, Page(t)
    PROVE  SendInv'
<1> USE DEF unasked, unlooked, lookupVars
<1>1. /\ PageTypeOK /\ LookupTypeOK /\ faults \in Nat
      /\ \A u \in Loads : Len(sent[u]) \in Nat
    BY DEF TypeInv, TypeOK, PageTypeOK
<1>2. faults' = faults \/ faults' = faults + 1
    BY DEF Page, Open, TimerFires, Click, BuildFails, CheckAgain, Decline, Approve,
           WalletReturns, WalletThrows, Confirm, PollConfirmed, PollFailed, PollNothing, Fault
<1>3. \A u \in Loads : u # t => pay'[u] = pay[u] /\ sent'[u] = sent[u]
    <2>1. UNCHANGED pay \/ \E step \in PaySteps : Goes(t, step) \/ pay' = [pay EXCEPT ![t] = step]
        BY DEF Page, Open, TimerFires, Click, BuildFails, CheckAgain, Decline, Approve, Ends,
               WalletReturns, WalletThrows, Confirm, PollConfirmed, PollFailed, PollNothing,
               PaySteps
    <2>2. UNCHANGED sent \/ sent' = [sent EXCEPT ![t] = Append(@, made + 1)]
        BY DEF Page, Open, TimerFires, Click, BuildFails, CheckAgain, Decline, Approve,
               WalletReturns, WalletThrows, Confirm, PollConfirmed, PollFailed, PollNothing
    <2> QED
        BY <1>1, <2>1, <2>2, GoesEffect, PayEffect DEF PageTypeOK
<1>4. \A u \in Loads : u # t => lookup'[u]["check"] = lookup[u]["check"]
    <2>1. UNCHANGED lookup \/ \E s \in Slots : Moves(t, s, "primary")
        BY DEF Page, Open, TimerFires, Click, BuildFails, CheckAgain, Decline, Approve, Slots,
               WalletReturns, WalletThrows, Confirm, PollConfirmed, PollFailed, PollNothing
    <2> QED
        BY <1>1, <2>1, MovesEffect DEF LookupSteps, Slots
<1>5. /\ pay'[t] \in MayOpen => Len(sent'[t]) <= faults'
      /\ Len(sent'[t]) <= 1 + faults'
      /\ lookup'[t]["check"] \in Active => pay'[t] = "checking"
    <2>1. CASE Open(t) \/ TimerFires(t)
        <3>1. Moves(t, "watch", "primary") /\ UNCHANGED <<sent, faults>>
            BY <2>1 DEF Open, TimerFires
        <3>2. lookup'[t]["check"] = lookup[t]["check"]
            BY <1>1, <3>1, MovesEffect DEF LookupSteps, Slots
        <3>3. CASE TimerFires(t)
            BY <3>1, <3>2, <3>3 DEF TimerFires, SendInv, OneSendPerLoad
        <3>4. CASE Open(t)
            <4>1. pay'[t] = "ready"
                BY <1>1, <3>4, PayEffect DEF Open, PaySteps
            <4>2. pay[t] = "closed"
                BY <3>4 DEF Open, SendInv
            <4>3. Len(sent[t]) <= faults /\ ~(lookup[t]["check"] \in Active)
                BY <4>2 DEF SendInv, MayOpen
            <4> QED
                BY <1>1, <3>1, <3>2, <4>1, <4>3
        <3> QED
            BY <2>1, <3>3, <3>4
    <2>2. CASE Click(t) \/ BuildFails(t) \/ Decline(t) \/ CheckAgain(t)
        <3>1. UNCHANGED <<sent, faults>> /\ pay[t] \in MayOpen /\ pay[t] # "checking"
            BY <2>2 DEF Click, BuildFails, Decline, CheckAgain, MayOpen
        <3>2. Len(sent[t]) <= faults /\ ~(lookup[t]["check"] \in Active)
            BY <3>1 DEF SendInv
        <3>3. CASE UNCHANGED lookup
            BY <1>1, <3>1, <3>2, <3>3
        <3>4. CASE ~Replaced(t) /\ CheckAgain(t)
            BY <1>1, <3>1, <3>2, <3>4, GoesEffect DEF CheckAgain, PaySteps
        <3> QED
            BY <2>2, <3>3, <3>4 DEF Click, BuildFails, Decline, CheckAgain
    <2>3. CASE Approve(t)
        <3>1. /\ pay[t] = "wallet" /\ UNCHANGED <<faults, lookup>>
              /\ sent' = [sent EXCEPT ![t] = Append(@, made + 1)]
              /\ pay' = [pay EXCEPT ![t] = "sent"]
            BY <2>3 DEF Approve
        <3>2. Len(sent[t]) <= faults /\ ~(lookup[t]["check"] \in Active)
            BY <3>1 DEF SendInv, MayOpen
        <3>3. sent \in [Loads -> Seq(1..made)] /\ sent[t] \in Seq(1..made)
            BY <1>1 DEF PageTypeOK
        <3>4. Len(sent'[t]) = Len(sent[t]) + 1
            BY <3>1, <3>3
        <3>5. pay'[t] = "sent"
            BY <1>1, <3>1, PayEffect DEF PaySteps
        <3> QED
            BY <1>1, <3>1, <3>2, <3>4, <3>5 DEF MayOpen
    <2>4. CASE WalletReturns(t) \/ Confirm(t)
        <3>1. /\ UNCHANGED <<sent, lookup>>
              /\ pay[t] \in {"sent", "confirming"}
            BY <2>4 DEF WalletReturns, Confirm, PollConfirmed, PollFailed, PollNothing
        <3>2. pay'[t] \in {"confirming", "over"}
            BY <1>1, <2>4, GoesEffect, PayEffect
            DEF WalletReturns, Confirm, PollConfirmed, PollFailed, PollNothing, Ends, PaySteps
        <3> QED
            BY <1>1, <1>2, <3>1, <3>2 DEF MayOpen, SendInv, OneSendPerLoad
    <2>5. CASE WalletThrows(t)
        <3>1. UNCHANGED <<sent, lookup>> /\ pay[t] = "sent" /\ faults' = faults + 1
            BY <2>5 DEF WalletThrows, Fault
        <3> QED
            BY <1>1, <3>1 DEF MayOpen, SendInv, OneSendPerLoad
    <2> QED
        BY <2>1, <2>2, <2>3, <2>4, <2>5 DEF Page
<1>6. \A u \in Loads : card'[u] = "closed" => pay'[u] = "closed"
    <2>1. \A u \in Loads : card'[u] = "closed" => card[u] = "closed"
        <3>1. UNCHANGED card \/ \E what \in Cards \ {"closed"} : Shows(t, what)
            BY DEF Page, Open, TimerFires, Click, BuildFails, CheckAgain, Decline, Approve, Ends,
                   WalletReturns, WalletThrows, Confirm, PollConfirmed, PollFailed, PollNothing,
                   Cards
        <3> QED
            BY <1>1, <3>1, ShowsEffect
    <2>2. card[t] = "closed" => Open(t)
        BY DEF Page, TimerFires, Click, BuildFails, CheckAgain, Decline, Approve, SendInv,
               WalletReturns, WalletThrows, Confirm, PollConfirmed, PollFailed, PollNothing
    <2>3. Open(t) => card'[t] = "payable"
        BY <1>1, ShowsEffect DEF Open, Cards
    <2> QED
        BY <1>3, <2>1, <2>2, <2>3 DEF SendInv
<1> QED
    BY <1>1, <1>2, <1>3, <1>4, <1>5, <1>6 DEF SendInv, OneSendPerLoad

LEMMA SendNext == TypeInv /\ SendInv /\ [Next]_vars => SendInv'
<1> SUFFICES ASSUME TypeInv, SendInv, [Next]_vars PROVE SendInv'
    OBVIOUS
<1>1. /\ TypeOK /\ faults \in Nat
      /\ \A u \in Loads : Len(sent[u]) \in Nat
    BY DEF TypeInv, TypeOK, PageTypeOK
<1>2. CASE UNCHANGED <<pay, card, sent, lookup, faults>>
    BY <1>2 DEF SendInv, OneSendPerLoad
<1>3. ASSUME NEW t \in Loads, NEW s \in Slots, Look(t, s) PROVE SendInv'
    <2>1. UNCHANGED sent /\ faults' >= faults /\ faults' \in Nat
        BY <1>1, <1>3, LookFrame, LookTypes, Numbers DEF TypeOK
    <2>2. s = "check" => pay[t] = "checking"
        BY <1>3, LookFrame DEF SendInv, Active
    <2>3. \A u \in Loads : pay'[u] \in MayOpen => pay[u] \in MayOpen
        BY <1>1, <1>3, <2>2, LookOutcome DEF MayOpen
    <2>4. \A u \in Loads : lookup'[u]["check"] \in Active => pay'[u] = "checking"
        <3>1. "check" \in Slots
            BY DEF Slots
        <3>2. \A u \in Loads : u # t \/ s # "check" => lookup'[u]["check"] = lookup[u]["check"]
            BY <1>1, <1>3, <3>1, LookOutcome
        <3>3. \A u \in Loads : u # t \/ s # "check" => pay'[u] = pay[u]
            BY <1>1, <1>3, LookOutcome
        <3>4. s = "check" /\ lookup'[t]["check"] \in Active => pay'[t] = "checking"
            BY <1>1, <1>3, <2>2, LookOutcome
        <3> QED
            BY <3>2, <3>3, <3>4 DEF SendInv
    <2>5. \A u \in Loads : card'[u] = "closed" => card[u] = "closed"
        <3>1. CASE UNCHANGED card
            BY <3>1
        <3>2. CASE Refuse(t, s)
            BY <1>1, <3>2, ShowsEffect DEF Refuse, Cards, TypeOK
        <3> QED
            BY <1>1, <1>3, <3>1, <3>2, AnsweredEffect
            DEF Look, PrimaryAnswers, PrimaryFails, ProxyFails, ProxyHit, ProxyReads, Stored,
                StoreFails, pageVars, TypeOK
    <2>6. \A u \in Loads : card'[u] = "closed" => pay'[u] = "closed"
        BY <1>1, <1>3, <2>2, <2>5, LookOutcome DEF SendInv
    <2> QED
        BY <1>1, <2>1, <2>3, <2>4, <2>6 DEF SendInv, OneSendPerLoad
<1>4. ASSUME NEW t \in Loads, Page(t) PROVE SendInv'
    BY <1>4, SendPage
<1> QED
    BY <1>1, <1>2, <1>3, <1>4, WorldType DEF Next, vars, pageVars, lookupVars

\* However the confirmations end and however often the link is opened, a page
\* load sends one transaction more than its wallets threw, at most.
THEOREM LoadSendsOnce == Spec => []OneSendPerLoad
<1>1. Init => SendInv
    BY DEF Init, SendInv, OneSendPerLoad, Active, Slots
<1>2. SendInv => OneSendPerLoad
    BY DEF SendInv
<1> QED
    BY <1>1, <1>2, TypeInit, TypeNext, SendNext, PTL DEF Spec

-----------------------------------------------------------------------------
(***************************************************************************)
(* The check before the wallet.  It can be answered with nothing by the    *)
(* endpoint's window, by the marker and by a stored answer; none of them   *)
(* hides a settlement because the marker stands only while nothing is      *)
(* pruned, and because only answers that list something are stored.        *)
(***************************************************************************)

MarkerInv ==
    /\ quiet => pruned = 0
    /\ \A t \in Loads, s \in Slots : lookup[t][s] = "store" => held[t][s] # {}

CheckInv ==
    /\ MarkerInv
    /\ RecheckCatchesSettled
    /\ \A t \in Loads : known[t] => Settled

\* Somewhere in a settled history, an answer that settles nothing lists a failure.
LEMMA UnsettledListFailed ==
    ASSUME NEW list \in SUBSET DOMAIN history, list # {}, ~Settles(list)
    PROVE  SomeFailed
BY DEF Settles, SomeFailed

LEMMA NewestIsListed ==
    ASSUME ChainTypeOK, history # <<>>
    PROVE  Listed(0) # {}
<1>1. Len(history) \in Nat \ {0}
    BY DEF ChainTypeOK
<1>2. Len(history) \in Listed(0)
    BY <1>1, Numbers DEF Listed
<1> QED
    BY <1>2

\* An answer of nothing, given without a failure, to a request the proxy read:
\* nothing has landed.
LEMMA EmptyReadIsEmpty ==
    ASSUME TypeOK, MarkerInv, NEW t \in Loads, NEW s \in Slots,
           NEW fastUp \in BOOLEAN, NEW deepUp \in BOOLEAN,
           ProxyReads(t, s, fastUp, deepUp), ~Moves(t, s, "store") \/ lookup'[t][s] # "store"
    PROVE  /\ quiet' => quiet \/ history = <<>>
           /\ Hurt(t, s) \/ history = <<>>
<1> DEFINE fast == IF fastUp THEN Listed(pruned) ELSE {}
           escalates == fast = {} /\ ~quiet
           list == IF escalates /\ deepUp THEN Listed(0) ELSE fast
<1>1. ChainTypeOK /\ LookupTypeOK
    BY DEF TypeOK
<1>2. list = {}
    <2>1. list # {} => Moves(t, s, "store")
        BY DEF ProxyReads
    <2>2. Moves(t, s, "store") => lookup'[t][s] = "store"
        BY <1>1, MovesEffect DEF LookupSteps
    <2> QED
        BY <2>1, <2>2
<1>3. quiet' = (quiet \/ (escalates /\ Marks(deepUp)))
    BY <1>2 DEF ProxyReads
<1>4. escalates /\ deepUp => history = <<>>
    BY <1>1, <1>2, NewestIsListed
<1>5. fastUp /\ quiet => history = <<>>
    BY <1>1, <1>2, NewestIsListed DEF MarkerInv
<1>6. Hurt(t, s) \/ (fastUp /\ (deepUp \/ ~escalates))
    BY DEF ProxyReads
<1>7. fast = {}
    BY <1>2, <1>4, NewestIsListed, <1>1
<1> QED
    BY <1>3, <1>4, <1>5, <1>6, <1>7 DEF Marks

\* What a step of a lookup does to the marker, to what is about to be stored, and
\* to a wallet.
LEMMA LookCheck ==
    ASSUME TypeOK, MarkerInv, NEW t \in Loads, NEW s \in Slots, Look(t, s)
    PROVE  /\ quiet' => quiet \/ history = <<>>
           /\ lookup'[t][s] = "store" => held'[t][s] # {}
           /\ \A u \in Loads, v \in Slots : u # t \/ v # s => held'[u][v] = held[u][v]
           /\ \A u \in Loads : known'[u] => known[u]
           /\ \A u \in Loads : pay'[u] = "wallet" /\ pay[u] # "wallet" /\ known'[u]
                                => SomeFailed \/ history = <<>>
<1> USE DEF proxyVars, pageVars
<1>1. /\ ChainTypeOK /\ ProxyTypeOK /\ PageTypeOK /\ LookupTypeOK
      /\ held[t][s] \in SUBSET DOMAIN history
    BY DEF TypeOK, LookupTypeOK
<1>2. ASSUME NEW list, Answered(t, s, list), UNCHANGED held \/ Forgets(t, s)
      PROVE  /\ lookup'[t][s] # "store"
             /\ \A u \in Loads, v \in Slots : u # t \/ v # s => held'[u][v] = held[u][v]
             /\ \A u \in Loads : pay'[u] # pay[u] => u = t /\ s = "check" /\ ~Settles(list)
    <2>1. lookup'[t][s] # "store"
        BY <1>1, <1>2, AnsweredEffect
    <2>2. \A u \in Loads, v \in Slots : u # t \/ v # s => held'[u][v] = held[u][v]
        BY <1>1, <1>2 DEF Forgets, LookupTypeOK
    <2>3. \A u \in Loads : pay'[u] # pay[u] => u = t /\ s = "check" /\ ~Settles(list)
        BY <1>1, <1>2, AnsweredEffect
    <2> QED
        BY <2>1, <2>2, <2>3
<1>3. CASE PrimaryAnswers(t, s) \/ PrimaryFails(t, s)
    <2>1. UNCHANGED <<quiet, held, pay>> /\ (UNCHANGED known \/ Hurt(t, s))
        BY <1>3 DEF PrimaryAnswers, PrimaryFails
    <2>2. \E step \in {"found", "proxy"} : Moves(t, s, step)
        BY <1>3 DEF PrimaryAnswers, PrimaryFails
    <2>3. lookup'[t][s] # "store"
        BY <1>1, <2>2, MovesEffect DEF LookupSteps
    <2> QED
        BY <1>1, <2>1, <2>3, HurtEffect
<1>4. CASE ProxyFails(t, s) \/ StoreFails(t, s)
    <2>1. UNCHANGED quiet /\ Hurt(t, s) /\ Answered(t, s, {}) /\ (UNCHANGED held \/ Forgets(t, s))
        BY <1>4 DEF ProxyFails, StoreFails
    <2> QED
        BY <1>1, <1>2, <2>1, HurtEffect
<1>5. CASE ProxyHit(t, s)
    <2>1. UNCHANGED <<quiet, held, known>> /\ Answered(t, s, kv) /\ kv # {}
        BY <1>5 DEF ProxyHit
    <2>2. kv \in SUBSET DOMAIN history
        BY <1>1 DEF ProxyTypeOK
    <2> QED
        BY <1>2, <2>1, <2>2, UnsettledListFailed
<1>6. CASE Stored(t, s)
    <2>1. /\ UNCHANGED <<quiet, known>> /\ Answered(t, s, held[t][s]) /\ Forgets(t, s)
          /\ lookup[t][s] = "store"
        BY <1>6 DEF Stored, At
    <2>2. held[t][s] # {}
        BY <2>1 DEF MarkerInv
    <2> QED
        BY <1>1, <1>2, <2>1, <2>2, UnsettledListFailed
<1>7. ASSUME NEW fastUp \in BOOLEAN, NEW deepUp \in BOOLEAN, ProxyReads(t, s, fastUp, deepUp)
      PROVE  /\ quiet' => quiet \/ history = <<>>
             /\ lookup'[t][s] = "store" => held'[t][s] # {}
             /\ \A u \in Loads, v \in Slots : u # t \/ v # s => held'[u][v] = held[u][v]
             /\ \A u \in Loads : known'[u] => known[u]
             /\ \A u \in Loads : pay'[u] = "wallet" /\ pay[u] # "wallet" /\ known'[u]
                                  => SomeFailed \/ history = <<>>
    <2>1. UNCHANGED known \/ Hurt(t, s)
        BY <1>7 DEF ProxyReads
    <2>2. CASE Answered(t, s, {}) /\ UNCHANGED held
        BY <1>1, <1>2, <1>7, <2>1, <2>2, EmptyReadIsEmpty, HurtEffect
    <2>3. CASE /\ Moves(t, s, "store") /\ UNCHANGED <<pay, quiet>>
               /\ \E list : list # {} /\ held' = [held EXCEPT ![t][s] = list]
        <3>1. held'[t][s] # {} /\ \A u \in Loads, v \in Slots :
                                    u # t \/ v # s => held'[u][v] = held[u][v]
            BY <1>1, <2>3 DEF LookupTypeOK
        <3> QED
            BY <1>1, <2>1, <2>3, <3>1, HurtEffect
    <2> QED
        BY <1>7, <2>2, <2>3 DEF ProxyReads
<1>8. CASE Refuse(t, s)
    <2>1. UNCHANGED <<quiet, held, known>> /\ Moves(t, s, "stopped")
          /\ (UNCHANGED pay \/ pay' = [pay EXCEPT ![t] = "over"])
        BY <1>8 DEF Refuse
    <2>2. \A u \in Loads : pay'[u] = "wallet" => pay[u] = "wallet"
        BY <1>1, <2>1, PayEffect DEF PaySteps
    <2> QED
        BY <1>1, <2>1, <2>2, MovesEffect DEF LookupSteps
<1> QED
    BY <1>3, <1>4, <1>5, <1>6, <1>7, <1>8 DEF Look

LEMMA CheckNext == TypeInv /\ CheckInv /\ [Next]_vars => CheckInv'
<1> SUFFICES ASSUME TypeInv, CheckInv, [Next]_vars PROVE CheckInv'
    OBVIOUS
<1>1. /\ TypeOK /\ ChainTypeOK /\ ProxyTypeOK /\ PageTypeOK /\ LookupTypeOK
    BY DEF TypeInv, TypeOK
<1>2. (Settled => Settled') /\ (SomeFailed => SomeFailed')
    BY <1>1, HistoryStays
<1>3. ~(Settled /\ history = <<>>)
    BY DEF Settled
<1>4. CASE UNCHANGED <<quiet, pruned, lookup, held, pay, known>>
    BY <1>2, <1>4 DEF CheckInv, MarkerInv, RecheckCatchesSettled
<1>5. CASE \/ PhonePays \/ Prune \/ ExpireMarker
           \/ \E x \in pool : Expire(x) \/ \E ok \in BOOLEAN : Land(x, ok)
           \/ \E list \in late : StoredLate(list)
    <2>1. UNCHANGED <<pay, lookup, held, known>>
        BY <1>5 DEF PhonePays, Prune, ExpireMarker, Expire, Land, StoredLate, chainVars,
              proxyVars, pageVars, lookupVars
    <2>2. UNCHANGED <<quiet, pruned>> \/ ~quiet'
        BY <1>5 DEF PhonePays, Prune, ExpireMarker, Expire, Land, StoredLate, chainVars,
              proxyVars, pageVars, lookupVars
    <2> QED
        BY <1>2, <2>1, <2>2 DEF CheckInv, MarkerInv, RecheckCatchesSettled
<1>6. ASSUME NEW t \in Loads, NEW s \in Slots, Look(t, s) PROVE CheckInv'
    <2>1. UNCHANGED <<history, pruned>>
        BY <1>6, LookFrame DEF chainVars
    <2>2. MarkerInv'
        <3>1. quiet' => pruned' = 0
            BY <1>1, <1>6, <2>1, LookCheck DEF CheckInv, MarkerInv, ChainTypeOK
        <3>2. \A u \in Loads, v \in Slots : lookup'[u][v] = "store" => held'[u][v] # {}
            BY <1>1, <1>6, LookCheck, LookOutcome DEF CheckInv, MarkerInv
        <3> QED
            BY <3>1, <3>2 DEF MarkerInv
    <2>3. \A u \in Loads : known'[u] => Settled
        BY <1>1, <1>6, LookCheck DEF CheckInv
    <2>4. \A u \in Loads : pay'[u] = "wallet" /\ known'[u] => SomeFailed
        BY <1>1, <1>3, <1>6, <2>3, LookCheck DEF CheckInv, RecheckCatchesSettled
    <2> QED
        BY <1>2, <2>2, <2>3, <2>4 DEF CheckInv, RecheckCatchesSettled
<1>7. ASSUME NEW t \in Loads, Page(t) PROVE CheckInv'
    <2> USE DEF chainVars, proxyVars, pageVars, lookupVars, unasked, unlooked
    <2>1. UNCHANGED <<quiet, pruned, held>>
        BY <1>7 DEF Page, Open, TimerFires, Click, BuildFails, CheckAgain, Decline, Approve,
               WalletReturns, WalletThrows, Confirm, PollConfirmed, PollFailed, PollNothing
    <2>2. UNCHANGED lookup \/ \E s \in Slots : Moves(t, s, "primary")
        BY <1>7 DEF Page, Open, TimerFires, Click, BuildFails, CheckAgain, Decline, Approve, Slots,
               WalletReturns, WalletThrows, Confirm, PollConfirmed, PollFailed, PollNothing
    <2>3. \A u \in Loads, v \in Slots : lookup'[u][v] = "store" => lookup[u][v] = "store"
        BY <1>1, <2>2, MovesEffect DEF LookupSteps
    <2>4. UNCHANGED known \/ (CheckAgain(t) /\ known' = [known EXCEPT ![t] = Settled])
        BY <1>7 DEF Page, Open, TimerFires, Click, BuildFails, CheckAgain, Decline, Approve,
               WalletReturns, WalletThrows, Confirm, PollConfirmed, PollFailed, PollNothing
    <2>5. \A u \in Loads : known'[u] => Settled
        BY <1>1, <2>4 DEF CheckInv, LookupTypeOK
    <2>6. \A u \in Loads : pay'[u] = "wallet" => pay[u] = "wallet" /\ (u = t => UNCHANGED known)
        <3>1. \/ UNCHANGED <<pay, known>>
              \/ \E step \in PaySteps \ {"wallet"} :
                    Goes(t, step) \/ pay' = [pay EXCEPT ![t] = step]
            BY <1>7
            DEF Page, Open, TimerFires, Click, BuildFails, CheckAgain, Decline, Approve, Ends,
                WalletReturns, WalletThrows, Confirm, PollConfirmed, PollFailed, PollNothing,
                PaySteps
        <3> QED
            BY <1>1, <3>1, GoesEffect, PayEffect
    <2>7. \A u \in Loads : u # t => known'[u] = known[u]
        BY <1>1, <2>4 DEF LookupTypeOK
    <2>8. \A u \in Loads : pay'[u] = "wallet" /\ known'[u] => SomeFailed
        BY <2>6, <2>7 DEF CheckInv, RecheckCatchesSettled
    <2> QED
        BY <1>2, <2>1, <2>3, <2>5, <2>8 DEF CheckInv, MarkerInv, RecheckCatchesSettled
<1> QED
    BY <1>4, <1>5, <1>6, <1>7 DEF Next, vars, chainVars, proxyVars, pageVars, lookupVars

\* The wallet never opens on an order that had settled when the check before it
\* began, unless a call of that check failed or a failed transaction stands in
\* front: for any window, any pruning and any race of the two lookups.
THEOREM CheckMissesNoSettlement == Spec => []RecheckCatchesSettled
<1>1. Init => CheckInv
    BY DEF Init, CheckInv, MarkerInv, RecheckCatchesSettled
<1>2. CheckInv => RecheckCatchesSettled
    BY DEF CheckInv
<1> QED
    BY <1>1, <1>2, TypeInit, TypeNext, CheckNext, PTL DEF Spec

=============================================================================
