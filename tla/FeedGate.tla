------------------------------ MODULE FeedGate ------------------------------
(***************************************************************************)
(* The x402 gate: one process that sells a feed reading for a payment the  *)
(* buyer signed and the gate broadcasts (x402-feed-gate/src/main.rs, with  *)
(* verification and the daily ledger from lib.rs).                         *)
(*                                                                         *)
(* The server handles one request at a time, so `pc` is the place of the   *)
(* single request in handle_reading.  Every RPC is one step: the chain,    *)
(* the clock and a crash may move between any two of them.  Process        *)
(* memory is the DailyLedger and the request; what a crash leaves is the   *)
(* earnings log and the chain.                                             *)
(***************************************************************************)
EXTENDS DailyLedger

CONSTANTS
    Payments,      \* the signed transactions buyers may present
    NoPayment,     \* no request in hand
    PriceSingle, PriceDayPass,
    Attempts,      \* CONFIRM_ATTEMPTS
    LastDay,       \* bound: the clock stops here
    MaxCrashes,    \* bound: crashes of the gate's process
    Forks,         \* the chain may drop a block it only processed
    ReplyLoss,     \* sendTransaction may take effect and its answer be lost
    LogFaults      \* of "drop": an append fails, wholly or part way; "torn": a
                   \* crash cuts one; "unread": a start cannot read the file

\* What a presented transaction carries, as far as the gate looks at it.  `tx`
\* is its identity (its signature), `amount` the first transfer to the gate's
\* token account that reaches the single price, or less when none does.
PaymentRecord ==
    [tx : STRING, payer : Payers, nonce : Nonces, amount : Nat,
     memo : BOOLEAN, signed : BOOLEAN]

ASSUME PaymentsAssumption ==
    /\ Payments \subseteq PaymentRecord
    /\ NoPayment \notin Payments

ASSUME PricesAssumption == {PriceSingle, PriceDayPass} \subseteq Amounts

ASSUME BoundsAssumption ==
    /\ Attempts \in Nat \ {0} /\ LastDay \in Nat /\ MaxCrashes \in Nat
    /\ Days = 0..LastDay
    /\ Forks \in BOOLEAN /\ ReplyLoss \in BOOLEAN
    /\ LogFaults \subseteq {"drop", "torn", "unread"}

VARIABLES
    pc,          \* where handle_reading is; "down" when no process runs
    cur,         \* the payment in hand
    day,         \* the UTC day read before reserve
    outcome,     \* what settle returned
    attempts,    \* confirmation polls made
    log,         \* the earnings log: the sales on its readable lines, and its tail
    chain,       \* where each transaction stands on the cluster
    today,
    crashes,
    blind,       \* history: a start could not read the log, and restored nothing
    sentOn,      \* history: the day whose cap each broadcast was metered against
    timesSold,   \* history: readings served for each nonce
    soldAmounts  \* history: atomic units served in each ledger row

gateVars == <<pc, cur, day, outcome, attempts>>
worldVars == <<chain, today>>
soldVars == <<timesSold, soldAmounts>>
vars == <<ledgerVars, gateVars, log, worldVars, crashes, blind, sentOn, soldVars>>

NoDay == -1
Outcomes == {"none", "ok", "definite", "unknown"}
ChainStates == {"absent", "inflight", "processed", "confirmed",
                "failing", "failed", "expired"}

\* Money that has moved, or still may.
InPlay == {"inflight", "processed", "confirmed"}

\* The process's locals go out of scope.
NoRequest ==
    /\ cur' = NoPayment
    /\ day' = NoDay
    /\ outcome' = "none"
    /\ attempts' = 0

\* The response is sent and the server waits for the next request.
Answer == pc' = "idle" /\ NoRequest

\* The earnings log: what its complete, readable lines carry, whether its last
\* line lacks its newline (`open`), the sale on that line if it still parses, and
\* whether a line was cut inside a character of its memo (`garbled`).
EmptyLog == [amounts |-> [k \in Keys |-> 0], nonces |-> {}, open |-> FALSE, tail |-> {},
             garbled |-> FALSE]

-----------------------------------------------------------------------------
(***************************************************************************)
(* Verification.                                                           *)
(***************************************************************************)

\* extract_memo_nonce, then verify_x_payment in its order.
Verdict(p) ==
    CASE ~p.memo                                      -> "challenge"
      [] p.memo /\ ~p.signed                          -> "BadSignature"
      [] p.memo /\ p.signed /\ p.amount < PriceSingle -> "NoValidPayment"
      [] p.memo /\ p.signed /\ p.amount >= PriceSingle
           /\ p.amount \notin {PriceSingle, PriceDayPass} -> "PriceMismatch"
      [] OTHER                                        -> "ok"

Row == <<cur.payer, day>>
Holding == {"simulate", "send", "poll", "resolve"}
Hold == [payer |-> cur.payer, nonce |-> cur.nonce, day |-> day, amount |-> cur.amount]

\* No payment, or one that verification or the ledger refuses, is answered 402
\* with a fresh challenge; nothing the gate keeps changes.
Challenge(p) ==
    /\ pc = "idle"
    /\ \/ Verdict(p) # "ok"
       \/ NonceReused(p.nonce)
       \/ DailyCapExceeded(p.payer, p.nonce, today, p.amount)
    /\ UNCHANGED vars

\* A payment is presented and verified, and its room reserved.
Present(p) ==
    /\ pc = "idle"
    /\ Verdict(p) = "ok"
    /\ Reserve(p.payer, p.nonce, today, p.amount)
    /\ cur' = p
    /\ day' = today
    /\ pc' = "simulate"
    /\ UNCHANGED <<outcome, attempts, log, worldVars, crashes, blind, sentOn, soldVars>>

-----------------------------------------------------------------------------
(***************************************************************************)
(* settle: simulate, send, poll.                                           *)
(***************************************************************************)

Settled(o) ==
    /\ outcome' = o
    /\ pc' = "resolve"

unmoved == <<ledgerVars, cur, day, log, today, crashes, blind, soldVars>>

\* The node reports an error: the transfer cannot execute, the blockhash is
\* too old, or the transaction was already processed.
SimulateRefuses ==
    /\ pc = "simulate"
    /\ Settled("definite")
    /\ UNCHANGED <<unmoved, attempts, chain, sentOn>>

\* The simulation succeeds, or the call itself fails and send's own preflight
\* is relied on.
SimulatePasses ==
    /\ pc = "simulate"
    /\ pc' = "send"
    /\ UNCHANGED <<unmoved, outcome, attempts, chain, sentOn>>

\* The node takes the transaction: one it had not seen becomes in flight.
Broadcast ==
    /\ chain' = [chain EXCEPT ![cur] = IF @ = "absent" THEN "inflight" ELSE @]
    /\ sentOn' = [sentOn EXCEPT ![cur] = day]

SendAccepted ==
    /\ pc = "send"
    /\ Broadcast
    /\ pc' = "poll"
    /\ UNCHANGED <<unmoved, outcome, attempts>>

\* Preflight refuses it, or the request never reached the node.
SendRefused ==
    /\ pc = "send"
    /\ Settled("definite")
    /\ UNCHANGED <<unmoved, attempts, chain, sentOn>>

\* The node took it but the answer did not arrive or did not parse, which
\* send_transaction reports as the same Err.
SendReplyLost ==
    /\ ReplyLoss
    /\ pc = "send"
    /\ Broadcast
    /\ Settled("definite")
    /\ UNCHANGED <<unmoved, attempts>>

PollSettled ==
    /\ pc = "poll"
    /\ chain[cur] = "confirmed"
    /\ Settled("ok")
    /\ UNCHANGED <<unmoved, attempts, chain, sentOn>>

\* An error at any commitment is final for settle.
PollFailed ==
    /\ pc = "poll"
    /\ chain[cur] \in {"failing", "failed"}
    /\ Settled("definite")
    /\ UNCHANGED <<unmoved, attempts, chain, sentOn>>

\* DEFECT: a failed call does not count as an attempt.
PollNothingUncounted ==
    /\ pc = "poll"
    /\ UNCHANGED <<pc, outcome, attempts, unmoved, chain, sentOn>>

\* DEFECT: giving up on knowing is reported as knowing that it failed.
PollNothingIsDefinite ==
    /\ pc = "poll"
    /\ attempts' = attempts + 1
    /\ IF attempts' = Attempts THEN Settled("definite") ELSE UNCHANGED <<pc, outcome>>
    /\ UNCHANGED <<unmoved, chain, sentOn>>

\* The call failed, the signature is not known to that node, or it is only
\* processed; the last such poll gives up on knowing.
PollNothing ==
    /\ pc = "poll"
    /\ attempts' = attempts + 1
    /\ IF attempts' = Attempts THEN Settled("unknown") ELSE UNCHANGED <<pc, outcome>>
    /\ UNCHANGED <<unmoved, chain, sentOn>>

-----------------------------------------------------------------------------
(***************************************************************************)
(* Resolve the hold, record the sale, serve the reading.                   *)
(***************************************************************************)

\* DEFECT: an unknown outcome gives the room back.
ReleaseUnlessOk(o) == IF o = "ok" THEN "Confirm" ELSE "Release"

resolution_for(o) == IF o = "definite" THEN "Release" ELSE "Confirm"

\* DEFECT: everything the network did not refuse is served.
ResolveServesUnknown ==
    /\ pc = "resolve"
    /\ IF resolution_for(outcome) = "Confirm" THEN Confirm(Hold) ELSE Release(Hold)
    /\ IF outcome # "definite"
          THEN pc' = "record" /\ UNCHANGED <<cur, day, outcome, attempts>>
          ELSE Answer
    /\ UNCHANGED <<log, worldVars, crashes, blind, sentOn, soldVars>>

Resolve ==
    /\ pc = "resolve"
    /\ IF resolution_for(outcome) = "Confirm" THEN Confirm(Hold) ELSE Release(Hold)
    /\ IF outcome = "ok"
          THEN pc' = "record" /\ UNCHANGED <<cur, day, outcome, attempts>>
          ELSE Answer
    /\ UNCHANGED <<log, worldVars, crashes, blind, sentOn, soldVars>>

\* One more readable line.
WithSale(l, r) ==
    [amounts |-> [l.amounts EXCEPT ![KeyOf(r)] = @ + r.amount],
     nonces  |-> l.nonces \cup {r.nonce},
     open    |-> l.open,
     tail    |-> l.tail,
     garbled |-> l.garbled]

\* Appending to an unterminated line runs the two together: neither parses.
AppendSale(l, r) ==
    IF l.open THEN [l EXCEPT !.open = FALSE, !.tail = {}] ELSE WithSale(l, r)

\* The line cut before its newline, still readable unless it continues another.
Cut(l, r) == [l EXCEPT !.open = TRUE, !.tail = IF l.open THEN {} ELSE {r}]

\* The line cut short of being JSON.
CutShort(l) == [l EXCEPT !.open = TRUE, !.tail = {}]

\* The line cut between the bytes of one character: what is there is not UTF-8, and
\* no later append mends it.
CutInCharacter(l) == [CutShort(l) EXCEPT !.garbled = TRUE]

\* writeln! on an unbuffered file writes the line and its newline separately, and
\* either write may stop part way.
TornAppends(l, r) == {Cut(l, r), CutShort(l), CutInCharacter(l)}

\* DEFECT: the line carries the day of the write, not the day the cap was
\* charged.
RecordOnToday ==
    /\ pc = "record"
    /\ log' = AppendSale(log, [Hold EXCEPT !.day = today])
    /\ pc' = "serve"
    /\ UNCHANGED <<ledgerVars, cur, day, outcome, attempts, worldVars, crashes, blind, sentOn, soldVars>>

record_earning ==
    /\ pc = "record"
    /\ \/ log' = AppendSale(log, Hold)
       \/ "drop" \in LogFaults /\ log' \in {log} \cup TornAppends(log, Hold)
    /\ pc' = "serve"
    /\ UNCHANGED <<ledgerVars, cur, day, outcome, attempts, worldVars, crashes, blind, sentOn, soldVars>>

\* 200 with the reading, or with the error of reading the feed in its place.
Serve ==
    /\ pc = "serve"
    /\ timesSold' = [timesSold EXCEPT ![cur.nonce] = @ + 1]
    /\ soldAmounts' = [soldAmounts EXCEPT ![Row] = @ + cur.amount]
    /\ Answer
    /\ UNCHANGED <<ledgerVars, log, worldVars, crashes, blind, sentOn>>

-----------------------------------------------------------------------------
(***************************************************************************)
(* Crash and restart.  The unit is Restart=always.                         *)
(***************************************************************************)

\* Process memory is gone: the empty ledger stands for it until the restart.
LoseMemory ==
    /\ crashes < MaxCrashes
    /\ crashes' = crashes + 1
    /\ pc' = "down"
    /\ Rehydrate([k \in Keys |-> 0], {})
    /\ NoRequest
    /\ UNCHANGED <<worldVars, blind, sentOn, soldVars>>

Crash == pc # "down" /\ LoseMemory /\ UNCHANGED log

\* A crash inside record_earning.
CrashTearingLog ==
    /\ "torn" \in LogFaults
    /\ pc = "record"
    /\ log' \in TornAppends(log, Hold)
    /\ LoseMemory

\* Every line that parses, the unterminated one included.
Readable(l) ==
    IF l.tail = {} THEN l ELSE WithSale(l, CHOOSE r \in l.tail : TRUE)

\* What load_earnings makes of the file.  read_to_string fails on one that is not
\* UTF-8, and any failure of it reads as a file with no sales and nothing skipped.
load_earnings(l) == IF l.garbled THEN EmptyLog ELSE Readable(l)

\* The unit starts the process again, which restores what it reads of the log.
Restart ==
    /\ pc = "down"
    /\ \/ /\ Rehydrate(load_earnings(log).amounts, load_earnings(log).nonces)
          /\ blind' = (blind \/ log.garbled)
       \/ /\ "unread" \in LogFaults
          /\ Rehydrate(EmptyLog.amounts, {})
          /\ blind' = TRUE
    /\ pc' = "idle"
    /\ UNCHANGED <<cur, day, outcome, attempts, log, worldVars, crashes, sentOn, soldVars>>

-----------------------------------------------------------------------------
(***************************************************************************)
(* The cluster and the clock.                                              *)
(***************************************************************************)

ChainStep(p, from, to) ==
    /\ p.signed
    /\ chain[p] = from
    /\ chain' = [chain EXCEPT ![p] = to]
    /\ UNCHANGED <<ledgerVars, gateVars, log, today, crashes, blind, sentOn, soldVars>>

\* A block takes the transaction, executing it or failing it with an error.
Process(p) == ChainStep(p, "inflight", "processed") \/ ChainStep(p, "inflight", "failing")

Finalise(p) == ChainStep(p, "processed", "confirmed") \/ ChainStep(p, "failing", "failed")

Expire(p) == ChainStep(p, "inflight", "expired")

ForkOut(p) ==
    /\ Forks
    /\ ChainStep(p, "processed", "inflight") \/ ChainStep(p, "failing", "inflight")

Tick ==
    /\ today < LastDay
    /\ today' = today + 1
    /\ UNCHANGED <<ledgerVars, gateVars, log, chain, crashes, blind, sentOn, soldVars>>

-----------------------------------------------------------------------------

Init ==
    /\ spent = [k \in Keys |-> 0]
    /\ settled = [k \in Keys |-> 0]
    /\ used_nonces = {}
    /\ held = {}
    /\ pc = "idle"
    /\ cur = NoPayment
    /\ day = NoDay
    /\ outcome = "none"
    /\ attempts = 0
    /\ log = EmptyLog
    /\ chain = [p \in Payments |-> "absent"]
    /\ today = 0
    /\ crashes = 0
    /\ blind = FALSE
    /\ sentOn = [p \in Payments |-> NoDay]
    /\ timesSold = [n \in Nonces |-> 0]
    /\ soldAmounts = [k \in Keys |-> 0]

Settle ==
    \/ SimulateRefuses \/ SimulatePasses
    \/ SendAccepted \/ SendRefused \/ SendReplyLost
    \/ PollSettled \/ PollFailed \/ PollNothing

\* What handle_reading does with the request in hand.
Handle == Settle \/ Resolve \/ record_earning \/ Serve

World == Tick \/ \E p \in Payments : Process(p) \/ Finalise(p) \/ Expire(p) \/ ForkOut(p)

Next ==
    \/ \E p \in Payments : Challenge(p) \/ Present(p)
    \/ Handle
    \/ Crash \/ CrashTearingLog \/ Restart
    \/ World

Spec == Init /\ [][Next]_vars

\* The thread runs, and each RPC it waits on ends with an answer or an error.
\* systemd restarts the unit.  Nothing obliges the cluster or the buyers.
FairSpec == Spec /\ WF_vars(Handle) /\ WF_vars(Restart)

-----------------------------------------------------------------------------
(***************************************************************************)
(* Properties.                                                             *)
(***************************************************************************)

LogType ==
    [amounts : [Keys -> Nat], nonces : SUBSET Nonces, open : BOOLEAN,
     tail : SUBSET Reservation, garbled : BOOLEAN]

\* The values the gate's variables take.
TypeOK ==
    /\ LedgerTypeOK
    /\ pc \in Holding \cup {"idle", "record", "serve", "down"}
    /\ cur \in Payments \cup {NoPayment}
    /\ day \in Days \cup {NoDay}
    /\ outcome \in Outcomes
    /\ attempts \in 0..Attempts
    /\ log \in LogType
    /\ chain \in [Payments -> ChainStates]
    /\ today \in Days
    /\ crashes \in 0..MaxCrashes
    /\ blind \in BOOLEAN
    /\ sentOn \in [Payments -> Days \cup {NoDay}]
    /\ timesSold \in [Nonces -> Nat]
    /\ soldAmounts \in [Keys -> Nat]

\* Readings served to a payer on a UTC day never exceed the daily cap, however
\* many times the process restarts that day (the reason rehydrate exists,
\* lib.rs:534-541).
SoldWithinCap == \A k \in Keys : soldAmounts[k] <= Cap

\* A nonce buys one reading, across retries of released payments and restarts
\* (main.rs:1226-1231, and record_earning before the response, 1269-1273).
NonceSoldOnce == \A n \in Nonces : timesSold[n] <= 1

\* The gate serves only what the cluster confirmed: no fork, lost answer or
\* failed execution leads to a reading (settle, main.rs:1374-1427).
ServedOnlyConfirmed == pc \in {"record", "serve"} => chain[cur] = "confirmed"

\* While it runs, the process knows of every sale on the log's complete lines:
\* restoring, holding and releasing never lose a recorded sale from the cap or
\* un-burn its nonce, whichever other lines were dropped or cut (load_earnings,
\* rehydrate and release together).  Stated while every start could read the file:
\* one that cannot restores nothing (main.rs:169-172; README, section 4).
LogIsInLedger ==
    ~blind /\ pc # "down" =>
        /\ \A k \in Keys : log.amounts[k] <= spent[k]
        /\ log.nonces \subseteq used_nonces

\* A "definite" failure means what its documentation says, "nothing moved and
\* nothing will": the transaction is not in flight, in a block, or confirmed
\* (SettleFailure::Definite, main.rs:1361-1363).  Stated of the process's first
\* life: a restart may present again what an unknown outcome left in flight.
DefiniteMeansNothingMoves ==
    crashes = 0 /\ pc = "resolve" /\ outcome = "definite" =>
        chain[cur] \in {"absent", "failing", "failed", "expired"}

\* Payments the gate broadcast against a row that stand on the cluster so.
Against(k, states) ==
    {p \in Payments : p.payer = k[1] /\ sentOn[p] = k[2] /\ chain[p] \in states}

\* Money the gate has put in play for a payer on a day is metered against that
\* day's cap from before the broadcast until its outcome is known: a slow
\* confirmation never lets a payer spend past it (resolution_for,
\* main.rs:1336-1353).  Stated of the process's first life and without lost
\* answers and forks, which the code does not withstand (README, section 4).
MoneyInPlayIsMetered ==
    crashes = 0 => \A k \in Keys : Units(Against(k, InPlay)) <= spent[k]

\* What the log restores is a lower bound of what settled, whatever writes were
\* dropped or torn: no sale is restored twice, or to a day it was not metered
\* against (main.rs:291-298, load_earnings 162-167).  Stated while every start
\* could read the file: a process that could not may sell and record again.
RestoredIsLowerBound ==
    ~blind => \A k \in Keys :
        load_earnings(log).amounts[k] <= Units(Against(k, {"confirmed"}))

\* Every accepted request ends, in an answer or in a crash the unit restarts
\* from, so no hold outlives the one request the server handles (the leak the
\* documentation of Reservation warns of, lib.rs:407-413).
EveryRequestEnds == pc # "idle" ~> pc = "idle"

\* The gate implements the abstract specification of a sale.
Contract == INSTANCE SaleContract WITH
    confirmed <- {p \in Payments : chain[p] = "confirmed"}

ImplementsSaleContract == Contract!Spec

=============================================================================
