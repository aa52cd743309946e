--------------------------- MODULE ClaimVerifier ---------------------------
(***************************************************************************)
(* What a stranger runs to check the project's claims, and when it may say *)
(* that one stopped holding.                                               *)
(*                                                                         *)
(* scripts/verify-proof.py asks a public node, the payment page and the    *)
(* gate's /health and /selfcheck for one claim after another, falls back   *)
(* to the captured bundle for what the node forgot, and exits 0 (all       *)
(* hold), 1 (a claim broke) or 2 (only the network failed).                *)
(* demo/x402_earnings.py compares the gate's ledger with the chain by the  *)
(* same three codes.  The system changes while either runs, and so does    *)
(* the bundle (module ProofBundle).                                        *)
(*                                                                         *)
(* What a claim says (Holds) is kept apart from what a check can see       *)
(* (Judged): a transaction either ended as the document says or did not,   *)
(* whatever a node still serves and the bundle holds, and a ledger came    *)
(* back whole or not, whatever its counters show.                          *)
(***************************************************************************)
EXTENDS ProofBundle, Sequences

CONSTANTS
    TxSeq,          \* the transactions of the claims, in the script's order
    Tools,          \* which of the two scripts are run
    MaxSales,       \* bound: settlements
    MaxChanges,     \* bound: changes of the system around the scripts
    MaxTroubles,    \* bound: calls of one run that fail
    RPC_ATTEMPTS,   \* tries of one call
    RETRY_BUDGET    \* failed tries of a whole run that may be followed by another

\* The script names the claims' transactions by their signatures.
ASSUME ToolsAssumption ==
    /\ Tools \subseteq {"verify", "earnings"}
    /\ TxSeq \in Seq(Txs) /\ \A t \in Txs : \E i \in DOMAIN TxSeq : TxSeq[i] = t
    /\ Txs \cap {"programs", "feed", "page", "shop", "ledger", "box", "revenue"} = {}

VARIABLES
    world,          \* what the node, the page and the box answer with
    landed,         \* transactions that ended as claimed; the others did not, or never landed
    gate,           \* the gate's ledger, its log and its last restart
    run,            \* each script: its next check, and what failed so far
    seen,           \* history: what was so at some moment of the run
    changes         \* bound counter
verifierVars == <<world, landed, gate, run, seen, changes>>

ChecksChainFirst ==
    [verify   |-> <<"programs">> \o TxSeq \o <<"feed", "page", "shop", "box">>,
     earnings |-> <<"price", "chain", "revenue">>]
Checks == [verify   |-> <<"programs">> \o TxSeq \o <<"feed", "page", "shop", "box">>,
           earnings |-> <<"price", "revenue", "chain">>]
RpcChecks == {"programs", "feed"} \cup Txs
Claims == {"programs", "feed", "page", "shop", "ledger", "box", "revenue"} \cup Txs

\* true, false: claims that were; bare: transactions the bundle did not prove.
Nothing == [true |-> {}, false |-> {}, bare |-> {}]
Waiting == [at |-> 0, fails |-> {}, transport |-> {}, misread |-> {}, tries |-> 0, spent |-> 0, troubles |-> 0,
            bundle |-> Idle.txs, read |-> [restored |-> 0, skipped |-> 0, chain |-> 0]]

VerifierInit ==
    /\ BundleInit
    /\ world = [programs |-> TRUE, feed |-> TRUE, page |-> TRUE, shop |-> TRUE,
                box |-> TRUE, old |-> FALSE]
    /\ landed \in SUBSET Txs
    /\ \E n \in {0, 1} :
          gate = [sold |-> n, log |-> n, memory |-> n, restored |-> n, before |-> n,
                  torn |-> 0, skipped |-> 0, healthy |-> TRUE]
    /\ run = [r \in Tools |-> Waiting]
    /\ seen = [r \in Tools |-> Nothing]
    /\ changes = 0

(***************************************************************************)
(* The system.                                                             *)
(***************************************************************************)

\* A sale settles on chain, counts in memory, and is appended to the log, lost
\* to it, or cut short in it.
Sells ==
    /\ gate.sold < MaxSales
    /\ \E line \in {"whole", "none", "cut"} :
          gate' = [gate EXCEPT !.sold = @ + 1, !.memory = @ + 1,
                               !.log = IF line = "whole" THEN @ + 1 ELSE @,
                               !.torn = IF line = "cut" THEN @ + 1 ELSE @]

RestartsGate ==
    gate' = [gate EXCEPT !.memory = gate.log, !.restored = gate.log, !.before = gate.sold,
                         !.skipped = gate.torn, !.healthy = TRUE]

\* The log is deleted, or carries a line for a sale the chain does not have; a
\* request panics holding the ledger.
LosesLog == gate' = [gate EXCEPT !.log = 0, !.torn = 0]
PadsLog == gate.log <= gate.sold /\ gate' = [gate EXCEPT !.log = @ + 1]
Panics == gate' = [gate EXCEPT !.healthy = FALSE]

GateChanges == (Sells \/ RestartsGate \/ LosesLog \/ PadsLog \/ Panics) /\ UNCHANGED world

WorldChanges ==
    /\ UNCHANGED gate
    /\ \E part \in DOMAIN world : world' = [world EXCEPT ![part] = ~@]

(***************************************************************************)
(* The claims, as they stand.                                              *)
(***************************************************************************)

\* Every sale settled before the last restart was restored by it.
RoundTrips == gate.restored >= gate.before

\* No sale is restored that did not settle, and no line was unreadable.
BorneOut == gate.restored <= gate.sold /\ gate.skipped = 0

Holds(c) ==
    CASE c \in Txs      -> c \in landed
      [] c = "ledger"   -> gate.healthy /\ RoundTrips
      [] c = "revenue"  -> BorneOut
      [] OTHER          -> world[c]

\* The bundle has the bytes of the transaction, and all of it verifies.
Proves(t) == VerifiesOffline /\ file[t] = "captured"

(***************************************************************************)
(* verify-proof.py                                                         *)
(***************************************************************************)
Begin(r) ==
    /\ \A other \in Tools : run[other].at = 0
    /\ run' = [run EXCEPT ![r] = [Waiting EXCEPT !.at = 1]]

Check(r) == Checks[r][run[r].at]
Asking(r, tool) == r = tool /\ run[r].at \in 1..Len(Checks[r])

\* The bundle is read once, between the accounts and the transactions; one that
\* does not parse reads as empty.
bundle_txs(r) == IF Check(r) # "programs" THEN run[r].bundle
                 ELSE IF file = Torn THEN Waiting.bundle ELSE file

After(r, fails, transport, misread, trouble) ==
    run' = [run EXCEPT ![r].at = @ + 1, ![r].tries = 0, ![r].bundle = bundle_txs(r),
                       ![r].fails = @ \cup fails,
                       ![r].transport = @ \cup transport, ![r].misread = @ \cup misread,
                       ![r].troubles = @ + trouble]

\* A verifier that only looks for the name.
NamedOffline(r, t) == VerifiesOffline /\ file[t] # "absent"

\* The offline verifier reads the file anew, checks every entry of it and names
\* the ones that are not CAPTURED too; it does not compare how they ended.
verified_offline(r, t) == IsCaptured(run[r].bundle[t]) /\ VerifiesOffline /\ file[t] # "absent"

\* What a check fails on when the call was answered.  A null for a transaction
\* sends it to the bundle and the offline verifier; of one still served, the
\* outcome is compared with the claim's.
LedgerFails == ~world.old /\ (~gate.healthy \/ (gate.memory > 0 /\ gate.restored = 0))
BoxFails == ~world.old /\ ~world.box
TxFails(r, t) == IF t \in retained THEN t \notin landed ELSE ~verified_offline(r, t)
Judged(r, c) ==
    CASE c \in Txs -> IF TxFails(r, c) THEN {c} ELSE {}
      [] c = "shop" -> (IF world.shop THEN {} ELSE {"shop"})
                          \cup (IF LedgerFails THEN {"ledger"} ELSE {})
      [] c = "box" -> IF BoxFails THEN {"box"} ELSE {}
      [] OTHER -> IF world[c] THEN {} ELSE {c}

\* The first sale of a gate that had none to restore reads as a broken log.
FirstSale(c) == IF c = "shop" /\ LedgerFails /\ gate.before = 0 THEN {"ledger"} ELSE {}

Answered(r) == Asking(r, "verify") /\ After(r, Judged(r, Check(r)), {}, FirstSale(Check(r)), 0)

\* A call the network refuses (no connection, a timeout, HTTP 408, 429 or 5xx) is
\* tried again if it is an RPC call and both counters allow; the last one counts
\* as a failure of transport.
MayRetry(r) == run[r].tries + 1 < RPC_ATTEMPTS /\ run[r].spent + 1 < RETRY_BUDGET
Refused(r) ==
    /\ Asking(r, "verify") /\ run[r].troubles < MaxTroubles
    /\ IF Check(r) \in RpcChecks /\ MayRetry(r)
       THEN run' = [run EXCEPT ![r].tries = @ + 1, ![r].spent = @ + 1, ![r].troubles = @ + 1]
       ELSE After(r, {Check(r)}, {Check(r)}, {}, 1)

\* Any other answer that is none (another 4xx, a body that does not parse or is cut
\* short, another site's page) is a claim that failed, at once and for good, and so
\* is a 503 of whatever stands before /selfcheck; its 404 reads as an older gate.
Misanswered(r) ==
    /\ Asking(r, "verify") /\ run[r].troubles < MaxTroubles
    /\ \E fails \in {{Check(r)}} \cup IF Check(r) = "box" THEN {{}} ELSE {} :
          After(r, fails, {}, fails, 1)

\* json.load(r).get("result") of an error answer is None, which reads as an
\* absent account or transaction.
ErrorAnswer(r) ==
    /\ Asking(r, "verify") /\ Check(r) \in RpcChecks /\ run[r].troubles < MaxTroubles
    /\ LET c == Check(r)
           proved == c \in Txs /\ verified_offline(r, c)
       IN  After(r, IF proved THEN {} ELSE {c}, {}, {c}, 1)

Ends(r) == run' = [run EXCEPT ![r] = Waiting]
Concluded(r) == run[r].at = Len(Checks[r]) + 1

(***************************************************************************)
(* x402_earnings.py: the price, then /health, then the chain.              *)
(***************************************************************************)
Unavailable(r) == r = "earnings" /\ run[r].at # 0 /\ ~Concluded(r) /\ Ends(r)

ReadHealth(r) ==
    /\ Asking(r, "earnings") /\ Check(r) = "revenue" /\ ~world.old
    /\ run' = [run EXCEPT ![r].at = @ + 1,
                          ![r].read.restored = gate.restored, ![r].read.skipped = gate.skipped]
ReadPrice(r) == Asking(r, "earnings") /\ Check(r) = "price" /\ After(r, {}, {}, {}, 0)

\* The listing is at most 100 long, and a transaction the node forgot is skipped.
chain_settlements == 0..gate.sold
Lists(r) ==
    /\ Asking(r, "earnings") /\ Check(r) = "chain"
    /\ \E n \in chain_settlements :
          run' = [run EXCEPT ![r].at = @ + 1, ![r].read.chain = n,
                             ![r].misread = IF n < gate.sold THEN {"revenue"} ELSE {}]

\* The exit codes, once the last check was made.
Exit(r) ==
    LET read == run[r].read IN
    IF r = "earnings"
    THEN IF read.chain = 0 THEN 2
         ELSE IF read.restored > read.chain \/ read.skipped > 0 THEN 1 ELSE 0
    ELSE IF run[r].fails = {} THEN 0
         ELSE IF run[r].transport = run[r].fails THEN 2 ELSE 1
Conclude(r) == Concluded(r) /\ Ends(r)

Earnings(r) == ReadPrice(r) \/ ReadHealth(r) \/ Lists(r) \/ Unavailable(r)
Verify(r) == Answered(r) \/ Refused(r) \/ Misanswered(r) \/ ErrorAnswer(r)

\* What was so in every state a script has run through.
Observe == seen' = [r \in Tools |->
    IF run'[r].at = 0 THEN Nothing
    ELSE IF r = "earnings"
    THEN [Nothing EXCEPT !.true = seen[r].true \cup IF BorneOut' THEN {"revenue"} ELSE {},
                         !.false = seen[r].false \cup IF BorneOut' THEN {} ELSE {"revenue"}]
    ELSE [Nothing EXCEPT !.false = seen[r].false \cup {c \in Claims \ {"revenue"} : ~Holds(c)'},
                         !.bare = seen[r].bare \cup {t \in Txs : ~Proves(t)'}]]

VerifierNext ==
    /\ \/ /\ \E r \in Tools : Begin(r) \/ Verify(r) \/ Earnings(r) \/ Conclude(r)
          /\ UNCHANGED <<bundleVars, world, gate, changes>>
       \/ /\ changes < MaxChanges /\ changes' = changes + 1
          /\ GateChanges \/ WorldChanges
          /\ UNCHANGED <<bundleVars, run>>
       \/ BundleNext /\ UNCHANGED <<world, gate, run, changes>>
    /\ UNCHANGED landed
    /\ Observe

VerifierSpec == VerifierInit /\ [][VerifierNext]_<<bundleVars, verifierVars>>

(***************************************************************************)
(* Properties.                                                             *)
(***************************************************************************)
\* A script that exits 1 names only claims that were false while it ran: a node
\* that did not answer, a sale or a restart between two of its reads, a transaction
\* the node forgot and the bundle proves from beginning to end of the run are never
\* reported as a claim that stopped holding (verify-proof.py:10-14 and 406-415,
\* x402_earnings.py:229-241).  What the scripts do misread is listed: an answer that
\* is none, an error inside an answer, a first sale, a listing that is short, and a
\* forgotten transaction the bundle did not prove all the while.
NoFalseAccusation == \A r \in Tools : Concluded(r) /\ Exit(r) = 1 =>
    LET accused == IF r = "earnings" THEN {"revenue"} ELSE run[r].fails \ run[r].transport
    IN  /\ accused # {}
        /\ accused \subseteq seen[r].false \cup run[r].misread \cup (seen[r].bare \ retained)

\* Exit 0 of the earnings check is said only of a ledger that some moment of the run
\* bore out, though its figures come from two endpoints at two times
\* (x402_earnings.py:229-241).  Exit 0 of the verifier is said of a transaction that
\* did not end as claimed only if no node serves it any more, or an error inside an
\* answer read so, and the bundle the run read held its bytes: they show that it was
\* signed and not how it ended (verify-proof.py:429-450).
GreenWasTrue == \A r \in Tools : Concluded(r) /\ Exit(r) = 0 =>
    IF r = "earnings" THEN "revenue" \in seen[r].true
    ELSE \A t \in Txs \ landed :
            t \notin retained \ run[r].misread /\ IsCaptured(run[r].bundle[t])

\* A capture run writes back everything that was captured when it read the file,
\* whatever the node forgot since and whether forced or not, and one that exits 0
\* holds every signature it was asked for (capture-proof-bundle.py:21-25).
HeldBytesAreKept == [][\A c \in Captures : EndWrite(c) =>
    /\ \A t \in capture[c].held : file'[t] = "captured"
    /\ ExitsZero(c) => \A t \in capture[c].asked : IsCaptured(file'[t])]_bundleVars
=============================================================================
