------------------------------ MODULE Announcer ------------------------------
(***************************************************************************)
(* Settlement receipts: deploy/announce_settlements.sh, run by a timer,    *)
(* and the demo/confirm_settlements.py it calls twice.  One tick scans the *)
(* chain, sends a receipt for each settlement the ledger does not hold,    *)
(* and, when every send returned success, calls the confirmer again to     *)
(* commit what it announced.                                               *)
(*                                                                         *)
(* systemd keeps one tick in flight; seeding, by hand, is taken to run     *)
(* while none is.  Signatures are finalized, so `history` only grows.      *)
(* A receipt's fields are abstracted to the signature they were read from. *)
(***************************************************************************)
EXTENDS Integers, Sequences, FiniteSets

CONSTANTS
    Signatures,   \* transactions that touch the merchant's token account
    Settlements,  \* those that succeeded and raised its balance
    Limit,        \* --limit: signatures one scan sees
    MaxFaults,    \* bound: failed calls, stale answers, failed sends, kills
    BareMeta      \* those a node may answer getTransaction of with "meta": null

ASSUME SignaturesAssumption ==
    Settlements \subseteq Signatures /\ BareMeta \subseteq Signatures
ASSUME AnnouncerBounds ==
    Limit \in Nat \ {0} /\ MaxFaults \in Nat

VARIABLES
    history,   \* the account's signatures, in the order they landed
    ledger,    \* signatures on complete lines (`known`); whether the last line
               \* lacks its newline (`open`), and the signature on it if it
               \* still parses (`tail`)
    cache,     \* signatures cached as not a settlement
    pc,        \* "idle", or what the tick is doing
    mode,      \* what the confirmer is run for: scan, commit or seed
    todo,      \* signatures left to fetch, or receipts left to send
    found,     \* settlements this pass confirmed, oldest first
    negatives, \* signatures this pass classified, or re-used, as negative
    announced, \* ONLY: what this tick sent successfully
    failed,    \* FAILED > 0
    faults,
    sent,      \* history: deliveries of each receipt
    seeded     \* history: signatures recorded by --seed

passVars == <<mode, todo, found, negatives>>
tickVars == <<announced, failed>>
keptVars == <<ledger, cache>>
deliveryVars == <<sent, seeded>>
vars == <<history, keptVars, pc, passVars, tickVars, faults, deliveryVars>>

Elements(s) == {s[i] : i \in DOMAIN s}

\* What the ledger's lines say, the unterminated one included.
load_ledger == ledger.known \cup ledger.tail

Fault ==
    /\ faults < MaxFaults
    /\ faults' = faults + 1

\* The process exits, whatever it reports.
Exit ==
    /\ pc' = "idle"
    /\ todo' = <<>>
    /\ found' = <<>>
    /\ negatives' = {}
    /\ announced' = {}
    /\ failed' = FALSE
    /\ UNCHANGED mode

-----------------------------------------------------------------------------
(***************************************************************************)
(* One pass of the confirmer.                                              *)
(***************************************************************************)

\* The account's last Limit signatures, newest first, as a node that has seen
\* the first n of them answers.
recent_signatures(n) ==
    [i \in 1..(IF n < Limit THEN n ELSE Limit) |-> history[n + 1 - i]]

StartPass(m) ==
    /\ pc' = "window"
    /\ mode' = m
    /\ todo' = <<>>
    /\ found' = <<>>
    /\ negatives' = {}

\* The timer fires: the tick's scan.
Tick ==
    /\ pc = "idle"
    /\ StartPass("scan")
    /\ UNCHANGED <<history, keptVars, tickVars, faults, deliveryVars>>

\* The operator adopts the current history before the first tick.
Seed ==
    /\ pc = "idle"
    /\ load_ledger = {}
    /\ StartPass("seed")
    /\ UNCHANGED <<history, keptVars, tickVars, faults, deliveryVars>>

\* DEFECT: the commit pass is not narrowed to what was announced.
WantedUnnarrowed(s) == s \notin load_ledger

\* DEFECT: a signature the ledger holds is looked at again.
WantedAgain(s) == mode = "commit" => s \in announced

\* Not recorded, and within --only.
Wanted(s) ==
    /\ s \notin load_ledger
    /\ mode = "commit" => s \in announced

\* A commit pass neither reads nor writes the cache.
CachedNegative == IF mode = "commit" THEN {} ELSE cache

\* Both reads succeed.
ReadWindow(n) ==
    /\ pc = "window"
    /\ pc' = "fetch"
    /\ todo' = recent_signatures(n)
    /\ UNCHANGED <<history, keptVars, mode, found, negatives, tickVars, deliveryVars>>

ReadFresh == ReadWindow(Len(history)) /\ UNCHANGED faults

\* The fallback endpoint has not caught up.
ReadStale == Fault /\ \E n \in 0..Len(history) : ReadWindow(n)

\* Every endpoint failed.  The scan's exit status is dropped by `|| true`, so
\* the tick finds nothing to announce; a commit is rejected.
Unreachable ==
    /\ pc = "window"
    /\ Fault
    /\ Exit
    /\ UNCHANGED <<history, keptVars, deliveryVars>>

\* The loop of collect_settlements takes the next signature of the window.
Examining ==
    /\ pc = "fetch" /\ todo # <<>>
    /\ todo' = Tail(todo)
    /\ UNCHANGED <<history, keptVars, pc, mode, tickVars, deliveryVars>>

\* Recorded already, or outside --only.
Skip ==
    /\ Examining
    /\ ~Wanted(Head(todo))
    /\ UNCHANGED <<found, negatives, faults>>

CacheHit ==
    /\ Examining
    /\ Wanted(Head(todo)) /\ Head(todo) \in CachedNegative
    /\ negatives' = negatives \cup {Head(todo)}
    /\ UNCHANGED <<found, faults>>

\* The rest is asked of the chain.
Fetching ==
    /\ Examining
    /\ Wanted(Head(todo)) /\ Head(todo) \notin CachedNegative

\* found.reverse() at the end is one prepend per settlement.
settlement_from_tx ==
    /\ Fetching
    /\ \/ /\ Head(todo) \in Settlements
          /\ found' = <<Head(todo)>> \o found
          /\ UNCHANGED negatives
       \/ /\ Head(todo) \notin Settlements
          /\ negatives' = negatives \cup {Head(todo)}
          /\ UNCHANGED found
    /\ UNCHANGED faults

\* No endpoint returned the transaction: neither announced nor cached.
Unverifiable ==
    /\ Fetching
    /\ Fault
    /\ UNCHANGED <<found, negatives>>

\* A transaction without its meta has no token balances: not a settlement.
FetchBare ==
    /\ Fetching
    /\ Head(todo) \in BareMeta
    /\ Fault
    /\ negatives' = negatives \cup {Head(todo)}
    /\ UNCHANGED found

PassRead == pc = "fetch" /\ todo = <<>>

\* The ledger after records rs are appended: the first of them continues an
\* unterminated line, which then parses as neither record.
Appended(rs) ==
    IF rs = <<>> THEN ledger
    ELSE [known |-> ledger.known
                      \cup Elements(IF ledger.open THEN Tail(rs) ELSE rs),
          open |-> FALSE,
          tail |-> {}]

\* The scan keeps its negatives, then prints what it found.
EndScan ==
    /\ PassRead /\ mode = "scan"
    /\ cache' = negatives
    /\ \/ /\ found = <<>>
          /\ Exit
       \/ /\ found # <<>>
          /\ pc' = "send"
          /\ todo' = found
          /\ found' = <<>>
          /\ negatives' = {}
          /\ UNCHANGED <<mode, tickVars>>
    /\ UNCHANGED <<history, ledger, faults, deliveryVars>>

EndCommit ==
    /\ PassRead /\ mode = "commit"
    /\ ledger' = Appended(found)
    /\ Exit
    /\ UNCHANGED <<history, cache, faults, deliveryVars>>

EndSeed ==
    /\ PassRead /\ mode = "seed"
    /\ cache' = negatives
    /\ ledger' = Appended(found)
    /\ seeded' = seeded \cup Elements(found)
    /\ Exit
    /\ UNCHANGED <<history, faults, sent>>

-----------------------------------------------------------------------------
(***************************************************************************)
(* Sending.                                                                *)
(***************************************************************************)

Delivered(s) == sent' = [sent EXCEPT ![s] = @ + 1]

Sending ==
    /\ pc = "send" /\ todo # <<>>
    /\ todo' = Tail(todo)
    /\ UNCHANGED <<history, keptVars, pc, mode, found, negatives, seeded>>

send_one ==
    /\ Sending
    /\ Delivered(Head(todo))
    /\ announced' = announced \cup {Head(todo)}
    /\ UNCHANGED <<failed, faults>>

\* DEFECT: a failed send is counted as announced.
SendFailsSilently ==
    /\ Sending
    /\ Fault
    /\ announced' = announced \cup {Head(todo)}
    /\ UNCHANGED <<failed, sent>>

\* The send reports failure, whether or not it delivered.
SendFails ==
    /\ Sending
    /\ Fault
    /\ failed' = TRUE
    /\ Delivered(Head(todo)) \/ UNCHANGED sent
    /\ UNCHANGED announced

\* Commit only if every send landed.
EndSends ==
    /\ pc = "send" /\ todo = <<>>
    /\ \/ failed /\ Exit
       \/ ~failed /\ StartPass("commit") /\ UNCHANGED tickVars
    /\ UNCHANGED <<history, keptVars, faults, deliveryVars>>

-----------------------------------------------------------------------------
(***************************************************************************)
(* Kills: TimeoutStartSec, a reboot, an operator's interrupt.              *)
(***************************************************************************)

\* A line without its newline begins to follow those of l; it parses only if it
\* is whole and continues no other.
WithPiece(l, piece) ==
    [known |-> l.known, open |-> TRUE, tail |-> IF l.open THEN {} ELSE piece]

\* What a kill can leave of an append: some of the records, and of the next one
\* nothing, a piece that does not parse, or all but its newline.
AppendCut(rs) ==
    \E k \in 0..Len(rs) :
        \/ ledger' = Appended(SubSeq(rs, 1, k))
        \/ /\ k < Len(rs)
           /\ \E piece \in {{}, {rs[k + 1]}} :
                 ledger' = WithPiece(Appended(SubSeq(rs, 1, k)), piece)

\* write_text truncates, then writes.
SaveCut == cache' \in {cache, {}, negatives}

Kill ==
    /\ pc # "idle"
    /\ Fault
    /\ Exit
    /\ \/ ~PassRead /\ UNCHANGED <<keptVars, deliveryVars>>
       \/ pc = "send" /\ todo # <<>> /\ Delivered(Head(todo))
            /\ UNCHANGED <<keptVars, seeded>>
       \/ PassRead /\ mode = "scan" /\ SaveCut /\ UNCHANGED <<ledger, deliveryVars>>
       \/ PassRead /\ mode = "commit" /\ AppendCut(found)
            /\ UNCHANGED <<cache, deliveryVars>>
       \/ PassRead /\ mode = "seed" /\ SaveCut /\ UNCHANGED <<ledger, deliveryVars>>
       \/ PassRead /\ mode = "seed" /\ cache' = negatives /\ AppendCut(found)
            /\ seeded' = seeded \cup Elements(found)
            /\ UNCHANGED sent
    /\ UNCHANGED history

-----------------------------------------------------------------------------
Init ==
    /\ history = <<>>
    /\ ledger = [known |-> {}, open |-> FALSE, tail |-> {}]
    /\ cache = {}
    /\ pc = "idle"
    /\ mode = "scan"
    /\ todo = <<>>
    /\ found = <<>>
    /\ negatives = {}
    /\ announced = {}
    /\ failed = FALSE
    /\ faults = 0
    /\ sent = [s \in Signatures |-> 0]
    /\ seeded = {}

\* A transaction that touches the account is finalized.
Land(s) ==
    /\ s \notin Elements(history)
    /\ history' = Append(history, s)
    /\ UNCHANGED <<keptVars, pc, passVars, tickVars, faults, deliveryVars>>

Run ==
    \/ ReadFresh \/ ReadStale \/ Unreachable
    \/ Skip \/ CacheHit \/ settlement_from_tx \/ Unverifiable \/ FetchBare
    \/ EndScan \/ EndCommit \/ EndSeed
    \/ send_one \/ SendFails \/ EndSends

Next ==
    \/ \E s \in Signatures : Land(s)
    \/ Tick \/ Seed \/ Run \/ Kill

Spec == Init /\ [][Next]_vars

\* The timer fires again and a tick's calls return, with an answer or an error.
\* Faults are bounded by MaxFaults, so calls eventually succeed.
FairSpec == Spec /\ WF_vars(Tick) /\ WF_vars(Run)

-----------------------------------------------------------------------------
(***************************************************************************)
(* Properties.                                                             *)
(***************************************************************************)

LedgerType ==
    [known : SUBSET Signatures, open : BOOLEAN, tail : SUBSET Signatures]

\* The values the variables take.
TypeOK ==
    /\ history \in Seq(Signatures)
    /\ ledger \in LedgerType
    /\ cache \subseteq Signatures
    /\ pc \in {"idle", "window", "fetch", "send"}
    /\ mode \in {"scan", "commit", "seed"}
    /\ todo \in Seq(Signatures)
    /\ found \in Seq(Signatures)
    /\ negatives \subseteq Signatures
    /\ announced \subseteq Signatures
    /\ failed \in BOOLEAN
    /\ faults \in 0..MaxFaults
    /\ sent \in [Signatures -> Nat]
    /\ seeded \subseteq Signatures

\* Nothing is recorded that was not sent, except by --seed: a settlement that
\* lands between the scan and the commit is not swallowed by the commit
\* (announce_settlements.sh:312-327).
RecordedWasSent ==
    \A s \in load_ledger : sent[s] > 0 \/ s \in seeded

\* Once it is on a complete line of the ledger, a receipt stays there and is never
\* sent again, whatever is killed and however stale the node that answers (the
\* ledger's known set, 404-407).  A kill between a record and its newline leaves a
\* line the next append runs into, and both receipts are sent once more (README,
\* section 4).
RecordedNeverSentAgain ==
    [][\A s \in Signatures :
          s \in ledger.known => s \in ledger'.known /\ sent'[s] = sent[s]]_vars

\* The cache never holds a settlement, so it cannot suppress one: an entry is
\* written only for a transaction fetched and classified (53-56 and 429-434).
CacheHoldsNoSettlement == cache \cap Settlements = {}

\* Every settlement that lands is announced or seeded, when faults stop and the
\* window is as long as the history: send first, commit after.
EverySettlementAnnounced ==
    \A s \in Settlements :
        s \in Elements(history) ~> sent[s] > 0 \/ s \in seeded

=============================================================================
