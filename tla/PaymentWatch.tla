---------------------------- MODULE PaymentWatch ----------------------------
(***************************************************************************)
(* The payment-watch plugin (plugins/payment-watch/src/watch.rs, wired by  *)
(* lib.rs), polled by a caller that feeds back the cursor of each NOT_YET  *)
(* and stops at a PAID.                                                    *)
(*                                                                         *)
(* Every RPC is one step, so transactions land between pages and fetches.  *)
(* The account's signatures only grow at the new end: a signature is its   *)
(* position in `history`, and the ones a check collects are an interval.   *)
(* Entries that are not valid signatures, and a node that overruns the     *)
(* page size, are left out.                                                *)
(***************************************************************************)
EXTENDS Integers, Sequences, FiniteSets

CONSTANTS
    Txs,          \* transactions that touch the watched address
    Matching,     \* those whose balance changes match the expected payment
    Failed,       \* those listed with an error
    Phantoms,     \* those only the primary ever shows (a fork the cluster left)
    Unreadable,   \* those a node may list before it serves their body
    Before,       \* the history the watch starts on
    FirstCursor,  \* the caller's first since_signature; 0 is none
    PageSize,     \* SIGNATURE_LIMIT
    MaxPages,     \* MAX_SIGNATURE_PAGES
    Endpoints,    \* number of corroborating_rpc_urls
    MaxFaults     \* bound: failed calls and answers from a node that lags

ASSUME WatchAssumption ==
    /\ Matching \cup Failed \cup Phantoms \cup Unreadable \subseteq Txs
    /\ Before \in Seq(Txs) /\ FirstCursor \in 0..Len(Before)
    /\ {PageSize, MaxPages} \subseteq Nat \ {0}
    /\ {Endpoints, MaxFaults} \subseteq Nat

VARIABLES
    history,   \* signatures of the address, oldest first, as the primary lists them
    cursor,    \* since_signature of the next check
    pc,        \* "idle", "pages", "fetch", "corroborate"; "done" after a PAID
    page,      \* pages read
    newest,    \* the first page's newest signature; 0 is none
    oldest,    \* where the collected signatures end: the oldest of them
    drained,
    at,        \* the next signature to fetch
    hit,       \* the matching transaction; 0 is none
    asked,     \* corroborating endpoints asked
    best,      \* the best answer among them
    verdict,   \* what the last check reported
    faults,
    examined   \* history: signatures whose transaction was tested

checkVars == <<page, newest, oldest, drained, at, hit, asked, best>>
vars == <<history, cursor, pc, checkVars, verdict, faults, examined>>

Fault ==
    /\ faults < MaxFaults
    /\ faults' = faults + 1

\* MAX_TX_CHECKS, "deliberately equal to the full paginated range".
MaxTxChecks == MaxPages * PageSize

Landed(i) == history[i] \notin Phantoms
Pays(i) == history[i] \in Matching \ Failed

\* The check returns; its locals go.
Return(v) ==
    /\ verdict' = v
    /\ pc' = IF v = "PAID" THEN "done" ELSE "idle"
    /\ page' = 0 /\ newest' = 0 /\ oldest' = 0 /\ drained' = FALSE
    /\ at' = 0 /\ asked' = 0 /\ best' = "none"

Poll ==
    /\ pc = "idle"
    /\ pc' = "pages"
    /\ page' = 0 /\ newest' = 0 /\ oldest' = Len(history) + 1
    /\ hit' = 0
    /\ UNCHANGED <<history, cursor, drained, at, asked, best, verdict, faults, examined>>

\* Any RPC error ends the check; the caller polls again from the same cursor.
Fails ==
    /\ pc \in {"pages", "fetch"}
    /\ Fault
    /\ Return("error")
    /\ hit' = 0
    /\ UNCHANGED <<history, cursor, examined>>

-----------------------------------------------------------------------------
(***************************************************************************)
(* collect_signatures: pages, newest first, down to the cursor.            *)
(***************************************************************************)

\* The first page starts at what the address has when it is read; each other
\* one below the oldest signature of the page before.
PageTop == IF page = 0 THEN Len(history) ELSE oldest - 1

\* A page ends after PageSize signatures or at `until`, the cursor.
PageEnd == IF PageTop - PageSize > cursor THEN PageTop - PageSize ELSE cursor

\* DEFECT: a full range is reported as drained.
EnoughPagesAlways(short) == [stop |-> short \/ page + 1 = MaxPages, drained |-> TRUE]

\* A short page has reached the cursor; after MaxPages full ones a gap remains.
EnoughPages(short) == [stop |-> short \/ page + 1 = MaxPages, drained |-> short]

ReadPage ==
    /\ pc = "pages"
    /\ page' = page + 1
    /\ oldest' = PageEnd + 1
    /\ LET short == PageTop - PageEnd < PageSize
           top   == IF page = 0 /\ PageTop > cursor THEN PageTop ELSE newest
       IN  /\ newest' = top
           /\ drained' = (EnoughPages(short).stop /\ EnoughPages(short).drained)
           /\ at' = IF EnoughPages(short).stop THEN top ELSE 0
           /\ pc' = IF EnoughPages(short).stop THEN "fetch" ELSE "pages"
    /\ UNCHANGED <<history, cursor, hit, asked, best, verdict, faults, examined>>

-----------------------------------------------------------------------------
(***************************************************************************)
(* find_payment: test each collected transaction until one matches.        *)
(***************************************************************************)

Fetching == pc = "fetch" /\ at >= oldest /\ at > 0

\* A failed transaction moved nothing; a null body is not there yet.
SkipEntry ==
    /\ Fetching
    /\ \/ history[at] \in Failed /\ UNCHANGED faults
       \/ history[at] \in Unreadable \ Failed /\ Fault
    /\ at' = at - 1
    /\ UNCHANGED <<history, cursor, pc, page, newest, oldest, drained, hit, asked,
                   best, verdict, examined>>

\* check_transaction: recipient, mint, exact amount and reference.
check_transaction(i) == Pays(i)

\* DEFECT: the first candidate that does not match ends the scan.
TestFirstOnly ==
    /\ Fetching
    /\ history[at] \notin Failed
    /\ examined' = examined \cup {at}
    /\ \/ check_transaction(at) /\ hit' = at /\ pc' = "corroborate" /\ UNCHANGED at
       \/ ~check_transaction(at) /\ at' = 0 /\ UNCHANGED <<hit, pc>>
    /\ UNCHANGED <<history, cursor, page, newest, oldest, drained, asked, best,
                   verdict, faults>>

Test ==
    /\ Fetching
    /\ history[at] \notin Failed
    /\ examined' = examined \cup {at}
    /\ \/ /\ check_transaction(at)
          /\ hit' = at
          /\ pc' = "corroborate"
          /\ UNCHANGED at
       \/ /\ ~check_transaction(at)
          /\ at' = at - 1
          /\ UNCHANGED <<hit, pc>>
    /\ UNCHANGED <<history, cursor, page, newest, oldest, drained, asked, best,
                   verdict, faults>>

\* The newest signature seen, if the range was drained; otherwise the caller's
\* own, or the newest when it had none.  Over an empty drained range it is None
\* and the caller keeps the cursor it has.
next_cursor ==
    CASE newest = 0                              -> cursor
      [] newest # 0 /\ (drained \/ cursor = 0)   -> newest
      [] OTHER                                   -> cursor

NotYet ==
    /\ pc = "fetch" /\ ~Fetching
    /\ cursor' = next_cursor
    /\ Return("NOT_YET")
    /\ UNCHANGED <<history, hit, faults, examined>>

-----------------------------------------------------------------------------
(***************************************************************************)
(* corroborate_all: independent endpoints re-derive the payment.           *)
(***************************************************************************)

Asking ==
    /\ pc = "corroborate" /\ asked < Endpoints
    /\ UNCHANGED <<history, cursor, examined, hit>>

\* The endpoint's own copy matches, as it does of what the cluster confirmed.
Agrees ==
    /\ Asking
    /\ Landed(hit)
    /\ asked' = asked + 1
    /\ best' = "agrees"
    /\ UNCHANGED <<pc, page, newest, oldest, drained, at, verdict, faults>>

\* It has the transaction, and there it failed: the payment is disputed at once.
Disagrees ==
    /\ Asking
    /\ ~Landed(hit)
    /\ Return("DISPUTED")
    /\ UNCHANGED faults

\* DEFECT: silence counts as agreement.
SilenceAgrees ==
    /\ Asking
    /\ \/ ~Landed(hit) /\ UNCHANGED faults
       \/ Fault
    /\ asked' = asked + 1
    /\ best' = "agrees"
    /\ UNCHANGED <<pc, page, newest, oldest, drained, at, verdict>>

\* It does not have the transaction, or does not answer.
Unconfirmed ==
    /\ Asking
    /\ \/ ~Landed(hit) /\ UNCHANGED faults
       \/ Fault
    /\ asked' = asked + 1
    /\ best' = IF best = "none" THEN "unconfirmed" ELSE best
    /\ UNCHANGED <<pc, page, newest, oldest, drained, at, verdict>>

\* permits_settlement: one agreement and no disagreement, or nobody to ask.
Report ==
    /\ pc = "corroborate" /\ asked = Endpoints
    /\ Return(IF Endpoints = 0 \/ best = "agrees" THEN "PAID" ELSE "UNCONFIRMED")
    /\ UNCHANGED <<history, cursor, hit, faults, examined>>

-----------------------------------------------------------------------------
Init ==
    /\ history = Before
    /\ cursor = FirstCursor
    /\ pc = "idle"
    /\ page = 0 /\ newest = 0 /\ oldest = 0 /\ drained = FALSE
    /\ at = 0 /\ hit = 0 /\ asked = 0 /\ best = "none"
    /\ verdict = "none"
    /\ faults = 0
    /\ examined = {}

Land(t) ==
    /\ \A i \in DOMAIN history : history[i] # t
    /\ history' = Append(history, t)
    /\ UNCHANGED <<cursor, pc, checkVars, verdict, faults, examined>>

Check ==
    \/ Poll \/ Fails \/ ReadPage
    \/ SkipEntry \/ Test \/ NotYet
    \/ Agrees \/ Disagrees \/ Unconfirmed \/ Report

Next ==
    \/ \E t \in Txs : Land(t)
    \/ Check

Spec == Init /\ [][Next]_vars

\* The caller polls again and each call returns, with an answer or an error.
FairSpec == Spec /\ WF_vars(Check)

-----------------------------------------------------------------------------
(***************************************************************************)
(* Properties.                                                             *)
(***************************************************************************)

\* The positions of the history and the counters.
InRange ==
    /\ history \in Seq(Txs)
    /\ {cursor, newest, at, hit} \subseteq 0..Len(history)
    /\ oldest \in 0..Len(history) + 1
    /\ pc \in {"fetch", "corroborate"} => oldest > cursor
    /\ page \in 0..MaxPages
    /\ asked \in 0..Endpoints
    /\ faults \in 0..MaxFaults
    /\ examined \subseteq 1..Len(history)

\* The values the variables take.
TypeOK ==
    /\ InRange
    /\ pc \in {"idle", "pages", "fetch", "corroborate", "done"}
    /\ drained \in BOOLEAN
    /\ best \in {"none", "agrees", "unconfirmed"}
    /\ verdict \in {"none", "error", "NOT_YET", "PAID", "DISPUTED", "UNCONFIRMED"}

\* The cursor never steps over a payment that was not tested, however many
\* signatures land between two polls or between two pages of one
\* (find_payment, watch.rs:664-668, and NotYet's scan_complete, 412-415).
NothingSkipped ==
    \A i \in FirstCursor + 1 .. cursor : Pays(i) => i \in examined

\* With an independent endpoint configured, PAID is reported only of a payment
\* the cluster confirmed (corroborate_all, lib.rs:176-183).
PaidIsReal ==
    pc = "done" /\ Endpoints > 0 => Landed(hit) /\ Pays(hit)

\* More landed above the cursor than one check covers, or a payment the rest of
\* the cluster left lies above.
OutOfReach(i) ==
    \/ Len(history) - cursor > MaxTxChecks
    \/ \E j \in i..Len(history) : Pays(j) /\ ~Landed(j)

\* A payment above the cursor is reported in the end, unless it goes out of the
\* check's reach.
PaymentIsReported ==
    \A i \in 1..Len(Before) + Cardinality(Txs) :
        (i \in DOMAIN history /\ Pays(i) /\ Landed(i) /\ i > cursor)
            ~> (pc = "done" \/ OutOfReach(i))

=============================================================================
