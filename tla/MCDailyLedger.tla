---------------------------- MODULE MCDailyLedger ----------------------------
(***************************************************************************)
(* DailyLedger on a small instance, with several overlapping reservations. *)
(***************************************************************************)
EXTENDS DailyLedger, SequencesExt

CONSTANTS alice, bob, n1, n2, n3

MCPayers == {alice, bob}
MCNonces == {n1, n2, n3}
MCDays == {1}
MCAmounts == {1, 2}

-----------------------------------------------------------------------------
(***************************************************************************)
(* A process start: the rows are those rehydrate folds out of the log read *)
(* back, record by record.                                                 *)
(***************************************************************************)
CONSTANT NoNonce    \* a line written before the log carried nonces

VARIABLE restored   \* the records load_earnings returned

EarningRecord ==
    [payer : MCPayers, day : MCDays, amount : {2}, nonce : MCNonces \cup {NoNonce}]

\* The fold rehydrate runs over the records (lib.rs:556-572).
RehydrateRow(records, k) ==
    FoldLeft(LAMBDA acc, r : IF <<r.payer, r.day>> = k THEN SatAdd(acc, r.amount) ELSE acc,
             0, records)

MCInit ==
    /\ restored \in BoundedSeq(EarningRecord, 3)
    /\ spent = [k \in Keys |-> RehydrateRow(restored, k)]
    /\ settled = spent
    /\ used_nonces = {restored[i].nonce : i \in DOMAIN restored} \ {NoNonce}
    /\ held = {}

MCNext == LedgerNext /\ UNCHANGED restored

MCSpec == MCInit /\ [][MCNext]_<<ledgerVars, restored>>

=============================================================================
