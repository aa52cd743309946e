----------------------------- MODULE DailyLedger -----------------------------
(***************************************************************************)
(* The per-payer daily spend ledger of the x402 gate                       *)
(* (x402-feed-gate/src/lib.rs, DailyLedger and Reservation).               *)
(*                                                                         *)
(* The ledger is a value behind a mutex: each method is one step.  Any     *)
(* number of reservations may be outstanding, as the library allows and    *)
(* its tests exercise; the gate, a sequential server, holds one at a time  *)
(* (FeedGate).  A Reservation is private, not Clone, and consumed by value *)
(* by confirm and release, so `held` is a set and resolving removes.       *)
(***************************************************************************)
EXTENDS Integers, FiniteSets, FiniteSetsExt

CONSTANTS
    Payers,      \* token authorities, the accounts the cap meters
    Nonces,      \* memo strings
    Days,        \* UTC day numbers
    Amounts,     \* atomic units a verified payment may carry
    Cap,         \* GateConfig.daily_cap
    U64Max       \* the largest u64

ASSUME AmountsAssumption == /\ Amounts \subseteq Nat \ {0}
                            /\ \A a \in Amounts : a <= U64Max

\* daily_cap is a u64 far below its maximum in every deployment; at the very
\* maximum a saturated row could no longer tell a hold from settled money.
ASSUME CapAssumption == Cap \in Nat /\ U64Max \in Nat /\ Cap < U64Max

VARIABLES
    spent,        \* (payer, day) -> atomic units; an absent row is 0
    used_nonces,  \* nonces redeemed or held
    held,         \* outstanding reservations
    settled       \* history: the part of each row no outstanding hold owns

ledgerVars == <<spent, used_nonces, held, settled>>

Keys == Payers \X Days

Reservation == [payer : Payers, nonce : Nonces, day : Days, amount : Amounts]

KeyOf(r) == <<r.payer, r.day>>

\* The atomic units a set of reservations or payments carries.
Units(S) == MapThenSumSet(LAMBDA r : r.amount, S)

\* What the outstanding reservations hold of a row.
HeldFor(k) == {r \in held : KeyOf(r) = k}

\* DEFECT: wrapping addition.
SatAddWraps(a, b) == (a + b) % (U64Max + 1)

\* u64::saturating_add and u64::saturating_sub.
SatAdd(a, b) == IF a + b > U64Max THEN U64Max ELSE a + b
SatSub(a, b) == IF b > a THEN 0 ELSE a - b

-----------------------------------------------------------------------------

\* DEFECT: tests what is already spent and not what it would become.
WithinCapBeforeAdding(p, d, a) == spent[<<p, d>>] < Cap

WithinCap(p, d, a) == SatAdd(spent[<<p, d>>], a) <= Cap

\* The two refusals of reserve, in the order the code tests them.
NonceReused(n) == n \in used_nonces
DailyCapExceeded(p, n, d, a) == ~NonceReused(n) /\ ~WithinCap(p, d, a)

\* DEFECT: a nonce already redeemed is taken again.
ReserveAnyNonce(p, n, d, a) ==
    /\ WithinCap(p, d, a)
    /\ used_nonces' = used_nonces \cup {n}
    /\ spent' = [spent EXCEPT ![<<p, d>>] = SatAdd(@, a)]
    /\ held' = held \cup {[payer |-> p, nonce |-> n, day |-> d, amount |-> a]}
    /\ UNCHANGED settled

Reserve(p, n, d, a) ==
    /\ ~NonceReused(n)
    /\ WithinCap(p, d, a)
    /\ used_nonces' = used_nonces \cup {n}
    /\ spent' = [spent EXCEPT ![<<p, d>>] = SatAdd(@, a)]
    /\ held' = held \cup {[payer |-> p, nonce |-> n, day |-> d, amount |-> a]}
    /\ UNCHANGED settled

\* confirm only consumes the reservation: reserve already wrote the spend.
Confirm(r) ==
    /\ r \in held
    /\ held' = held \ {r}
    /\ settled' = [settled EXCEPT ![KeyOf(r)] = SatAdd(@, r.amount)]
    /\ UNCHANGED <<spent, used_nonces>>

Release(r) ==
    /\ r \in held
    /\ held' = held \ {r}
    /\ used_nonces' = used_nonces \ {r.nonce}
    /\ spent' = [spent EXCEPT ![KeyOf(r)] = SatSub(@, r.amount)]
    /\ UNCHANGED settled

\* A process start: DailyLedger::new, then rehydrate with what the earnings log
\* holds, given as the units it carries for each row and the nonces it names.
Rehydrate(amounts, nonces) ==
    /\ spent' = [k \in Keys |-> SatAdd(0, amounts[k])]
    /\ settled' = spent'
    /\ used_nonces' = nonces
    /\ held' = {}

\* Any log may have been restored: rows above the cap (the operator lowered it)
\* and rows that saturated included.
LedgerInit ==
    /\ spent \in [Keys -> 0..U64Max]
    /\ settled = spent
    /\ used_nonces \in SUBSET Nonces
    /\ held = {}

ReserveAny ==
    \E p \in Payers, n \in Nonces, d \in Days, a \in Amounts : Reserve(p, n, d, a)

ConfirmAny == \E r \in held : Confirm(r)

ReleaseAny == \E r \in held : Release(r)

LedgerNext == ReserveAny \/ ConfirmAny \/ ReleaseAny

LedgerSpec == LedgerInit /\ [][LedgerNext]_ledgerVars

-----------------------------------------------------------------------------

\* The values the ledger's variables take.
LedgerTypeOK ==
    /\ spent \in [Keys -> 0..U64Max]
    /\ settled \in [Keys -> 0..U64Max]
    /\ used_nonces \subseteq Nonces
    /\ held \subseteq Reservation

\* Whatever the order in which overlapping payments are reserved, confirmed and
\* released, a row that holds room for a payment in flight is within the cap;
\* only a restored row can exceed it, and no payment is then admitted to it
\* (DailyLedger::reserve, lib.rs:456-482).
HoldsWithinCap == \A r \in held : spent[KeyOf(r)] <= Cap

\* The nonce of a reservation is burned while it is outstanding, and two
\* reservations never share one: releasing a payment cannot un-burn the nonce
\* of another (reserve and release, lib.rs:465-468 and 503-504).
HoldsOwnTheirNonces ==
    /\ \A r \in held : r.nonce \in used_nonces
    /\ \A r, s \in held : r.nonce = s.nonce => r = s

\* A row is exactly its settled money plus what outstanding reservations hold:
\* no release, in whatever order, gives back money that settled, and none is
\* lost (Reservation and release, lib.rs:419-421 and 503-516).
RowsAddUp == \A k \in Keys : spent[k] = settled[k] + Units(HeldFor(k))

\* Once a nonce is redeemed, confirmed or restored from the log, no sequence of
\* later reservations and releases makes it usable again (lib.rs:497-504).
RedeemedNonces == used_nonces \ {r.nonce : r \in held}
RedeemedStayBurned == [][RedeemedNonces \subseteq RedeemedNonces']_ledgerVars

=============================================================================
