---------------------------- MODULE PaymentCheck ----------------------------
(***************************************************************************)
(* How the x402 gate reads a presented transaction, and what that          *)
(* transaction does when the cluster executes it: verify_x_payment         *)
(* (x402-feed-gate/src/lib.rs) over find_payment and has_memo              *)
(* (solana-core/src/token.rs) and the signer questions of tx_decode.rs.    *)
(*                                                                         *)
(* The gate decides on the bytes before the cluster sees them, reads one   *)
(* instruction of them and never the source account; the token program     *)
(* executes all of them or none.                                           *)
(***************************************************************************)
EXTENDS Integers, Sequences, SequencesExt, FiniteSetsExt

CONSTANTS
    Wallets,     \* keys that own a token account of the gate's mint, and may sign
    Gate,        \* the owner of the gate's token account; the gate holds no key of it
    Delegates,   \* owner -> who else may move its tokens (an SPL delegate), or itself
    Funds,       \* owner -> tokens held before
    Single, DayPass,   \* the two amounts the menu takes
    Presentable  \* the transactions presented

Owners == Wallets \cup {Gate}

\* The gate holds no key, so nobody signs for it and its account has no delegate.
ASSUME GateAssumption ==
    /\ Gate \notin Wallets /\ Delegates[Gate] = Gate
    /\ \A t \in Presentable : t.signed \subseteq Wallets

\* The menu prices of main.rs:253-256: a day pass is not cheaper than a reading.
ASSUME MenuAssumption ==
    Single \in Nat \ {0} /\ DayPass \in Nat /\ Single <= DayPass

\* A transaction's instructions are a list; a transfer's amount is a u64.
ASSUME InstructionsAssumption ==
    /\ Funds \in [Owners -> Nat]
    /\ \A t \in Presentable :
          /\ t.ixs \in Seq(Range(t.ixs)) /\ t.decodes \in BOOLEAN
          /\ \A i \in DOMAIN t.ixs : t.ixs[i].kind = "transfer" =>
                /\ t.ixs[i].amount \in Nat /\ t.ixs[i].mint \in BOOLEAN
                /\ t.ixs[i].src \in Owners /\ t.ixs[i].dest \in Owners

\* An instruction.  A transfer names a program: "token" owns the gate's mint,
\* "token-2022" does not, and "plain" is the token program's unchecked Transfer;
\* `mint` says whether it names the gate's mint.  A memo's `text` is its nonce,
\* or Garbled when its bytes are not UTF-8.
Garbled == "garbled"
Transfer(program, mint, src, dest, auth, amount) ==
    [kind |-> "transfer", program |-> program, mint |-> mint,
     src |-> src, dest |-> dest, auth |-> auth, amount |-> amount]
Memo(text) == [kind |-> "memo", text |-> text]

\* A transaction: whether it decodes, the keys its header declares signers, the
\* keys whose signatures verify, and its instructions in order.
Tx(decodes, declared, signed, ixs) ==
    [decodes |-> decodes, declared |-> declared, signed |-> signed, ixs |-> ixs]

VARIABLES
    tx,        \* the transaction presented
    verdict,   \* what the gate answered, "none" before
    metered,   \* what the gate metered: payer and amount, once verified
    funds,     \* owner -> tokens of the gate's mint
    landed     \* whether the cluster executed it: "no", "done" or "failed"

checkVars == <<tx, verdict, metered, funds, landed>>

NoHold == [payer |-> Gate, amount |-> 0]

-----------------------------------------------------------------------------
(***************************************************************************)
(* The gate.                                                               *)
(***************************************************************************)

parse_transfer_checked(ix) ==
    ix.kind = "transfer" /\ ix.program \in {"token", "token-2022"}

\* Transfers of the gate's mint to the gate's account, signed for or not.
Addressed(t) ==
    {i \in DOMAIN t.ixs : /\ parse_transfer_checked(t.ixs[i])
                          /\ t.ixs[i].mint /\ t.ixs[i].dest = Gate}

\* DEFECT: the authority is decoded and never read.
EnoughUnsigned(t) == {i \in Addressed(t) : t.ixs[i].amount >= Single}

\* The ones the message declares a signer for, and that reach the price.
Enough(t) ==
    {i \in Addressed(t) : t.ixs[i].auth \in t.declared /\ t.ixs[i].amount >= Single}

\* The first of them, when there is one.
find_payment(t) == Min(Enough(t))

Memos(t) == {i \in DOMAIN t.ixs : t.ixs[i].kind = "memo"}

\* DEFECT: the memo is looked for where it is usually put, at the end.
ExtractLast(t) ==
    IF t.ixs[Len(t.ixs)].kind = "memo" THEN t.ixs[Len(t.ixs)].text ELSE Garbled

\* The first memo's text; a transaction whose first memo is not UTF-8, or that
\* has none, carries no nonce.
extract_memo_nonce(t) == IF Memos(t) = {} THEN Garbled ELSE t.ixs[Min(Memos(t))].text

has_memo(t, nonce) == \E i \in Memos(t) : t.ixs[i].text = nonce

\* handle_reading's nonce, then verify_x_payment's steps in their order.
verify_x_payment(t) ==
    LET nonce == extract_memo_nonce(t) IN
    CASE ~t.decodes \/ nonce = Garbled -> "challenge"
      [] OTHER -> IF ~(t.declared \subseteq t.signed) THEN "BadSignature"
                  ELSE IF ~has_memo(t, nonce) THEN "MissingMemo"
                  ELSE IF Enough(t) = {} THEN "NoValidPayment"
                  ELSE IF t.ixs[find_payment(t)].amount \notin {Single, DayPass} THEN "PriceMismatch"
                  ELSE "ok"

Judge ==
    /\ verdict = "none"
    /\ verdict' = verify_x_payment(tx)
    /\ metered' = IF verdict' = "ok"
                 THEN [payer |-> tx.ixs[find_payment(tx)].auth, amount |-> tx.ixs[find_payment(tx)].amount]
                 ELSE NoHold
    /\ UNCHANGED <<tx, funds, landed>>

-----------------------------------------------------------------------------
(***************************************************************************)
(* The cluster: the token program, external.                               *)
(***************************************************************************)

\* What one instruction does to the balances, or that it cannot execute.
Runs(t, bal, ix) ==
    \/ ix.kind = "memo" /\ ix.text # Garbled
    \/ /\ ix.kind = "transfer"
       /\ ix.program # "token-2022" \/ ~ix.mint
       /\ ix.auth \in t.declared
       /\ ix.auth \in {ix.src, Delegates[ix.src]}
       /\ ix.mint => ix.amount <= bal[ix.src]

Moved(bal, ix) ==
    IF ix.kind = "memo" \/ ~ix.mint THEN bal
    ELSE [o \in Owners |-> bal[o] - (IF o = ix.src THEN ix.amount ELSE 0)
                                  + (IF o = ix.dest THEN ix.amount ELSE 0)]

\* All of the instructions, or none: the balances after, and whether it ran.
Execute(t, before) ==
    LET after[i \in 0..Len(t.ixs)] ==
          IF i = 0 THEN [runs |-> t.decodes /\ t.declared \subseteq t.signed, bal |-> before]
          ELSE IF after[i - 1].runs /\ Runs(t, after[i - 1].bal, t.ixs[i])
                 THEN [runs |-> TRUE, bal |-> Moved(after[i - 1].bal, t.ixs[i])]
                 ELSE [runs |-> FALSE, bal |-> before]
    IN  after[Len(t.ixs)]

\* The gate broadcasts what it verified, and nothing else.
Land ==
    /\ verdict = "ok" /\ landed = "no"
    /\ LET s == Execute(tx, funds) IN
       /\ funds' = s.bal
       /\ landed' = IF s.runs THEN "done" ELSE "failed"
    /\ UNCHANGED <<tx, verdict, metered>>

CheckInit ==
    /\ tx \in Presentable
    /\ verdict = "none" /\ metered = NoHold /\ funds = Funds /\ landed = "no"

CheckNext == Judge \/ Land

CheckSpec == CheckInit /\ [][CheckNext]_checkVars

-----------------------------------------------------------------------------

\* Whatever else the transaction holds, the party the gate meters signed it, and
\* if the cluster executes it the gate's account gains at least what was
\* metered: the source account the gate never reads, a transfer elsewhere, a
\* delegate or a second program changes nothing of that (find_payment,
\* token.rs:104-158; verify_x_payment, lib.rs:311-395).
MeteredIsPaid ==
    /\ verdict = "ok" => metered.payer \in tx.signed
    /\ landed = "done" => funds[Gate] >= Funds[Gate] + metered.amount

\* A buyer's transaction that executes, names a readable nonce first and pays
\* the gate by one checked transfer of a menu price is never refused, wherever
\* that transfer and the memo stand among the rest (the module documentation of
\* lib.rs and token.rs:91-99).
Honest(t) ==
    /\ Execute(t, Funds).runs
    /\ Memos(t) # {}
    /\ Cardinality(Addressed(t)) = 1
    /\ \A i \in Addressed(t) : t.ixs[i].amount \in {Single, DayPass}
HonestIsAccepted == Honest(tx) => verdict \in {"none", "ok"}

=============================================================================
