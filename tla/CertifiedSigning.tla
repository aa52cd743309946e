---------------------------- MODULE CertifiedSigning ----------------------------
(***************************************************************************)
(* The buyer.  x402-pay-build matches a seller's challenge against the       *)
(* operator's configuration, the agent hands its arguments to                *)
(* allowance-spend-build, which reads the delegation and builds a message,   *)
(* and pay_x402_certified.py reads the bytes again before the host signs.    *)
(* The seller writes the challenge, the agent may change the arguments, and  *)
(* the file may hold any transaction at all by the time it is certified.     *)
(* broadcast_certified.py does the same for the oracle's publish path.       *)
(***************************************************************************)
EXTENDS Naturals, Sequences, FiniteSets, SequencesExt, FiniteSetsExt

CONSTANTS
    Wallets, Mints, Pools,           \* Pools: delegation accounts
    Agent, Owner,                    \* the host's key; who granted the pools
    Receiver, Mint, Delegation,      \* the operator's configuration
    Ceiling, Nonce,                  \* ... a local ceiling, a durable-nonce account or None
    OracleProgram, Feed,             \* ... of the publish path
    Worlds,                          \* what the chain holds of pools, mints and the nonce account
    Menus,                           \* challenges: sequences of [payTo, asset, amount, memo]
    Memos, Prices, None,
    DefaultUnits, MaxPriority,       \* compute units per instruction, fee ceiling
    PoolSize, MaxBuilds,             \* bounds
    Forged, ForgedPublish            \* transactions that may replace a built one

Programs == {"token", "token2022"}        \* either may own a mint
Accounts == Wallets \X Mints \X Programs  \* token accounts

ASSUME SigningAssumption ==
    /\ \A w \in Worlds :
          /\ w.delegatee \in [Pools -> Wallets \cup {Agent}]
          /\ w.kind \in [Pools -> {"fixed", "recurring"}] /\ w.mint \in [Pools -> Mints]
          /\ w.program \in [Mints -> Programs] /\ w.authority \in Wallets \cup {Agent}
    /\ Receiver \in Wallets /\ Mint \in Mints /\ Delegation \in Pools
    /\ Ceiling \in Nat /\ PoolSize \in Nat /\ MaxBuilds \in Nat /\ Prices \subseteq Nat
    /\ DefaultUnits \in Nat /\ MaxPriority \in Nat
    /\ None \notin Memos
    \* A program id names one program.
    /\ OracleProgram \notin {"system", "budget", "ata", "allowance", "token", "memo"}

VARIABLES
    menu,      \* the challenge: a sequence of price options, or None
    args,      \* the arguments on their way to allowance-spend-build, or None
    file,      \* the unsigned transaction at hand, or None
    honest,    \* nothing was changed since the plugin authorised it
    signed,    \* signed transactions that can still land
    chain,     \* [world, remaining, paid, lamports, atas, nonce, landings, feeds]
    builds     \* transactions built so far
signVars == <<menu, args, file, honest, signed, chain, builds>>

Ata(wallet, mint, program) == <<wallet, mint, program>>     \* derive_ata, injective
\* pay_x402_certified.py leaves the certifier's token program at its default.
WantAta == Ata(Receiver, Mint, "token")
NewChain(w) ==
    [world |-> w, remaining |-> [p \in Pools |-> PoolSize], paid |-> [a \in Accounts |-> 0],
     lamports |-> 0, atas |-> {Ata(Owner, Mint, w.program[Mint])}, nonce |-> 0, landings |-> 0,
     feeds |-> {}]
----------------------------------------------------------------------------
(* The challenge and x402-pay-build.                                        *)

\* One purchase, or one file from elsewhere, at a time.
Resting == menu = None /\ args = None /\ file = None

Offer(options) ==
    /\ Resting /\ builds < MaxBuilds
    /\ menu' = options
    /\ UNCHANGED <<args, file, honest, signed, chain, builds>>

\* check_tier
TierMatches(o) ==
    /\ o.payTo = Receiver /\ o.asset = Mint
    /\ o.amount \in 1..Ceiling

\* The agent may name the tier; it is then checked like any other.
Candidates(tier) ==
    {i \in DOMAIN menu : (tier = None \/ i = tier) /\ TierMatches(menu[i])}

\* No option matches: the call fails and the agent drops the challenge.
Refuse(tier) ==
    /\ menu # None /\ Candidates(tier) = {}
    /\ menu' = None
    /\ UNCHANGED <<args, file, honest, signed, chain, builds>>

\* authorise: the cheapest matching option, the first of equals.
Authorise(tier) ==
    /\ menu # None
    /\ \E i \in Candidates(tier) :
        /\ \A j \in Candidates(tier) :
              menu[i].amount < menu[j].amount \/ (menu[i].amount = menu[j].amount /\ i <= j)
        \* Everything but the amount and the memo comes from the configuration.
        /\ args' = [receiver |-> Receiver, delegation |-> Delegation,
                    amount |-> menu[i].amount, memo |-> menu[i].memo]
    /\ honest' = TRUE
    /\ menu' = None
    /\ UNCHANGED <<file, signed, chain, builds>>

\* The agent carries the arguments from one tool call to the next.
AlterArgs(field, value) ==
    /\ args # None /\ args[field] # value
    /\ args' = [args EXCEPT ![field] = value]
    /\ honest' = FALSE
    /\ UNCHANGED <<menu, file, signed, chain, builds>>
----------------------------------------------------------------------------
(* allowance-spend-build.                                                   *)

Advance(authority) ==
    [prog |-> "system", op |-> "advance", account |-> Nonce, authority |-> authority]
CreateAta(account) == [prog |-> "ata", op |-> "idempotent", account |-> account, mint |-> account[2]]
\* The delegation's kind picks the instruction, its mint and the mint's owner the rest.
Transfer(pool, kind, to, amount) ==
    [prog |-> "allowance", op |-> kind, amount |-> amount, mint |-> to[2], signer |-> TRUE,
     writable |-> TRUE,
     accounts |-> [delegation |-> pool, delegator_ata |-> Ata(Owner, to[2], to[3]),
                   receiver_ata |-> to, token_mint |-> to[2], token_program |-> to[3],
                   delegatee |-> Agent, event_authority |-> None, program |-> "allowance"]]
Memo(text) == [prog |-> "memo", text |-> text]

When(condition, ix) == IF condition THEN <<ix>> ELSE <<>>

\* Everything but the amount, the receiver and the memo is read from the chain: the
\* delegation, its mint and the mint's owner, the receiver's token account, which is
\* created when absent, and, with a nonce account, its value, which is the stamp.
Build ==
    /\ args # None
    /\ LET w    == chain.world
           pool == args.delegation
           to   == Ata(args.receiver, w.mint[pool], w.program[w.mint[pool]])
           ixs  == When(Nonce # None, Advance(w.authority))
                   \o When(to \notin chain.atas, CreateAta(to))
                   \o <<Transfer(pool, w.kind[pool], to, args.amount), Memo(args.memo)>> IN
       file' = IF w.delegatee[pool] # Agent \/ args.amount > chain.remaining[pool]
               THEN None
               ELSE [read |-> ixs, runs |-> ixs, wire |-> "v0", stamp |-> chain.nonce,
                     slots |-> IF Nonce # None /\ w.authority # Agent THEN 2 ELSE 1]
    /\ args' = None
    /\ builds' = builds + 1
    /\ UNCHANGED <<menu, honest, signed, chain>>

\* Another transaction takes its place before the host reads the file.
Forge ==
    /\ Resting /\ builds < MaxBuilds
    /\ \E tx \in Forged : file' = [tx EXCEPT !.stamp = chain.nonce]
    /\ honest' = FALSE
    /\ builds' = builds + 1
    /\ UNCHANGED <<menu, args, signed, chain>>
----------------------------------------------------------------------------
(* certify_x402_payment_tx.  `read` is what the bytes say, position by       *)
(* position; `runs` is what the chain would execute, which is the same       *)
(* thing only for a message whose every byte and account is in the file.     *)

Readable(tx) == tx.wire \in {"legacy", "v0"}

\* Amounts, limits and prices are unsigned.
InstructionsTyped(ixs) ==
    \A k \in DOMAIN ixs :
        /\ ixs[k].prog \in {"allowance", "token"} => ixs[k].amount \in Nat
        /\ ixs[k].prog = "budget" => ixs[k].value \in Nat

\* What a file may hold: any instructions whatever, but a message whose every
\* byte and account is in the file is the message the chain runs.
ASSUME ForgedAssumption ==
    /\ \A tx \in Forged \cup ForgedPublish :
          /\ {"read", "runs", "wire", "slots", "stamp"} \subseteq DOMAIN tx
          /\ Len(tx.runs) \in Nat /\ DOMAIN tx.runs = 1..Len(tx.runs)
          /\ InstructionsTyped(tx.runs)
    /\ \A tx \in Forged : tx.wire # "publish" /\ (Readable(tx) => tx.read = tx.runs)
    /\ \A tx \in ForgedPublish : tx.wire = "publish" /\ tx.read = tx.runs

\* The budget in force after instruction k.
LastValue(ixs, k, op, default) ==
    LET hits == {j \in 1..k : ixs[j].prog = "budget" /\ ixs[j].op = op}
    IN  IF hits = {} THEN default ELSE ixs[Max(hits)].value
PriorityFee(ixs, k) ==
    LastValue(ixs, k, "limit", DefaultUnits * Len(ixs)) * LastValue(ixs, k, "price", 0)

SystemAllowed(ix) == Nonce # None /\ ix.op = "advance" /\ ix.account = Nonce
BudgetAllowed(ixs, k) ==
    ixs[k].op \in {"limit", "price"} /\ PriorityFee(ixs, k) <= MaxPriority
AtaCreates(ix) == ix.op = "create" /\ ix.account = WantAta /\ ix.mint = Mint
AtaAllowed(ix) == ix.op = "idempotent" /\ ix.account = WantAta /\ ix.mint = Mint

\* A permitted program is not a permitted action.
Permitted(ixs, k) ==
    CASE ixs[k].prog = "system" -> SystemAllowed(ixs[k])
      [] ixs[k].prog = "budget" -> BudgetAllowed(ixs, k)
      [] ixs[k].prog = "ata"    -> AtaAllowed(ixs[k])
      [] OTHER                  -> ixs[k].prog \in {"allowance", "memo"}

Of(ixs, prog) == {k \in DOMAIN ixs : ixs[k].prog = prog}

\* Slot by slot: the key that must be in a slot, never a key among the accounts.
SpendMentionsReceiver(s) ==
    /\ s.op = "fixed"
    /\ WantAta \in {s.accounts.receiver_ata, s.accounts.event_authority}
    /\ s.accounts.delegation = Delegation
    /\ s.accounts.token_mint = Mint /\ s.mint = Mint
    /\ s.accounts.token_program = "token"
    /\ s.accounts.program = "allowance"
    /\ s.signer /\ s.writable
    /\ s.amount <= Ceiling
SpendIsIntended(s) ==
    /\ s.op = "fixed"
    /\ s.accounts.receiver_ata = WantAta
    /\ s.accounts.delegation = Delegation
    /\ s.accounts.token_mint = Mint /\ s.mint = Mint
    /\ s.accounts.token_program = "token"
    /\ s.accounts.program = "allowance"
    /\ s.signer /\ s.writable
    /\ s.amount <= Ceiling

AdvanceIsOurs(ixs) ==
    /\ Nonce # None => Of(ixs, "system") # {}
    /\ \A j, k \in Of(ixs, "system") : j = k
    /\ \A j \in Of(ixs, "system"), k \in Of(ixs, "allowance") :
          ixs[j].authority = ixs[k].accounts.delegatee

MemoIsExpected(ixs, memo) ==
    IF memo = None
    THEN Of(ixs, "memo") = {}
    ELSE \E k \in DOMAIN ixs : Of(ixs, "memo") = {k} /\ ixs[k] = Memo(memo)

Certified(tx, memo) ==
    /\ Readable(tx)
    /\ tx.read # <<>>
    /\ \A k \in DOMAIN tx.read : Permitted(tx.read, k)
    /\ \E k \in DOMAIN tx.read :
          Of(tx.read, "allowance") = {k} /\ SpendIsIntended(tx.read[k])
    /\ AdvanceIsOurs(tx.read)
    /\ MemoIsExpected(tx.read, memo)

\* splice_signature: the host holds one key.
OneSlot(tx) == tx.slots = 1

\* main: certify, sign and broadcast.  The operator names the memo of the challenge.
PayCertified(memo) ==
    /\ file # None /\ file.wire # "publish"
    /\ signed' = IF Certified(file, memo) /\ OneSlot(file) THEN signed \cup {file} ELSE signed
    /\ file' = None
    /\ UNCHANGED <<menu, args, honest, chain, builds>>
----------------------------------------------------------------------------
(* certify_publish_tx and broadcast_certified.py.                           *)

PublishCertified(tx) ==
    /\ Len(tx.read) = 2
    /\ tx.read[1].prog = "system" /\ tx.read[1].op = "advance"
    /\ Nonce \in {tx.read[1].account, tx.read[1].authority}
    /\ tx.read[2].prog = OracleProgram
    /\ Len(tx.read[2].accounts) = 2 /\ tx.read[2].accounts[1] = Feed

\* The device signed slot 1; the fee payer's slot is empty.
DeviceSigned(tx) == tx.slots >= 2 /\ tx.device

ForgePublish ==
    /\ Resting /\ builds < MaxBuilds
    /\ Nonce # None              \* the script refuses to start without ZC_NONCE
    /\ \E tx \in ForgedPublish : file' = [tx EXCEPT !.stamp = chain.nonce]
    /\ honest' = FALSE
    /\ builds' = builds + 1
    /\ UNCHANGED <<menu, args, signed, chain>>

BroadcastPublish ==
    /\ file # None /\ file.wire = "publish"
    /\ signed' = IF PublishCertified(file) /\ DeviceSigned(file) THEN signed \cup {file} ELSE signed
    /\ file' = None
    /\ UNCHANGED <<menu, args, honest, chain, builds>>
----------------------------------------------------------------------------
(* The cluster (external): all of a transaction's instructions run or none.  *)

AmountFrom(ixs, pool) ==
    MapThenSumSet(LAMBDA k : ixs[k].amount,
        {k \in DOMAIN ixs : ixs[k].prog = "allowance" /\ ixs[k].accounts.delegation = pool})
AmountTo(ixs, account) ==
    MapThenSumSet(LAMBDA k : ixs[k].amount,
        {k \in DOMAIN ixs : ixs[k].prog \in {"allowance", "token"} /\ ixs[k].accounts.receiver_ata = account})
FeePaid(ixs) == LastValue(ixs, Len(ixs), "price", 0)
                * LastValue(ixs, Len(ixs), "limit", DefaultUnits * Len(ixs))
Lamports(ixs) ==
    FeePaid(ixs) +
    MapThenSumSet(LAMBDA k : ixs[k].value,
        {k \in DOMAIN ixs : ixs[k].prog = "system" /\ ixs[k].op = "transfer"})

\* The stamp is the nonce's value, which every landing moves.
Executes(tx) ==
    /\ tx.stamp = chain.nonce
    /\ \A k \in DOMAIN tx.runs :
        LET ix == tx.runs[k] IN
        /\ ix.prog = "allowance" =>
              /\ ix.accounts.delegatee = Agent
              /\ chain.world.delegatee[ix.accounts.delegation] = Agent
              /\ chain.world.kind[ix.accounts.delegation] = ix.op
              /\ chain.world.program[ix.accounts.token_mint] = ix.accounts.token_program
              /\ ix.accounts.program = "allowance" /\ ix.signer /\ ix.writable
        /\ ix.prog = "system" => ix.authority = Agent
        /\ ix.prog = "system" /\ ix.op = "advance" => chain.world.authority = Agent
    /\ \A p \in Pools : AmountFrom(tx.runs, p) <= chain.remaining[p]

Land(tx) ==
    /\ tx \in signed /\ Executes(tx)
    /\ chain' = [chain EXCEPT
          !.remaining = [p \in Pools |-> @[p] - AmountFrom(tx.runs, p)],
          !.paid = [a \in Accounts |-> @[a] + AmountTo(tx.runs, a)],
          !.lamports = @ + Lamports(tx.runs),
          !.atas = @ \cup {tx.runs[k].account : k \in {j \in DOMAIN tx.runs : tx.runs[j].prog = "ata"}},
          !.nonce = @ + 1,
          !.landings = @ + 1,
          !.feeds = @ \cup {tx.runs[k].accounts[1] :
                               k \in {j \in DOMAIN tx.runs : tx.runs[j].prog = OracleProgram}}]
    /\ signed' = {}
    /\ UNCHANGED <<menu, args, file, honest, builds>>

\* Time passes: what was not sent in time can no longer land.
Expire ==
    /\ signed # {}
    /\ signed' = {}
    /\ chain' = [chain EXCEPT !.nonce = @ + 1]
    /\ UNCHANGED <<menu, args, file, honest, builds>>
----------------------------------------------------------------------------
SignInit ==
    /\ menu = None /\ args = None /\ file = None /\ honest = FALSE
    /\ signed = {} /\ builds = 0
    /\ \E w \in Worlds : chain = NewChain(w)

SignNext ==
    \/ \E options \in Menus : Offer(options)
    \/ \E tier \in {None} \cup 1..3 : Authorise(tier) \/ Refuse(tier)
    \/ \E w \in Wallets : AlterArgs("receiver", w)
    \/ \E p \in Pools : AlterArgs("delegation", p)
    \/ \E a \in Prices : AlterArgs("amount", a)
    \/ \E m \in Memos : AlterArgs("memo", m)
    \/ Build \/ Forge \/ ForgePublish \/ BroadcastPublish \/ Expire
    \/ \E memo \in Memos \cup {None} : PayCertified(memo)
    \/ \E tx \in signed : Land(tx)
SignSpec == SignInit /\ [][SignNext]_signVars
----------------------------------------------------------------------------
(* Whatever the seller wrote, the agent changed or the file held: tokens     *)
(* leave only the configured pool, reach only the configured receiver, and   *)
(* the host's lamports pay at most one priority fee per transaction, and no  *)
(* feed but the configured one is written.                                  *)
OnlyTheConfiguredPayment ==
    /\ \A p \in Pools \ {Delegation} : chain.remaining[p] = PoolSize
    /\ \A a \in Accounts \ {WantAta} : chain.paid[a] = 0
    /\ chain.paid[WantAta] = PoolSize - chain.remaining[Delegation]
    /\ chain.feeds \subseteq {Feed}
    /\ chain.lamports <= MaxPriority * chain.landings

\* The second reader knows one kind of purchase: out of a fixed delegation, in the
\* configured mint, under the token program proper, with a nonce account that is the
\* payer's own.  The plugin builds others as well, and the reader refuses those
\* (README, section 4).
BothReadersKnow ==
    /\ chain.world.kind[Delegation] = "fixed"
    /\ chain.world.mint[Delegation] = Mint
    /\ chain.world.program[Mint] = "token"
    /\ Nonce # None => chain.world.authority = Agent

(* A purchase of that kind that the plugin authorised and nobody touched is *)
(* never refused by the second reader, whatever the chain did meanwhile:   *)
(* the two checks are redundant and must agree.                             *)
HonestIsSigned ==
    [][\A memo \in Memos :
          /\ PayCertified(memo) /\ honest /\ Last(file.read) = Memo(memo)
          /\ BothReadersKnow
          => file \in signed']_signVars
=============================================================================
