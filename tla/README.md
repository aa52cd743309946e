# zeroclaw-solana: a verification project

TLA+ modules, TLC configurations and TLAPS proofs for the parts of this repository that
keep state, move money or decide on money somebody else moved. Paths are relative to the
repository.

The repository is a set of small programs around Solana payments: a gate that sells a
sensor reading for a signed payment, a shop page and the proxy it asks, an announcer that
sends receipts, WebAssembly plugins an agent host calls, two on-chain programs and their
publishers, and the scripts that deploy all of it. They share no memory; they meet on the
chain, in files, and through a person or an agent that carries a value from one to the next.

## 1. Inventory

### x402 feed gate: daily ledger (`x402-feed-gate/src/lib.rs`, modelled)
State: atomic units spent by (payer, UTC day), and the set of used nonces, behind one mutex.
Operations: `reserve`, `confirm`, `release`, `commit`, `rehydrate`, `within_cap`.
Hard: several reservations outstanding at once; releasing one must give back its own money
and nonce and nothing that settled; additions saturate; a restart rebuilds the rows from a log.
Correct when: no row passes the cap while it holds room, no two reservations share a nonce, a
row is what settled plus what is held, a redeemed nonce stays used.

### x402 feed gate: payment and settlement (`x402-feed-gate/src/main.rs`, partly)
State: the ledger, the request in hand, the earnings log on disk. Operations: challenge,
verify, reserve, settle (simulate, send, poll), resolve the reservation, append the sale,
answer; load the log and rehydrate at start. Interacts with the buyer (one header), the
cluster (RPC) and its own log.
Hard: a lost answer to `sendTransaction`; forks at commitment "processed"; crash at any
point; a torn or failed append; midnight between reserve and record; a retry of a payment
that was already sent.
Correct when: a reading is sold for a confirmed payment, a nonce buys one, a payer buys at
most the cap per day over every restart.

### x402 feed gate: reading a payment (`crates/solana-core/src/token.rs`, `verify_x_payment`, modelled)
No state. The gate decides on one instruction of a transaction it did not build, before the
cluster sees it, and never looks at the source account.
Hard: what stands beside the instruction, its order, delegates, other token programs.
Correct when: what is metered was paid by the party that signed, and an honest payment is
not refused.

### Settlement announcer (`deploy/announce_settlements.sh`, `demo/confirm_settlements.py`, partly)
State: a ledger of announced settlements, a negative cache, the work list of one tick.
A timer runs a tick: scan the chain, send a receipt for each settlement not in the ledger,
and, if all sends worked, derive the list again from the chain and append it.
Hard: a settlement landing between the two passes; a failed send among several; a kill
inside a send, the cache write or the append; a stale fallback node.
Correct when: no receipt is swallowed, none is repeated once a complete line records it, each is
sent in the end.

### payment-watch plugin (`plugins/payment-watch`, partly)
State: none of its own; the caller keeps the cursor it returns. One check pages back
through the signatures above the cursor, tests each transaction, asks independent nodes
about a match, and answers PAID, NOT_YET, UNCONFIRMED or DISPUTED.
Hard: signatures land between pages; more land than the pages hold; a node lists what it
does not serve; nodes disagree.
Correct when: the cursor never passes an untested payment, PAID is true, a payment is
reported in the end.

### Device oracle (`onchain/programs`, `e2e-localnet/src/bin/feed_publish.rs`, `plugins/oracle-publish`, `scripts/broadcast_certified.py`, `scripts/feed_heartbeat.py`, partly)
State: the feed account, durable nonce accounts, transactions signed and not yet sent.
Scheduled runs register the feed when they find none, read its sequence, sign the next and
send; an agent's host signs now and broadcasts the file later; a consumer program and a
heartbeat read.
Hard: overlapping runs, a partial transaction sent late or twice, a failed read taken for a
missing feed, an outage taken for a stalled feed.
Correct when: the feed is registered once and shows only what its device signed, in rising
sequence; it climbs; readers conclude only what was published.

### Web checkout and settlement proxy (`webshop-pay/src/app.js`, `rpc-proxy/src/index.js`, partly)
State: per page load, the card, the Pay button, where the payment is and a timer; in the
proxy, a permanent store of answers and a one-minute negative marker. A page asks whether
its order's reference has settled at load, every six seconds and just before the wallet
opens, first the pinned node and then the proxy, which asks a node with the full history.
Hard: all three at once; a wallet signs and broadcasts in one call; the pinned node prunes;
a request the page gave up on still stores; phones pay without the page.
Correct when: a good link is never refused, a settled one is refused whenever the chain was
readable, one load pays once.

### The buyer (`plugins/x402-pay-build`, `plugins/allowance-spend-build`, `scripts/pay_x402_certified.py`, `scripts/certify_x402_payment_tx.py`, partly)
State: the allowance on chain, the message at hand, the operator's configuration. A plugin
matches the seller's challenge, the agent carries its arguments to a second plugin, which
builds a message, and a script reads the bytes again before the host signs. The oracle's
publish path has the same second reader (`certify_publish_tx.py`, `broadcast_certified.py`).
Hard: the seller writes the challenge, the agent may alter the arguments between two calls,
and the file may hold any transaction by the time it is certified.
Correct when: only the configured payment leaves the pool, and an untouched purchase is
signed: the two readers agree.

### Payment links and rates (`skills/solana-pay/scripts/pay_link.py`, `scripts/rate_crosscheck.py`, partly)
State: what two central banks published, the rate the agent noted. Two scripts hold copies of
the same corroboration rules; the agent composes a URL in between.
Hard: sources publish and days turn between the two readings; the agent recalls a field of
an earlier order; one copy computes in floats.
Correct when: a printed link asks what the customer's words come to, at a corroborated rate;
an order composed as told gets its link.

### Deployment (`deploy/make_invariants.py`, `deploy/sync_workspace.py`, `deploy/box_selfcheck.py`, partly)
State: the checkout and its commits, blessed plugin binaries, the manifest, the box, its units
and DEPLOYED_SHA, the published verdict. A generator writes the manifest, a sync copies file
by file and marks the commit last, an hourly check compares and publishes.
Hard: the three tools, the operator's editor and hand edits on the box interleave; a sync dies
between two copies; a manifest is generated from a tree that is not its commit.
Correct when: green means the box holds every mapped file of the commit it names; a correct box
turns green, and a drifted one red.

### Publishing the payment page (`scripts/deploy-pay-page.py`, modelled)
State: per run, the resolved commit and the keys still to upload; the CDN; the plan file and
its sibling; the live page. Gates on the bytes of one commit, then wrangler, or an upload of
batches and a plan an operator deploys by hand.
Hard: lost answers, kills, and two runs on one plan path; the hash that names the assets is a
tree whose shape turns on the chunk count.
Correct when: a plan that is found and parses can be trusted, a failed upload that nothing ran
beside leaves none, and customers load one commit, whole.

### Proof verifiers and evidence (`scripts/verify-proof.py`, `scripts/verify_proof_offline.py`, `scripts/capture-proof-bundle.py`, `demo/x402_earnings.py`, partly)
State: the bundle of raw transactions; each run's failures so far, tries and retry budget. A
stranger runs them against a system that changes meanwhile; what a node forgot is checked
from the bundle, which a capture rewrites.
Hard: a transport failure must not read as a broken claim; figures of two endpoints are read
at different times.
Correct when: exit 1 names only what was false meanwhile, or is one of the misreadings listed
below; exit 0 passes what was not so only on the bytes of the bundle; captured bytes are never
lost by a later capture that ends.

### Not modelled
`PROJECT.json` lists every other part with its reason. In short:
- wire formats, the sanitiser and the single-answer plugins (`spl-transfer-build`,
  `solana-pay-request`, `token-risk-check`, `lending-health`, `depin-attest`) map one input to
  one output and keep nothing; the repository drives them by property tests and fuzzing. What
  they do to bytes is below the abstraction of every module here.
- The gate's price, health, receipts and selfcheck endpoints only read.
- The agent procedures are text for a language model.
- The repository's own gates (`scripts/check-*.py`, `verify-output-ceiling-agreement.py`, their
  mutation checks and tests) scan text of the tree once and hold no state; a model of a regular
  expression would be the expression again. They are over two fifths of the Python here.
- Recording and rendering (`demo/take.py`, `pre_export_gate.py`, `build-field-card.py`,
  `build-social-card.py`), browser drivers (`demo/verify_*.py`), `demo-preflight.py`,
  `consume_feed_once.py`, `chain_history.py`: one pass, no state that outlives it.
- `rate_from_feed.py` refuses every call until a rate feed is pinned; `deploy_shop_page.py` is
  disabled, `fix_skill_network_prose.py` retired.
- Test drivers and end-to-end harnesses.

So the definitions map about a tenth of the repository's Python, a quarter to two thirds of each
script that keeps state or decides on money, and the handlers of the Rust, JavaScript and shell
programs beside them.

## 2. Modules

| module | what it is |
|---|---|
| `DailyLedger` | the ledger, any number of reservations outstanding |
| `PaymentCheck` | one presented transaction: what the gate reads, what the token program does |
| `FeedGate` | extends `DailyLedger` with the request handler, the log, the chain, crashes |
| `SaleContract` | the abstract sale `FeedGate` implements |
| `Announcer` | ticks, passes and kills of the announcer |
| `PaymentWatch` | checks, the caller's cursor, independent nodes |
| `Oracle` | the feed's program, publishers, consumer, heartbeat |
| `FeedContract` | the abstract feed `Oracle` implements |
| `Checkout` | page loads, their lookups, the proxy, the chain |
| `CertifiedSigning` | challenge, arguments, message, certification, the pool on chain |
| `PayLink` | two sources, two scripts, one order |
| `Deployment` | checkout, generator, sync, box, hourly check |
| `PagePublish`, `HashTree` | the page's publisher; the tree of its content hash |
| `ProofBundle`, `ClaimVerifier` | the evidence file and its capture; the scripts that judge claims |
| `MC...` | the finite instances |
| `FeedGateProofs` | theorems about `DailyLedger`, `PaymentCheck` and `FeedGate` |
| `AgentPaymentsProofs` | theorems about `CertifiedSigning` and `PayLink` |
| `PublicationProofs` | theorems about `PagePublish`, `HashTree`, `ProofBundle` and `ClaimVerifier` |
| other `...Proofs` | theorems about the module of that name |

Definitions named `... DEFECT` in their comment are plausible bugs of the definition after
them. They are not part of any specification; each property is known to fail under one.

### DailyLedger
`spent` and `used_nonces` are the two maps of the source; an absent row is 0. `held` is the
set of live `Reservation` values: the type is private, not `Clone`, and consumed by value,
so resolving removes. Each method is one step, since the mutex covers it. Integers saturate
at `U64Max`. `settled` is a history variable, the part of a row no reservation owns.

### FeedGate
`pc` is the place in `handle_reading` of the one request the sequential server has. Every RPC
is a step, and the chain, midnight and a crash may come between any two. `Present` covers
verification through `reserve`; `Settle` the simulation, the send and each poll; `Resolve` what
`resolution_for` maps the outcome to; `record_earning` the append; `Serve` the answer.
`Restart` is `load_earnings` and `rehydrate`; a file that cannot be read, or that a torn line
left not UTF-8, restores nothing (`blind`). A transaction is absent, in flight, processed,
confirmed, failing, failed or expired; a fork takes processed back to in flight. The log is
kept as what its readable lines add up to per row, with its nonces and its possibly unfinished
last line; `MCDailyLedger` checks the fold over records itself. The money in play, and what a
row should hold, are sums over finite sets of payments (`Units`, `HeldFor`); the code keeps no
such sum, only the properties do. A payment is a record of what the gate looks at. Left out:
the gate's own nonce counter, and a buyer who broadcasts without the gate.

### Announcer
`todo` is the list a pass fetches, or the receipts left to send; each fetch and each send is
a step, so settlements land in between and a kill may hit any of them. A torn append is whole
records and then a piece that does not parse, or a record that lacks only its newline and is read
as it stands; the next append runs into either, and that line is lost. Ticks never overlap
(systemd starts no second instance), and seeding, done by hand, runs while none does, with an
empty ledger. The retry with a bare type is part of `send_one`.

### PaymentWatch
A signature is its position in `history`; the ones collected by a check are an interval
above the cursor. Each page and each fetch is a step. A caller keeps its cursor when the
check returns none, and stops at PAID. A phantom is a transaction only the primary ever
shows, and it never stops showing it. Malformed entries and pages above the limit are left
out.

### Oracle
A reading is told by when it was observed; value, unit and scale are left out. One feed has
one device, since its address derives from the device's key. Durable nonces advance when a
transaction of theirs executes, so of several transactions under one nonce value one lands. The
plugin's debug-build overflow at the last sequence is a panic; the three attempts of the
heartbeat's read are one fault. Certification passes what the plugin builds. `published` and
parts of `report` are history variables.

### Checkout
`pay` is where `payWith` is, "ready" being an enabled button; `card` what the card shows.
`lookup[t]` holds the timer's lookup and the check's, which run at the same time and are two
requests of the proxy. A proxy request reads (store, pinned node, marker, deep node) in one
step and stores in another, so a second request may pass between. A request the page aborts
may still store (`late`). When the card was replaced, `#status` and `#pay` are gone: writing
to them throws, the catch throws again, and the payment is over (`Goes`). An order's history
is its confirmed transactions, successful or not, and pruning drops the oldest at the pinned
node. The marker lives a minute and history days: no pruning step is taken while a marker
is set. Left out: the figure on the Paid card and its transaction lookups, the wallet
picker, link validation, forks, the overlap of the first lookup with the first tick, and
closing a tab.

### PaymentCheck
A transaction is what `verify_x_payment` asks of it: whether it decodes, which signers it
declares, which signatures verify, and its instructions. `Present` is the whole verification,
`Execute` the token program (external): all of the instructions or none, by owner or delegate.

### CertifiedSigning
`file` holds the message twice: `read` is what its bytes say at the positions the certifier
reads, `runs` what the chain would execute; the two differ only for encodings the certifier
must refuse (lookup tables, trailing bytes, an unknown version). `honest` is a history
variable. One purchase, or one file from elsewhere, at a time: what two purchases share is the
pool and the nonce, and both stay between them. A derived token account is its triple of
wallet, mint and token program. A world (`Worlds`) is what the chain holds that no step here
changes: each pool's kind and mint, each mint's program, the nonce account's authority. The
landings, fees and paid amounts in `chain` are what the property counts.

### PayLink
Rates are in tenths and amounts in cents, so half a cent and the 2.5% line are whole numbers.
The float copy may fall on either side of a divergence of exactly 2.5%, so there `CrossCheck`
may refuse or not. A URL is a field's entries as the script sees them, by raw key, and in
`encoded` the entries only a reader that decodes keys finds. The reading of Brazilian figures
out of text is left out: an order carries the figures its message names.

### Deployment
One step per group of reads of the check, one per file of the sync, and one per phase of the
generator, since the tree and the box move between those. A content stands for the hash taken
of it. A tool that dies stops where it is. `calm` and `moved` are history fields: no
deploy and no hand touched the box during this check; the tree, or a hand on the box, moved
during this run of the generator or of the sync.

### PagePublish and HashTree
A content stands for its bytes and for the asset key made of them. A session goes through the
gates in one step, since they read one commit and nothing that moves, and then one step per
request and per file operation. Emptying a file and removing or filling it are two steps. `at`
is where the file a session opened is now, since the paths are shared: a text goes to the file,
wherever another session moved it. `after` is a history field, the sessions ended when this one
started. In `HashTree` each chunk read, each turn of the merging loop and each turn of the
closing loop is a step, and a compression is the record of what it is applied to, so two trees
are equal exactly if every flag and every merge is.

### ProofBundle and ClaimVerifier
An entry is missing, captured or damaged. One step is one check of a run, with its
retries; a run carries which checks failed, which of them by transport, and which it could not
have read right (`misread`, the exceptions section 4 names). What a claim is (`Holds`: of a
transaction, that it ended as claimed, `landed`) is kept apart from what a check makes of it
(`Judged`: what the node returns if it still has the transaction, the bundle if not). `seen`
records which claims were true, which false and which transactions the bundle did not prove
(`bare`), at some moment since the run began.

## 3. Runs

| run | shows |
|---|---|
| `ledger` | three overlapping reservations over any restored log of up to three records; every transaction of up to three instructions out of fifteen |
| `gate` | the gate with overrunning, nonce-sharing and unverifiable payments, two crashes, two days, forks, lost answers; refines `SaleContract` |
| `gate_faults` | two payments, dropped and torn log writes, starts that cannot read the log, an RPC that answers: recorded sales stay in the ledger, money in play stays metered, the log restores a lower bound, each request ends |
| `announcer` | two settlements and an outgoing transfer, two faults of any kind |
| `payment_watch` | five transactions landing above the cursor, a check of three, a phantom, a failed and an unreadable transaction, two independent nodes, one fault |
| `oracle` | a run started over and over, an agent, a consumer, a heartbeat; refines `FeedContract` |
| `checkout` | one load, a phone, pruning, one fault |
| `agent_payments` | purchases from challenge to chain with altered arguments and replaced files; orders priced at one reading of two sources and linked at another |
| `deployment` | edits, commits, blessings, manifests, dying deploys, hand edits and checks, interleaved |
| `page` | two runs of the publisher on one plan path over eight commits; hash trees of up to twenty chunks |
| `claims` | the verifier and the earnings check over a system that sells, restarts, forgets and is re-captured |
| `checkout_nothing_sent` | expects a violation; see below |

`checkout_nothing_sent` shows that the settlement timer, which is not told that this page paid,
replaces the page's own ✓ Paid card with one that says "Nothing has been sent" (`app.js:415`).

## 4. Where the code does not keep what is said of it

Met while modelling. The first is a run of its own; the others are excepted, by name, in the
definition or the constant in brackets, and the property of that line fails without it.

- The card above (`NothingSentIsTrue`).
- Every error of `send_transaction`, a lost answer included, becomes Definite: the hold is
  released and the payment lands, where `main.rs:1361` says "Nothing moved and nothing will".
  An execution error at commitment "processed" is taken as final too, and a fork undoes it
  [`DefiniteMeansNothingMoves`, `MoneyInPlayIsMetered`: `ReplyLoss`, `Forks` are FALSE].
- A crash between a confirmed settlement and the append forgets it, where `lib.rs:548` names
  only the unknown outcome as a gap [`MoneyInPlayIsMetered`: `crashes = 0`].
- A start that cannot read the earnings log restores nothing and reports nothing skipped
  (`main.rs:171`), where `main.rs:165` says that skips are reported "so a corrupt ledger is
  visible instead of silently shrinking the restored spend"; a line cut inside a character of
  its memo makes every later start such a one [`LogIsInLedger`, `RestoredIsLowerBound`: `blind`].
- A transaction with two transfers to the gate is metered for the first that suffices
  (`lib.rs:146`): the cap bounds what is metered [`MeteredIsPaid` is of the metered one].
- A first poll without a cursor that does not drain the history takes the newest signature as
  its cursor, where `watch.rs:413` says "held rather than advanced" [`FirstCursor`].
- A listed transaction whose body is null is stepped over (`watch.rs:700`) [`Unreadable`]; a
  payment under more signatures than a check covers, or behind a phantom, is never reported
  [`OutOfReach`].
- A kill between a record and its newline leaves a line the next append joins: neither record
  parses then, and their receipts are sent again (`confirm_settlements.py:456-460`)
  [`RecordedNeverSentAgain` is of complete lines].
- A null `meta` is cached as no settlement for good [`BareMeta`]; a window shorter than what
  lands while a receipt is owed loses it [`Limit`].
- An order whose list holds only a failed transaction is stored for ever and hides a
  settlement (`index.js:277`) [`SomeFailed`].
- A JSON-RPC error inside HTTP 200 reads as a missing account: the heartbeat calls it STALLED
  (`feed_heartbeat.py:99`, against its lines 16-18) [`ReadFailures`], and the verifier a broken
  claim (`verify-proof.py:224`) [`misread`].
- An answer that is none, such as a 403, a body that does not parse or is cut short, or the 503 of
  a proxy before `/selfcheck`, is a claim that failed, at once (`verify-proof.py:276-290`,
  `:912-918`) [`Misanswered`].
- A transaction no node serves any more, whose entry in the bundle is missing, being written or
  damaged during the run, fails, where `verify-proof.py:406-410` calls that a false red [`bare`].
- One that ended otherwise than claimed passes once no node serves it: its captured bytes show
  that it was signed, not how it ended (`verify-proof.py:429-450`) [`GreenWasTrue`].
- The first sale of a gate that had none reads as a log that does not round-trip
  (`verify-proof.py:814`) [`misread`], and a gate that restored one of many sales as one whose
  daily cap survived (`:843`): exit 0 of the verifier is no statement about the ledger.
- A tree that moves while the generator reads it is labelled with the wrong commit
  (`make_invariants.py:711`) [`moved`]; a deploy during a check publishes the new commit under
  the old files' verdict (`box_selfcheck.py:1066`) [`calm`].
- A file removed from under a mapped directory leaves the manifest, no sync takes it off the box,
  and no check looks for it: the map is refused only for an entry that matches no file
  (`make_invariants.py:313-324`) [`GreenMeansDeployed` is of the files the commit has].
- A daemon that crashes and is restarted for ever is "activating", which counts as healthy
  (`box_selfcheck.py:941`, `x402-feed-gate.service:140-141`) [`Wrong`].
- A sync names the commit first and marks it last: a tree that moves while it copies, or a hand
  on the box between its read-back and the marker, is not seen (`sync_workspace.py:413-440`,
  `:528`) [`moved`].
- A publisher run that fails in its gates leaves an earlier plan, where
  `deploy-pay-page.py:923` says a failed run leaves none [`Uploading`].
- Two publisher runs share the sibling of the plan: one moves to the plan path what the other
  just emptied or half wrote (`deploy-pay-page.py:1001-1004`), against lines 988-991, and the
  text of a run that then fails may stay there, against lines 921-925 [`Beside`]. A kill between
  lines 942 and 944 leaves an empty plan [`PlanIsUploaded` is of plans that parse].
- Two captures that overlap overwrite each other's file, the last writer winning, where
  `HeldBytesAreKept` is what each run promises of the file it read
  (`capture-proof-bundle.py` takes no lock).
- The plugin builds purchases the certifier refuses, untouched as they are: out of a recurring
  delegation (`allowance.rs:1115`, refused at `certify_x402_payment_tx.py:531`), of a Token-2022
  mint (`:1069`, refused at `:420` and `:572`), with a nonce account another wallet is the
  authority of (`:830`, `:862`, refused at `:618`) and out of a delegation of a mint that is not
  the configured one. `HonestIsSigned` is of the others [`BothReadersKnow`]; that only the
  configured payment leaves the pool has no such proviso.
- A parameter whose key is percent-encoded is none to `pay_link.py` (`:380-384`, `:409-413`,
  `:449-453`, `:638-642`) and is one to the page (`app.js:196-197`) and the wallets, so a link it
  prints may ask for another amount [`encoded`].
- A lost answer in `pay_x402_certified.py:303` and a second build pay twice, within the pool;
  nothing remembers the first.

### Bounds, and why they are enough
- Ledger: three nonces give three reservations, the fewest where two may be released around a
  third. Cap 3 and `U64Max` 5 let restored rows saturate.
- Gate: cap 2 with amounts 1 and 2 makes two payments overrun; two crashes are needed to
  restore, sell and restore again; two days cross midnight once. One poll is enough for
  safety, since a poll that sees nothing changes only its counter; the liveness run has two.
- Announcer: two settlements are the fewest where one send fails after another worked; two
  faults let a retry fail too. The window holds the whole history.
- Watch: pages of one signature, three per check, put a landing between any two pages and let
  five arrivals overrun a check.
- Oracle: two nonce values per account give a stale transaction to compete with; sequences up
  to 2 reach the overflow; three instants are inside, at and past each window.
- Checkout: one load has two lookups, hence two racing proxy requests; two transactions are
  the fewest where one hides another or the window drops one; two timer polls exceed the one
  fault. A second load adds no kind of request the proxy does not already get.

- Signing: four worlds, one with each purchase the certifier knows and three it refuses in one
  respect each. Two builds let one payment land between another's build and its landing.
  Replaced files are the payment with one field changed and all pairs of instructions around a
  good one: the certifier reads instructions one by one and carries from one to the next only
  the fee values and what it has seen once, which a pair exercises. Prices up to 3 over a
  ceiling of 2 and a pool of 3 let each of the limits bind.
- Links: four rates are two within the band, one outside it and one implausible; a walk-back
  of one day (the code's is four) has a day with and one without a fixing.
- Deployment: two entries of the map that match three files, a unit file and a source; a timer,
  a one-shot and a daemon; two commits, two tool runs, one edit and one drift; at most three
  disturbances of a behaviour (`MaxDisturbances`). `RepoStepsCommute` keeps one of several
  orders of steps that read and write nothing of each other.
- Page: eight commits, two good and one per gate; two sessions are what one plan path needs; two
  faults spend a batch's attempts. Three assets, with two files and two units of bytes to a batch,
  let either bound end one. Chunks of two blocks and inputs up to 40 give every chunk
  count up to twenty, 1, 2, 4, 8 and 16 with their neighbours included.
- Claims: two sales and two changes put a sale and a restart between two reads; one entry
  forgotten and one spoiled. A behaviour changes the system or the bundle, not both
  (`focus`): the checks that read one read nothing of the other.
- `ledger`, `agent_payments` and `page` each put two components with no common variable side
  by side in one run; a behaviour moves only one of the two.

### Fairness, and what justifies it
- Gate: weak fairness of the handler's steps and of `Restart` (the unit restarts the
  process). Calls are taken to end; the HTTP client sets no read timeout, so a node that
  accepts and never answers is outside the model (hazard at `main.rs:75`).
- Announcer: the timer fires and a started tick takes its steps; its unit is killed after 90 s
  at the latest. Faults are bounded, which is the assumption that they stop.
- Watch: the caller polls again and a check takes its steps.
- Oracle: "a systemd timer keeps it publishing"; calls return, and the cluster executes or
  drops what it holds.
- Checkout: the browser's timer fires and each lookup ends, by `rpc()`'s six-second abort at
  the latest. No fairness is assumed of the customer, the wallet or the chain.
- Deployment: the hourly timer is persistent and the check has a deadline, so a check runs, ends
  and publishes. Nothing is assumed of the operator. A publication that fails counts as a
  drift, of which there are boundedly many: the host is not unreachable for ever.

Deadlock is checked except where the system may stop: the ledger when every nonce is used, the
watch after PAID, an order's page when all is paid and the timer has run out, purchases and
publisher runs when all have ended, and a deployment whose budgets are spent.

## 5. What is proved

For every value of the constants, under the named assumptions of the modules:

- `FeedGateProofs`, of the ledger alone, any number of reservations over any restored log: the
  cap, the ownership of nonces and that redeemed nonces stay used. The first two are inductive
  with the types; the third follows from the second, since a release un-burns only a nonce that
  no other reservation has. `RowsAlwaysAddUp` (a row is what settled and what is held) needs the
  sum over a finite set: its lemmas, one element added or removed, are proved by the smallest
  set for which they could fail.
- `FeedGateProofs`, of the gate, with every fault: the types, `ServesOnlyConfirmed`,
  `GateRowsAddUp`, and, as long as every start could read the log, `LogStaysInLedger` and
  `RestoresOnlySettled`. For the last, the complete lines carry per row no more than the
  confirmed payments whose nonces they name, and a cut line is the sale of one more
  (`LogIsPaid`), however lines were dropped or torn.
- `FeedGateProofs`, `CapHolds`, `NonceBuysOnce` and `GateImplementsContract` under
  `LogFaults = {}`, since a line dropped, torn or not read forgets a sale. Neither bound is inductive alone.
  The invariant is the chain `soldAmounts <= log.amounts <= spent <= Cap`, with the payment in
  hand filling the next gap of it (`RoomToRecord` before its append, `RoomToSell` between
  append and answer), that this payment's is the only reservation (`OneHold`), and that what
  the handler saw confirmed is confirmed (`OkIsConfirmed`). Refinement: `Serve` is `Sell`, the
  chain's steps are `Land`, everything else stutters.
- `FeedGateProofs`, `DefiniteIsFinal` and `MoneyIsMetered` under `~ReplyLoss` and `~Forks`
  (section 4 says what happens otherwise), in the first life of the process: payments in play keep
  their nonces burned, the one in hand is out of play once its failure is definite, and the
  others of a row are within what it has settled (`FirstLife`).
- `FeedGateProofs`, of one presented transaction of any length: `MeteredSignedAndPaid` and
  `HonestPaymentsAccepted`. The transfers that execute are followed one by one; what an owner
  has left is bounded below by what earlier transfers brought, since the gate signs nothing
  (`GateAssumption`).
- `AgentPaymentsProofs`, of the signing: `OnlyConfiguredPayments`, and
  `HonestPurchasesAreSigned` of the purchases both readers know (`BothReadersKnow`). What was
  certified spends the pool in at most one instruction, so the sums the property compares are
  over none or one (`AmountOverNone`, `AmountOverOne`), and the fee ceiling the certifier
  checks at the last budget instruction bounds the fee the cluster charges (`FeeIsBounded`).
  The invariant (`SigningInv`) is that every signed transaction pays as configured and that a
  file that reads as well-formed runs as it reads; `HonestInv` ties an untouched file to the
  arguments and those to the challenge.
- `AgentPaymentsProofs`, of the links: `LinksAskTheOrder`, of links with no percent-encoded
  key, and `HonestOrdersAreLinked`, for any rates, walk-back and ceilings. A rate is fetched
  exactly if both sources publish it within the walk (`FetchRate`), and the cents asked are the
  nearest to the division (`Cents`).
- `OracleProofs`: `OracleImplementsFeed` and `ConsumerActsOnSigned` for overlapping runs and
  shared nonce accounts, from two invariants: every transaction anyone holds was signed
  (`SignedFirst`), and the feed shows the last signed reading written, when it was written
  (`ShowsLastWritten`). `AlarmTellsTheTruth` has the premise that a read fails silently
  (`"error" \notin ReadFailures`); section 4 says what happens without it.
- `AnnouncerProofs`: `RecordedReceiptsWereSent` and `RecordedReceiptsStaySilent` with every
  fault, recorded meaning on a complete line. The invariant (`Owed`) ties the two lists of a
  tick to the ledger: what it found and what it sends is not recorded, and what a commit found
  was announced, since the commit runs only if every send of its tick worked.
  `CacheNeverHidesASettlement` under `BareMeta \cap Settlements = {}`.
- `PaymentWatchProofs`: `CursorSkipsNothing` under `FirstCursor > 0` and
  `Unreadable \cap Matching = {}`. The invariant (`ScanInv`) is that a drained scan reaches down
  to the cursor and everything it collected above the place it has got to was tested.
  `PaidMeansConfirmed`: what is being corroborated pays, and an endpoint agreed only if it
  landed (`HitInv`).
- `CheckoutProofs`, for any number of loads: `PaidMeansSettled` (a lookup that found something
  found it in the history, `PaidInv`), `LoadSendsOnce` (a button that may still open the wallet
  has sent no more than wallets that threw, `SendInv`), and `CheckMissesNoSettlement` (while a
  marker is set nothing is pruned; what a request is about to store is not empty, `CheckInv`).
- `DeploymentProofs`: `GreenBoxIsTheCommit`. Three facts carry it: a manifest written by an
  undisturbed generator from a clean tree is its commit's, and commits are only added
  (`ManifestInv`); a check no deploy and no hand overlapped still has the box's manifest and,
  past the files, the box's files (`ChkInv`); and the label published is that manifest's.
  `DeployedShaNamesTheBox`: a sync of a clean tree that did not move copies the files of its
  commit and the manifest of it, and between its read-back and the marker the box still holds
  them (`SyncInv`).
- `PublicationProofs`, of the page: `PlanIsTrusted` and `LivePageIsOneCommit` from one
  invariant: past the gates a session's commit is publishable and each of its keys is on the CDN
  or still to be sent (`SesOK`), and a plan, in place or beside it, is one publishable commit's
  with all its keys up, unless it does not parse (`PlanOK`). `FailureLeavesNoPlan`, and that a plan
  that does not parse has one of the causes section 4 names: while a session that nothing runs
  beside uploads, the plan path is empty and the sibling holds what that session put there
  (`LoneInv`, `TruncatedInv`).
- `PublicationProofs`, of the hash tree: `RootIsTheTree`, for chunks of any size and inputs of
  any length. The invariant (`TreeInv`) is that the subtrees on the stack lie side by side, each
  complete, at least twice as large as the next and starting at an even multiple of its size
  (`Slots`), and that the one in hand is no larger than the last of them. So while the count is
  even the last is as large as the one in hand, and once it is odd it is larger; when the input
  ends, what the stack does not hold fits to the right of its last subtree. Powers of two come
  from the number of subsets of a finite set (`PowerNext`); that the recursive definition of the
  tree has a solution is `TreesExist`.
- `PublicationProofs`, of the evidence: `CaptureKeepsHeldBytes`, for any number of overlapping
  captures; `BrokenClaimsWereBroken` and `GreenClaimsWereTrue`, for any claims and
  transactions. The invariant (`VerdictInv`) says of each run of the verifier that what it has
  counted as failed was false since it began, or failed by transport, or is a listed
  misreading; that it has read the bytes of every transaction the bundle proved all along; and,
  while nothing failed, that the transactions it has asked about ended as claimed or were
  passed by those bytes. Of the figures `earnings` keeps between two requests, that a log it
  read as readable with a revenue never true since is one sale ahead of the chain, and still is
  (`HealthStands`).

The assumptions are the named `ASSUME`s of the modules, which the runs evaluate. Those that say
more than the type of a constant: the gate's wallet is nobody's delegate and signs no presented
transaction (`GateAssumption`); a menu's cheaper price is positive (`MenuAssumption`); a file
from elsewhere that reads as well-formed runs as it reads, since both decode the same bytes
(`ForgedAssumption`); program ids differ (`SigningAssumption`); claims and transactions have
different names (`ToolsAssumption`); the files served are finitely many (`PublishAssumption`).

Each module also proves its types, as far as these theorems need them.

## 6. What is only model-checked

Every safety invariant and action property of the runs is also a theorem, under the provisos
section 5 names. Liveness (`EveryRequestEnds`, `EverySettlementAnnounced`, `PaymentIsReported`,
`FeedKeepsClimbing`, `SettledCardFlips`, `CorrectBoxTurnsGreen`, `DriftTurnsRed`) is out of the
prover's reach.

## 7. How components interact

The gate, the announcer, the watch, the checkout and the earnings check all judge payments by
reading the same chain, and each keeps a different memory of what it has judged: a ledger and
its log, a ledger file and a negative cache, a cursor in the caller's hands, a permanent store,
nothing. No module composes two of them, since none reads another's memory, except
`ClaimVerifier`, which compares the gate's log with the chain. `FeedGate` composes the ledger
with its user; `Checkout` the page with the proxy; `Oracle` the publishers with the programs and
their readers; `CertifiedSigning` the two plugins with the certifier and the allowance;
`Deployment` the generator, the sync and the check over one checkout and one box; `ClaimVerifier`
the scripts with the bundle `ProofBundle` keeps.

The token program, the cluster, the CDN, the two central banks and systemd are external, and
modelled from how this code uses them.

## 8. Running

`tlc -config MCX.cfg MCX` for a run (`MCFeedGate` has the configurations `MCFeedGateSafety` and
`MCFeedGateFaults`, `MCCheckout` a second one, `MCCheckoutNothingSent`), `tlapm XProofs.tla` for
a proof module. The longest run takes about three minutes on two workers.

## 9. Left to do

1. The gate's nonce counter, and the verdict over receipt records (`scan_receipt_records`,
   `receipt_verdict`).
2. The watch's reading of balances, the figure on the Paid card, and exact decimal conversion
   (`to_base_units`).
3. The watch inside the agent's procedure (`sops/payment-confirmation`): the cursor a caller
   keeps across restarts.
