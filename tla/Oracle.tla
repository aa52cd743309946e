------------------------------- MODULE Oracle -------------------------------
(***************************************************************************)
(* One device feed on chain and everyone who touches it: scheduled runs of *)
(* the publisher (e2e-localnet/src/bin/feed_publish.rs), an agent's host   *)
(* that signs with the oracle-publish plugin and broadcasts the file later *)
(* (scripts/broadcast_certified.py), the consumer program and the          *)
(* heartbeat.                                                              *)
(*                                                                         *)
(* A reading is told by when it was observed; its value, unit and scale    *)
(* are left out.  A feed's address derives from its device's key, so one   *)
(* feed has one device and feeds do not interact.  Nonce accounts exist.   *)
(***************************************************************************)
EXTENDS Integers, FiniteSets

CONSTANTS
    Runs,        \* scheduled publishers that may overlap
    RunNonce,    \* the durable nonce account of the runs ...
    AgentNonce,  \* ... and of the agent, perhaps the same
    Kinds,       \* feed kinds the plugin allows
    FeedKind,    \* the one the feed is registered with
    U64Max,      \* the largest sequence
    MaxAge,      \* max_age_secs of the consumer
    StaleAfter,  \* STALE_HOURS of the heartbeat
    ReadFailures, \* how its read may fail: "silence", "error"
    FirstInstant, \* when the model starts
    LastInstant, \* bound: the clock
    MaxNonce,    \* bound: transactions a nonce account sees
    MaxFiles,    \* bound: transactions the agent's host keeps
    MaxFaults    \* bound: failed calls and dropped transactions

ASSUME OracleAssumption ==
    /\ FeedKind \in Kinds
    /\ ReadFailures \subseteq {"silence", "error"}
    /\ {U64Max, LastInstant, MaxNonce} \subseteq Nat \ {0}
    /\ {MaxAge, StaleAfter, MaxFiles, MaxFaults} \subseteq Nat
    \* the epoch is out of the heartbeat's window
    /\ FirstInstant \in Nat /\ StaleAfter < FirstInstant /\ FirstInstant <= LastInstant

Accounts == {RunNonce, AgentNonce}

VARIABLES
    clock,     \* Clock::unix_timestamp
    feed,      \* the DeviceFeed account
    nonce,     \* the value each nonce account stores
    pool,      \* complete transactions the cluster holds
    files,     \* the agent's partial transactions
    pc,        \* what each run is doing
    tx,        \* the transaction a run is putting together
    report,    \* what a reader last concluded, of which account, when;
               \* history: with the feed written when
    faults,
    signed,    \* history: transactions the device signed
    published  \* history: when the feed was written

chainVars == <<clock, feed, nonce, pool, published>>
runVars == <<pc, tx>>
vars == <<chainVars, files, runVars, report, faults, signed>>

Fault ==
    /\ faults < MaxFaults
    /\ faults' = faults + 1

Transactions ==
    [account : Accounts, nonce : 0..MaxNonce - 1, sequence : 0..U64Max,
     observed_at : 0..LastInstant, kind : Kinds]

Feeds ==
    [registered : BOOLEAN, sequence : 0..U64Max,
     observed_at : 0..LastInstant, published_at : 0..LastInstant]

\* What a run starts from.
NoTransaction ==
    [account |-> RunNonce, nonce |-> 0, sequence |-> 0, observed_at |-> 0, kind |-> FeedKind]

-----------------------------------------------------------------------------
(***************************************************************************)
(* The chain: the oracle program and the durable nonces.                   *)
(***************************************************************************)

\* DEFECT: the account may exist already (init_if_needed).
MayRegisterAgain == TRUE

\* `init` creates the account, and fails on one that exists.
MayRegister == ~feed.registered

Unregistered ==
    [registered |-> FALSE, sequence |-> 0, observed_at |-> 0, published_at |-> 0]

Registered ==
    [registered |-> TRUE, sequence |-> 0, observed_at |-> 0, published_at |-> 0]

\* What publish_reading requires.
publish_reading(t) ==
    /\ feed.registered
    /\ t.sequence > feed.sequence
    /\ t.kind = FeedKind

NonceValid(t) == t.nonce = nonce[t.account]

\* A node's preflight: the transaction would succeed on the state it sees.
Preflight(t) == NonceValid(t) /\ publish_reading(t)

\* The nonce advances whether or not the program call then succeeds.
Execute(t) ==
    /\ t \in pool
    /\ NonceValid(t)
    /\ nonce' = [nonce EXCEPT ![t.account] = @ + 1]
    /\ pool' = pool \ {t}
    /\ IF publish_reading(t)
       THEN /\ feed' = [registered |-> TRUE, sequence |-> t.sequence,
                        observed_at |-> t.observed_at, published_at |-> clock]
            /\ published' = published \cup {clock}
       ELSE UNCHANGED <<feed, published>>
    /\ UNCHANGED <<clock, files, runVars, report, faults, signed>>

\* A transaction whose nonce has moved on never executes; any may be lost.
Drop(t) ==
    /\ t \in pool
    /\ pool' = pool \ {t}
    /\ IF NonceValid(t) THEN Fault ELSE UNCHANGED faults
    /\ UNCHANGED <<clock, feed, nonce, published, files, runVars, report, signed>>

Tick ==
    /\ clock < LastInstant
    /\ clock' = clock + 1
    /\ UNCHANGED <<feed, nonce, pool, published, files, runVars, report, faults, signed>>

-----------------------------------------------------------------------------
(***************************************************************************)
(* A run of feed_publish: one shot, each read a call of its own; any       *)
(* failure panics.                                                         *)
(***************************************************************************)

At(r, from, to) == pc[r] = from /\ pc' = [pc EXCEPT ![r] = to]

\* The process ends, well or in a panic.
Ends(r) ==
    /\ pc' = [pc EXCEPT ![r] = "off"]
    /\ tx' = [tx EXCEPT ![r] = NoTransaction]
    /\ UNCHANGED <<chainVars, files, report, signed>>

Start(r) ==
    /\ At(r, "off", "feed")
    /\ tx' = [tx EXCEPT ![r].observed_at = clock]
    /\ UNCHANGED <<chainVars, files, report, faults, signed>>

FindFeed(r) ==
    /\ At(r, "feed", IF feed.registered THEN "sequence" ELSE "register")
    /\ UNCHANGED <<chainVars, files, tx, report, faults, signed>>

\* read_feed is None for a failed call as for a missing account.
FindFeedFails(r) ==
    /\ At(r, "feed", "register")
    /\ Fault
    /\ UNCHANGED <<chainVars, files, tx, report, signed>>

\* register_device, sent and confirmed.
Register(r) ==
    /\ MayRegister
    /\ At(r, "register", "sequence")
    /\ feed' = Registered
    /\ UNCHANGED <<clock, nonce, pool, published, files, tx, report, faults, signed>>

RegisterRefused(r) ==
    /\ pc[r] = "register" /\ ~MayRegister
    /\ Ends(r)
    /\ UNCHANGED faults

\* DEFECT: the stored sequence is published again.
NextSequenceStored == feed.sequence

NextSequence == feed.sequence + 1

ReadSequence(r) ==
    /\ NextSequence <= U64Max
    /\ At(r, "sequence", "sign")
    /\ tx' = [tx EXCEPT ![r].sequence = NextSequence]
    /\ UNCHANGED <<chainVars, files, report, faults, signed>>

\* A debug build panics on the overflow.
SequenceOverflows(r) ==
    /\ pc[r] = "sequence" /\ NextSequence > U64Max
    /\ Ends(r)
    /\ UNCHANGED faults

\* The nonce is read after the sequence.
SignReading(r) ==
    /\ nonce[RunNonce] < MaxNonce
    /\ At(r, "sign", "send")
    /\ tx' = [tx EXCEPT ![r].nonce = nonce[RunNonce]]
    /\ signed' = signed \cup {tx'[r]}
    /\ UNCHANGED <<chainVars, files, report, faults>>

Send(r) ==
    /\ Preflight(tx[r])
    /\ At(r, "send", "confirm")
    /\ pool' = pool \cup {tx[r]}
    /\ UNCHANGED <<clock, feed, nonce, published, files, tx, report, faults, signed>>

SendRefused(r) ==
    /\ pc[r] = "send" /\ ~Preflight(tx[r])
    /\ Ends(r)
    /\ UNCHANGED faults

\* Executed, well or not, or given up.
Confirm(r) ==
    /\ pc[r] = "confirm" /\ tx[r] \notin pool
    /\ Ends(r)
    /\ UNCHANGED faults

\* A call fails, or its answer is lost: what was sent may still land.
Panic(r) ==
    /\ pc[r] # "off"
    /\ Fault
    /\ Ends(r)

-----------------------------------------------------------------------------
(***************************************************************************)
(* The agent's host: sign now, complete and broadcast whenever.            *)
(***************************************************************************)

\* The plugin's execute: any sequence and observation time, any allowed kind.
AgentSign ==
    /\ Cardinality(files) < MaxFiles
    /\ nonce[AgentNonce] < MaxNonce
    /\ \E s \in 1..U64Max, at \in FirstInstant..clock, k \in Kinds :
         LET t == [account |-> AgentNonce, nonce |-> nonce[AgentNonce],
                   sequence |-> s, observed_at |-> at, kind |-> k]
         IN  files' = files \cup {t} /\ signed' = signed \cup {t}
    /\ UNCHANGED <<chainVars, runVars, report, faults>>

\* broadcast_certified of a file; certification passes what the plugin built.
Broadcast ==
    /\ \E t \in files : Preflight(t) /\ pool' = pool \cup {t}
    /\ UNCHANGED <<clock, feed, nonce, published, files, runVars, report, faults, signed>>

-----------------------------------------------------------------------------
(***************************************************************************)
(* The readers.                                                            *)
(***************************************************************************)

\* DEFECT: a feed that was never published passes for an old one.
FreshUnpublished == clock - feed.published_at <= MaxAge

\* act_on_feed's two requirements.
Fresh ==
    /\ feed.published_at > 0
    /\ clock - feed.published_at <= MaxAge

Concludes(verdict, account) ==
    /\ report' = [verdict |-> verdict, account |-> account, at |-> clock,
                  published |-> published]
    /\ UNCHANGED <<chainVars, files, runVars, signed>>

act_on_feed ==
    /\ feed.registered
    /\ Fresh
    /\ Concludes("ACTED", feed)
    /\ UNCHANGED faults

Heartbeat ==
    /\ Concludes(IF feed.registered /\ clock - feed.published_at <= StaleAfter
                 THEN "FRESH" ELSE "STALLED", feed)
    /\ UNCHANGED faults

\* DEFECT: no answer reads as a stalled feed.
FailedReadIsStalled(failure) == "STALLED"

\* Exit 2 after three attempts without an answer; but an error answered over
\* HTTP 200 has no "result" and reads as an account that does not exist.
FailedRead(failure) == IF failure = "silence" THEN "UNKNOWN" ELSE "STALLED"

HeartbeatFails ==
    /\ Fault
    /\ \E failure \in ReadFailures : Concludes(FailedRead(failure), Unregistered)

-----------------------------------------------------------------------------
Init ==
    /\ clock = FirstInstant
    /\ feed = Unregistered
    /\ nonce = [a \in Accounts |-> 0]
    /\ pool = {} /\ files = {}
    /\ pc = [r \in Runs |-> "off"]
    /\ tx = [r \in Runs |-> NoTransaction]
    /\ report = [verdict |-> "none", account |-> Unregistered, at |-> 0,
                 published |-> {}]
    /\ faults = 0
    /\ signed = {} /\ published = {}

Run(r) ==
    \/ FindFeed(r) \/ Register(r) \/ RegisterRefused(r)
    \/ ReadSequence(r) \/ SequenceOverflows(r)
    \/ SignReading(r) \/ Send(r) \/ SendRefused(r) \/ Confirm(r)

Next ==
    \/ \E r \in Runs : Start(r) \/ Run(r) \/ FindFeedFails(r) \/ Panic(r)
    \/ \E t \in pool : Execute(t) \/ Drop(t)
    \/ AgentSign \/ Broadcast
    \/ act_on_feed \/ Heartbeat \/ HeartbeatFails
    \/ Tick

Spec == Init /\ [][Next]_vars

\* The schedule keeps starting runs, a run's calls return, and the cluster
\* processes what it holds.
FairSpec ==
    /\ Spec
    /\ \A r \in Runs : WF_vars(Start(r)) /\ WF_vars(Run(r))
    /\ WF_vars(\E t \in pool : Execute(t) \/ Drop(t))

-----------------------------------------------------------------------------
\* Every variable keeps its type.
TypeOK ==
    /\ clock \in FirstInstant..LastInstant
    /\ feed \in Feeds
    /\ nonce \in [Accounts -> 0..MaxNonce]
    /\ pool \subseteq Transactions /\ files \subseteq Transactions
    /\ pc \in [Runs -> {"off", "feed", "register", "sequence", "sign", "send", "confirm"}]
    /\ tx \in [Runs -> Transactions]
    /\ report \in [verdict : {"none", "ACTED", "FRESH", "STALLED", "UNKNOWN"},
                   account : Feeds, at : 0..LastInstant,
                   published : SUBSET (FirstInstant..LastInstant)]
    /\ faults \in 0..MaxFaults
    /\ signed \subseteq Transactions
    /\ published \subseteq FirstInstant..LastInstant

Shown == [sequence |-> feed.sequence, observed_at |-> feed.observed_at]
SignedReadings == {[sequence |-> t.sequence, observed_at |-> t.observed_at] : t \in signed}

Contract == INSTANCE FeedContract WITH
    Readings <- [sequence : 0..U64Max, observed_at : 0..LastInstant],
    Unread <- [sequence |-> 0, observed_at |-> 0],
    registered <- feed.registered,
    shown <- Shown,
    signed <- SignedReadings

\* Overlapping runs, a second nonce account, files held back and sent again and
\* a failed read that leads to a second registration: the feed is registered
\* once and shows only what the device signed, in rising sequence.
ImplementsFeedContract == Contract!Spec

\* The consumer acts only on a reading the device signed, no longer than
\* max_age_secs after the feed was written: never on a feed only registered.
ActsOnSignedReading ==
    report.verdict = "ACTED" =>
      /\ report.at - report.account.published_at <= MaxAge
      /\ \E t \in signed : /\ t.sequence = report.account.sequence
                           /\ t.observed_at = report.account.observed_at

\* The alarm tells a stalled feed from an unreachable node: STALLED only when
\* nothing was published in the window before it, FRESH only when something was.
AlarmIsTrue ==
    LET recently == \E p \in report.published : report.at - p <= StaleAfter
    IN  /\ report.verdict = "STALLED" => ~recently
        /\ report.verdict = "FRESH" => recently

\* With runs started over and over the feed climbs, whatever the agent lands
\* meanwhile, until no higher sequence exists (or the bound on nonces is met).
FeedKeepsClimbing ==
    \A n \in 0..U64Max - 1 :
      feed.sequence = n ~> (feed.sequence > n \/ nonce[RunNonce] = MaxNonce)
=============================================================================
