---------------------------- MODULE OracleProofs ----------------------------
(***************************************************************************)
(* Proofs about Oracle, for any number of overlapping publisher runs, any  *)
(* nonce accounts and any number of files the agent keeps back.            *)
(***************************************************************************)
EXTENDS Oracle, TLAPS

\* The next-state relation by who takes the step.
RunNext == \E r \in Runs : Start(r) \/ Run(r) \/ FindFeedFails(r) \/ Panic(r)
ReaderNext == act_on_feed \/ Heartbeat \/ HeartbeatFails

LEMMA NextCases ==
    Next <=> \/ RunNext
             \/ \E t \in pool : Execute(t) \/ Drop(t)
             \/ AgentSign \/ Broadcast
             \/ ReaderNext
             \/ Tick
BY DEF Next, RunNext, ReaderNext

\* The bounds and windows, as plain numbers.
LEMMA Numbers ==
    /\ U64Max \in Nat /\ LastInstant \in Nat /\ MaxNonce \in Nat /\ MaxFaults \in Nat
    /\ MaxAge \in Nat /\ StaleAfter \in Nat /\ FirstInstant \in Nat
    /\ U64Max > 0 /\ MaxNonce > 0
    /\ StaleAfter < FirstInstant /\ FirstInstant <= LastInstant
BY OracleAssumption

-----------------------------------------------------------------------------
(***************************************************************************)
(* Types.                                                                  *)
(***************************************************************************)

LEMMA FeedTypes == Unregistered \in Feeds /\ Registered \in Feeds
BY Numbers DEF Unregistered, Registered, Feeds

LEMMA TypeInit == Init => TypeOK
<1> SUFFICES ASSUME Init PROVE TypeOK
    OBVIOUS
<1>1. NoTransaction \in Transactions
    BY Numbers, OracleAssumption DEF NoTransaction, Transactions, Accounts
<1>2. report \in [verdict : {"none", "ACTED", "FRESH", "STALLED", "UNKNOWN"},
                  account : Feeds, at : 0..LastInstant,
                  published : SUBSET (FirstInstant..LastInstant)]
    BY Numbers, FeedTypes DEF Init
<1> QED
    BY <1>1, <1>2, Numbers, FeedTypes DEF Init, TypeOK

LEMMA TypeEnds ==
    ASSUME TypeOK, NEW r \in Runs, Ends(r), faults' \in 0..MaxFaults
    PROVE  TypeOK'
<1>1. NoTransaction \in Transactions
    BY Numbers, OracleAssumption DEF NoTransaction, Transactions, Accounts
<1> QED
    BY <1>1 DEF TypeOK, Ends, chainVars

\* A run writes nothing into its transaction but a field's own type.
LEMMA TypeFields ==
    ASSUME NEW t \in Transactions, NEW n \in 0..MaxNonce - 1,
           NEW s \in 0..U64Max, NEW at \in 0..LastInstant
    PROVE  /\ [t EXCEPT !.nonce = n] \in Transactions
           /\ [t EXCEPT !.sequence = s] \in Transactions
           /\ [t EXCEPT !.observed_at = at] \in Transactions
BY DEF Transactions

LEMMA TypeRun == TypeOK /\ RunNext => TypeOK'
<1> SUFFICES ASSUME TypeOK, NEW r \in Runs,
                    Start(r) \/ Run(r) \/ FindFeedFails(r) \/ Panic(r)
             PROVE  TypeOK'
    BY DEF RunNext
<1> USE Numbers
<1>0. tx[r] \in Transactions
    BY DEF TypeOK
<1>1. CASE Start(r)
  <2>1. [tx[r] EXCEPT !.observed_at = clock] \in Transactions
      BY <1>0, TypeFields DEF TypeOK, Transactions
  <2>2. tx' \in [Runs -> Transactions]
      BY <1>1, <2>1 DEF TypeOK, Start
  <2> QED
      BY <1>1, <2>2 DEF TypeOK, Start, At, chainVars
<1>2. CASE FindFeed(r) \/ FindFeedFails(r)
  <2>1. PICK to \in {"sequence", "register"} : At(r, "feed", to)
      BY <1>2 DEF FindFeed, FindFeedFails
  <2>2. UNCHANGED <<chainVars, files, tx, report, signed>> /\ faults' \in 0..MaxFaults
      BY <1>2 DEF FindFeed, FindFeedFails, Fault, TypeOK
  <2> QED
      BY <2>1, <2>2 DEF TypeOK, At, chainVars
<1>3. CASE Register(r)
    BY <1>3, FeedTypes DEF TypeOK, Register, At
<1>4. CASE ReadSequence(r)
  <2>1. NextSequence \in 0..U64Max
      BY <1>4 DEF ReadSequence, NextSequence, TypeOK, Feeds
  <2>2. [tx[r] EXCEPT !.sequence = NextSequence] \in Transactions
      BY <1>0, <2>1 DEF Transactions
  <2>3. tx' \in [Runs -> Transactions]
      BY <1>4, <2>2 DEF TypeOK, ReadSequence
  <2> QED
      BY <1>4, <2>3 DEF TypeOK, ReadSequence, At, chainVars
<1>5. CASE SignReading(r)
  <2>1. nonce[RunNonce] \in 0..MaxNonce - 1
      BY <1>5 DEF SignReading, TypeOK, Accounts
  <2>2. [tx[r] EXCEPT !.nonce = nonce[RunNonce]] \in Transactions
      BY <1>0, <2>1 DEF Transactions
  <2>3. tx' \in [Runs -> Transactions]
      BY <1>5, <2>2 DEF TypeOK, SignReading
  <2> QED
      BY <1>5, <2>3 DEF TypeOK, SignReading, At, chainVars
<1>6. CASE Send(r)
    BY <1>0, <1>6 DEF TypeOK, Send, At
<1>7. CASE RegisterRefused(r) \/ SequenceOverflows(r) \/ SendRefused(r) \/ Confirm(r)
  <2>1. Ends(r) /\ faults' \in 0..MaxFaults
      BY <1>7 DEF TypeOK, RegisterRefused, SequenceOverflows, SendRefused, Confirm
  <2> QED
      BY <2>1, TypeEnds
<1>8. CASE Panic(r)
  <2>1. Ends(r) /\ faults' \in 0..MaxFaults
      BY <1>8 DEF TypeOK, Panic, Fault
  <2> QED
      BY <2>1, TypeEnds
<1> QED
    BY <1>1, <1>2, <1>3, <1>4, <1>5, <1>6, <1>7, <1>8 DEF Run

LEMMA TypeExecute ==
    ASSUME TypeOK, NEW t \in pool, Execute(t)
    PROVE  TypeOK'
<1> USE Numbers
<1>1. t \in Transactions /\ t.account \in Accounts /\ t.nonce \in 0..MaxNonce - 1
    BY DEF TypeOK, Transactions
<1>2. nonce' \in [Accounts -> 0..MaxNonce]
    BY <1>1 DEF TypeOK, Execute, NonceValid
<1>3. feed' \in Feeds /\ published' \subseteq FirstInstant..LastInstant
  <2>1. CASE publish_reading(t)
    <3>1. /\ feed' = [registered |-> TRUE, sequence |-> t.sequence,
                      observed_at |-> t.observed_at, published_at |-> clock]
          /\ published' = published \cup {clock}
        BY <2>1 DEF Execute
    <3>2. t.sequence \in 0..U64Max /\ t.observed_at \in 0..LastInstant
        BY <1>1 DEF Transactions
    <3>3. clock \in FirstInstant..LastInstant /\ clock \in 0..LastInstant
        BY DEF TypeOK
    <3>4. feed' \in Feeds
        BY <3>1, <3>2, <3>3 DEF Feeds
    <3>5. published' \subseteq FirstInstant..LastInstant
        BY <3>1, <3>3 DEF TypeOK
    <3> QED
        BY <3>4, <3>5
  <2>2. CASE ~publish_reading(t)
      BY <2>2 DEF TypeOK, Execute
  <2> QED
      BY <2>1, <2>2
<1> QED
    BY <1>2, <1>3 DEF TypeOK, Execute, runVars

LEMMA TypeAgent == TypeOK /\ (AgentSign \/ Broadcast) => TypeOK'
<1> SUFFICES ASSUME TypeOK, AgentSign \/ Broadcast PROVE TypeOK'
    OBVIOUS
<1> USE Numbers
<1>1. CASE AgentSign
  <2>1. PICK s \in 1..U64Max, at \in FirstInstant..clock, k \in Kinds :
          LET t == [account |-> AgentNonce, nonce |-> nonce[AgentNonce],
                    sequence |-> s, observed_at |-> at, kind |-> k]
          IN  files' = files \cup {t} /\ signed' = signed \cup {t}
      BY <1>1 DEF AgentSign
  <2>2. nonce[AgentNonce] \in 0..MaxNonce - 1
      BY <1>1 DEF AgentSign, TypeOK, Accounts
  <2>3. [account |-> AgentNonce, nonce |-> nonce[AgentNonce],
         sequence |-> s, observed_at |-> at, kind |-> k] \in Transactions
      BY <2>2 DEF Transactions, Accounts, TypeOK
  <2> QED
      BY <1>1, <2>1, <2>3 DEF AgentSign, TypeOK, chainVars, runVars
<1>2. CASE Broadcast
    BY <1>2 DEF Broadcast, TypeOK, runVars
<1> QED
    BY <1>1, <1>2

LEMMA TypeReader == TypeOK /\ ReaderNext => TypeOK'
<1> SUFFICES ASSUME TypeOK, ReaderNext PROVE TypeOK'
    OBVIOUS
<1> USE Numbers, FeedTypes
<1>1. PICK v \in {"ACTED", "FRESH", "STALLED", "UNKNOWN"}, a \in Feeds :
        Concludes(v, a) /\ faults' \in 0..MaxFaults
    BY DEF ReaderNext, act_on_feed, Heartbeat, HeartbeatFails, FailedRead, Fault, TypeOK
<1>2. report' = [verdict |-> v, account |-> a, at |-> clock, published |-> published]
    BY <1>1 DEF Concludes
<1>3. report' \in [verdict : {"none", "ACTED", "FRESH", "STALLED", "UNKNOWN"},
                   account : Feeds, at : 0..LastInstant,
                   published : SUBSET (FirstInstant..LastInstant)]
    BY <1>2 DEF TypeOK
<1> QED
    BY <1>1, <1>3 DEF Concludes, TypeOK, chainVars, runVars

LEMMA TypeNext == TypeOK /\ [Next]_vars => TypeOK'
<1> SUFFICES ASSUME TypeOK, [Next]_vars PROVE TypeOK'
    OBVIOUS
<1>1. ASSUME NEW t \in pool, Drop(t) PROVE TypeOK'
    BY <1>1, Numbers DEF Drop, TypeOK, Fault, runVars
<1>2. CASE Tick
    BY <1>2, Numbers DEF Tick, TypeOK, runVars
<1>3. CASE UNCHANGED vars
    BY <1>3 DEF vars, chainVars, runVars, TypeOK
<1> QED
    BY <1>1, <1>2, <1>3, NextCases, TypeRun, TypeExecute, TypeAgent, TypeReader

\* Every variable keeps its type, however many runs overlap and whatever the
\* agent signs: no nonce account is spent past what was signed for it, and no
\* run signs past the largest sequence.
THEOREM TypeCorrect == Spec => []TypeOK
BY TypeInit, TypeNext, PTL DEF Spec

-----------------------------------------------------------------------------
(***************************************************************************)
(* What has been signed, and what the feed shows.                          *)
(***************************************************************************)

\* Only transactions the device signed are sent.
SignedFirst ==
    /\ pool \subseteq signed /\ files \subseteq signed
    /\ \A r \in Runs : pc[r] \in {"send", "confirm"} => tx[r] \in signed

\* A feed that was written shows a reading the device signed, and when it was
\* last written; one that was not is as registration left it.
ShowsLastWritten ==
    /\ feed.published_at > 0 =>
         /\ feed.registered
         /\ \E t \in signed : /\ t.sequence = feed.sequence
                              /\ t.observed_at = feed.observed_at
         /\ feed.published_at \in published
    /\ \A p \in published : p <= feed.published_at /\ feed.published_at <= clock
    /\ feed.published_at = 0 => feed \in {Unregistered, Registered}

FeedInv == SignedFirst /\ ShowsLastWritten

LEMMA FeedInit == Init => FeedInv
BY Numbers DEF Init, FeedInv, SignedFirst, ShowsLastWritten, Unregistered

LEMMA SignedFirstNext == TypeOK /\ SignedFirst /\ [Next]_vars => SignedFirst'
<1> SUFFICES ASSUME TypeOK, SignedFirst, [Next]_vars PROVE SignedFirst'
    OBVIOUS
<1> USE DEF SignedFirst
<1>1. ASSUME NEW r \in Runs, Ends(r) PROVE SignedFirst'
    BY <1>1 DEF Ends, chainVars, TypeOK
<1>2. ASSUME NEW r \in Runs, Start(r) \/ Run(r) \/ FindFeedFails(r) \/ Panic(r)
      PROVE  SignedFirst'
  <2>1. CASE Start(r)
      BY <1>2, <2>1 DEF Start, At, chainVars, TypeOK
  <2>2. CASE FindFeed(r) \/ FindFeedFails(r)
    <3>1. PICK to \in {"sequence", "register"} : At(r, "feed", to)
        BY <2>2 DEF FindFeed, FindFeedFails
    <3>2. UNCHANGED <<chainVars, files, tx, signed>>
        BY <2>2 DEF FindFeed, FindFeedFails
    <3> QED
        BY <3>1, <3>2 DEF At, chainVars, TypeOK
  <2>3. CASE Register(r)
      BY <1>2, <2>3 DEF Register, At, TypeOK
  <2>4. CASE ReadSequence(r)
      BY <1>2, <2>4 DEF ReadSequence, At, chainVars, TypeOK
  <2>5. CASE SignReading(r)
    <3>1. /\ signed' = signed \cup {tx'[r]} /\ UNCHANGED <<pool, files>>
          /\ pc' = [pc EXCEPT ![r] = "send"]
          /\ \A q \in Runs \ {r} : tx'[q] = tx[q]
        BY <2>5 DEF SignReading, At, chainVars, TypeOK
    <3> QED
        BY <3>1 DEF TypeOK
  <2>6. CASE Send(r)
      BY <1>2, <2>6 DEF Send, At, TypeOK
  <2>7. CASE RegisterRefused(r) \/ SequenceOverflows(r) \/ SendRefused(r)
             \/ Confirm(r) \/ Panic(r)
      BY <1>1, <2>7 DEF RegisterRefused, SequenceOverflows, SendRefused, Confirm, Panic
  <2> QED
      BY <1>2, <2>1, <2>2, <2>3, <2>4, <2>5, <2>6, <2>7 DEF Run
<1>3. ASSUME NEW t \in pool, Execute(t) \/ Drop(t) PROVE SignedFirst'
    BY <1>3 DEF Execute, Drop, runVars
<1>4. CASE AgentSign
  <2>1. /\ \E t : files' = files \cup {t} /\ signed' = signed \cup {t}
        /\ UNCHANGED <<pool, pc, tx>>
      BY <1>4 DEF AgentSign, chainVars, runVars
  <2> QED
      BY <2>1
<1>5. CASE Broadcast
    BY <1>5 DEF Broadcast, runVars
<1>6. CASE ReaderNext
    BY <1>6 DEF ReaderNext, act_on_feed, Heartbeat, HeartbeatFails, Concludes,
                chainVars, runVars
<1>7. CASE Tick \/ UNCHANGED vars
    BY <1>7 DEF Tick, vars, chainVars, runVars
<1> QED
    BY <1>2, <1>3, <1>4, <1>5, <1>6, <1>7, NextCases DEF RunNext

\* The feed changes by a registration or by a signed transaction, and no step
\* forgets a signature or turns the clock back.
LEMMA FeedChanges ==
    ASSUME TypeOK, SignedFirst, [Next]_vars
    PROVE  /\ signed \subseteq signed' /\ clock <= clock'
           /\ \/ UNCHANGED <<feed, published>>
              \/ /\ ~feed.registered /\ feed' = Registered
                 /\ UNCHANGED <<published, clock, signed>>
              \/ \E t \in signed :
                   /\ publish_reading(t)
                   /\ feed' = [registered |-> TRUE, sequence |-> t.sequence,
                               observed_at |-> t.observed_at, published_at |-> clock]
                   /\ published' = published \cup {clock}
                   /\ UNCHANGED <<clock, signed>>
<1> USE Numbers
<1>0. clock \in Nat
    BY DEF TypeOK
<1>1. ASSUME NEW r \in Runs, Start(r) \/ Run(r) \/ FindFeedFails(r) \/ Panic(r), ~Register(r)
      PROVE  /\ UNCHANGED <<feed, published, clock>> /\ signed \subseteq signed'
    BY <1>1 DEF Start, FindFeed, RegisterRefused, ReadSequence, SequenceOverflows,
         SignReading, Send, SendRefused, Confirm, FindFeedFails, Panic, Run, Ends, chainVars
<1>2. ASSUME NEW r \in Runs, Register(r)
      PROVE  /\ ~feed.registered /\ feed' = Registered
             /\ UNCHANGED <<published, clock, signed>>
    BY <1>2 DEF Register, MayRegister
<1>3. ASSUME NEW t \in pool, Execute(t)
      PROVE  /\ UNCHANGED <<clock, signed>> /\ t \in signed
             /\ \/ UNCHANGED <<feed, published>>
                \/ /\ publish_reading(t)
                   /\ feed' = [registered |-> TRUE, sequence |-> t.sequence,
                               observed_at |-> t.observed_at, published_at |-> clock]
                   /\ published' = published \cup {clock}
    BY <1>3 DEF Execute, SignedFirst
<1>4. CASE (\E t \in pool : Drop(t)) \/ AgentSign \/ Broadcast \/ ReaderNext \/ UNCHANGED vars
  <2>1. UNCHANGED <<feed, published, clock>> /\ signed \subseteq signed'
      BY <1>4 DEF Drop, AgentSign, Broadcast, ReaderNext, act_on_feed, Heartbeat,
           HeartbeatFails, Concludes, vars, chainVars
  <2> QED
      BY <1>0, <2>1
<1>5. CASE Tick
    BY <1>0, <1>5 DEF Tick
<1> QED
    BY <1>0, <1>1, <1>2, <1>3, <1>4, <1>5, NextCases DEF RunNext

LEMMA ShowsNext == TypeOK /\ FeedInv /\ [Next]_vars => ShowsLastWritten'
<1> SUFFICES ASSUME TypeOK, FeedInv, [Next]_vars PROVE ShowsLastWritten'
    OBVIOUS
<1> USE Numbers DEF FeedInv, ShowsLastWritten
<1>0. /\ clock \in Nat /\ clock > 0 /\ clock' \in Nat /\ feed.published_at \in Nat
      /\ published \subseteq Nat
    BY TypeNext DEF TypeOK, Feeds
<1>1. signed \subseteq signed' /\ clock <= clock'
    BY FeedChanges
<1>2. CASE UNCHANGED <<feed, published>>
    BY <1>0, <1>1, <1>2
<1>3. CASE ~feed.registered /\ feed' = Registered /\ UNCHANGED <<published, clock, signed>>
    BY <1>0, <1>3 DEF Registered
<1>4. ASSUME NEW t \in signed,
             feed' = [registered |-> TRUE, sequence |-> t.sequence,
                      observed_at |-> t.observed_at, published_at |-> clock],
             published' = published \cup {clock},
             UNCHANGED <<clock, signed>>
      PROVE  ShowsLastWritten'
    BY <1>0, <1>4
<1> QED
    BY <1>2, <1>3, <1>4, FeedChanges

LEMMA SpecFeedInv == Spec => []FeedInv
<1>1. TypeOK /\ FeedInv /\ [Next]_vars => FeedInv'
    BY SignedFirstNext, ShowsNext DEF FeedInv
<1> QED
    BY <1>1, FeedInit, TypeCorrect, PTL DEF Spec

-----------------------------------------------------------------------------
(***************************************************************************)
(* The oracle implements the abstract feed.                                *)
(***************************************************************************)

ReadingOf(t) == [sequence |-> t.sequence, observed_at |-> t.observed_at]

\* A step signs at most one transaction.
LEMMA SignsOne ==
    ASSUME TypeOK, [Next]_vars
    PROVE  \/ UNCHANGED signed
           \/ /\ \E t \in Transactions : signed' = signed \cup {t}
              /\ UNCHANGED feed
<1>1. ASSUME NEW r \in Runs, Start(r) \/ Run(r) \/ FindFeedFails(r) \/ Panic(r), ~SignReading(r)
      PROVE  UNCHANGED signed
    BY <1>1 DEF Start, FindFeed, Register, RegisterRefused, ReadSequence, SequenceOverflows,
         Send, SendRefused, Confirm, FindFeedFails, Panic, Run, Ends
<1>2. ASSUME NEW r \in Runs, SignReading(r)
      PROVE  /\ \E t \in Transactions : signed' = signed \cup {t}
             /\ UNCHANGED feed
  <2>1. tx'[r] \in Transactions
      BY <1>2, TypeNext DEF TypeOK
  <2> QED
      BY <1>2, <2>1 DEF SignReading, chainVars
<1>3. ASSUME AgentSign
      PROVE  /\ \E t \in Transactions : signed' = signed \cup {t}
             /\ UNCHANGED feed
  <2>1. PICK t : files' = files \cup {t} /\ signed' = signed \cup {t}
      BY <1>3 DEF AgentSign
  <2>2. signed' \subseteq Transactions
      BY TypeNext DEF TypeOK
  <2> QED
      BY <1>3, <2>1, <2>2 DEF AgentSign, chainVars
<1>4. CASE (\E t \in pool : Execute(t) \/ Drop(t)) \/ Broadcast \/ ReaderNext \/ Tick
             \/ UNCHANGED vars
    BY <1>4 DEF Execute, Drop, Broadcast, ReaderNext, act_on_feed, Heartbeat,
         HeartbeatFails, Concludes, Tick, vars
<1> QED
    BY <1>1, <1>2, <1>3, <1>4, NextCases DEF RunNext

LEMMA ContractInit == Init => Contract!Init
BY DEF Init, Contract!Init, Shown, SignedReadings, Unregistered

LEMMA ContractStep ==
    TypeOK /\ FeedInv /\ [Next]_vars => [Contract!Next]_Contract!vars
<1> SUFFICES ASSUME TypeOK, FeedInv, [Next]_vars
             PROVE  [Contract!Next]_Contract!vars
    OBVIOUS
<1> USE DEF Contract!vars
<1>1. CASE UNCHANGED <<feed, signed>>
    BY <1>1 DEF Shown, SignedReadings
<1>2. ASSUME NEW t \in Transactions, signed' = signed \cup {t}, UNCHANGED feed
      PROVE  Contract!Next \/ UNCHANGED Contract!vars
  <2>1. SignedReadings' = SignedReadings \cup {ReadingOf(t)}
      BY <1>2 DEF SignedReadings, ReadingOf
  <2>2. ReadingOf(t) \in [sequence : 0..U64Max, observed_at : 0..LastInstant]
      BY DEF ReadingOf, Transactions
  <2>3. UNCHANGED Shown /\ feed'.registered = feed.registered
      BY <1>2 DEF Shown
  <2>4. CASE ReadingOf(t) \in SignedReadings
      BY <2>1, <2>3, <2>4
  <2>5. CASE ReadingOf(t) \notin SignedReadings
      BY <2>1, <2>2, <2>3, <2>5 DEF Contract!Next, Contract!Sign
  <2> QED
      BY <2>4, <2>5
<1>3. ASSUME ~feed.registered, feed' = Registered, UNCHANGED signed
      PROVE  Contract!Next
  <2>1. feed = Unregistered
    <3>1. feed.published_at \in Nat
        BY DEF TypeOK, Feeds
    <3>2. feed \in {Unregistered, Registered}
        BY <1>3, <3>1 DEF FeedInv, ShowsLastWritten
    <3> QED
        BY <1>3, <3>2 DEF Registered
  <2> QED
      BY <1>3, <2>1 DEF Contract!Next, Contract!Register, Shown, SignedReadings,
           Registered, Unregistered
<1>4. ASSUME NEW t \in signed, publish_reading(t), UNCHANGED signed,
             feed' = [registered |-> TRUE, sequence |-> t.sequence,
                      observed_at |-> t.observed_at, published_at |-> clock]
      PROVE  Contract!Next
  <2>1. ReadingOf(t) \in SignedReadings /\ Shown' = ReadingOf(t)
      BY <1>4 DEF SignedReadings, ReadingOf, Shown
  <2>2. feed.registered /\ feed'.registered = feed.registered
      BY <1>4 DEF publish_reading, TypeOK, Feeds
  <2>3. ReadingOf(t).sequence > Shown.sequence
      BY <1>4 DEF publish_reading, ReadingOf, Shown
  <2>4. UNCHANGED SignedReadings
      BY <1>4 DEF SignedReadings
  <2> QED
      BY <2>1, <2>2, <2>3, <2>4 DEF Contract!Next, Contract!Publish
<1> QED
    BY <1>1, <1>2, <1>3, <1>4, FeedChanges, SignsOne DEF FeedInv

\* Whatever runs overlap, whatever is signed under whichever nonce account and
\* sent late or again, the feed is registered once and shows only readings its
\* device signed, in rising sequence.
THEOREM OracleImplementsFeed == Spec => ImplementsFeedContract
BY ContractInit, ContractStep, SpecFeedInv, TypeCorrect, PTL
DEF Spec, ImplementsFeedContract, Contract!Spec

-----------------------------------------------------------------------------
(***************************************************************************)
(* The readers.                                                            *)
(***************************************************************************)

\* A reader's conclusion was about the feed as it then was.
LEMMA ActsNext ==
    TypeOK /\ FeedInv /\ ActsOnSignedReading /\ [Next]_vars => ActsOnSignedReading'
<1> SUFFICES ASSUME TypeOK, FeedInv, ActsOnSignedReading, [Next]_vars
             PROVE  ActsOnSignedReading'
    OBVIOUS
<1> USE DEF ActsOnSignedReading
<1>1. signed \subseteq signed'
    BY FeedChanges DEF FeedInv
<1>2. CASE UNCHANGED report
    BY <1>1, <1>2
<1>3. CASE act_on_feed
  <2>1. report'.at = clock /\ report'.account = feed /\ feed.published_at > 0
        /\ clock - feed.published_at <= MaxAge /\ UNCHANGED signed
      BY <1>3 DEF act_on_feed, Concludes, Fresh
  <2> QED
      BY <2>1 DEF FeedInv, ShowsLastWritten
<1>4. CASE Heartbeat \/ HeartbeatFails
  <2>1. report'.verdict \in {"FRESH", "STALLED", "UNKNOWN"}
      BY <1>4 DEF Heartbeat, HeartbeatFails, Concludes, FailedRead
  <2> QED
      BY <2>1
<1>5. CASE ~ReaderNext
  <2>1. UNCHANGED report
      BY <1>5, NextCases DEF RunNext, Start, FindFeed, Register, RegisterRefused,
           ReadSequence, SequenceOverflows, SignReading, Send, SendRefused, Confirm,
           FindFeedFails, Panic, Run, Ends, Execute, Drop, AgentSign, Broadcast, Tick, vars
  <2> QED
      BY <1>2, <2>1
<1> QED
    BY <1>3, <1>4, <1>5 DEF ReaderNext

\* The consumer acts on a signed reading within its window, never on a feed that
\* was only registered.
THEOREM ConsumerActsOnSigned == Spec => []ActsOnSignedReading
<1>1. Init => ActsOnSignedReading
    BY DEF Init, ActsOnSignedReading
<1> QED
    BY <1>1, ActsNext, SpecFeedInv, TypeCorrect, PTL DEF Spec

\* The last write is the newest, so its age is the age of the newest one.
LEMMA AlarmNext ==
    ASSUME "error" \notin ReadFailures
    PROVE  TypeOK /\ FeedInv /\ AlarmIsTrue /\ [Next]_vars => AlarmIsTrue'
<1> SUFFICES ASSUME TypeOK, FeedInv, AlarmIsTrue, [Next]_vars PROVE AlarmIsTrue'
    OBVIOUS
<1> USE Numbers DEF AlarmIsTrue
<1>1. CASE UNCHANGED report
    BY <1>1
<1>2. CASE act_on_feed \/ HeartbeatFails
  <2>1. report'.verdict \in {"ACTED", "UNKNOWN"}
      BY <1>2, OracleAssumption DEF act_on_feed, HeartbeatFails, Concludes, FailedRead
  <2> QED
      BY <2>1
<1>3. CASE Heartbeat
  <2>1. /\ report'.at = clock /\ report'.published = published
        /\ report'.verdict = IF feed.registered /\ clock - feed.published_at <= StaleAfter
                             THEN "FRESH" ELSE "STALLED"
      BY <1>3 DEF Heartbeat, Concludes
  <2>2. /\ clock \in Nat /\ clock > StaleAfter /\ feed.published_at \in Nat
        /\ published \subseteq Nat
      BY DEF TypeOK, Feeds
  <2>3. ASSUME feed.registered, clock - feed.published_at <= StaleAfter
        PROVE  feed.published_at \in published
      BY <2>2, <2>3 DEF FeedInv, ShowsLastWritten
  <2>4. ASSUME NEW p \in published, clock - p <= StaleAfter
        PROVE  feed.registered /\ clock - feed.published_at <= StaleAfter
      BY <2>2, <2>4 DEF FeedInv, ShowsLastWritten
  <2> QED
      BY <2>1, <2>2, <2>3, <2>4
<1>4. CASE ~ReaderNext
  <2>1. UNCHANGED report
      BY <1>4, NextCases DEF RunNext, Start, FindFeed, Register, RegisterRefused,
           ReadSequence, SequenceOverflows, SignReading, Send, SendRefused, Confirm,
           FindFeedFails, Panic, Run, Ends, Execute, Drop, AgentSign, Broadcast, Tick, vars
  <2> QED
      BY <1>1, <2>1
<1> QED
    BY <1>2, <1>3, <1>4 DEF ReaderNext

\* When a node that fails stays silent, the heartbeat never cries wolf and never
\* sleeps through a stall.
THEOREM AlarmTellsTheTruth ==
    ASSUME "error" \notin ReadFailures PROVE Spec => []AlarmIsTrue
<1>1. Init => AlarmIsTrue
    BY DEF Init, AlarmIsTrue
<1> QED
    BY <1>1, AlarmNext, SpecFeedInv, TypeCorrect, PTL DEF Spec

=============================================================================
