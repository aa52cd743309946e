--------------------------- MODULE AnnouncerProofs ---------------------------
(***************************************************************************)
(* Theorems about Announcer, for any account history, window, number of    *)
(* faults and interleaving of settlements with ticks: what is recorded was *)
(* delivered, nothing recorded is delivered again, and the negative cache  *)
(* never holds a settlement.                                               *)
(***************************************************************************)
EXTENDS Announcer, TLAPS

\* What the two lists of a tick have to do with the ledger: what it found and
\* what it sends is not recorded, and a commit finds only what was announced.
Owed ==
    /\ Elements(found) \cap load_ledger = {}
    /\ pc = "send" => Elements(todo) \cap load_ledger = {}
    /\ mode = "commit" => Elements(found) \subseteq announced
    /\ \A s \in announced : sent[s] > 0

DeliveryInv == RecordedWasSent /\ Owed

NegativesInv == (cache \cup negatives) \cap Settlements = {}

-----------------------------------------------------------------------------
(***************************************************************************)
(* Work lists.                                                             *)
(***************************************************************************)

LEMMA ElementsOfList == ASSUME NEW S, NEW l \in Seq(S)
                        PROVE  Elements(l) \subseteq S
BY DEF Elements

LEMMA ElementsOfNone == Elements(<<>>) = {}
BY DEF Elements

LEMMA HeadAndTail ==
    ASSUME NEW S, NEW l \in Seq(S), l # <<>>
    PROVE  /\ Head(l) \in S /\ Head(l) \in Elements(l)
           /\ Tail(l) \in Seq(S) /\ Elements(Tail(l)) \subseteq Elements(l)
<1>1. /\ Len(l) \in Nat \ {0} /\ Head(l) = l[1] /\ 1 \in DOMAIN l
      /\ Tail(l) \in Seq(S) /\ Len(Tail(l)) = Len(l) - 1
      /\ \A i \in 1..(Len(l) - 1) : Tail(l)[i] = l[i + 1]
    OBVIOUS
<1>2. \A i \in DOMAIN Tail(l) : i + 1 \in DOMAIN l /\ Tail(l)[i] = l[i + 1]
    BY <1>1
<1> QED
    BY <1>1, <1>2 DEF Elements

LEMMA ElementsOfPrepend ==
    ASSUME NEW S, NEW l \in Seq(S), NEW x \in S
    PROVE  /\ <<x>> \o l \in Seq(S)
           /\ Elements(<<x>> \o l) \subseteq {x} \cup Elements(l)
<1> DEFINE m == <<x>> \o l
<1>1. /\ m \in Seq(S) /\ Len(m) = Len(l) + 1 /\ m[1] = x
      /\ \A i \in 2..Len(m) : m[i] = l[i - 1]
    OBVIOUS
<1>2. \A i \in DOMAIN m : i = 1 \/ (i \in 2..Len(m) /\ i - 1 \in DOMAIN l)
    BY <1>1
<1> QED
    BY <1>1, <1>2 DEF Elements

LEMMA ElementsOfPrefix ==
    ASSUME NEW S, NEW l \in Seq(S), NEW k \in 0..Len(l)
    PROVE  /\ SubSeq(l, 1, k) \in Seq(S)
           /\ Elements(SubSeq(l, 1, k)) \subseteq Elements(l)
<1>1. /\ Len(SubSeq(l, 1, k)) = k
      /\ \A i \in 1..k : SubSeq(l, 1, k)[i] = l[i] /\ i \in DOMAIN l
      /\ SubSeq(l, 1, k) \in Seq(S)
    OBVIOUS
<1> QED
    BY <1>1 DEF Elements

LEMMA WindowType ==
    ASSUME TypeOK, NEW n \in 0..Len(history)
    PROVE  recent_signatures(n) \in Seq(Signatures)
<1> DEFINE len == IF n < Limit THEN n ELSE Limit
<1>1. len \in Nat /\ len <= n
    BY AnnouncerBounds
<1>2. \A i \in 1..len : n + 1 - i \in 1..Len(history)
    BY <1>1
<1>3. \A i \in 1..len : history[n + 1 - i] \in Signatures
    BY <1>2 DEF TypeOK
<1> QED
    BY <1>1, <1>3 DEF recent_signatures

\* A ledger that says no more than what was known and these.
LedgerOf(l, S) ==
    l \in LedgerType /\ ledger.known \subseteq l.known /\ l.known \cup l.tail \subseteq load_ledger \cup S

LEMMA AppendedType ==
    ASSUME TypeOK, NEW rs \in Seq(Signatures)
    PROVE  LedgerOf(Appended(rs), Elements(rs))
<1>1. CASE rs = <<>>
    BY <1>1 DEF Appended, TypeOK, LedgerOf, load_ledger, LedgerType
<1>2. CASE rs # <<>>
    <2>1. /\ Elements(rs) \subseteq Signatures
          /\ Elements(Tail(rs)) \subseteq Elements(rs)
        BY <1>2, ElementsOfList, HeadAndTail
    <2> QED
        BY <1>2, <2>1 DEF Appended, TypeOK, LedgerOf, load_ledger, LedgerType
<1> QED
    BY <1>1, <1>2

LEMMA WithPieceType ==
    ASSUME NEW S, NEW l, LedgerOf(l, S),
           NEW piece, piece \subseteq S, piece \subseteq Signatures
    PROVE  LedgerOf(WithPiece(l, piece), S)
<1>1. /\ l.known \in SUBSET Signatures /\ l.open \in BOOLEAN
      /\ ledger.known \subseteq l.known /\ l.known \subseteq load_ledger \cup S
    BY DEF LedgerOf, LedgerType
<1>2. CASE l.open
    <2>1. WithPiece(l, piece) = [known |-> l.known, open |-> TRUE, tail |-> {}]
        BY <1>2 DEF WithPiece
    <2> QED
        BY <1>1, <2>1 DEF LedgerOf, LedgerType
<1>3. CASE ~l.open
    <2>1. WithPiece(l, piece) = [known |-> l.known, open |-> TRUE, tail |-> piece]
        BY <1>3 DEF WithPiece
    <2> QED
        BY <1>1, <2>1 DEF LedgerOf, LedgerType
<1> QED
    BY <1>2, <1>3

\* What a kill in the middle of an append leaves.
LEMMA AppendCutType ==
    ASSUME TypeOK, NEW rs \in Seq(Signatures), AppendCut(rs)
    PROVE  LedgerOf(ledger', Elements(rs))
<1>1. PICK k \in 0..Len(rs) :
        \/ ledger' = Appended(SubSeq(rs, 1, k))
        \/ /\ k < Len(rs)
           /\ \E piece \in {{}, {rs[k + 1]}} :
                 ledger' = WithPiece(Appended(SubSeq(rs, 1, k)), piece)
    BY DEF AppendCut
<1>2. /\ SubSeq(rs, 1, k) \in Seq(Signatures)
      /\ Elements(SubSeq(rs, 1, k)) \subseteq Elements(rs)
    BY ElementsOfPrefix
<1>3. LedgerOf(Appended(SubSeq(rs, 1, k)), Elements(rs))
    BY <1>2, AppendedType DEF LedgerOf
<1>4. ASSUME k < Len(rs), NEW piece \in {{}, {rs[k + 1]}}
      PROVE  LedgerOf(WithPiece(Appended(SubSeq(rs, 1, k)), piece), Elements(rs))
    <2>1. k + 1 \in DOMAIN rs /\ rs[k + 1] \in Elements(rs) /\ rs[k + 1] \in Signatures
        BY <1>4 DEF Elements
    <2>2. piece \subseteq Elements(rs) /\ piece \subseteq Signatures
        BY <1>4, <2>1
    <2> QED
        BY <1>3, <2>2, WithPieceType
<1> QED
    BY <1>1, <1>3, <1>4

-----------------------------------------------------------------------------
(***************************************************************************)
(* Types.                                                                  *)
(***************************************************************************)

LEMMA TypeInit == Init => TypeOK
<1> SUFFICES ASSUME Init PROVE TypeOK
    OBVIOUS
<1>1. /\ history \in Seq(Signatures) /\ todo \in Seq(Signatures) /\ found \in Seq(Signatures)
      /\ faults \in 0..MaxFaults
      /\ sent \in [Signatures -> Nat]
    BY AnnouncerBounds DEF Init
<1>2. ledger \in LedgerType /\ failed \in BOOLEAN
    BY DEF Init, LedgerType
<1> QED
    BY <1>1, <1>2 DEF Init, TypeOK

LEMMA ExitType ==
    ASSUME TypeOK, Exit
    PROVE  /\ pc' = "idle" /\ mode' = mode /\ announced' = {} /\ failed' = FALSE
           /\ todo' = <<>> /\ found' = <<>> /\ negatives' = {}
           /\ todo' \in Seq(Signatures) /\ found' \in Seq(Signatures)
BY DEF Exit

LEMMA DeliveredType ==
    ASSUME TypeOK, NEW s \in Signatures, Delivered(s)
    PROVE  /\ sent' \in [Signatures -> Nat]
           /\ sent'[s] > 0
           /\ \A r \in Signatures : sent[r] > 0 => sent'[r] > 0
           /\ \A r \in Signatures : r # s => sent'[r] = sent[r]
BY DEF TypeOK, Delivered

LEMMA TypeNext == TypeOK /\ [Next]_vars => TypeOK'
<1> SUFFICES ASSUME TypeOK, [Next]_vars PROVE TypeOK'
    OBVIOUS
<1> USE DEF keptVars, tickVars, deliveryVars, passVars
<1>1. ASSUME NEW s \in Signatures, Land(s) PROVE TypeOK'
    BY <1>1 DEF TypeOK, Land
<1>2. CASE Tick \/ Seed
    <2>1. /\ todo' = <<>> /\ found' = <<>> /\ negatives' = {} /\ pc' = "window"
          /\ mode' \in {"scan", "seed"}
          /\ UNCHANGED <<history, ledger, cache, announced, failed, faults, sent, seeded>>
        BY <1>2 DEF Tick, Seed, StartPass
    <2>2. todo' \in Seq(Signatures) /\ found' \in Seq(Signatures)
        BY <2>1
    <2> QED
        BY <2>1, <2>2 DEF TypeOK
<1>3. CASE ReadFresh \/ ReadStale
    <2>1. PICK n \in 0..Len(history) : ReadWindow(n)
        BY <1>3 DEF ReadFresh, ReadStale, TypeOK
    <2>2. todo' \in Seq(Signatures)
        BY <2>1, WindowType DEF ReadWindow
    <2>3. faults' \in 0..MaxFaults
        BY <1>3, AnnouncerBounds DEF ReadFresh, ReadStale, Fault, TypeOK
    <2> QED
        BY <2>1, <2>2, <2>3 DEF ReadWindow, TypeOK
<1>4. CASE Unreachable
    <2>1. Exit /\ UNCHANGED <<history, keptVars, deliveryVars>>
        BY <1>4 DEF Unreachable
    <2>2. faults' \in 0..MaxFaults
        BY <1>4, AnnouncerBounds DEF Unreachable, Fault, TypeOK
    <2> QED
        BY <2>1, <2>2, ExitType DEF TypeOK
<1>5. CASE Skip \/ CacheHit \/ settlement_from_tx \/ Unverifiable \/ FetchBare
    <2>1. Examining
        BY <1>5 DEF Skip, CacheHit, settlement_from_tx, Unverifiable, FetchBare, Fetching
    <2>2. Head(todo) \in Signatures /\ todo' \in Seq(Signatures)
        BY <2>1, HeadAndTail DEF Examining, TypeOK
    <2>3. <<Head(todo)>> \o found \in Seq(Signatures)
        BY <2>2, ElementsOfPrepend DEF TypeOK
    <2>4. faults' \in 0..MaxFaults
        BY <1>5, AnnouncerBounds DEF Skip, CacheHit, settlement_from_tx, Unverifiable,
              FetchBare, Fault, TypeOK
    <2>5. found' \in Seq(Signatures) /\ negatives' \subseteq Signatures
        BY <1>5, <2>2, <2>3 DEF Skip, CacheHit, settlement_from_tx, Unverifiable,
              FetchBare, TypeOK
    <2> QED
        BY <2>1, <2>2, <2>4, <2>5 DEF Examining, TypeOK
<1>6. CASE EndScan
    <2>1. cache' \subseteq Signatures /\ UNCHANGED <<history, ledger, faults, deliveryVars>>
        BY <1>6 DEF EndScan, TypeOK
    <2>2. CASE Exit
        BY <2>1, <2>2, ExitType DEF TypeOK
    <2>3. CASE /\ pc' = "send" /\ todo' = found /\ found' = <<>> /\ negatives' = {}
               /\ UNCHANGED <<mode, tickVars>>
        <3>1. found' \in Seq(Signatures)
            BY <2>3
        <3> QED
            BY <2>1, <2>3, <3>1 DEF TypeOK
    <2> QED
        BY <1>6, <2>2, <2>3 DEF EndScan
<1>7. CASE EndCommit
    BY <1>7, ExitType, AppendedType DEF EndCommit, TypeOK, LedgerOf
<1>8. CASE EndSeed
    <2>1. Elements(found) \subseteq Signatures
        BY ElementsOfList DEF TypeOK
    <2> QED
        BY <1>8, <2>1, ExitType, AppendedType DEF EndSeed, TypeOK, LedgerOf
<1>9. CASE send_one \/ SendFails
    <2>1. Sending
        BY <1>9 DEF send_one, SendFails
    <2>2. Head(todo) \in Signatures /\ todo' \in Seq(Signatures)
        BY <2>1, HeadAndTail DEF Sending, TypeOK
    <2>3. sent' \in [Signatures -> Nat]
        BY <1>9, <2>2, DeliveredType DEF send_one, SendFails, TypeOK
    <2>4. announced' \subseteq Signatures /\ faults' \in 0..MaxFaults
        BY <1>9, <2>2, AnnouncerBounds DEF send_one, SendFails, Fault, TypeOK
    <2>5. failed' \in BOOLEAN
        BY <1>9 DEF send_one, SendFails, TypeOK
    <2>6. /\ UNCHANGED <<history, ledger, cache, mode, found, negatives, seeded>>
          /\ pc' = pc
        BY <2>1 DEF Sending
    <2> QED
        BY <2>2, <2>3, <2>4, <2>5, <2>6 DEF TypeOK
<1>10. CASE EndSends
    BY <1>10, ExitType DEF EndSends, StartPass, TypeOK
<1>11. CASE Kill
    <2>1. /\ ledger' \in LedgerType
          /\ cache' \subseteq Signatures
          /\ seeded' \subseteq Signatures
        BY <1>11, AppendCutType, ElementsOfList DEF Kill, SaveCut, TypeOK, LedgerOf
    <2>2. sent' \in [Signatures -> Nat]
        BY <1>11, HeadAndTail, DeliveredType DEF Kill, TypeOK
    <2>3. Exit /\ history' = history /\ faults' \in 0..MaxFaults
        BY <1>11, AnnouncerBounds DEF Kill, Fault, TypeOK
    <2> QED
        BY <2>1, <2>2, <2>3, ExitType DEF TypeOK
<1>12. CASE UNCHANGED vars
    BY <1>12 DEF vars, TypeOK
<1> QED
    BY <1>1, <1>2, <1>3, <1>4, <1>5, <1>6, <1>7, <1>8, <1>9, <1>10, <1>11, <1>12
    DEF Next, Run

\* The announcer's variables keep their types under every fault of the model.
THEOREM TypeCorrect == Spec => []TypeOK
BY TypeInit, TypeNext, PTL DEF Spec

-----------------------------------------------------------------------------
(***************************************************************************)
(* Deliveries.  RecordedWasSent is not inductive: a commit appends what it *)
(* found, so the lists of the tick must be tied to what was announced, and *)
(* the announced to what was delivered.                                    *)
(***************************************************************************)

LEMMA DeliveryInit == Init => DeliveryInv
BY ElementsOfNone DEF Init, DeliveryInv, RecordedWasSent, Owed, load_ledger

\* A process that exits with the ledger as it was, or with receipts added that
\* were announced or adopted, keeps the invariant.
LEMMA DeliveryExit ==
    ASSUME TypeOK, DeliveryInv, Exit, UNCHANGED sent,
           load_ledger' \subseteq load_ledger \cup Elements(found),
           seeded \subseteq seeded',
           mode = "commit" \/ Elements(found) \subseteq seeded'
             \/ load_ledger' = load_ledger
    PROVE  DeliveryInv'
<1>1. /\ todo' = <<>> /\ found' = <<>> /\ announced' = {} /\ pc' = "idle"
    BY DEF Exit
<1>2. Owed'
    BY <1>1, ElementsOfNone DEF Owed
<1>3. \A s \in Elements(found) : mode = "commit" => sent[s] > 0
    BY DEF DeliveryInv, Owed
<1>4. RecordedWasSent'
    BY <1>3 DEF DeliveryInv, RecordedWasSent
<1> QED
    BY <1>2, <1>4 DEF DeliveryInv

LEMMA DeliveryNext == TypeOK /\ DeliveryInv /\ [Next]_vars => DeliveryInv'
<1> SUFFICES ASSUME TypeOK, DeliveryInv, [Next]_vars PROVE DeliveryInv'
    OBVIOUS
<1> USE DEF keptVars, tickVars, deliveryVars, passVars
<1>0. found \in Seq(Signatures) /\ todo \in Seq(Signatures)
    BY DEF TypeOK
<1>1. ASSUME NEW s \in Signatures, Land(s) PROVE DeliveryInv'
    BY <1>1 DEF Land, DeliveryInv, RecordedWasSent, Owed, load_ledger, Elements
<1>2. CASE Tick \/ Seed
    BY <1>2, ElementsOfNone
    DEF Tick, Seed, StartPass, DeliveryInv, RecordedWasSent, Owed, load_ledger
<1>3. CASE ReadFresh \/ ReadStale
    BY <1>3
    DEF ReadFresh, ReadStale, ReadWindow, DeliveryInv, RecordedWasSent, Owed, load_ledger, Elements
<1>4. CASE Unreachable
    BY <1>4, DeliveryExit DEF Unreachable, load_ledger
<1>5. CASE Skip \/ CacheHit \/ settlement_from_tx \/ Unverifiable \/ FetchBare
    <2>1. Examining
        BY <1>5 DEF Skip, CacheHit, settlement_from_tx, Unverifiable, FetchBare, Fetching
    <2>2. /\ pc' = "fetch" /\ UNCHANGED <<ledger, mode, announced, sent, seeded>>
          /\ Head(todo) \in Signatures
        BY <1>0, <2>1, HeadAndTail DEF Examining
    <2>3. CASE found' = found
        BY <2>2, <2>3 DEF DeliveryInv, RecordedWasSent, Owed, load_ledger, Elements
    <2>4. CASE found' = <<Head(todo)>> \o found /\ Wanted(Head(todo))
        <3>1. Elements(found') \subseteq {Head(todo)} \cup Elements(found)
            BY <1>0, <2>2, <2>4, ElementsOfPrepend
        <3>2. /\ Head(todo) \notin load_ledger
              /\ mode = "commit" => Head(todo) \in announced
            BY <2>4 DEF Wanted
        <3> QED
            BY <2>2, <3>1, <3>2 DEF DeliveryInv, RecordedWasSent, Owed, load_ledger
    <2> QED
        BY <1>5, <2>3, <2>4
        DEF Skip, CacheHit, settlement_from_tx, Unverifiable, FetchBare, Fetching
<1>6. CASE EndScan
    <2>1. CASE Exit
        BY <1>6, <2>1, DeliveryExit DEF EndScan, load_ledger
    <2>2. CASE /\ pc' = "send" /\ todo' = found /\ found' = <<>>
               /\ UNCHANGED <<mode, tickVars>>
        BY <1>6, <2>2, ElementsOfNone
        DEF EndScan, DeliveryInv, RecordedWasSent, Owed, load_ledger, Elements
    <2> QED
        BY <1>6, <2>1, <2>2 DEF EndScan
<1>7. CASE EndCommit
    BY <1>0, <1>7, AppendedType, DeliveryExit DEF EndCommit, LedgerOf, load_ledger
<1>8. CASE EndSeed
    BY <1>0, <1>8, AppendedType, DeliveryExit DEF EndSeed, LedgerOf, load_ledger
<1>9. CASE send_one \/ SendFails
    <2>1. Sending
        BY <1>9 DEF send_one, SendFails
    <2>2. /\ Head(todo) \in Signatures
          /\ Elements(todo') \subseteq Elements(todo)
          /\ pc = "send" /\ UNCHANGED <<ledger, pc, mode, found, seeded>>
        BY <1>0, <2>1, HeadAndTail DEF Sending
    <2>3. \A r \in Signatures : sent[r] > 0 => sent'[r] > 0
        BY <1>9, <2>2, DeliveredType DEF send_one, SendFails
    <2>4. \A s \in announced' : sent'[s] > 0
        BY <1>9, <2>2, <2>3, DeliveredType
        DEF send_one, SendFails, DeliveryInv, Owed, TypeOK
    <2>5. announced \subseteq announced'
        BY <1>9 DEF send_one, SendFails
    <2>6. load_ledger \subseteq Signatures /\ Elements(found') = Elements(found)
        BY <2>2 DEF TypeOK, Elements, load_ledger, LedgerType
    <2> QED
        BY <2>2, <2>3, <2>4, <2>5, <2>6 DEF DeliveryInv, RecordedWasSent, Owed, load_ledger
<1>10. CASE EndSends
    <2>1. CASE Exit
        BY <1>10, <2>1, DeliveryExit DEF EndSends, load_ledger
    <2>2. CASE StartPass("commit") /\ UNCHANGED tickVars
        BY <1>10, <2>2, ElementsOfNone
        DEF EndSends, StartPass, DeliveryInv, RecordedWasSent, Owed, load_ledger
    <2> QED
        BY <1>10, <2>1, <2>2 DEF EndSends
<1>11. CASE Kill
    <2>1. Exit
        BY <1>11 DEF Kill
    <2>2. CASE pc = "send" /\ todo # <<>> /\ Delivered(Head(todo)) /\ UNCHANGED <<keptVars, seeded>>
        <3>1. \A r \in Signatures : sent[r] > 0 => sent'[r] > 0
            BY <1>0, <2>2, HeadAndTail, DeliveredType
        <3>2. load_ledger \subseteq Signatures /\ load_ledger' = load_ledger
            BY <2>2 DEF load_ledger, LedgerType, TypeOK
        <3> QED
            BY <2>1, <2>2, <3>1, <3>2, ElementsOfNone
            DEF Exit, DeliveryInv, RecordedWasSent, Owed
    <2>3. CASE /\ UNCHANGED sent
               /\ \/ UNCHANGED <<ledger, seeded>>
                  \/ mode = "commit" /\ AppendCut(found) /\ UNCHANGED seeded
                  \/ AppendCut(found) /\ seeded' = seeded \cup Elements(found)
        <3>1. load_ledger' \subseteq load_ledger \cup Elements(found)
            BY <1>0, <2>3, AppendCutType DEF LedgerOf, load_ledger
        <3> QED
            BY <2>1, <2>3, <3>1, DeliveryExit DEF load_ledger
    <2> QED
        BY <1>11, <2>2, <2>3 DEF Kill
<1>12. CASE UNCHANGED vars
    BY <1>12 DEF vars, DeliveryInv, RecordedWasSent, Owed, load_ledger, Elements
<1> QED
    BY <1>1, <1>2, <1>3, <1>4, <1>5, <1>6, <1>7, <1>8, <1>9, <1>10, <1>11, <1>12
    DEF Next, Run

LEMMA SpecDeliveryInv == Spec => [](TypeOK /\ DeliveryInv)
BY TypeInit, TypeNext, DeliveryInit, DeliveryNext, PTL DEF Spec

\* Nothing is recorded that was not delivered or adopted, whatever lands while
\* a tick runs, whatever the endpoints answer and wherever it is killed.
THEOREM RecordedReceiptsWereSent == Spec => []RecordedWasSent
<1>1. DeliveryInv => RecordedWasSent
    BY DEF DeliveryInv
<1> QED
    BY <1>1, SpecDeliveryInv, PTL

\* A receipt on a complete line stays there and is never delivered again: what a
\* tick is about to send is not recorded, nothing is recorded while it sends, and no
\* append touches the lines before the last.
THEOREM RecordedReceiptsStaySilent == Spec => RecordedNeverSentAgain
<1> DEFINE Silent == \A s \in Signatures :
              s \in ledger.known => s \in ledger'.known /\ sent'[s] = sent[s]
<1>1. TypeOK /\ DeliveryInv /\ [Next]_vars => [Silent]_vars
    <2> SUFFICES ASSUME TypeOK, DeliveryInv, [Next]_vars PROVE Silent
        OBVIOUS
    <2>0. found \in Seq(Signatures)
        BY DEF TypeOK
    <2>1. ledger.known \subseteq ledger'.known
        <3>1. CASE UNCHANGED ledger
            BY <3>1
        <3>2. CASE EndCommit \/ EndSeed
            BY <2>0, <3>2, AppendedType DEF EndCommit, EndSeed, LedgerOf
        <3>3. CASE Kill
            BY <2>0, <3>3, AppendCutType DEF Kill, LedgerOf, keptVars
        <3> QED
            BY <3>1, <3>2, <3>3
            DEF Next, Run, vars, keptVars, Land, Tick, Seed, ReadFresh, ReadStale, ReadWindow,
                Unreachable, Skip, CacheHit, settlement_from_tx, Unverifiable, FetchBare,
                Fetching, Examining, EndScan, send_one, SendFails, Sending, EndSends
    <2>2. \/ UNCHANGED sent
          \/ pc = "send" /\ todo # <<>> /\ Delivered(Head(todo))
        BY DEF Next, Run, vars, deliveryVars, Land, Tick, Seed, ReadFresh, ReadStale, ReadWindow,
               Unreachable, Skip, CacheHit, settlement_from_tx, Unverifiable, FetchBare,
               Fetching, Examining, EndScan, EndCommit, EndSeed, send_one, SendFails, Sending,
               EndSends, Kill
    <2>3. ASSUME pc = "send", todo # <<>>, Delivered(Head(todo))
          PROVE  \A s \in Signatures : s \in ledger.known => sent'[s] = sent[s]
        <3>1. Head(todo) \in Signatures /\ Head(todo) \notin ledger.known
            BY <2>3, HeadAndTail DEF DeliveryInv, Owed, load_ledger, TypeOK
        <3> QED
            BY <2>3, <3>1, DeliveredType
    <2> QED
        BY <2>1, <2>2, <2>3
<1> QED
    BY <1>1, SpecDeliveryInv, PTL DEF Spec, RecordedNeverSentAgain

-----------------------------------------------------------------------------
(***************************************************************************)
(* The negative cache.                                                     *)
(***************************************************************************)

LEMMA NegativesNext ==
    ASSUME BareMeta \cap Settlements = {}, TypeOK, NegativesInv, [Next]_vars
    PROVE  NegativesInv'
<1>1. /\ negatives' \subseteq negatives \cup cache \cup (Signatures \ Settlements) \cup BareMeta
      /\ cache' \subseteq cache \cup negatives
    <2> USE DEF keptVars, passVars, Exit, StartPass
    <2>1. CASE Skip \/ CacheHit \/ settlement_from_tx \/ Unverifiable \/ FetchBare
        <3>1. Examining
            BY <2>1 DEF Skip, CacheHit, settlement_from_tx, Unverifiable, FetchBare, Fetching
        <3>2. Head(todo) \in Signatures
            BY <3>1, HeadAndTail DEF Examining, TypeOK
        <3>3. CachedNegative \subseteq cache
            BY DEF CachedNegative
        <3> QED
            BY <2>1, <3>1, <3>2, <3>3
            DEF Skip, CacheHit, settlement_from_tx, Unverifiable, FetchBare, Fetching, Examining
    <2>2. CASE Tick \/ Seed \/ ReadFresh \/ ReadStale \/ Unreachable
        BY <2>2 DEF Tick, Seed, ReadFresh, ReadStale, ReadWindow, Unreachable
    <2>3. CASE EndScan \/ EndCommit \/ EndSeed
        BY <2>3 DEF EndScan, EndCommit, EndSeed
    <2>4. CASE send_one \/ SendFails \/ EndSends
        BY <2>4 DEF send_one, SendFails, Sending, EndSends
    <2>5. CASE Kill
        BY <2>5 DEF Kill, SaveCut
    <2>6. CASE \E s \in Signatures : Land(s)
        BY <2>6 DEF Land
    <2>7. CASE UNCHANGED vars
        BY <2>7 DEF vars
    <2> QED
        BY <2>1, <2>2, <2>3, <2>4, <2>5, <2>6, <2>7 DEF Next, Run
<1> QED
    BY <1>1 DEF NegativesInv

\* No settlement is ever cached as a negative, whatever fails and wherever a
\* write is cut, if no node answers a settlement's transaction without its meta.
THEOREM CacheNeverHidesASettlement ==
    ASSUME BareMeta \cap Settlements = {}
    PROVE  Spec => []CacheHoldsNoSettlement
<1>1. Init => NegativesInv
    BY DEF Init, NegativesInv
<1>2. NegativesInv /\ TypeOK /\ [Next]_vars => NegativesInv'
    BY NegativesNext
<1>3. NegativesInv => CacheHoldsNoSettlement
    BY DEF NegativesInv, CacheHoldsNoSettlement
<1> QED
    BY <1>1, <1>2, <1>3, TypeCorrect, PTL DEF Spec

=============================================================================
