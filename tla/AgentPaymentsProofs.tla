------------------------- MODULE AgentPaymentsProofs -------------------------
(***************************************************************************)
(* Proofs about the two ways an agent puts an amount before a payer: the   *)
(* link it makes for a customer, and the purchase it has signed.           *)
(***************************************************************************)
EXTENDS CertifiedSigning, PayLink, FiniteSetTheorems, SequenceTheorems,
        WellFoundedInduction, TLAPS

-----------------------------------------------------------------------------
(***************************************************************************)
(* PayLink: the days of the sources, and the arithmetic of an amount.      *)
(***************************************************************************)

LEMMA LeastNat == ASSUME NEW N \in SUBSET Nat, N # {}
                  PROVE  \E n \in N : \A m \in N : n <= m
<1>1. PICK n \in N : \A m \in N : <<m, n>> \notin OpToRel(<, Nat)
    BY NatLessThanWellFounded, WFMin, Zenon
<1>2. \A m \in N : ~(m < n)
    BY <1>1 DEF OpToRel
<1> QED
    BY <1>2

LEMMA MinIsLeast ==
    ASSUME NEW N \in SUBSET Nat, N # {}
    PROVE  Min(N) \in N /\ \A m \in N : Min(N) <= m
BY LeastNat DEF Min

\* One element's sum is that element.
LEMMA SumOfOne == ASSUME NEW x \in Nat PROVE SumSet({x}) = x
<1> DEFINE Pick(s) == CHOOSE e \in s : TRUE
           Adds(f) == f = [s \in SUBSET {x} |-> IF s = {} THEN 0
                                                ELSE Pick(s) + f[s \ {Pick(s)}]]
           f1 == [s \in SUBSET {x} |-> IF s = {} THEN 0 ELSE x]
           f0 == CHOOSE f : Adds(f)
<1>1. SumSet({x}) = f0[{x}]
    BY DEF SumSet, FoldSet, MapThenFoldSet
<1>2. \A s \in SUBSET {x} : s = {} \/ s = {x}
    OBVIOUS
<1>3. Adds(f1)
    BY <1>2
<1>4. Adds(f0)
    BY <1>3
<1>5. Pick({x}) = x /\ {x} \ {x} = {}
    OBVIOUS
<1> HIDE DEF f0, Pick
<1>6. f0[{}] = 0 /\ f0[{x}] = x + f0[{}]
    BY <1>4, <1>5
<1> QED
    BY <1>1, <1>6

LEMMA SumOfNone == SumSet({}) = 0
<1> DEFINE Pick(s) == CHOOSE e \in s : TRUE
           Adds(f) == f = [s \in SUBSET {} |-> IF s = {} THEN 0
                                               ELSE Pick(s) + f[s \ {Pick(s)}]]
           f1 == [s \in SUBSET {} |-> 0]
           f0 == CHOOSE f : Adds(f)
<1>1. SumSet({}) = f0[{}]
    BY DEF SumSet, FoldSet, MapThenFoldSet
<1>2. Adds(f1)
    OBVIOUS
<1>3. Adds(f0)
    BY <1>2
<1> QED
    BY <1>1, <1>3

\* The division to cents rounds to the nearest, halves up.
LEMMA CentsIsNearest ==
    ASSUME NEW brl \in Nat, NEW rate \in Nat, rate > 0
    PROVE  Nearest(Cents(brl, rate), brl, rate)
BY Z3 DEF Nearest, Cents

SourcesOk ==
    /\ bcb \in [Days -> Rates \cup {Absent}]
    /\ ecb \in [Days -> Rates \cup {Absent}]
    /\ noted \in Rates \cup {Absent}

LEMMA LatestIsNewest ==
    ASSUME SourcesOk, LatestPtax # Absent
    PROVE  /\ LatestPtax \in Days /\ bcb[LatestPtax] \in Rates
           /\ \A d \in 0..(LatestPtax - 1) : bcb[d] = Absent
<1> DEFINE days == {b \in Days : bcb[b] # Absent}
<1>1. days # {} /\ LatestPtax = Min(days) /\ days \in SUBSET Nat
    BY DEF LatestPtax, Days
<1>2. LatestPtax \in days /\ \A m \in days : LatestPtax <= m
    BY <1>1, MinIsLeast
<1> QED
    BY <1>2, PayLinkAssumption DEF SourcesOk, Days

LEMMA NewestIsLatest ==
    ASSUME SourcesOk, NEW b \in Days, bcb[b] # Absent, \A d \in 0..(b - 1) : bcb[d] = Absent
    PROVE  LatestPtax = b
<1> DEFINE days == {d \in Days : bcb[d] # Absent}
<1>1. days # {} /\ LatestPtax = Min(days) /\ days \in SUBSET Nat /\ b \in days
    BY DEF LatestPtax, Days
<1>2. LatestPtax \in days /\ \A m \in days : LatestPtax <= m
    BY <1>1, MinIsLeast
<1> QED
    BY <1>1, <1>2, PayLinkAssumption DEF Days

LEMMA EcbDayIsOwn ==
    ASSUME SourcesOk, NEW b \in Days
    PROVE  EcbDay(b) = b <=> ecb[b] # Absent
<1> DEFINE days == {d \in Days : d >= b /\ ecb[d] # Absent}
<1>1. EcbDay(b) = (IF days = {} THEN Absent ELSE Min(days)) /\ days \in SUBSET Nat
    BY DEF EcbDay, Days
<1>2. days # {} => EcbDay(b) \in days /\ \A m \in days : EcbDay(b) <= m
    BY <1>1, MinIsLeast
<1>3. b \in Nat /\ Absent \notin Nat
    BY PayLinkAssumption DEF Days
<1> QED
    BY <1>1, <1>2, <1>3 DEF Days

\* Corroboration is what Published says of a rate.
LEMMA FetchedIsPublished ==
    ASSUME SourcesOk, FetchRate # Absent
    PROVE  FetchRate \in Rates /\ Published(FetchRate)
<1>1. LatestPtax # Absent /\ Corroborated(LatestPtax) /\ FetchRate = bcb[LatestPtax]
    BY DEF FetchRate
<1>2. LatestPtax \in Days /\ ecb[LatestPtax] # Absent
    BY <1>1, LatestIsNewest, EcbDayIsOwn DEF Corroborated
<1>3. bcb[LatestPtax] \in Nat /\ ecb[LatestPtax] \in Nat
    BY <1>1, <1>2, LatestIsNewest, PayLinkAssumption DEF SourcesOk
<1>4. 2000 * Apart(bcb[LatestPtax], ecb[LatestPtax]) <= 25 * (bcb[LatestPtax] + ecb[LatestPtax])
    BY <1>1, <1>3 DEF Corroborated, Diverges, Mean2, Apart
<1> QED
    BY <1>1, <1>2, <1>4, LatestIsNewest DEF Published, Corroborated, InBand

LEMMA PublishedIsFetched ==
    ASSUME SourcesOk, NEW rate \in Rates, Published(rate)
    PROVE  FetchRate = rate
<1>1. PICK b \in Days :
        /\ bcb[b] = rate /\ ecb[b] # Absent /\ \A d \in 0..(b - 1) : bcb[d] = Absent
        /\ {rate, ecb[b]} \subseteq MIN_PLAUSIBLE..MAX_PLAUSIBLE
        /\ 2000 * Apart(rate, ecb[b]) <= 25 * (rate + ecb[b])
    BY DEF Published
<1>2. rate # Absent /\ rate \in Nat /\ ecb[b] \in Nat
    BY <1>1, PayLinkAssumption DEF SourcesOk
<1>3. LatestPtax = b /\ EcbDay(b) = b /\ b # Absent
    BY <1>1, <1>2, NewestIsLatest, EcbDayIsOwn, PayLinkAssumption DEF Days
<1>4. ~Diverges(bcb[b], ecb[b])
    BY <1>1, <1>2 DEF Diverges, Mean2, Apart
<1> QED
    BY <1>1, <1>3, <1>4 DEF FetchRate, Corroborated, InBand

-----------------------------------------------------------------------------
(***************************************************************************)
(* PayLink: what a printed link asks.                                      *)
(***************************************************************************)

\* What the agent can pass: lists where the script takes lists.
ArgumentsOk(a) ==
    /\ a.url.mints \in Seq(ReadMints) /\ a.url.labels \in Seq(Labels)
    /\ a.url.amounts \in Seq(Int)
    /\ a.brl \in Nat \cup {Absent}

LEMMA UpTo2IsSeq == ASSUME NEW S, NEW s \in UpTo2(S) PROVE s \in Seq(S)
<1>1. PICK n \in 0..2 : s \in [1..n -> S]
    BY DEF UpTo2
<1> QED
    BY <1>1, SeqDef

LEMMA CentsIsInt == ASSUME NEW brl \in Nat, NEW rate \in Rates PROVE Cents(brl, rate) \in Int
BY PayLinkAssumption DEF Cents

LEMMA AsksOk ==
    ASSUME SourcesOk, NEW order \in Orders, NEW a \in Altered(Asks(order))
    PROVE  ArgumentsOk(a)
<1> DEFINE b == Asks(order)
<1>1. /\ order.brl \in Nat /\ MINT \in ReadMints /\ LABEL \in Labels /\ Values \subseteq Nat
    BY PayLinkAssumption
<1>2. /\ b.url.mints \in Seq(ReadMints) /\ b.url.labels \in Seq(Labels)
      /\ b.url.amounts \in Seq(Int) /\ b.brl \in Nat
      /\ DOMAIN b = {"url", "brl", "quote", "claim", "reached"}
      /\ DOMAIN b.url = {"recipient", "mints", "labels", "amounts", "encoded"}
    <2>1. noted # Absent => Cents(order.brl, noted) \in Int
        BY <1>1, CentsIsInt DEF SourcesOk
    <2>2. /\ b.url.mints = <<MINT>> /\ b.url.labels = <<LABEL>>
          /\ b.url.amounts = <<>> \/ (noted # Absent /\ b.url.amounts = <<Cents(order.brl, noted)>>)
          /\ b.brl = order.brl
          /\ DOMAIN b = {"url", "brl", "quote", "claim", "reached"}
          /\ DOMAIN b.url = {"recipient", "mints", "labels", "amounts", "encoded"}
        <3> DEFINE asks == IF noted = Absent THEN <<>> ELSE <<Cents(order.brl, noted)>>
        <3>1. /\ b.url = [recipient |-> MERCHANT, mints |-> <<MINT>>, labels |-> <<LABEL>>, amounts |-> asks,
                          encoded |-> {}]
              /\ b.brl = order.brl
              /\ DOMAIN b = {"url", "brl", "quote", "claim", "reached"}
            BY DEF Asks
        <3>2. asks = <<>> \/ (noted # Absent /\ asks = <<Cents(order.brl, noted)>>)
            OBVIOUS
        <3> HIDE DEF asks, b
        <3> QED
            BY <3>1, <3>2
    <2>3. b.url.mints \in Seq(ReadMints) /\ b.url.labels \in Seq(Labels)
        BY <1>1, <2>2
    <2>4. b.url.amounts \in Seq(Int)
        <3>1. <<>> \in Seq(Int) /\ \A c \in Int : <<c>> \in Seq(Int)
            OBVIOUS
        <3> HIDE DEF b
        <3> QED
            BY <2>1, <2>2, <3>1
    <2> QED
        BY <1>1, <2>2, <2>3, <2>4
<1> HIDE DEF b
<1>3. CASE \/ a \in {b, [b EXCEPT !.reached = FALSE], [b EXCEPT !.quote = Absent],
                      [b EXCEPT !.quote = <<>>]}
           \/ \E r \in Rates : a = [b EXCEPT !.claim = r]
    BY <1>2, <1>3 DEF ArgumentsOk
<1>4. CASE \/ a = [b EXCEPT !.brl = Absent, !.quote = Absent]
           \/ \E v \in Values : a = [b EXCEPT !.brl = v]
           \/ \E r \in Recipients : a = [b EXCEPT !.url.recipient = r]
    BY <1>1, <1>2, <1>4 DEF ArgumentsOk
<1>5. CASE \E ms \in UpTo2(ReadMints) : a = [b EXCEPT !.url.mints = ms]
    BY <1>2, <1>5, UpTo2IsSeq DEF ArgumentsOk
<1>6. CASE \E ls \in UpTo2(Labels) : a = [b EXCEPT !.url.labels = ls]
    BY <1>2, <1>6, UpTo2IsSeq DEF ArgumentsOk
<1>7. CASE \E as \in UpTo2({Cents(b.brl, r) : r \in Rates}) : a = [b EXCEPT !.url.amounts = as]
    <2>1. PICK as \in UpTo2({Cents(b.brl, r) : r \in Rates}) : a = [b EXCEPT !.url.amounts = as]
        BY <1>7
    <2>2. {Cents(b.brl, r) : r \in Rates} \subseteq Int
        BY <1>2, CentsIsInt
    <2>3. as \in Seq(Int)
        BY <2>2, UpTo2IsSeq, SeqMonotonic
    <2> QED
        BY <1>2, <2>1, <2>3 DEF ArgumentsOk
<1>8. CASE \E e \in {<<"mints", x>> : x \in ReadMints} \cup {<<"labels", x>> : x \in Labels}
                       \cup {<<"amounts", Cents(b.brl, r)>> : r \in Rates} :
                a = [b EXCEPT !.url.encoded = {e}]
    BY <1>2, <1>8 DEF ArgumentsOk
<1> QED
    BY <1>3, <1>4, <1>5, <1>6, <1>7, <1>8 DEF Altered, b

\* What is admissible comes from the message.
LEMMA AdmissibleIsDerivable ==
    ASSUME NEW brl \in Nat, NEW quote, brl \in Admissible(quote)
    PROVE  Derivable(brl, quote)
<1>1. CASE brl \in ToSet(quote)
    <2>1. {brl} \in SUBSET ToSet(quote) /\ Cardinality({brl}) = 1 /\ brl = SumSet({brl})
        BY <1>1, SumOfOne, FS_Singleton
    <2> QED
        BY <2>1 DEF Derivable
<1>2. CASE brl = SumSet(ToSet(quote))
    BY <1>2 DEF Derivable
<1> QED
    BY <1>1, <1>2 DEF Admissible

\* A list of at most one is empty or one value.
LEMMA OnceOrNothing ==
    ASSUME NEW S, NEW v \in Seq(S), Once(v)
    PROVE  \/ v = <<>> /\ DOMAIN v = {}
           \/ Len(v) = 1 /\ DOMAIN v = {1} /\ v[1] \in S
<1>1. Len(v) \in Nat /\ DOMAIN v = 1..Len(v) /\ Len(v) <= 1
    BY DEF Once
<1>2. CASE Len(v) = 0
    <2>1. v = <<>>
        BY <1>2
    <2>2. DOMAIN v = {}
        BY <1>1, <1>2
    <2> QED
        BY <2>1, <2>2
<1>3. CASE Len(v) = 1
    <2>1. DOMAIN v = {1}
        BY <1>1, <1>3
    <2>2. v[1] \in S
        BY <1>3
    <2> QED
        BY <1>3, <2>1, <2>2
<1> QED
    BY <1>1, <1>2, <1>3

LEMMA EmptyHasNoPlace == DOMAIN << >> = {}
<1>1. << >> \in Seq(Int) /\ Len(<< >>) = 0
    OBVIOUS
<1> QED
    BY <1>1

\* Without an encoded key the values of a key are read as they stand.
LEMMA PlainReadings ==
    ASSUME NEW url, NEW key, url.encoded = {}
    PROVE  Readings(url, key) = {url[key][i] : i \in DOMAIN url[key]}
BY DEF Readings

LEMMA AcceptedAsksTheOrder ==
    ASSUME SourcesOk, NEW a, ArgumentsOk(a), Accepts(a), a.url.encoded = {}
    PROVE  /\ a.url.recipient = MERCHANT
           /\ Readings(a.url, "mints") \subseteq {MINT, Blank}
           /\ Readings(a.url, "amounts") # {} => Readings(a.url, "mints") = {MINT}
           /\ Readings(a.url, "labels") \subseteq {LABEL}
           /\ a.brl # Absent =>
               /\ Derivable(a.brl, a.quote)
               /\ Readings(a.url, "amounts") # {}
               /\ \A x \in Readings(a.url, "amounts") :
                     \E rate \in Rates : Published(rate) /\ Nearest(x, a.brl, rate)
<1>1. a.url.recipient = MERCHANT
    BY DEF Accepts, RecipientOk
<1> DEFINE ms == a.url.mints
           ls == a.url.labels
           as == a.url.amounts
<1>2. ms \in Seq(ReadMints) /\ ls \in Seq(Labels) /\ as \in Seq(Int)
    BY DEF ArgumentsOk
<1>3. /\ Readings(a.url, "mints") = {ms[i] : i \in DOMAIN ms}
      /\ Readings(a.url, "labels") = {ls[i] : i \in DOMAIN ls}
      /\ Readings(a.url, "amounts") = {as[i] : i \in DOMAIN as}
    BY PlainReadings
<1>m. /\ Once(ms) /\ \A i \in DOMAIN ms : ms[i] \in {MINT, Blank}
      /\ ms \in {<<>>, <<Blank>>} => as = <<>>
    BY DEF Accepts, MintOk
<1>l. Once(ls) /\ (ls # <<>> => ls[1] = LABEL)
    BY DEF Accepts, LabelOk
<1>a. a.brl # Absent => Len(as) = 1 /\ as[1] = Cents(a.brl, FetchRate)
    BY DEF Accepts, AmountOk
<1> HIDE DEF ms, ls, as
<1>4. Readings(a.url, "mints") \subseteq {MINT, Blank}
    BY <1>3, <1>m
<1>5. ASSUME Readings(a.url, "amounts") # {} PROVE Readings(a.url, "mints") = {MINT}
    <2>1. as # <<>>
        <3>1. as = <<>> => DOMAIN as = {}
            BY EmptyHasNoPlace
        <3> QED
            BY <1>3, <1>5, <3>1
    <2>2. ms # <<>> /\ ms # <<Blank>>
        BY <1>m, <2>1
    <2>3. Len(ms) = 1 /\ DOMAIN ms = {1}
        BY <1>2, <1>m, <2>2, OnceOrNothing
    <2>4. ms[1] # Blank
        BY <1>2, <2>2, <2>3
    <2>5. ms[1] = MINT
        BY <1>m, <2>3, <2>4
    <2> QED
        BY <1>3, <2>3, <2>5
<1>6. Readings(a.url, "labels") \subseteq {LABEL}
    <2>1. DOMAIN ls = {} \/ (DOMAIN ls = {1} /\ ls # <<>>)
        <3>1. ls = <<>> \/ ls # <<>>
            OBVIOUS
        <3> QED
            BY <1>2, <1>l, <3>1, OnceOrNothing
    <2> QED
        BY <1>3, <1>l, <2>1
<1>7. ASSUME a.brl # Absent
      PROVE  /\ Derivable(a.brl, a.quote)
             /\ Readings(a.url, "amounts") # {}
             /\ \A x \in Readings(a.url, "amounts") :
                   \E rate \in Rates : Published(rate) /\ Nearest(x, a.brl, rate)
    <2>1. a.brl \in Nat /\ a.brl \in Admissible(a.quote)
        BY <1>7 DEF Accepts, ValueOk, ArgumentsOk
    <2>2. Derivable(a.brl, a.quote)
        BY <2>1, AdmissibleIsDerivable
    <2>3. FetchRate \in Rates /\ Published(FetchRate)
        BY <1>7, FetchedIsPublished DEF Accepts
    <2>4. Nearest(Cents(a.brl, FetchRate), a.brl, FetchRate)
        BY <2>1, <2>3, CentsIsNearest, PayLinkAssumption
    <2>5. Len(as) = 1 /\ as[1] = Cents(a.brl, FetchRate)
        BY <1>7, <1>a
    <2>6. Readings(a.url, "amounts") = {Cents(a.brl, FetchRate)}
        <3>1. DOMAIN as = {1}
            BY <1>2, <2>5
        <3> QED
            BY <1>3, <2>5, <3>1
    <2> QED
        BY <2>2, <2>3, <2>4, <2>6
<1> QED
    BY <1>1, <1>4, <1>5, <1>6, <1>7

LEMMA SourcesStayOk ==
    ASSUME SourcesOk, [LinkNext]_linkVars
    PROVE  SourcesOk'
<1> USE DEF SourcesOk
<1>1. 0 \in Days
    BY PayLinkAssumption DEF Days
<1>2. CASE Midnight
    BY <1>2, PayLinkAssumption DEF Midnight, Days
<1>3. CASE \E r \in Rates : PublishBcb(r) \/ PublishEcb(r)
    BY <1>1, <1>3 DEF PublishBcb, PublishEcb
<1>4. CASE \E tieRefused \in BOOLEAN : CrossCheck(tieRefused)
    BY <1>4, LatestIsNewest DEF CrossCheck
<1>5. CASE \E order \in Orders : \E a \in Altered(Asks(order)) : PayLink(a)
    BY <1>5 DEF PayLink
<1>6. CASE UNCHANGED linkVars
    BY <1>6 DEF linkVars
<1> QED
    BY <1>2, <1>3, <1>4, <1>5, <1>6 DEF LinkNext

LEMMA SourcesAlwaysOk == LinkSpec => []SourcesOk
<1>1. LinkInit => SourcesOk
    BY DEF LinkInit, SourcesOk
<1> QED
    BY <1>1, SourcesStayOk, PTL DEF LinkSpec

\* A printed link pays this shop in its mint and, priced, asks what the
\* customer's words come to at a rate both sources carry when it is printed:
\* for every pair of sources, every walk and band, and whatever the agent recalls.
THEOREM LinksAskTheOrder == LinkSpec => []LinkAsksTheOrder
<1>1. LinkInit => LinkAsksTheOrder
    BY DEF LinkInit, LinkAsksTheOrder
<1>2. SourcesOk /\ LinkAsksTheOrder /\ [LinkNext]_linkVars => LinkAsksTheOrder'
    <2> SUFFICES ASSUME SourcesOk, LinkAsksTheOrder, [LinkNext]_linkVars
                 PROVE  LinkAsksTheOrder'
        OBVIOUS
    <2>1. CASE asked' = Absent
        BY <2>1 DEF LinkAsksTheOrder
    <2>2. CASE \E order \in Orders : \E a \in Altered(Asks(order)) : PayLink(a)
        <3>1. PICK order \in Orders : \E a \in Altered(Asks(order)) : PayLink(a)
            BY <2>2
        <3>2. PICK a \in Altered(Asks(order)) : PayLink(a)
            BY <3>1
        <3>3. /\ asked'.args = a /\ asked'.printed = Accepts(a)
              /\ UNCHANGED <<bcb, ecb>>
            BY <3>2 DEF PayLink
        <3>4. ArgumentsOk(a)
            BY AsksOk
        <3>5. \A rate : Published(rate)' = Published(rate)
            BY <3>3 DEF Published
        <3> QED
            BY <3>3, <3>4, <3>5, AcceptedAsksTheOrder DEF LinkAsksTheOrder
    <2>3. CASE UNCHANGED linkVars
        BY <2>3 DEF LinkAsksTheOrder, Published, linkVars
    <2> QED
        BY <2>1, <2>2, <2>3 DEF LinkNext, Midnight, PublishBcb, PublishEcb, CrossCheck
<1> QED
    BY <1>1, <1>2, SourcesAlwaysOk, PTL DEF LinkSpec

\* What the message names is admissible.
LEMMA DerivableIsAdmissible ==
    ASSUME NEW order \in Orders, Derivable(order.brl, order.quote), order.brl # 0
    PROVE  order.quote # <<>> /\ order.brl \in Admissible(order.quote)
<1>1. order.quote \in Seq(Nat) /\ ToSet(order.quote) \subseteq Nat
    BY PayLinkAssumption DEF ToSet
<1>2. PICK S \in SUBSET ToSet(order.quote) :
        order.brl = SumSet(S) /\ (Cardinality(S) = 1 \/ S = ToSet(order.quote))
    BY DEF Derivable
<1>3. order.brl \in Admissible(order.quote)
    <2>1. CASE Cardinality(S) = 1
        <3>1. order.quote \in Surjection(1..Len(order.quote), ToSet(order.quote))
            BY <1>1 DEF ToSet, Surjection
        <3>2. IsFiniteSet(S)
            <4>1. IsFiniteSet(1..Len(order.quote))
                BY <1>1, FS_Interval
            <4>2. IsFiniteSet(ToSet(order.quote))
                BY <3>1, <4>1, FS_Surjection
            <4> QED
                BY <4>2, FS_Subset
        <3>3. PICK x : S = {x}
            BY <2>1, <3>2, FS_Singleton
        <3> QED
            BY <1>1, <1>2, <3>3, SumOfOne DEF Admissible
    <2>2. CASE S = ToSet(order.quote)
        BY <1>2, <2>2 DEF Admissible
    <2> QED
        BY <1>2, <2>1, <2>2
<1>4. order.quote # <<>>
    <2> SUFFICES ASSUME order.quote = <<>> PROVE FALSE
        OBVIOUS
    <2>1. ToSet(order.quote) = {}
        BY DEF ToSet
    <2> QED
        BY <1>3, <2>1, SumOfNone DEF Admissible
<1> QED
    BY <1>3, <1>4

\* An order composed as the skill says, at a rate the sources still give, is
\* linked: the agent's copy of the rules and the script's agree, for all rates.
THEOREM HonestOrdersAreLinked == LinkSpec => HonestOrderIsLinked
<1>1. ASSUME SourcesOk, LinkNext, NEW order \in Orders,
             asked' # Absent, noted # Absent, asked'.args = Asks(order),
             order.brl \in MIN_ORDER_BRL..MAX_ORDER_BRL, Derivable(order.brl, order.quote),
             Published(noted)
      PROVE  asked'.printed
    <2>1. PICK o \in Orders : \E a \in Altered(Asks(o)) : PayLink(a)
        BY <1>1 DEF LinkNext, Midnight, PublishBcb, PublishEcb, CrossCheck
    <2>2. PICK a \in Altered(Asks(o)) : PayLink(a)
        BY <2>1
    <2>3. a = Asks(order) /\ asked'.printed = Accepts(Asks(order))
        BY <1>1, <2>2 DEF PayLink
    <2>4. /\ order.brl \in Nat /\ order.brl # Absent /\ order.brl # 0
          /\ order.quote \in Seq(Nat) /\ order.quote # Absent
        BY <1>1, PayLinkAssumption
    <2>5. order.quote # <<>> /\ order.brl \in Admissible(order.quote)
        BY <1>1, <2>4, DerivableIsAdmissible
    <2>6. FetchRate = noted
        BY <1>1, PublishedIsFetched DEF SourcesOk
    <2>7. RecipientOk(Asks(order).url) /\ MintOk(Asks(order).url) /\ LabelOk(Asks(order).url)
        <3>1. /\ Asks(order).url.recipient = MERCHANT
              /\ Asks(order).url.mints = <<MINT>> /\ Asks(order).url.labels = <<LABEL>>
            BY DEF Asks
        <3>2. Len(<<LABEL>>) = 1 /\ <<LABEL>>[1] = LABEL
            OBVIOUS
        <3>3. Len(<<MINT>>) = 1 /\ DOMAIN <<MINT>> = {1} /\ <<MINT>>[1] = MINT
            OBVIOUS
        <3>4. <<MINT>> # <<>> /\ <<MINT>> # <<Blank>>
            BY <3>3, PayLinkAssumption
        <3>5. MintOk(Asks(order).url)
            BY <3>1, <3>3, <3>4 DEF MintOk, Once
        <3>6. RecipientOk(Asks(order).url) /\ LabelOk(Asks(order).url)
            BY <3>1, <3>2 DEF RecipientOk, LabelOk, Once
        <3> QED
            BY <3>5, <3>6
    <2>8. ValueOk(order.brl, order.quote)
        BY <1>1, <2>4, <2>5 DEF ValueOk
    <2>9. AmountOk(Asks(order).url, order.brl, FetchRate) /\ ClaimOk(Absent, FetchRate)
        BY <1>1, <2>6 DEF AmountOk, ClaimOk, Asks
    <2>10. /\ Asks(order).brl = order.brl /\ Asks(order).quote = order.quote
           /\ Asks(order).claim = Absent /\ Asks(order).reached
        BY DEF Asks
    <2> QED
        BY <1>1, <2>3, <2>4, <2>6, <2>7, <2>8, <2>9, <2>10 DEF Accepts
<1>2. SourcesOk /\ [LinkNext]_linkVars =>
        [\A order \in Orders :
           /\ asked' # Absent /\ noted # Absent
           /\ asked'.args = Asks(order)
           /\ order.brl \in MIN_ORDER_BRL..MAX_ORDER_BRL /\ Derivable(order.brl, order.quote)
           /\ Published(noted)
           => asked'.printed]_linkVars
    BY <1>1
<1> QED
    BY <1>2, SourcesAlwaysOk, PTL DEF LinkSpec, HonestOrderIsLinked

-----------------------------------------------------------------------------
(***************************************************************************)
(* CertifiedSigning: what a transaction moves.  The sums are over the      *)
(* instructions of a kind, and of those there is none or one.              *)
(***************************************************************************)

AmountOver(ixs, K) == MapThenSumSet(LAMBDA k : ixs[k].amount, K)
ValueOver(ixs, K)  == MapThenSumSet(LAMBDA k : ixs[k].value, K)

LEMMA AmountOverNone == ASSUME NEW ixs PROVE AmountOver(ixs, {}) = 0
<1> DEFINE Pick(s) == CHOOSE e \in s : TRUE
           Adds(f) == f = [s \in SUBSET {} |-> IF s = {} THEN 0
                                               ELSE ixs[Pick(s)].amount + f[s \ {Pick(s)}]]
           f1 == [s \in SUBSET {} |-> 0]
           f0 == CHOOSE f : Adds(f)
<1>1. AmountOver(ixs, {}) = f0[{}]
    BY DEF AmountOver, MapThenSumSet, MapThenFoldSet
<1>2. Adds(f1)
    OBVIOUS
<1>3. Adds(f0)
    BY <1>2
<1> QED
    BY <1>1, <1>3

LEMMA ValueOverNone == ASSUME NEW ixs PROVE ValueOver(ixs, {}) = 0
<1> DEFINE Pick(s) == CHOOSE e \in s : TRUE
           Adds(f) == f = [s \in SUBSET {} |-> IF s = {} THEN 0
                                               ELSE ixs[Pick(s)].value + f[s \ {Pick(s)}]]
           f1 == [s \in SUBSET {} |-> 0]
           f0 == CHOOSE f : Adds(f)
<1>1. ValueOver(ixs, {}) = f0[{}]
    BY DEF ValueOver, MapThenSumSet, MapThenFoldSet
<1>2. Adds(f1)
    OBVIOUS
<1>3. Adds(f0)
    BY <1>2
<1> QED
    BY <1>1, <1>3

LEMMA AmountOverOne ==
    ASSUME NEW ixs, NEW k, ixs[k].amount \in Nat
    PROVE  AmountOver(ixs, {k}) = ixs[k].amount
<1> DEFINE Pick(s) == CHOOSE e \in s : TRUE
           Adds(f) == f = [s \in SUBSET {k} |-> IF s = {} THEN 0
                                                ELSE ixs[Pick(s)].amount + f[s \ {Pick(s)}]]
           f1 == [s \in SUBSET {k} |-> IF s = {} THEN 0 ELSE ixs[k].amount]
           f0 == CHOOSE f : Adds(f)
<1>1. AmountOver(ixs, {k}) = f0[{k}]
    BY DEF AmountOver, MapThenSumSet, MapThenFoldSet
<1>2. \A s \in SUBSET {k} : s = {} \/ s = {k}
    OBVIOUS
<1>3. Adds(f1)
    BY <1>2
<1>4. Adds(f0)
    BY <1>3
<1>5. Pick({k}) = k /\ {k} \ {k} = {}
    OBVIOUS
<1> HIDE DEF f0, Pick
<1>6. f0[{}] = 0 /\ f0[{k}] = ixs[k].amount + f0[{}]
    BY <1>4, <1>5
<1> QED
    BY <1>1, <1>6

LEMMA MaxIsGreatest ==
    ASSUME NEW n \in Nat, NEW N \in SUBSET (1..n), N # {}
    PROVE  Max(N) \in N /\ \A m \in N : m <= Max(N)
<1> DEFINE R == {n - m : m \in N}
<1>1. R \in SUBSET Nat /\ R # {}
    <2>1. \A m \in N : n - m \in Nat /\ n - m \in R
        OBVIOUS
    <2> QED
        BY <2>1
<1>2. PICK r \in R : \A s \in R : r <= s
    BY <1>1, LeastNat
<1>3. PICK x \in N : r = n - x
    OBVIOUS
<1>4. \A m \in N : m \in Nat /\ n - x <= n - m
    BY <1>2, <1>3
<1>5. \A m \in N : m <= x
    BY <1>4
<1> QED
    BY <1>5 DEF Max

\* A list of instructions as a file holds it.
InstructionList(ixs) ==
    Len(ixs) \in Nat /\ DOMAIN ixs = 1..Len(ixs) /\ InstructionsTyped(ixs)

LEMMA LastValueNat ==
    ASSUME NEW ixs, InstructionList(ixs), NEW k \in 0..Len(ixs), NEW op, NEW default \in Nat
    PROVE  LastValue(ixs, k, op, default) \in Nat
<1> DEFINE hits == {j \in 1..k : ixs[j].prog = "budget" /\ ixs[j].op = op}
<1>1. CASE hits = {}
    BY <1>1 DEF LastValue
<1>2. CASE hits # {}
    <2>1. Max(hits) \in hits
        <3>1. k \in Nat /\ hits \in SUBSET (1..k)
            BY DEF InstructionList
        <3> QED
            BY <1>2, <3>1, MaxIsGreatest
    <2>2. ixs[Max(hits)].value \in Nat
        BY <2>1 DEF InstructionList, InstructionsTyped
    <2> QED
        BY <1>2, <2>2 DEF LastValue
<1> QED
    BY <1>1, <1>2

\* The ceiling is checked at each budget instruction, so at the last one too,
\* and after that nothing moves the fee.
LEMMA FeeIsBounded ==
    ASSUME NEW ixs, InstructionList(ixs),
           \A k \in DOMAIN ixs : ixs[k].prog = "budget" => BudgetAllowed(ixs, k)
    PROVE  FeePaid(ixs) \in 0..MaxPriority
<1> DEFINE n == Len(ixs)
           B == {j \in 1..n : ixs[j].prog = "budget"}
           lim(k) == LastValue(ixs, k, "limit", DefaultUnits * n)
           pri(k) == LastValue(ixs, k, "price", 0)
<1>1. n \in Nat /\ DOMAIN ixs = 1..n /\ MaxPriority \in Nat /\ DefaultUnits * n \in Nat
    BY SigningAssumption DEF InstructionList
<1>2. FeePaid(ixs) = pri(n) * lim(n) /\ \A k : PriorityFee(ixs, k) = lim(k) * pri(k)
    BY DEF FeePaid, PriorityFee
<1>3. \A k \in 0..n : lim(k) \in Nat /\ pri(k) \in Nat
    BY <1>1, LastValueNat
<1>4. CASE B = {}
    <2>1. {j \in 1..n : ixs[j].prog = "budget" /\ ixs[j].op = "price"} = {}
        BY <1>4
    <2>2. pri(n) = 0
        BY <2>1 DEF LastValue
    <2> HIDE DEF pri, lim, n
    <2>3. \A x \in Nat : 0 * x = 0
        OBVIOUS
    <2> QED
        BY <1>1, <1>2, <1>3, <2>2, <2>3
<1>5. CASE B # {}
    <2> DEFINE last == Max(B)
    <2>1. last \in B /\ \A j \in B : j <= last
        BY <1>1, <1>5, MaxIsGreatest
    <2>2. PriorityFee(ixs, last) <= MaxPriority
        BY <1>1, <2>1 DEF BudgetAllowed
    <2>3. \A op : {j \in 1..n : ixs[j].prog = "budget" /\ ixs[j].op = op}
                  = {j \in 1..last : ixs[j].prog = "budget" /\ ixs[j].op = op}
        <3>1. last \in 1..n /\ n \in Nat
            BY <1>1, <2>1
        <3>2. \A j \in 1..n : ixs[j].prog = "budget" => j \in 1..last
            BY <2>1, <3>1
        <3> HIDE DEF last, B, n
        <3> QED
            BY <3>1, <3>2
    <2>4. lim(n) = lim(last) /\ pri(n) = pri(last)
        BY <2>3 DEF LastValue
    <2>5. lim(last) \in Nat /\ pri(last) \in Nat
        BY <1>1, <1>3, <2>1
    <2> HIDE DEF pri, lim, n, last
    <2>6. \A x, y \in Nat : x * y = y * x /\ x * y \in Nat
        OBVIOUS
    <2> QED
        BY <1>1, <1>2, <2>2, <2>4, <2>5, <2>6
<1> QED
    BY <1>4, <1>5

\* What a transaction that is signed does to the chain.
PaysAsConfigured(ixs) ==
    /\ AmountFrom(ixs, Delegation) \in Nat
    /\ AmountTo(ixs, WantAta) = AmountFrom(ixs, Delegation)
    /\ \A p \in Pools \ {Delegation} : AmountFrom(ixs, p) = 0
    /\ \A a \in Accounts \ {WantAta} : AmountTo(ixs, a) = 0
    /\ Lamports(ixs) \in 0..MaxPriority
    /\ \A k \in DOMAIN ixs : ixs[k].prog = OracleProgram => ixs[k].accounts[1] = Feed

\* What the file holds, whoever wrote it.
FileOk(tx) ==
    /\ InstructionList(tx.runs)
    /\ Readable(tx) => tx.read = tx.runs
    /\ tx.wire = "publish" => tx.read = tx.runs

\* The instructions each sum is over.
Draws(ixs, p)   == {k \in DOMAIN ixs : ixs[k].prog = "allowance" /\ ixs[k].accounts.delegation = p}
Credits(ixs, a) == {k \in DOMAIN ixs : ixs[k].prog \in {"allowance", "token"} /\ ixs[k].accounts.receiver_ata = a}
Moves(ixs)      == {k \in DOMAIN ixs : ixs[k].prog = "system" /\ ixs[k].op = "transfer"}

LEMMA SumsOfAFile ==
    ASSUME NEW ixs
    PROVE  /\ \A p : AmountFrom(ixs, p) = AmountOver(ixs, Draws(ixs, p))
           /\ \A a : AmountTo(ixs, a) = AmountOver(ixs, Credits(ixs, a))
           /\ Lamports(ixs) = FeePaid(ixs) + ValueOver(ixs, Moves(ixs))
BY DEF AmountFrom, AmountTo, Lamports, AmountOver, ValueOver, Draws, Credits, Moves

\* The payment's certifier: one spend, in its place, and nothing else that moves.
LEMMA CertifiedPays ==
    ASSUME NEW tx, FileOk(tx), NEW memo, Certified(tx, memo)
    PROVE  PaysAsConfigured(tx.runs)
<1> DEFINE ixs == tx.runs
<1>1. tx.read = ixs /\ InstructionList(ixs)
    BY DEF FileOk, Certified
<1>2. PICK k \in DOMAIN ixs : Of(ixs, "allowance") = {k} /\ SpendIsIntended(ixs[k])
    BY <1>1 DEF Certified
<1>3. \A j \in DOMAIN ixs : Permitted(ixs, j)
    BY <1>1 DEF Certified
<1> HIDE DEF ixs
<1>4. \A j \in DOMAIN ixs :
        /\ ixs[j].prog \in {"system", "budget", "ata", "allowance", "memo"}
        /\ ixs[j].prog = "system" => ixs[j].op # "transfer"
        /\ ixs[j].prog = "budget" => BudgetAllowed(ixs, j)
    BY <1>3 DEF Permitted, SystemAllowed
<1>5. \A j \in DOMAIN ixs : ixs[j].prog \in {"allowance", "token"} <=> j = k
    BY <1>2, <1>4 DEF Of
<1>6. /\ ixs[k].amount \in Nat /\ ixs[k].prog = "allowance"
      /\ ixs[k].accounts.delegation = Delegation /\ ixs[k].accounts.receiver_ata = WantAta
    BY <1>1, <1>2 DEF InstructionList, InstructionsTyped, SpendIsIntended, Of
<1>7. \A p : Draws(ixs, p) = IF p = Delegation THEN {k} ELSE {}
    BY <1>5, <1>6 DEF Draws
<1>8. \A a : Credits(ixs, a) = IF a = WantAta THEN {k} ELSE {}
    BY <1>5, <1>6 DEF Credits
<1>9. /\ AmountFrom(ixs, Delegation) = ixs[k].amount /\ AmountTo(ixs, WantAta) = ixs[k].amount
      /\ \A p : p # Delegation => AmountFrom(ixs, p) = 0
      /\ \A a : a # WantAta => AmountTo(ixs, a) = 0
    <2>1. /\ Draws(ixs, Delegation) = {k} /\ \A p : p # Delegation => Draws(ixs, p) = {}
          /\ Credits(ixs, WantAta) = {k} /\ \A a : a # WantAta => Credits(ixs, a) = {}
        BY <1>7, <1>8
    <2>2. AmountOver(ixs, {k}) = ixs[k].amount /\ AmountOver(ixs, {}) = 0
        BY <1>6, AmountOverNone, AmountOverOne
    <2>3. AmountFrom(ixs, Delegation) = ixs[k].amount /\ AmountTo(ixs, WantAta) = ixs[k].amount
        BY <2>1, <2>2, SumsOfAFile
    <2>4. \A p : p # Delegation => AmountFrom(ixs, p) = 0
        BY <2>1, <2>2, SumsOfAFile
    <2>5. \A a : a # WantAta => AmountTo(ixs, a) = 0
        BY <2>1, <2>2, SumsOfAFile
    <2> QED
        BY <2>3, <2>4, <2>5
<1>10. Lamports(ixs) \in 0..MaxPriority
    <2>1. Moves(ixs) = {}
        BY <1>4 DEF Moves
    <2>2. FeePaid(ixs) \in 0..MaxPriority
        BY <1>1, <1>4, FeeIsBounded
    <2> QED
        BY <2>1, <2>2, SumsOfAFile, ValueOverNone, SigningAssumption
<1>11. \A j \in DOMAIN ixs : ixs[j].prog # OracleProgram
    BY <1>4, SigningAssumption
<1> QED
    BY <1>6, <1>9, <1>10, <1>11 DEF PaysAsConfigured, ixs

\* The publish path's certifier: an advance and a reading of the feed, no fee.
LEMMA PublishPays ==
    ASSUME NEW tx, FileOk(tx), tx.wire = "publish", PublishCertified(tx)
    PROVE  PaysAsConfigured(tx.runs)
<1> DEFINE ixs == tx.runs
<1>1. tx.read = ixs /\ InstructionList(ixs) /\ DOMAIN ixs = {1, 2}
    <2>1. tx.read = ixs /\ InstructionList(ixs) /\ Len(ixs) = 2
        BY DEF FileOk, PublishCertified
    <2>2. DOMAIN ixs = 1..2
        BY <2>1 DEF InstructionList
    <2> QED
        BY <2>1, <2>2
<1>2. /\ ixs[1].prog = "system" /\ ixs[1].op = "advance"
      /\ ixs[2].prog = OracleProgram /\ ixs[2].accounts[1] = Feed
      /\ OracleProgram \notin {"system", "budget", "allowance", "token"}
    BY <1>1, SigningAssumption DEF PublishCertified
<1> HIDE DEF ixs
<1>3. (\A p : Draws(ixs, p) = {}) /\ (\A a : Credits(ixs, a) = {}) /\ Moves(ixs) = {}
    BY <1>1, <1>2 DEF Draws, Credits, Moves
<1>4. FeePaid(ixs) \in 0..MaxPriority
    BY <1>1, <1>2, FeeIsBounded
<1>5. (\A p : AmountFrom(ixs, p) = 0) /\ (\A a : AmountTo(ixs, a) = 0)
    BY <1>3, SumsOfAFile, AmountOverNone
<1>6. Lamports(ixs) \in 0..MaxPriority
    <2>1. ValueOver(ixs, Moves(ixs)) = 0
        BY <1>3, ValueOverNone
    <2>2. Lamports(ixs) = FeePaid(ixs) + 0
        BY <2>1, SumsOfAFile
    <2> QED
        BY <1>4, <2>2, SigningAssumption
<1>7. \A k \in DOMAIN ixs : ixs[k].prog = OracleProgram => ixs[k].accounts[1] = Feed
    BY <1>1, <1>2
<1>8. PaysAsConfigured(ixs)
    BY <1>5, <1>6, <1>7 DEF PaysAsConfigured
<1> QED
    BY <1>8 DEF ixs

-----------------------------------------------------------------------------
(***************************************************************************)
(* CertifiedSigning: only the configured payment.                          *)
(***************************************************************************)

ChainOk ==
    /\ DOMAIN chain = {"world", "remaining", "paid", "lamports", "atas", "nonce", "landings", "feeds"}
    /\ chain.remaining \in [Pools -> Int]
    /\ chain.paid \in [Accounts -> Int]
    /\ chain.lamports \in Nat /\ chain.landings \in Nat

\* Everything that is signed is harmless, on a chain where nothing has gone wrong.
SigningInv ==
    /\ ChainOk
    /\ OnlyTheConfiguredPayment
    /\ args # None => "amount" \in DOMAIN args /\ args.amount \in Nat
    /\ file # None => FileOk(file)
    /\ \A tx \in signed : PaysAsConfigured(tx.runs)

\* allowance-spend-build's instructions, with and without what it may leave out.
Built(advance, by, create, to, pool, kind, amount, memo) ==
    When(advance, Advance(by)) \o When(create, CreateAta(to))
        \o <<Transfer(pool, kind, to, amount), Memo(memo)>>

LEMMA OneBefore ==
    ASSUME NEW S, NEW e \in S, NEW s \in Seq(S), NEW u \in Seq(S),
           Len(u) = Len(s) + 1, u[1] = e, \A i \in 1..Len(s) : u[i + 1] = s[i]
    PROVE  <<e>> \o s = u
<1>1. <<e>> \in Seq(S) /\ Len(<<e>>) = 1 /\ <<e>>[1] = e /\ Len(s) \in Nat
    OBVIOUS
<1> DEFINE x == <<e>> \o s
<1>2. /\ x \in Seq(S) /\ Len(x) = Len(<<e>>) + Len(s)
      /\ \A i \in 1 .. Len(<<e>>) + Len(s) : x[i] = IF i <= Len(<<e>>) THEN <<e>>[i] ELSE s[i - Len(<<e>>)]
    BY <1>1, ConcatProperties, Zenon
<1> HIDE DEF x
<1>3. Len(x) = Len(u) /\ \A i \in 1..Len(x) : x[i] = u[i]
    <2>1. Len(x) = Len(u)
        BY <1>1, <1>2
    <2>2. ASSUME NEW i \in 1..Len(x) PROVE x[i] = u[i]
        <3>1. CASE i = 1
            BY <1>1, <1>2, <2>1, <3>1
        <3>2. CASE i # 1
            <4>1. i - 1 \in 1..Len(s) /\ (i - 1) + 1 = i /\ x[i] = s[i - 1]
                BY <1>1, <1>2, <3>2
            <4>2. u[(i - 1) + 1] = s[i - 1]
                BY <4>1
            <4> QED
                BY <4>1, <4>2
        <3> QED
            BY <3>1, <3>2
    <2> QED
        BY <2>1, <2>2
<1>4. x = u
    BY <1>2, <1>3, SeqEqual, Zenon
<1> QED
    BY <1>4 DEF x

LEMMA Spelled ==
    ASSUME NEW a, NEW b, NEW c, NEW d
    PROVE  /\ <<>> \o <<>> \o <<c, d>> = <<c, d>>
           /\ <<a>> \o <<>> \o <<c, d>> = <<a, c, d>>
           /\ <<>> \o <<b>> \o <<c, d>> = <<b, c, d>>
           /\ <<a>> \o <<b>> \o <<c, d>> = <<a, b, c, d>>
<1> DEFINE S == {a, b, c, d}
<1>1. <<>> \o <<>> = <<>> /\ <<a>> \o <<>> = <<a>> /\ <<>> \o <<b>> = <<b>>
      /\ <<>> \o <<c, d>> = <<c, d>>
    OBVIOUS
<1>2. ASSUME NEW e \in S PROVE <<e>> \o <<c, d>> = <<e, c, d>>
    <2> DEFINE s == <<c, d>>
               u == <<e, c, d>>
    <2>1. s \in Seq(S) /\ u \in Seq(S) /\ Len(u) = Len(s) + 1 /\ u[1] = e
        OBVIOUS
    <2>2. \A i \in 1..Len(s) : u[i + 1] = s[i]
        OBVIOUS
    <2> HIDE DEF s, u, S
    <2>3. <<e>> \o s = u
        BY <2>1, <2>2, OneBefore
    <2> QED
        BY <2>3 DEF s, u
<1>3. <<a>> \o <<b, c, d>> = <<a, b, c, d>>
    <2> DEFINE s == <<b, c, d>>
               u == <<a, b, c, d>>
    <2>1. a \in S /\ s \in Seq(S) /\ u \in Seq(S) /\ Len(u) = Len(s) + 1 /\ u[1] = a
        OBVIOUS
    <2>2. \A i \in 1..Len(s) : u[i + 1] = s[i]
        OBVIOUS
    <2> HIDE DEF s, u, S
    <2>3. <<a>> \o s = u
        BY <2>1, <2>2, OneBefore
    <2> QED
        BY <2>3 DEF s, u
<1>4. (<<a>> \o <<b>>) \o <<c, d>> = <<a>> \o (<<b>> \o <<c, d>>)
    <2> DEFINE s == <<a>>
               t == <<b>>
               u == <<c, d>>
    <2>1. s \in Seq(S) /\ t \in Seq(S) /\ u \in Seq(S)
        OBVIOUS
    <2> HIDE DEF s, t, u, S
    <2>2. (s \o t) \o u = s \o (t \o u)
        BY <2>1, ConcatAssociative
    <2> QED
        BY <2>2 DEF s, t, u
<1>5. <<a>> \o <<c, d>> = <<a, c, d>> /\ <<b>> \o <<c, d>> = <<b, c, d>>
    BY <1>2
<1>6. (<<a>> \o <<b>>) \o <<c, d>> = <<a, b, c, d>>
    BY <1>3, <1>4, <1>5, Zenon
<1> QED
    BY <1>1, <1>5, <1>6, Zenon

LEMMA BuiltIs ==
    ASSUME NEW advance \in BOOLEAN, NEW by, NEW create \in BOOLEAN,
           NEW to, NEW pool, NEW kind, NEW amount, NEW memo
    PROVE  LET t == Transfer(pool, kind, to, amount)
               m == Memo(memo)
               c == CreateAta(to)
               a == Advance(by)
               ixs == Built(advance, by, create, to, pool, kind, amount, memo) IN
           \/ advance /\ create /\ ixs = <<a, c, t, m>>
           \/ advance /\ ~create /\ ixs = <<a, t, m>>
           \/ ~advance /\ create /\ ixs = <<c, t, m>>
           \/ ~advance /\ ~create /\ ixs = <<t, m>>
<1> DEFINE t == Transfer(pool, kind, to, amount)
           m == Memo(memo)
           c == CreateAta(to)
           a == Advance(by)
           ixs == Built(advance, by, create, to, pool, kind, amount, memo)
<1>1. ixs = (IF advance THEN <<a>> ELSE <<>>) \o (IF create THEN <<c>> ELSE <<>>) \o <<t, m>>
    BY DEF Built, When
<1> HIDE DEF t, m, c, a, ixs
<1>2. /\ <<>> \o <<>> \o <<t, m>> = <<t, m>>
      /\ <<a>> \o <<>> \o <<t, m>> = <<a, t, m>>
      /\ <<>> \o <<c>> \o <<t, m>> = <<c, t, m>>
      /\ <<a>> \o <<c>> \o <<t, m>> = <<a, c, t, m>>
    BY Spelled
<1>3. CASE advance /\ create
    BY <1>1, <1>2, <1>3 DEF ixs, t, m, c, a
<1>4. CASE advance /\ ~create
    BY <1>1, <1>2, <1>4 DEF ixs, t, m, c, a
<1>5. CASE ~advance /\ create
    BY <1>1, <1>2, <1>5 DEF ixs, t, m, c, a
<1>6. CASE ~advance /\ ~create
    BY <1>1, <1>2, <1>6 DEF ixs, t, m, c, a
<1> QED
    BY <1>3, <1>4, <1>5, <1>6

LEMMA BuiltOk ==
    ASSUME NEW advance \in BOOLEAN, NEW by, NEW create \in BOOLEAN,
           NEW to, NEW pool, NEW kind, NEW amount \in Nat, NEW memo
    PROVE  InstructionList(Built(advance, by, create, to, pool, kind, amount, memo))
<1> DEFINE ixs == Built(advance, by, create, to, pool, kind, amount, memo)
           t == Transfer(pool, kind, to, amount)
           m == Memo(memo)
           c == CreateAta(to)
           a == Advance(by)
<1>1. ixs \in {<<a, c, t, m>>, <<a, t, m>>, <<c, t, m>>, <<t, m>>}
    BY BuiltIs
<1>2. /\ t.prog = "allowance" /\ t.amount \in Nat
      /\ m.prog = "memo" /\ c.prog = "ata" /\ a.prog = "system"
    BY DEF Transfer, Memo, CreateAta, Advance
<1> HIDE DEF ixs, t, m, c, a
<1>3. /\ Len(ixs) \in Nat /\ DOMAIN ixs = 1..Len(ixs)
      /\ \A k \in DOMAIN ixs : ixs[k] \in {a, c, t, m}
    BY <1>1
<1> QED
    BY <1>2, <1>3 DEF InstructionList, InstructionsTyped, ixs

LEMMA FileStaysOk ==
    ASSUME SigningInv, [SignNext]_signVars
    PROVE  /\ args' # None => "amount" \in DOMAIN args' /\ args'.amount \in Nat
           /\ file' # None => FileOk(file')
<1> USE DEF SigningInv
<1>1. CASE \E tier \in {None} \cup 1..3 : Authorise(tier)
    BY <1>1, SigningAssumption DEF Authorise, Candidates, TierMatches
<1>2. CASE \E f \in {"receiver", "delegation", "memo"} : \E v : AlterArgs(f, v)
    BY <1>2 DEF AlterArgs
<1>3. CASE \E a \in Prices : AlterArgs("amount", a)
    BY <1>3, SigningAssumption DEF AlterArgs
<1>4. CASE Build
    <2> DEFINE w == chain.world
               pool == args.delegation
               to == Ata(args.receiver, w.mint[pool], w.program[w.mint[pool]])
               ixs == Built(Nonce # None, w.authority, to \notin chain.atas, to, pool, w.kind[pool],
                            args.amount, args.memo)
    <2>1. args' = None
        BY <1>4 DEF Build
    <2>2. \/ file' = None
          \/ file'.read = ixs /\ file'.runs = ixs /\ file'.wire = "v0"
        BY <1>4 DEF Build, Built
    <2>3. InstructionList(ixs)
        <3>1. args.amount \in Nat
            BY <1>4 DEF Build
        <3> QED
            BY <3>1, BuiltOk
    <2> HIDE DEF ixs
    <2> QED
        BY <2>1, <2>2, <2>3 DEF FileOk
<1>5. CASE Forge
    <2>1. PICK tx \in Forged : file' = [tx EXCEPT !.stamp = chain.nonce]
        BY <1>5 DEF Forge
    <2>2. file'.runs = tx.runs /\ file'.read = tx.read /\ file'.wire = tx.wire
        BY <2>1, ForgedAssumption
    <2> QED
        BY <1>5, <2>2, ForgedAssumption DEF Forge, FileOk, InstructionList, Readable
<1>6. CASE ForgePublish
    <2>1. PICK tx \in ForgedPublish : file' = [tx EXCEPT !.stamp = chain.nonce]
        BY <1>6 DEF ForgePublish
    <2>2. file'.runs = tx.runs /\ file'.read = tx.read /\ file'.wire = tx.wire
        BY <2>1, ForgedAssumption
    <2> QED
        BY <1>6, <2>2, ForgedAssumption DEF ForgePublish, FileOk, InstructionList, Readable
<1>7. CASE \/ UNCHANGED <<args, file>>
           \/ file' = None /\ UNCHANGED args
    BY <1>7
<1> QED
    BY <1>1, <1>2, <1>3, <1>4, <1>5, <1>6, <1>7
       DEF SignNext, Offer, Refuse, BroadcastPublish, Expire, PayCertified, Land, signVars

LEMMA SignedStaysHarmless ==
    ASSUME SigningInv, [SignNext]_signVars
    PROVE  \A tx \in signed' : PaysAsConfigured(tx.runs)
<1> USE DEF SigningInv
<1>1. CASE \E memo \in Memos \cup {None} : PayCertified(memo)
    BY <1>1, CertifiedPays DEF PayCertified
<1>2. CASE BroadcastPublish
    BY <1>2, PublishPays DEF BroadcastPublish
<1>3. CASE signed' = {} \/ UNCHANGED signed
    BY <1>3
<1> QED
    BY <1>1, <1>2, <1>3
       DEF SignNext, Offer, Authorise, Refuse, AlterArgs, Build, Forge, ForgePublish, Expire, Land, signVars

LEMMA LandingsPay ==
    ASSUME SigningInv, NEW tx, Land(tx)
    PROVE  ChainOk' /\ OnlyTheConfiguredPayment'
<1> USE DEF SigningInv, ChainOk, OnlyTheConfiguredPayment
<1> DEFINE ixs == tx.runs
<1>1. PaysAsConfigured(ixs)
    BY DEF Land
<1>2. /\ DOMAIN chain' = DOMAIN chain
      /\ chain'.remaining = [p \in Pools |-> chain.remaining[p] - AmountFrom(ixs, p)]
      /\ chain'.paid = [a \in Accounts |-> chain.paid[a] + AmountTo(ixs, a)]
      /\ chain'.lamports = chain.lamports + Lamports(ixs)
      /\ chain'.landings = chain.landings + 1
      /\ chain'.feeds = chain.feeds \cup {ixs[k].accounts[1] :
                            k \in {j \in DOMAIN ixs : ixs[j].prog = OracleProgram}}
    BY DEF Land
<1>3. /\ Delegation \in Pools /\ WantAta \in Accounts
      /\ MaxPriority \in Nat /\ PoolSize \in Nat
    BY SigningAssumption DEF WantAta, Ata, Accounts, Programs
<1> HIDE DEF ixs
<1>4. /\ \A p \in Pools : AmountFrom(ixs, p) \in Nat
      /\ \A a \in Accounts : AmountTo(ixs, a) \in Nat
      /\ Lamports(ixs) \in Nat /\ Lamports(ixs) <= MaxPriority
    BY <1>1, <1>3 DEF PaysAsConfigured
<1>5. ChainOk'
    BY <1>2, <1>4
<1>6. \A p \in Pools \ {Delegation} : chain'.remaining[p] = PoolSize
    BY <1>1, <1>2, <1>3 DEF PaysAsConfigured
<1>7. \A a \in Accounts \ {WantAta} : chain'.paid[a] = 0
    BY <1>1, <1>2 DEF PaysAsConfigured
<1>8. chain'.paid[WantAta] = PoolSize - chain'.remaining[Delegation]
    BY <1>1, <1>2, <1>3, <1>4 DEF PaysAsConfigured
<1>9. chain'.feeds \subseteq {Feed}
    BY <1>1, <1>2 DEF PaysAsConfigured
<1>10. chain'.lamports <= MaxPriority * chain'.landings
    <2>1. MaxPriority * (chain.landings + 1) = MaxPriority * chain.landings + MaxPriority
        BY <1>3
    <2>2. MaxPriority * chain.landings \in Nat
        BY <1>3
    <2> QED
        BY <1>2, <1>3, <1>4, <2>1, <2>2
<1> QED
    BY <1>5, <1>6, <1>7, <1>8, <1>9, <1>10

LEMMA SigningAlwaysInv == SignSpec => []SigningInv
<1>1. SignInit => SigningInv
    <2> SUFFICES ASSUME SignInit PROVE SigningInv
        OBVIOUS
    <2>1. /\ chain.remaining = [p \in Pools |-> PoolSize] /\ chain.feeds = {}
          /\ chain.paid = [a \in Accounts |-> 0]
          /\ chain.lamports = 0 /\ chain.landings = 0
          /\ DOMAIN chain = {"world", "remaining", "paid", "lamports", "atas", "nonce", "landings", "feeds"}
        BY DEF SignInit, NewChain
    <2>2. Delegation \in Pools /\ WantAta \in Accounts /\ MaxPriority \in Nat /\ PoolSize \in Nat
        BY SigningAssumption DEF WantAta, Ata, Accounts, Programs
    <2>3. ChainOk
        BY <2>1, <2>2 DEF ChainOk
    <2>4. OnlyTheConfiguredPayment
        BY <2>1, <2>2 DEF OnlyTheConfiguredPayment
    <2> QED
        BY <2>3, <2>4 DEF SigningInv, SignInit
<1>2. SigningInv /\ [SignNext]_signVars => SigningInv'
    <2> SUFFICES ASSUME SigningInv, [SignNext]_signVars PROVE SigningInv'
        OBVIOUS
    <2>1. ChainOk' /\ OnlyTheConfiguredPayment'
        <3>1. CASE \E tx \in signed : Land(tx)
            BY <3>1, LandingsPay
        <3>2. CASE Expire
            BY <3>2 DEF Expire, SigningInv, ChainOk, OnlyTheConfiguredPayment
        <3>3. CASE UNCHANGED chain
            BY <3>3 DEF SigningInv, ChainOk, OnlyTheConfiguredPayment
        <3> QED
            BY <3>1, <3>2, <3>3
               DEF SignNext, Offer, Authorise, Refuse, AlterArgs, Build, Forge, ForgePublish,
                   PayCertified, BroadcastPublish, signVars
    <2> QED
        BY <2>1, FileStaysOk, SignedStaysHarmless DEF SigningInv
<1> QED
    BY <1>1, <1>2, PTL DEF SignSpec

\* Whatever the seller wrote, the agent changed or the file held, for every
\* menu, every file, every ceiling and every pool: what leaves the configured
\* pool reaches the configured receiver, and nothing else moves.
THEOREM OnlyConfiguredPayments == SignSpec => []OnlyTheConfiguredPayment
<1>1. SigningInv => OnlyTheConfiguredPayment
    BY DEF SigningInv
<1> QED
    BY <1>1, SigningAlwaysInv, PTL

-----------------------------------------------------------------------------
(***************************************************************************)
(* CertifiedSigning: an untouched purchase is signed.                      *)
(***************************************************************************)

\* What the builder makes of arguments the plugin authorised, of a purchase both
\* readers know.
HonestFile(tx) ==
    \E create \in BOOLEAN, amount \in 1..Ceiling : \E memo :
        /\ tx.read = Built(Nonce # None, Agent, create, WantAta, Delegation, "fixed", amount, memo)
        /\ tx.wire = "v0" /\ tx.slots = 1

HonestInv ==
    /\ menu # None => args = None /\ file = None
    /\ args # None => file = None
    /\ honest /\ args # None =>
          args.receiver = Receiver /\ args.delegation = Delegation /\ args.amount \in 1..Ceiling
    /\ honest /\ file # None /\ BothReadersKnow => HonestFile(file)

\* What the chain holds of pools, mints and the nonce account stays.
LEMMA WorldStays ==
    ASSUME SigningInv, [SignNext]_signVars
    PROVE  BothReadersKnow' <=> BothReadersKnow
<1>1. "world" \in DOMAIN chain
    BY DEF SigningInv, ChainOk
<1>2. chain'.world = chain.world
    BY <1>1 DEF SignNext, Offer, Authorise, Refuse, AlterArgs, Build, Forge, ForgePublish,
                PayCertified, BroadcastPublish, Land, Expire, signVars
<1> QED
    BY <1>2 DEF BothReadersKnow

LEMMA HonestIsCertified ==
    ASSUME NEW tx, HonestFile(tx), NEW memo, memo # None, Last(tx.read) = Memo(memo)
    PROVE  Certified(tx, memo) /\ OneSlot(tx)
<1>1. PICK create \in BOOLEAN, amount \in 1..Ceiling : \E text :
        /\ tx.read = Built(Nonce # None, Agent, create, WantAta, Delegation, "fixed", amount, text)
        /\ tx.wire = "v0" /\ tx.slots = 1
    BY DEF HonestFile
<1>2. PICK text :
        /\ tx.read = Built(Nonce # None, Agent, create, WantAta, Delegation, "fixed", amount, text)
        /\ tx.wire = "v0" /\ tx.slots = 1
    BY <1>1
<1> DEFINE ixs == tx.read
           t == Transfer(Delegation, "fixed", WantAta, amount)
           m == Memo(text)
           c == CreateAta(WantAta)
           a == Advance(Agent)
<1>3. \/ Nonce # None /\ ixs = <<a, c, t, m>>
      \/ Nonce # None /\ ixs = <<a, t, m>>
      \/ Nonce = None /\ ixs = <<c, t, m>>
      \/ Nonce = None /\ ixs = <<t, m>>
    <2> DEFINE advance == Nonce # None
    <2>1. advance \in BOOLEAN /\ ixs = Built(advance, Agent, create, WantAta, Delegation, "fixed", amount, text)
        BY <1>2
    <2> HIDE DEF advance, ixs, t, m, c, a
    <2>2. \/ advance /\ create /\ ixs = <<a, c, t, m>>
          \/ advance /\ ~create /\ ixs = <<a, t, m>>
          \/ ~advance /\ create /\ ixs = <<c, t, m>>
          \/ ~advance /\ ~create /\ ixs = <<t, m>>
        BY <2>1, BuiltIs DEF t, m, c, a
    <2> QED
        BY <2>2 DEF advance
<1>4. /\ t.prog = "allowance" /\ t.accounts.delegatee = Agent /\ SpendIsIntended(t)
      /\ m.prog = "memo" /\ c.prog = "ata" /\ AtaAllowed(c)
      /\ a.prog = "system" /\ a.authority = Agent
      /\ Nonce # None => SystemAllowed(a)
    <2>1. WantAta[2] = Mint /\ WantAta[3] = "token" /\ Ceiling \in Nat
        BY SigningAssumption DEF WantAta, Ata, Accounts, Programs
    <2> QED
        BY <2>1 DEF Transfer, Memo, CreateAta, Advance, SpendIsIntended, AtaAllowed, SystemAllowed
<1> HIDE DEF ixs, t, m, c, a
<1>5. \/ Nonce # None /\ Len(ixs) = 4 /\ DOMAIN ixs = 1..4
           /\ ixs[1] = a /\ ixs[2] = c /\ ixs[3] = t /\ ixs[4] = m
      \/ Nonce # None /\ Len(ixs) = 3 /\ DOMAIN ixs = 1..3
           /\ ixs[1] = a /\ ixs[2] = t /\ ixs[3] = m
      \/ Nonce = None /\ Len(ixs) = 3 /\ DOMAIN ixs = 1..3
           /\ ixs[1] = c /\ ixs[2] = t /\ ixs[3] = m
      \/ Nonce = None /\ Len(ixs) = 2 /\ DOMAIN ixs = 1..2
           /\ ixs[1] = t /\ ixs[2] = m
    BY <1>3
<1>6. m = Memo(memo)
    BY <1>5 DEF Last, ixs
<1>7. \E k \in DOMAIN ixs : Of(ixs, "allowance") = {k} /\ ixs[k] = t
    BY <1>4, <1>5 DEF Of
<1>8. \E k \in DOMAIN ixs : Of(ixs, "memo") = {k} /\ ixs[k] = m
    BY <1>4, <1>5 DEF Of
<1>9. Of(ixs, "system") = IF Nonce = None THEN {} ELSE {1}
    BY <1>4, <1>5 DEF Of
<1>10. Nonce # None => ixs[1] = a
    BY <1>5
<1>11. AdvanceIsOurs(ixs)
    BY <1>4, <1>7, <1>9, <1>10 DEF AdvanceIsOurs
<1>12. \A k \in DOMAIN ixs : ixs[k] \in {a, c, t, m} /\ (ixs[k] = a => Nonce # None)
    BY <1>4, <1>5
<1>13. \A k \in DOMAIN ixs : Permitted(ixs, k)
    BY <1>4, <1>12 DEF Permitted
<1>14. ixs # <<>>
    BY <1>5
<1>15. MemoIsExpected(ixs, memo)
    BY <1>6, <1>8 DEF MemoIsExpected
<1>16. \E k \in DOMAIN ixs : Of(ixs, "allowance") = {k} /\ SpendIsIntended(ixs[k])
    BY <1>4, <1>7
<1> QED
    BY <1>2, <1>11, <1>13, <1>14, <1>15, <1>16 DEF Certified, Readable, OneSlot, ixs

LEMMA HonestAlwaysInv == SignSpec => []HonestInv
<1>1. SignInit => HonestInv
    BY DEF SignInit, HonestInv
<1>2. SigningInv /\ HonestInv /\ [SignNext]_signVars => HonestInv'
    <2> SUFFICES ASSUME SigningInv, HonestInv, [SignNext]_signVars PROVE HonestInv'
        OBVIOUS
    <2>0. BothReadersKnow' <=> BothReadersKnow
        BY WorldStays
    <2> USE DEF HonestInv
    <2>1. CASE \E options \in Menus : Offer(options)
        BY <2>0, <2>1 DEF Offer, Resting
    <2>2. CASE \E tier \in {None} \cup 1..3 : Authorise(tier)
        BY <2>0, <2>2 DEF Authorise, Candidates, TierMatches
    <2>3. CASE \E tier \in {None} \cup 1..3 : Refuse(tier)
        BY <2>0, <2>3 DEF Refuse
    <2>4. CASE \E field, value : AlterArgs(field, value)
        BY <2>0, <2>4 DEF AlterArgs
    <2>5. CASE Build
        <3> DEFINE ixs == Built(Nonce # None, Agent, WantAta \notin chain.atas, WantAta,
                                Delegation, "fixed", args.amount, args.memo)
        <3>1. args # None /\ args' = None /\ UNCHANGED <<menu, honest>>
            BY <2>5 DEF Build
        <3>2. ASSUME honest, BothReadersKnow, file' # None
              PROVE  file'.read = ixs /\ file'.wire = "v0" /\ file'.slots = 1
            <4> DEFINE w == chain.world
                       pool == args.delegation
                       to == Ata(args.receiver, w.mint[pool], w.program[w.mint[pool]])
            <4>1. /\ pool = Delegation /\ args.receiver = Receiver /\ w.kind[pool] = "fixed"
                  /\ w.mint[pool] = Mint /\ w.program[w.mint[pool]] = "token"
                  /\ Nonce # None => w.authority = Agent
                BY <3>1, <3>2 DEF BothReadersKnow
            <4>2. to = WantAta
                BY <4>1 DEF WantAta
            <4>3. /\ file'.read = Built(Nonce # None, w.authority, to \notin chain.atas, to, pool,
                                        w.kind[pool], args.amount, args.memo)
                  /\ file'.wire = "v0"
                  /\ file'.slots = IF Nonce # None /\ w.authority # Agent THEN 2 ELSE 1
                BY <2>5, <3>2 DEF Build, Built
            <4>4. When(Nonce # None, Advance(w.authority)) = When(Nonce # None, Advance(Agent))
                BY <4>1 DEF When
            <4> QED
                BY <4>1, <4>2, <4>3, <4>4 DEF Built
        <3>3. honest /\ file' # None /\ BothReadersKnow => HonestFile(file')
            BY <3>1, <3>2 DEF HonestFile
        <3> QED
            BY <2>0, <3>1, <3>3
    <2>6. CASE Forge \/ ForgePublish
        BY <2>0, <2>6 DEF Forge, ForgePublish, Resting
    <2>7. CASE BroadcastPublish \/ (\E memo \in Memos \cup {None} : PayCertified(memo))
        BY <2>0, <2>7 DEF BroadcastPublish, PayCertified
    <2>8. CASE UNCHANGED <<menu, args, file, honest>>
        BY <2>0, <2>8
    <2> QED
        BY <2>1, <2>2, <2>3, <2>4, <2>5, <2>6, <2>7, <2>8 DEF SignNext, Expire, Land, signVars
<1> QED
    BY <1>1, <1>2, SigningAlwaysInv, PTL DEF SignSpec

\* A purchase of the kind both readers know that the plugin authorised and nobody
\* touched passes the second reader, for every configuration: with or without a nonce
\* account, whatever the menu, and whether or not the receiver's token account exists.
THEOREM HonestPurchasesAreSigned == SignSpec => HonestIsSigned
<1>1. HonestInv /\ [SignNext]_signVars =>
        [\A memo \in Memos :
            /\ PayCertified(memo) /\ honest /\ Last(file.read) = Memo(memo)
            /\ BothReadersKnow
            => file \in signed']_signVars
    <2> SUFFICES ASSUME HonestInv, NEW memo \in Memos, BothReadersKnow,
                        PayCertified(memo), honest, Last(file.read) = Memo(memo)
                 PROVE  file \in signed'
        OBVIOUS
    <2>1. HonestFile(file) /\ memo # None
        BY SigningAssumption DEF HonestInv, PayCertified
    <2>2. Certified(file, memo) /\ OneSlot(file)
        BY <2>1, HonestIsCertified
    <2> QED
        BY <2>2 DEF PayCertified
<1> QED
    BY <1>1, HonestAlwaysInv, PTL DEF SignSpec, HonestIsSigned
=============================================================================
