-------------------------------- MODULE PayLink --------------------------------
(***************************************************************************)
(* Pricing an order: the agent converts reais to USDC at the rate that      *)
(* rate_crosscheck.py printed, composes a Solana Pay URL, and pay_link.py   *)
(* turns it into a link after reading the sources again.  The central bank  *)
(* publishes while this goes on, the agent may recall any of its earlier     *)
(* orders instead, and either script may fail to reach a source.            *)
(* Rates are in tenths, order values in whole reais, amounts in cents.      *)
(***************************************************************************)
EXTENDS Integers, Sequences, FiniteSets, FiniteSetsExt, SequencesExt

CONSTANTS
    MERCHANT, MINT, LABEL,          \* pinned in pay_link.py
    MAX_WALKBACK_DAYS,
    MIN_PLAUSIBLE, MAX_PLAUSIBLE,
    MIN_ORDER_BRL, MAX_ORDER_BRL,
    Rates,                          \* what the two sources may publish
    Orders,                         \* [brl, quote]: a value, and the figures its message names, in order
    Values,                         \* order values the agent may recall
    Recipients, ReadMints, Labels,  \* what the agent may put in a URL: the pinned one and one it recalls
    Blank,                          \* an empty spl-token
    Absent

ASSUME PayLinkAssumption ==
    /\ MAX_WALKBACK_DAYS \in Nat /\ Rates \subseteq Nat \ {0} /\ Values \subseteq Nat
    /\ {MIN_PLAUSIBLE, MAX_PLAUSIBLE, MAX_ORDER_BRL} \subseteq Nat /\ MIN_ORDER_BRL \in Nat \ {0}
    /\ Orders \subseteq [brl : Nat, quote : Seq(Nat)]
    /\ Absent \notin Nat /\ Absent \notin Seq(Nat)
    /\ MERCHANT \in Recipients /\ MINT \in ReadMints \ {Blank} /\ LABEL \in Labels

VARIABLES
    bcb, ecb,    \* [days back -> the rate published for that day, or Absent]
    noted,       \* the rate the agent converts at, or Absent
    asked        \* the last run of pay_link.py: its arguments and outcome, or Absent
linkVars == <<bcb, ecb, noted, asked>>

Days == 0..MAX_WALKBACK_DAYS
Apart(a, b) == IF a > b THEN a - b ELSE b - a
----------------------------------------------------------------------------
(* The sources.                                                             *)

Midnight ==
    /\ bcb' = [b \in Days |-> IF b = 0 THEN Absent ELSE bcb[b - 1]]
    /\ ecb' = [b \in Days |-> IF b = 0 THEN Absent ELSE ecb[b - 1]]
    /\ asked' = Absent
    /\ UNCHANGED noted

PublishBcb(r) == bcb[0] = Absent /\ bcb' = [bcb EXCEPT ![0] = r] /\ asked' = Absent
                 /\ UNCHANGED <<ecb, noted>>
PublishEcb(r) == ecb[0] = Absent /\ ecb' = [ecb EXCEPT ![0] = r] /\ asked' = Absent
                 /\ UNCHANGED <<bcb, noted>>

\* latest_ptax, and the walk at the head of fetch_rate: the day of the newest
\* row not older than the walk allows.
LatestPtax == LET days == {b \in Days : bcb[b] # Absent} IN IF days = {} THEN Absent ELSE Min(days)

\* The mirror answers a day without a fixing with the one before, under its own date.
EcbDay(b) == LET days == {d \in Days : d >= b /\ ecb[d] # Absent} IN IF days = {} THEN Absent ELSE Min(days)

InBand(r) == r \in MIN_PLAUSIBLE..MAX_PLAUSIBLE
Mean2(a, b) == a + b                           \* twice the mean
\* Over 2.5%.  rate_crosscheck computes in binary floats, whose rounding
\* decides a divergence of exactly 2.5% either way.
Diverges(a, b)  == 80 * Apart(a, b) > Mean2(a, b)
OnTheLine(a, b) == 80 * Apart(a, b) = Mean2(a, b)

\* adjudicate
Adjudicate(b, tieRefused) ==
    /\ EcbDay(b) = b
    /\ InBand(bcb[b]) /\ InBand(ecb[b])
    /\ ~Diverges(bcb[b], ecb[b]) /\ ~(OnTheLine(bcb[b], ecb[b]) /\ tieRefused)

\* rate_crosscheck.py: a refusal, or a source that cannot be reached, prints no rate.
CrossCheck(tieRefused) ==
    /\ LatestPtax # Absent /\ Adjudicate(LatestPtax, tieRefused)
    /\ noted' = bcb[LatestPtax]
    /\ asked' = Absent
    /\ UNCHANGED <<bcb, ecb>>
----------------------------------------------------------------------------
(* pay_link.py.                                                             *)

\* fetch_rate, in exact decimals
Corroborated(b) ==
    /\ EcbDay(b) = b
    /\ InBand(bcb[b]) /\ InBand(ecb[b])
    /\ ~Diverges(bcb[b], ecb[b])
FetchRate == IF LatestPtax # Absent /\ Corroborated(LatestPtax) THEN bcb[LatestPtax] ELSE Absent

\* The division to two places, half up.
Cents(brl, rate) == (2000 * brl + rate) \div (2 * rate)

\* Repeated figures count once in the sum.
AdmissibleRepeats(quote) == ToSet(quote) \cup {FoldSeq(+, 0, quote)}
Admissible(quote) == LET distinct == ToSet(quote) IN distinct \cup {SumSet(distinct)}

\* A key that appears twice is read differently by different wallets.
OnceOrTwice(values) == Len(values) <= 2
Once(values) == Len(values) <= 1

RecipientOk(url) == url.recipient = MERCHANT
\* No spl-token and an empty one are the same thing.
MintOk(url) ==
    /\ Once(url.mints)
    /\ url.mints \in {<<>>, <<Blank>>} => url.amounts = <<>>
    /\ \A i \in DOMAIN url.mints : url.mints[i] \in {MINT, Blank}
LabelOk(url) == Once(url.labels) /\ (url.labels # <<>> => url.labels[1] = LABEL)

ValueOk(brl, quote) ==
    /\ brl \in MIN_ORDER_BRL..MAX_ORDER_BRL
    /\ quote # Absent /\ quote # <<>> /\ brl \in Admissible(quote)

\* --rate may only refuse.
ClaimOk(claim, rate) == claim # Absent => 40 * Apart(claim, rate) <= rate

AmountOk(url, brl, rate) == Len(url.amounts) = 1 /\ url.amounts[1] = Cents(brl, rate)

Accepts(a) ==
    /\ RecipientOk(a.url) /\ MintOk(a.url) /\ LabelOk(a.url)
    /\ a.brl = Absent => a.quote = Absent /\ a.claim = Absent
    /\ a.brl # Absent =>
        /\ ValueOk(a.brl, a.quote)
        /\ a.reached /\ FetchRate # Absent
        /\ ClaimOk(a.claim, FetchRate)
        /\ AmountOk(a.url, a.brl, FetchRate)

PayLink(a) == asked' = [args |-> a, printed |-> Accepts(a)] /\ UNCHANGED <<bcb, ecb, noted>>
----------------------------------------------------------------------------
(* The agent: an order composed as the skill tells it, or one field of it    *)
(* taken from elsewhere.  A URL's keys are what their letters spell; the    *)
(* entries whose key has a percent-encoded letter are in `encoded`, and the *)
(* script, which compares the raw keys, looks at none of them.              *)

Asks(order) ==
    [url |-> [recipient |-> MERCHANT, mints |-> <<MINT>>, labels |-> <<LABEL>>,
              amounts |-> IF noted = Absent THEN <<>> ELSE <<Cents(order.brl, noted)>>,
              encoded |-> {}],
     brl |-> order.brl, quote |-> order.quote, claim |-> Absent, reached |-> TRUE]

UpTo2(S) == UNION {[1..n -> S] : n \in 0..2}

Altered(a) ==
    {a, [a EXCEPT !.reached = FALSE], [a EXCEPT !.quote = Absent], [a EXCEPT !.quote = <<>>],
     [a EXCEPT !.brl = Absent, !.quote = Absent]}
    \cup {[a EXCEPT !.brl = v] : v \in Values}
    \cup {[a EXCEPT !.url.recipient = r] : r \in Recipients}
    \cup {[a EXCEPT !.url.mints = ms] : ms \in UpTo2(ReadMints)}
    \cup {[a EXCEPT !.url.labels = ls] : ls \in UpTo2(Labels)}
    \cup {[a EXCEPT !.url.amounts = as] : as \in UpTo2({Cents(a.brl, r) : r \in Rates})}
    \cup {[a EXCEPT !.url.encoded = {e}] :
             e \in {<<"mints", x>> : x \in ReadMints} \cup {<<"labels", x>> : x \in Labels}
                   \cup {<<"amounts", Cents(a.brl, r)>> : r \in Rates}}
    \cup {[a EXCEPT !.claim = r] : r \in Rates}

LinkInit ==
    /\ bcb = [b \in Days |-> Absent] /\ ecb = [b \in Days |-> Absent]
    /\ noted = Absent /\ asked = Absent

LinkNext ==
    \/ Midnight
    \/ \E r \in Rates : PublishBcb(r) \/ PublishEcb(r)
    \/ \E tieRefused \in BOOLEAN : CrossCheck(tieRefused)
    \/ /\ asked = Absent     \* one run at a time
       /\ \E order \in Orders : \E a \in Altered(Asks(order)) : PayLink(a)
LinkSpec == LinkInit /\ [][LinkNext]_linkVars
----------------------------------------------------------------------------
(* Properties.                                                              *)

\* The values under a key that the page, or a wallet, may read.
Readings(url, key) ==
    {url[key][i] : i \in DOMAIN url[key]} \cup {e[2] : e \in {x \in url.encoded : x[1] = key}}

\* Rounding to the nearest cent, halves up, without dividing.
Nearest(cents, brl, rate) == 2000 * brl - rate < 2 * rate * cents /\ 2 * rate * cents <= 2000 * brl + rate

\* A published rate that both sources carry for the same day, the newest the
\* central bank has, inside the band and within 2.5% of the other's.
Published(rate) ==
    \E b \in Days :
        /\ bcb[b] = rate /\ ecb[b] # Absent /\ \A d \in 0..(b - 1) : bcb[d] = Absent
        /\ {rate, ecb[b]} \subseteq MIN_PLAUSIBLE..MAX_PLAUSIBLE
        /\ 2000 * Apart(rate, ecb[b]) <= 25 * (rate + ecb[b])

\* The figures some part of the message names, each counted once.
Derivable(brl, quote) ==
    \E S \in SUBSET ToSet(quote) : brl = SumSet(S) /\ (Cardinality(S) = 1 \/ S = ToSet(quote))

\* A printed link pays this shop; whichever copy of a key a wallet reads, it
\* reads this shop's mint and, with an amount, no other mint and not none; and a
\* priced link asks for what the customer's words come to at a rate both sources
\* carry, whatever the agent recalled and whenever the sources published.  That is
\* of links without a percent-encoded key, which the page and wallets decode and
\* the script does not (README, section 4).
LinkAsksTheOrder ==
    asked # Absent /\ asked.printed /\ asked.args.url.encoded = {} =>
        LET url     == asked.args.url
            mints   == Readings(url, "mints")
            amounts == Readings(url, "amounts") IN
        /\ url.recipient = MERCHANT
        /\ mints \subseteq {MINT, Blank}
        /\ amounts # {} => mints = {MINT}
        /\ Readings(url, "labels") \subseteq {LABEL}
        /\ asked.args.brl # Absent =>
            /\ Derivable(asked.args.brl, asked.args.quote)
            /\ amounts # {}
            /\ \A x \in amounts :
                  \E rate \in Rates : Published(rate) /\ Nearest(x, asked.args.brl, rate)

\* An order composed as the skill says, at the rate the sources still give, is
\* never turned away while they answer: the two scripts' copies of the rules agree.
HonestOrderIsLinked ==
    [][\A order \in Orders :
          /\ asked' # Absent /\ noted # Absent
          /\ asked'.args = Asks(order)
          /\ order.brl \in MIN_ORDER_BRL..MAX_ORDER_BRL /\ Derivable(order.brl, order.quote)
          /\ Published(noted)
          => asked'.printed]_linkVars
=============================================================================
