--------------------------- MODULE FeedGateProofs ---------------------------
(***************************************************************************)
(* Proofs about the x402 gate, for every set of payments, every cap and    *)
(* price, any number of crashes, and any behaviour of the cluster: the     *)
(* sums its properties speak of, the ledger by itself, the gate, and the   *)
(* reading of a presented transaction.                                     *)
(***************************************************************************)
EXTENDS FeedGate, PaymentCheck, FiniteSetTheorems, WellFoundedInduction, TLAPS

-----------------------------------------------------------------------------
(***************************************************************************)
(* Sums over a set.  Units is a fold: a function over the subsets of the   *)
(* set, chosen by the recursion it satisfies, that takes one element away  *)
(* at a time.  What is wanted of it is that the order does not matter, by  *)
(* induction on the size of the set.                                       *)
(***************************************************************************)

\* The element a sum takes first, what a function on sets says of a set's sum by
\* way of the rest, and the sums of all subsets of one set.
Pick(s) == CHOOSE x \in s : TRUE
Plus(f, s) == IF s = {} THEN 0 ELSE Pick(s).amount + f[s \ {Pick(s)}]
Adds(f, D) == f = [s \in D |-> Plus(f, s)]
UnitsIn(S) == CHOOSE f : Adds(f, SUBSET S)

LEMMA PickIn == ASSUME NEW s, s # {} PROVE Pick(s) \in s
BY DEF Pick

LEMMA UnitsUnfold == ASSUME NEW S PROVE Units(S) = UnitsIn(S)[S]
BY DEF Units, UnitsIn, Adds, Plus, Pick, MapThenSumSet, MapThenFoldSet

LEMMA LeastNat == ASSUME NEW N \in SUBSET Nat, N # {}
                  PROVE  \E n \in N : \A m \in N : n <= m
<1>1. PICK n \in N : \A m \in N : <<m, n>> \notin OpToRel(<, Nat)
    BY NatLessThanWellFounded, WFMin, Zenon
<1>2. \A m \in N : ~(m < n)
    BY <1>1 DEF OpToRel
<1> QED
    BY <1>2

LEMMA SubsetSizes ==
    ASSUME NEW S, IsFiniteSet(S), NEW s \in SUBSET S
    PROVE  /\ IsFiniteSet(s) /\ Cardinality(s) \in Nat /\ (Cardinality(s) = 0 <=> s = {})
           /\ Cardinality(s) <= Cardinality(S)
           /\ \A x \in s : Cardinality(s \ {x}) = Cardinality(s) - 1
BY FS_Subset, FS_CardinalityType, FS_EmptySet, FS_RemoveElement

\* A claim about a set that fails, fails of a smallest subset: what the proofs
\* by induction on a set below rest on.
LEMMA SmallestSet ==
    ASSUME NEW S, IsFiniteSet(S), NEW Bad \in SUBSET SUBSET S, Bad # {}
    PROVE  \E s \in Bad : \A x \in s : s \ {x} \notin Bad
<1> DEFINE sizes == {Cardinality(s) : s \in Bad}
<1>1. sizes \in SUBSET Nat /\ sizes # {}
    BY SubsetSizes
<1>2. PICK n \in sizes : \A m \in sizes : n <= m
    BY <1>1, LeastNat
<1>3. PICK s \in Bad : Cardinality(s) = n
    BY <1>2
<1>4. ASSUME NEW x \in s, s \ {x} \in Bad PROVE FALSE
    <2>1. Cardinality(s \ {x}) = n - 1 /\ n \in Nat
        BY <1>1, <1>2, <1>3, SubsetSizes
    <2> QED
        BY <1>2, <1>4, <2>1
<1> QED
    BY <1>3, <1>4

\* There is a function that sums all subsets of a finite set, by induction on the
\* size of the subsets it sums.
LEMMA UnitsInExists ==
    ASSUME NEW S, IsFiniteSet(S)
    PROVE  \E f : Adds(f, SUBSET S)
<1> DEFINE Upto(n) == {s \in SUBSET S : Cardinality(s) <= n}
           bad == {n \in Nat : ~\E f : Adds(f, Upto(n))}
<1>1. \A s \in SUBSET S : /\ Cardinality(s) \in Nat /\ Cardinality(s) <= Cardinality(S)
                          /\ Cardinality(s) = 0 <=> s = {}
                          /\ \A x \in s : Cardinality(s \ {x}) = Cardinality(s) - 1
    BY SubsetSizes
<1>2. bad = {}
    <2> SUFFICES ASSUME bad # {} PROVE FALSE
        OBVIOUS
    <2>1. PICK n \in bad : \A m \in bad : n <= m
        BY LeastNat, bad \in SUBSET Nat
    <2>n. n \in Nat
        BY <2>1
    <2>2. n # 0
        <3> SUFFICES ASSUME n = 0 PROVE FALSE
            OBVIOUS
        <3>1. \A s \in Upto(0) : s = {}
            BY <1>1
        <3> DEFINE f == [s \in Upto(0) |-> 0]
        <3>2. f = [s \in Upto(0) |-> Plus(f, s)]
            BY <3>1 DEF Plus
        <3> QED
            BY <2>1, <3>2 DEF Adds
    <2>3. n - 1 \in Nat /\ n - 1 \notin bad
        <3>1. n - 1 \in Nat /\ ~(n <= n - 1)
            BY <2>n, <2>2
        <3> QED
            BY <2>1, <3>1
    <2>4. PICK f : Adds(f, Upto(n - 1))
        BY <2>3
    <2> DEFINE g == [s \in Upto(n) |-> Plus(f, s)]
    <2>5. ASSUME NEW s \in Upto(n), s # {} PROVE s \ {Pick(s)} \in Upto(n - 1)
        <3>1. Cardinality(s \ {Pick(s)}) = Cardinality(s) - 1
            BY <1>1, <2>5, PickIn
        <3> QED
            BY <1>1, <2>5, <2>n, <3>1
    <2>6. ASSUME NEW s \in Upto(n - 1) PROVE s \in Upto(n) /\ g[s] = f[s]
        <3>1. s \in Upto(n)
            BY <1>1, <2>n
        <3>2. f[s] = Plus(f, s)
            BY <2>4 DEF Adds
        <3> QED
            BY <3>1, <3>2
    <2>7. ASSUME NEW s \in Upto(n) PROVE Plus(f, s) = Plus(g, s)
        BY <2>5, <2>6, <2>7 DEF Plus
    <2>8. Adds(g, Upto(n))
        BY <2>7 DEF Adds
    <2> QED
        BY <2>1, <2>8
<1>3. Cardinality(S) \in Nat /\ Upto(Cardinality(S)) = SUBSET S
    BY <1>1, FS_CardinalityType
<1> QED
    BY <1>2, <1>3

LEMMA UnitsInAdds == ASSUME NEW S, IsFiniteSet(S) PROVE Adds(UnitsIn(S), SUBSET S)
BY UnitsInExists DEF UnitsIn

\* The sum of a set does not depend on the set it is taken in.
LEMMA UnitsInAgree ==
    ASSUME NEW T, IsFiniteSet(T), NEW S \in SUBSET T
    PROVE  UnitsIn(S)[S] = UnitsIn(T)[S]
<1> DEFINE bad == {s \in SUBSET S : UnitsIn(S)[s] # UnitsIn(T)[s]}
<1>1. IsFiniteSet(S) /\ Adds(UnitsIn(S), SUBSET S) /\ Adds(UnitsIn(T), SUBSET T)
    BY UnitsInAdds, FS_Subset
<1>2. bad = {}
    <2> SUFFICES ASSUME bad # {} PROVE FALSE
        OBVIOUS
    <2>1. PICK s \in bad : \A x \in s : s \ {x} \notin bad
        BY <1>1, SmallestSet
    <2>2. s \in SUBSET S /\ s \in SUBSET T
        BY <2>1
    <2>3. UnitsIn(S)[s] = Plus(UnitsIn(S), s) /\ UnitsIn(T)[s] = Plus(UnitsIn(T), s)
        BY <1>1, <2>2 DEF Adds
    <2>4. s # {} => UnitsIn(S)[s \ {Pick(s)}] = UnitsIn(T)[s \ {Pick(s)}]
        BY <2>1, <2>2, PickIn
    <2> QED
        BY <2>1, <2>3, <2>4 DEF Plus
<1> QED
    BY <1>2

LEMMA UnitsStep ==
    ASSUME NEW S, IsFiniteSet(S)
    PROVE  Units(S) = IF S = {} THEN 0 ELSE Pick(S).amount + Units(S \ {Pick(S)})
<1>1. UnitsIn(S)[S] = Plus(UnitsIn(S), S)
    BY UnitsInAdds DEF Adds
<1>2. UnitsIn(S \ {Pick(S)})[S \ {Pick(S)}] = UnitsIn(S)[S \ {Pick(S)}]
    BY UnitsInAgree
<1> QED
    BY <1>1, <1>2, UnitsUnfold DEF Plus

\* What can be summed.
Metered(S) == IsFiniteSet(S) /\ \A r \in S : r.amount \in Nat

LEMMA UnitsNat == ASSUME NEW S, Metered(S) PROVE Units(S) \in Nat
<1> DEFINE bad == {s \in SUBSET S : Units(s) \notin Nat}
<1> SUFFICES ASSUME bad # {} PROVE FALSE
    OBVIOUS
<1>1. PICK s \in bad : \A x \in s : s \ {x} \notin bad
    BY SmallestSet DEF Metered
<1>2. IsFiniteSet(s) /\ \A x \in s : x.amount \in Nat
    BY <1>1, FS_Subset DEF Metered
<1>3. s # {} => Pick(s).amount \in Nat /\ Units(s \ {Pick(s)}) \in Nat
    BY <1>1, <1>2, PickIn
<1> QED
    BY <1>1, <1>2, <1>3, UnitsStep

\* The sum of the amounts of a set is that of one element and of the rest,
\* whichever element it is.
LEMMA UnitsRemove ==
    ASSUME NEW S, Metered(S)
    PROVE  /\ Units(S) \in Nat
           /\ \A e \in S : Units(S) = e.amount + Units(S \ {e})
<1> DEFINE Good(s) == /\ Units(s) \in Nat
                      /\ \A e \in s : Units(s) = e.amount + Units(s \ {e})
           bad == {s \in SUBSET S : ~Good(s)}
<1> SUFFICES ASSUME bad # {} PROVE FALSE
    OBVIOUS
<1>1. PICK s \in bad : \A x \in s : s \ {x} \notin bad
    BY SmallestSet DEF Metered
<1>2. \A x \in s : Good(s \ {x})
    BY <1>1
<1>3. IsFiniteSet(s) /\ \A x \in s : x.amount \in Nat
    BY <1>1, FS_Subset DEF Metered
<1> HIDE DEF bad
<1>4. CASE s = {}
    <2>1. Units(s) = 0
        BY <1>3, <1>4, UnitsStep
    <2>2. Good(s)
        BY <1>4, <2>1
    <2> QED
        BY <1>1, <2>2 DEF bad
<1>5. CASE s # {}
    <2> DEFINE p == Pick(s)
    <2>1. p \in s /\ Units(s) = p.amount + Units(s \ {p})
        BY <1>3, <1>5, PickIn, UnitsStep
    <2>2. Units(s) \in Nat
        BY <1>2, <1>3, <2>1
    <2>3. ASSUME NEW e \in s PROVE Units(s) = e.amount + Units(s \ {e})
        <3>1. CASE e = p
            BY <2>1, <3>1
        <3>2. CASE e # p
            <4>1. e \in s \ {p} /\ p \in s \ {e} /\ (s \ {p}) \ {e} = (s \ {e}) \ {p}
                BY <2>1, <3>2
            <4>2. Units(s \ {p}) = e.amount + Units((s \ {p}) \ {e})
                BY <1>2, <2>1, <4>1
            <4>3. /\ Units(s \ {e}) = p.amount + Units((s \ {p}) \ {e})
                  /\ Units(s \ {e}) \in Nat /\ Units(s \ {p}) \in Nat
                BY <1>2, <2>1, <4>1
            <4>4. Units((s \ {p}) \ {e}) \in Int
                <5>2. IsFiniteSet((s \ {e}) \ {p})
                    BY <1>3, FS_Subset
                <5>3. Metered((s \ {e}) \ {p})
                    BY <1>3, <5>2 DEF Metered
                <5> QED
                    BY <4>1, <5>3, UnitsNat
            <4> HIDE DEF p
            <4> QED
                BY <1>3, <2>1, <4>2, <4>3, <4>4
        <3> QED
            BY <3>1, <3>2
    <2> QED
        BY <1>1, <2>2, <2>3 DEF bad
<1> QED
    BY <1>4, <1>5

LEMMA UnitsAdd ==
    ASSUME NEW S, Metered(S), NEW e, e \notin S, e.amount \in Nat
    PROVE  Metered(S \cup {e}) /\ Units(S \cup {e}) = e.amount + Units(S)
<1>1. Metered(S \cup {e})
    BY FS_AddElement DEF Metered
<1>2. (S \cup {e}) \ {e} = S
    OBVIOUS
<1> QED
    BY <1>1, <1>2, UnitsRemove

LEMMA UnitsSubset ==
    ASSUME NEW T, Metered(T), NEW S \in SUBSET T
    PROVE  Metered(S) /\ Units(S) <= Units(T)
<1>1. \A s \in SUBSET T : Metered(s) /\ Units(s) \in Nat
    BY FS_Subset, UnitsNat DEF Metered
<1> DEFINE bad == {s \in SUBSET T : ~(Units(T \ s) <= Units(T))}
<1>2. bad = {}
    <2> SUFFICES ASSUME bad # {} PROVE FALSE
        OBVIOUS
    <2>1. PICK s \in bad : \A x \in s : s \ {x} \notin bad
        BY SmallestSet DEF Metered
    <2>2. s # {}
        <3> SUFFICES ASSUME s = {} PROVE FALSE
            OBVIOUS
        <3>1. T \ s = T /\ Units(T) \in Nat
            BY <1>1
        <3> QED
            BY <2>1, <3>1
    <2>3. PICK x \in s : TRUE
        BY <2>2
    <2>4. /\ x \in T \ (s \ {x}) /\ (T \ (s \ {x})) \ {x} = T \ s
          /\ T \ (s \ {x}) \in SUBSET T /\ T \ s \in SUBSET T
        BY <2>1, <2>3
    <2>5. Units(T \ (s \ {x})) = x.amount + Units(T \ s)
        BY <1>1, <2>4, UnitsRemove
    <2>6. Units(T \ (s \ {x})) <= Units(T)
        BY <2>1, <2>3
    <2>7. x.amount \in Nat /\ Units(T \ s) \in Nat /\ Units(T) \in Nat
        BY <1>1, <2>4 DEF Metered
    <2> QED
        BY <2>1, <2>5, <2>6, <2>7
<1>3. T \ (T \ S) = S
    OBVIOUS
<1> QED
    BY <1>1, <1>2, <1>3

LEMMA UnitsEmpty == Metered({}) /\ Units({}) = 0
BY FS_EmptySet, UnitsStep DEF Metered

-----------------------------------------------------------------------------
(***************************************************************************)
(* The ledger by itself, with any number of reservations outstanding at    *)
(* once and any log restored.                                              *)
(***************************************************************************)

LEMMA SaturatingTypes ==
    ASSUME NEW a \in 0..U64Max, NEW b \in Nat
    PROVE  SatAdd(a, b) \in 0..U64Max /\ SatSub(a, b) \in 0..U64Max /\ SatSub(a, b) \in 0..a
BY CapAssumption DEF SatAdd, SatSub

LEMMA ReservationFields ==
    ASSUME NEW r \in Reservation
    PROVE  KeyOf(r) \in Keys /\ r.amount \in Nat /\ r.nonce \in Nonces
BY AmountsAssumption DEF Reservation, KeyOf, Keys

LEMMA ReserveType ==
    ASSUME LedgerTypeOK, NEW p \in Payers, NEW n \in Nonces, NEW d \in Days,
           NEW a \in Amounts, Reserve(p, n, d, a)
    PROVE  LedgerTypeOK'
<1>1. SatAdd(spent[<<p, d>>], a) \in 0..U64Max
    BY SaturatingTypes, AmountsAssumption DEF LedgerTypeOK, Keys
<1>2. spent' \in [Keys -> 0..U64Max]
    BY <1>1 DEF Reserve, LedgerTypeOK
<1> QED
    BY <1>2 DEF Reserve, LedgerTypeOK, Reservation

LEMMA ConfirmType ==
    ASSUME LedgerTypeOK, NEW r \in Reservation, Confirm(r)
    PROVE  LedgerTypeOK'
<1>1. SatAdd(settled[KeyOf(r)], r.amount) \in 0..U64Max
    BY SaturatingTypes, AmountsAssumption DEF LedgerTypeOK, Keys, KeyOf, Reservation
<1> QED
    BY <1>1 DEF Confirm, LedgerTypeOK

LEMMA ReleaseType ==
    ASSUME LedgerTypeOK, NEW r \in Reservation, Release(r)
    PROVE  LedgerTypeOK'
<1>1. SatSub(spent[KeyOf(r)], r.amount) \in 0..U64Max
    BY SaturatingTypes, AmountsAssumption DEF LedgerTypeOK, Keys, KeyOf, Reservation
<1> QED
    BY <1>1 DEF Release, LedgerTypeOK

LEMMA LedgerTypeStep == LedgerTypeOK /\ [LedgerNext]_ledgerVars => LedgerTypeOK'
<1>1. LedgerTypeOK /\ UNCHANGED ledgerVars => LedgerTypeOK'
    BY DEF LedgerTypeOK, ledgerVars
<1>2. LedgerTypeOK => held \subseteq Reservation
    BY DEF LedgerTypeOK
<1> QED
    BY <1>1, <1>2, ReserveType, ConfirmType, ReleaseType
    DEF LedgerNext, ReserveAny, ConfirmAny, ReleaseAny

LEMMA LedgerTypeCorrect == LedgerSpec => []LedgerTypeOK
<1>1. LedgerInit => LedgerTypeOK
    BY DEF LedgerInit, LedgerTypeOK
<1> QED
    BY <1>1, LedgerTypeStep, PTL DEF LedgerSpec

-----------------------------------------------------------------------------

LEMMA HoldsWithinCapStep ==
    LedgerTypeOK /\ HoldsWithinCap /\ [LedgerNext]_ledgerVars => HoldsWithinCap'
<1> SUFFICES ASSUME LedgerTypeOK, HoldsWithinCap, [LedgerNext]_ledgerVars
             PROVE  HoldsWithinCap'
    OBVIOUS
<1> USE DEF LedgerTypeOK, HoldsWithinCap
<1>1. ASSUME NEW p \in Payers, NEW n \in Nonces, NEW d \in Days, NEW a \in Amounts,
             Reserve(p, n, d, a), NEW s \in held'
      PROVE  spent'[KeyOf(s)] <= Cap
    <2> DEFINE r == [payer |-> p, nonce |-> n, day |-> d, amount |-> a]
    <2>1. <<p, d>> \in Keys /\ KeyOf(r) = <<p, d>>
        BY DEF Keys, KeyOf
    <2>2. SatAdd(spent[<<p, d>>], a) <= Cap /\ held' = held \cup {r}
        BY <1>1 DEF Reserve, WithinCap
    <2>3. CASE KeyOf(s) = <<p, d>>
        BY <1>1, <2>1, <2>2, <2>3 DEF Reserve
    <2>4. CASE KeyOf(s) # <<p, d>>
        <3>1. s \in held /\ KeyOf(s) \in Keys
            BY <1>1, <2>1, <2>2, <2>4, ReservationFields
        <3> QED
            BY <1>1, <2>4, <3>1 DEF Reserve
    <2> QED
        BY <2>3, <2>4
<1>2. ASSUME NEW r \in held, Confirm(r) PROVE HoldsWithinCap'
    BY <1>2 DEF Confirm
<1>3. ASSUME NEW r \in held, Release(r), NEW s \in held' PROVE spent'[KeyOf(s)] <= Cap
    <2>1. /\ s \in held /\ KeyOf(s) \in Keys /\ KeyOf(r) \in Keys
          /\ spent[KeyOf(s)] <= Cap
        BY <1>3, ReservationFields DEF Release
    <2>2. SatSub(spent[KeyOf(r)], r.amount) \in 0..spent[KeyOf(r)]
        BY <2>1, SaturatingTypes, ReservationFields
    <2>3. spent'[KeyOf(s)] <= spent[KeyOf(s)]
        BY <1>3, <2>1, <2>2 DEF Release
    <2>4. spent'[KeyOf(s)] \in Nat /\ spent[KeyOf(s)] \in Nat
        BY <1>3, <2>1, <2>2 DEF Release
    <2> QED
        BY <2>1, <2>3, <2>4, CapAssumption
<1>4. CASE UNCHANGED ledgerVars
    BY <1>4 DEF ledgerVars
<1> QED
    BY <1>1, <1>2, <1>3, <1>4 DEF LedgerNext, ReserveAny, ConfirmAny, ReleaseAny

\* A row holding room for a payment in flight is within the cap, however many
\* reservations overlap and whatever the log restored.
THEOREM OverlappingHoldsWithinCap == LedgerSpec => []HoldsWithinCap
<1>1. LedgerInit => HoldsWithinCap
    BY DEF LedgerInit, HoldsWithinCap
<1> QED
    BY <1>1, HoldsWithinCapStep, LedgerTypeCorrect, PTL DEF LedgerSpec

-----------------------------------------------------------------------------

LEMMA HoldsOwnStep ==
    HoldsOwnTheirNonces /\ [LedgerNext]_ledgerVars => HoldsOwnTheirNonces'
<1> SUFFICES ASSUME HoldsOwnTheirNonces, [LedgerNext]_ledgerVars
             PROVE  HoldsOwnTheirNonces'
    OBVIOUS
<1> USE DEF HoldsOwnTheirNonces
<1>1. ASSUME NEW p \in Payers, NEW n \in Nonces, NEW d \in Days, NEW a \in Amounts,
             Reserve(p, n, d, a)
      PROVE  HoldsOwnTheirNonces'
    BY <1>1 DEF Reserve, NonceReused
<1>2. ASSUME NEW r \in held, Confirm(r) PROVE HoldsOwnTheirNonces'
    BY <1>2 DEF Confirm
<1>3. ASSUME NEW r \in held, Release(r) PROVE HoldsOwnTheirNonces'
    BY <1>3 DEF Release
<1>4. CASE UNCHANGED ledgerVars
    BY <1>4 DEF ledgerVars
<1> QED
    BY <1>1, <1>2, <1>3, <1>4 DEF LedgerNext, ReserveAny, ConfirmAny, ReleaseAny

LEMMA HoldsOwn == LedgerSpec => []HoldsOwnTheirNonces
<1>1. LedgerInit => HoldsOwnTheirNonces
    BY DEF LedgerInit, HoldsOwnTheirNonces
<1> QED
    BY <1>1, HoldsOwnStep, PTL DEF LedgerSpec

\* No two outstanding reservations share a nonce, and none is usable meanwhile.
THEOREM ReservationsOwnTheirNonces == LedgerSpec => []HoldsOwnTheirNonces
BY HoldsOwn

LEMMA RedeemedStep ==
    HoldsOwnTheirNonces /\ [LedgerNext]_ledgerVars
    => [RedeemedNonces \subseteq RedeemedNonces']_ledgerVars
<1> SUFFICES ASSUME HoldsOwnTheirNonces, LedgerNext
             PROVE  RedeemedNonces \subseteq RedeemedNonces'
    OBVIOUS
<1> USE DEF HoldsOwnTheirNonces, RedeemedNonces
<1>1. ASSUME NEW p \in Payers, NEW n \in Nonces, NEW d \in Days, NEW a \in Amounts,
             Reserve(p, n, d, a)
      PROVE  RedeemedNonces \subseteq RedeemedNonces'
    BY <1>1 DEF Reserve, NonceReused
<1>2. ASSUME NEW r \in held, Confirm(r) PROVE RedeemedNonces \subseteq RedeemedNonces'
    BY <1>2 DEF Confirm
<1>3. ASSUME NEW r \in held, Release(r) PROVE RedeemedNonces \subseteq RedeemedNonces'
    BY <1>3 DEF Release
<1> QED
    BY <1>1, <1>2, <1>3 DEF LedgerNext, ReserveAny, ConfirmAny, ReleaseAny

\* A redeemed nonce stays refused for the life of the process: a release of one
\* payment never un-burns the nonce of another.
THEOREM RedeemedNoncesStayBurned == LedgerSpec => RedeemedStayBurned
BY HoldsOwn, RedeemedStep, PTL DEF LedgerSpec, RedeemedStayBurned

-----------------------------------------------------------------------------

\* The rows add up, of a ledger whose outstanding reservations are finitely many.
RowsInv == IsFiniteSet(held) /\ RowsAddUp

\* What is held of a row is a sum of naturals; what one reservation more or less
\* makes of it.
LEMMA HeldForMetered ==
    ASSUME LedgerTypeOK, IsFiniteSet(held), NEW k
    PROVE  Metered(HeldFor(k)) /\ Units(HeldFor(k)) \in Nat
<1>1. HeldFor(k) \subseteq held /\ held \subseteq Reservation
    BY DEF HeldFor, LedgerTypeOK
<1>2. Metered(HeldFor(k))
    BY <1>1, FS_Subset, ReservationFields DEF Metered
<1> QED
    BY <1>2, UnitsNat

LEMMA RowsReserve ==
    ASSUME LedgerTypeOK, HoldsOwnTheirNonces, RowsInv,
           NEW p \in Payers, NEW n \in Nonces, NEW d \in Days, NEW a \in Amounts,
           Reserve(p, n, d, a)
    PROVE  RowsInv'
<1> DEFINE k0 == <<p, d>>
           r == [payer |-> p, nonce |-> n, day |-> d, amount |-> a]
<1>1. k0 \in Keys /\ a \in Nat /\ r \notin held /\ KeyOf(r) = k0
    BY AmountsAssumption DEF Keys, KeyOf, Reserve, NonceReused, HoldsOwnTheirNonces
<1>2. SatAdd(spent[k0], a) = spent[k0] + a
    BY <1>1, CapAssumption DEF Reserve, WithinCap, SatAdd, LedgerTypeOK
<1>3. IsFiniteSet(held')
    BY FS_AddElement DEF Reserve, RowsInv
<1>4. ASSUME NEW k \in Keys PROVE spent'[k] = settled'[k] + Units(HeldFor(k)')
    <2>0. /\ settled[k] \in Nat /\ Units(HeldFor(k)) \in Nat /\ Metered(HeldFor(k))
          /\ spent[k] = settled[k] + Units(HeldFor(k)) /\ settled' = settled
        BY HeldForMetered DEF RowsInv, RowsAddUp, LedgerTypeOK, Reserve
    <2>1. CASE k = k0
        <3>1. HeldFor(k)' = HeldFor(k) \cup {r} /\ r \notin HeldFor(k)
            BY <1>1, <2>1 DEF HeldFor, Reserve
        <3>2. Units(HeldFor(k)') = a + Units(HeldFor(k))
            BY <1>1, <2>0, <3>1, UnitsAdd
        <3>3. spent'[k] = spent[k] + a
            BY <1>2, <2>1 DEF Reserve, LedgerTypeOK
        <3> QED
            BY <1>1, <2>0, <3>2, <3>3
    <2>2. CASE k # k0
        <3>1. HeldFor(k)' = HeldFor(k)
            BY <1>1, <2>2 DEF HeldFor, Reserve
        <3>2. spent'[k] = spent[k]
            BY <2>2 DEF Reserve, LedgerTypeOK
        <3> QED
            BY <2>0, <3>1, <3>2
    <2> QED
        BY <2>1, <2>2
<1> QED
    BY <1>3, <1>4 DEF RowsInv, RowsAddUp

\* Resolving a reservation takes its amount, whole, out of what its row holds.
LEMMA RowsResolve ==
    ASSUME LedgerTypeOK, RowsInv, NEW r \in held, held' = held \ {r}
    PROVE  /\ IsFiniteSet(held')
           /\ KeyOf(r) \in Keys /\ r.amount \in Nat
           /\ r.amount <= Units(HeldFor(KeyOf(r)))
           /\ \A k \in Keys : Units(HeldFor(k)') =
                 IF k = KeyOf(r) THEN Units(HeldFor(k)) - r.amount ELSE Units(HeldFor(k))
<1>1. IsFiniteSet(held') /\ KeyOf(r) \in Keys /\ r.amount \in Nat
    BY FS_RemoveElement, ReservationFields DEF RowsInv, LedgerTypeOK
<1>2. HeldFor(KeyOf(r))' = HeldFor(KeyOf(r)) \ {r} /\ r \in HeldFor(KeyOf(r))
    BY DEF HeldFor
<1>3. /\ Metered(HeldFor(KeyOf(r))) /\ Units(HeldFor(KeyOf(r))) \in Nat
      /\ Metered(HeldFor(KeyOf(r)) \ {r})
    BY HeldForMetered, FS_Subset DEF RowsInv, Metered
<1>4. /\ Units(HeldFor(KeyOf(r))) = r.amount + Units(HeldFor(KeyOf(r))')
      /\ Units(HeldFor(KeyOf(r))') \in Nat
    BY <1>2, <1>3, UnitsRemove, UnitsNat
<1>5. \A k \in Keys : k # KeyOf(r) => HeldFor(k)' = HeldFor(k)
    BY DEF HeldFor
<1> QED
    BY <1>1, <1>3, <1>4, <1>5

LEMMA RowsConfirm ==
    ASSUME LedgerTypeOK, RowsInv, NEW r \in held, Confirm(r)
    PROVE  RowsInv'
<1>1. held' = held \ {r} /\ spent' = spent
    BY DEF Confirm
<1>2. \A k \in Keys : /\ spent[k] \in 0..U64Max /\ settled[k] \in Nat
                      /\ spent[k] = settled[k] + Units(HeldFor(k)) /\ Units(HeldFor(k)) \in Nat
    BY HeldForMetered DEF LedgerTypeOK, RowsInv, RowsAddUp
<1>3. SatAdd(settled[KeyOf(r)], r.amount) = settled[KeyOf(r)] + r.amount
    BY <1>1, <1>2, RowsResolve, CapAssumption DEF SatAdd
<1>4. \A k \in Keys :
          settled'[k] = IF k = KeyOf(r) THEN settled[k] + r.amount ELSE settled[k]
    BY <1>3 DEF Confirm, LedgerTypeOK
<1>5. \A k \in Keys : spent'[k] = settled'[k] + Units(HeldFor(k)')
    BY <1>1, <1>2, <1>4, RowsResolve
<1> QED
    BY <1>1, <1>5, RowsResolve DEF RowsInv, RowsAddUp

LEMMA RowsRelease ==
    ASSUME LedgerTypeOK, RowsInv, NEW r \in held, Release(r)
    PROVE  RowsInv'
<1>1. held' = held \ {r} /\ settled' = settled
    BY DEF Release
<1>2. \A k \in Keys : /\ spent[k] \in Nat /\ settled[k] \in Nat
                      /\ spent[k] = settled[k] + Units(HeldFor(k)) /\ Units(HeldFor(k)) \in Nat
    BY HeldForMetered DEF LedgerTypeOK, RowsInv, RowsAddUp
<1>3. SatSub(spent[KeyOf(r)], r.amount) = spent[KeyOf(r)] - r.amount
    BY <1>1, <1>2, RowsResolve DEF SatSub
<1>4. \A k \in Keys : spent'[k] = IF k = KeyOf(r) THEN spent[k] - r.amount ELSE spent[k]
    BY <1>3 DEF Release, LedgerTypeOK
<1>5. \A k \in Keys : spent'[k] = settled'[k] + Units(HeldFor(k)')
    BY <1>1, <1>2, <1>4, RowsResolve
<1> QED
    BY <1>1, <1>5, RowsResolve DEF RowsInv, RowsAddUp

LEMMA RowsStep ==
    LedgerTypeOK /\ HoldsOwnTheirNonces /\ RowsInv /\ [LedgerNext]_ledgerVars => RowsInv'
<1>1. RowsInv /\ UNCHANGED ledgerVars => RowsInv'
    BY DEF RowsInv, RowsAddUp, HeldFor, ledgerVars
<1> QED
    BY <1>1, RowsReserve, RowsConfirm, RowsRelease
    DEF LedgerNext, ReserveAny, ConfirmAny, ReleaseAny

\* No order of overlapping reservations, confirmations and releases gives back
\* money that settled or loses any: a row is what settled and what is held.
THEOREM RowsAlwaysAddUp == LedgerSpec => []RowsAddUp
<1>1. LedgerInit => RowsInv
    <2> SUFFICES ASSUME LedgerInit PROVE RowsInv
        OBVIOUS
    <2>1. \A k : HeldFor(k) = {}
        BY DEF LedgerInit, HeldFor
    <2>2. \A k \in Keys : spent[k] \in Nat /\ settled[k] = spent[k]
        BY DEF LedgerInit
    <2> QED
        BY <2>1, <2>2, UnitsEmpty, FS_EmptySet DEF LedgerInit, RowsInv, RowsAddUp
<1>2. RowsInv => RowsAddUp
    BY DEF RowsInv
<1> QED
    BY <1>1, <1>2, RowsStep, LedgerTypeCorrect, HoldsOwn, PTL DEF LedgerSpec

-----------------------------------------------------------------------------
(***************************************************************************)
(* The gate.                                                               *)
(***************************************************************************)

\* A request in hand is a payment that verified, on a day the clock has shown,
\* with polls left to make while it is being settled.
InHand ==
    /\ pc \in Holding \cup {"record", "serve"} =>
          cur \in Payments /\ day \in Days /\ cur.amount \in Amounts
    /\ pc \in {"simulate", "send", "poll"} => attempts < Attempts
    /\ pc \in {"idle", "down"} => attempts = 0

TypeInv == TypeOK /\ InHand

-----------------------------------------------------------------------------

\* A payment that verifies is one the ledger can meter.
LEMMA VerifiedPayment ==
    ASSUME NEW p \in Payments, Verdict(p) = "ok"
    PROVE  /\ p.payer \in Payers /\ p.nonce \in Nonces /\ p.amount \in Amounts
           /\ p.signed
<1>1. p \in PaymentRecord
    BY PaymentsAssumption
<1>2. /\ p.payer \in Payers /\ p.nonce \in Nonces /\ p.amount \in Nat
      /\ p.memo \in BOOLEAN /\ p.signed \in BOOLEAN
    BY <1>1 DEF PaymentRecord
<1>3. p.memo /\ p.signed
    BY <1>2 DEF Verdict
<1>4. PriceSingle \in Nat /\ PriceDayPass \in Nat
    BY PricesAssumption, AmountsAssumption
<1>5. p.amount \in {PriceSingle, PriceDayPass}
    BY <1>2, <1>3, <1>4 DEF Verdict
<1> QED
    BY <1>2, <1>3, <1>5, PricesAssumption

\* The reservation of the payment in hand is one the ledger knows.
LEMMA HoldIsReservation ==
    ASSUME TypeInv, pc \in Holding \cup {"record", "serve"}
    PROVE  Hold \in Reservation /\ Row \in Keys /\ KeyOf(Hold) = Row
<1>1. cur \in Payments /\ day \in Days /\ cur.amount \in Amounts
    BY DEF TypeInv, InHand
<1>2. cur.payer \in Payers /\ cur.nonce \in Nonces
    BY <1>1, PaymentsAssumption DEF PaymentRecord
<1> QED
    BY <1>1, <1>2 DEF Hold, Reservation, Row, Keys, KeyOf

\* Restoring from amounts any log can carry gives well-typed rows.
LEMMA RehydrateType ==
    ASSUME NEW amounts \in [Keys -> Nat], NEW nonces \in SUBSET Nonces,
           Rehydrate(amounts, nonces)
    PROVE  LedgerTypeOK'
<1>1. \A k \in Keys : SatAdd(0, amounts[k]) \in 0..U64Max
    BY SaturatingTypes, CapAssumption
<1>2. spent' \in [Keys -> 0..U64Max]
    BY <1>1 DEF Rehydrate
<1> QED
    BY <1>2 DEF Rehydrate, LedgerTypeOK

\* What the log says of one more sale is again a log.
LEMMA WithSaleType ==
    ASSUME NEW l \in LogType, NEW r \in Reservation
    PROVE  WithSale(l, r) \in LogType
<1>1. KeyOf(r) \in Keys /\ r.amount \in Nat /\ r.nonce \in Nonces
    BY AmountsAssumption DEF KeyOf, Keys, Reservation
<1>2. [l.amounts EXCEPT ![KeyOf(r)] = @ + r.amount] \in [Keys -> Nat]
    BY <1>1 DEF LogType
<1> QED
    BY <1>1, <1>2 DEF WithSale, LogType

LEMMA ReadableType ==
    ASSUME NEW l \in LogType
    PROVE  Readable(l) \in LogType
<1>1. CASE l.tail = {}
    BY <1>1 DEF Readable
<1>2. CASE l.tail # {}
    <2>1. (CHOOSE r \in l.tail : TRUE) \in Reservation
        BY <1>2 DEF LogType
    <2> QED
        BY <1>2, <2>1, WithSaleType DEF Readable
<1> QED
    BY <1>1, <1>2

LEMMA TornType ==
    ASSUME NEW l \in LogType, NEW r \in Reservation
    PROVE  TornAppends(l, r) \subseteq LogType
<1>1. Cut(l, r) \in LogType /\ CutShort(l) \in LogType
    BY DEF Cut, CutShort, LogType
<1>2. CutInCharacter(l) \in LogType
    BY <1>1 DEF CutInCharacter, LogType
<1> QED
    BY <1>1, <1>2 DEF TornAppends

LEMMA EmptyLogType == EmptyLog \in LogType
BY DEF EmptyLog, LogType

LEMMA LoadedType ==
    ASSUME NEW l \in LogType
    PROVE  load_earnings(l) \in LogType
BY ReadableType, EmptyLogType DEF load_earnings

-----------------------------------------------------------------------------

LEMMA TypeInit == Init => TypeInv
<1> SUFFICES ASSUME Init PROVE TypeInv
    OBVIOUS
<1>1. LedgerTypeOK
    BY CapAssumption DEF Init, LedgerTypeOK
<1>2. log \in LogType
    BY EmptyLogType DEF Init
<1>3. today \in Days /\ crashes \in 0..MaxCrashes /\ attempts \in 0..Attempts
    BY BoundsAssumption DEF Init
<1> QED
    BY <1>1, <1>2, <1>3 DEF Init, TypeInv, TypeOK, InHand, Holding, Outcomes, ChainStates

LEMMA TypePresent ==
    ASSUME TypeInv, NEW p \in Payments, Present(p)
    PROVE  TypeInv'
<1>1. p.payer \in Payers /\ p.nonce \in Nonces /\ p.amount \in Amounts
    BY VerifiedPayment DEF Present
<1>2. today \in Days
    BY DEF TypeInv, TypeOK
<1>3. LedgerTypeOK'
    BY <1>1, <1>2, ReserveType DEF Present, TypeInv, TypeOK
<1>4. attempts' < Attempts
    BY BoundsAssumption DEF Present, TypeInv, InHand
<1> QED
    BY <1>1, <1>2, <1>3, <1>4 DEF Present, TypeInv, TypeOK, InHand, Holding, worldVars, soldVars

LEMMA TypeSettle == TypeInv /\ Settle => TypeInv'
<1> SUFFICES ASSUME TypeInv, Settle PROVE TypeInv'
    OBVIOUS
<1> USE DEF TypeInv, TypeOK, InHand, Holding, Outcomes, unmoved, ledgerVars, soldVars, Settled
<1>1. LedgerTypeOK'
    BY DEF Settle, SimulateRefuses, SimulatePasses, SendAccepted, SendRefused,
           SendReplyLost, PollSettled, PollFailed, PollNothing, LedgerTypeOK
<1>2. CASE SimulateRefuses
    BY <1>1, <1>2 DEF SimulateRefuses
<1>3. CASE SimulatePasses
    BY <1>1, <1>3 DEF SimulatePasses
<1>4. CASE Broadcast /\ (SendAccepted \/ SendReplyLost)
    <2>1. cur \in Payments /\ day \in Days
        BY <1>4 DEF SendAccepted, SendReplyLost
    <2>2. chain' \in [Payments -> ChainStates] /\ sentOn' \in [Payments -> Days \cup {NoDay}]
        BY <1>4, <2>1 DEF Broadcast, ChainStates
    <2> QED
        BY <1>1, <1>4, <2>2 DEF SendAccepted, SendReplyLost
<1>5. CASE SendRefused
    BY <1>1, <1>5 DEF SendRefused
<1>6. CASE PollSettled
    BY <1>1, <1>6 DEF PollSettled
<1>7. CASE PollFailed
    BY <1>1, <1>7 DEF PollFailed
<1>8. CASE PollNothing
    <2>1. attempts' \in 0..Attempts
        BY <1>8, BoundsAssumption DEF PollNothing
    <2> QED
        BY <1>1, <1>8, <2>1, BoundsAssumption DEF PollNothing
<1> QED
    BY <1>2, <1>3, <1>4, <1>5, <1>6, <1>7, <1>8 DEF Settle, SendAccepted, SendReplyLost

LEMMA TypeResolve == TypeInv /\ Resolve => TypeInv'
<1> SUFFICES ASSUME TypeInv, Resolve PROVE TypeInv'
    OBVIOUS
<1>1. Hold \in Reservation
    BY HoldIsReservation DEF Resolve, Holding
<1>2. LedgerTypeOK'
    BY <1>1, ConfirmType, ReleaseType DEF Resolve, TypeInv, TypeOK
<1> QED
    BY <1>2, BoundsAssumption
    DEF Resolve, Answer, NoRequest, TypeInv, TypeOK, InHand, Holding, Outcomes, worldVars, soldVars

LEMMA TypeRecord == TypeInv /\ record_earning => TypeInv'
<1> SUFFICES ASSUME TypeInv, record_earning PROVE TypeInv'
    OBVIOUS
<1>1. Hold \in Reservation
    BY HoldIsReservation DEF record_earning
<1>2. WithSale(log, Hold) \in LogType
    BY <1>1, WithSaleType DEF TypeInv, TypeOK
<1>3. log' \in LogType
    <2>1. AppendSale(log, Hold) \in LogType
        BY <1>2 DEF AppendSale, TypeInv, TypeOK, LogType
    <2> QED
        BY <1>1, <2>1, TornType DEF record_earning, TypeInv, TypeOK
<1>4. LedgerTypeOK'
    BY DEF record_earning, ledgerVars, TypeInv, TypeOK, LedgerTypeOK
<1> QED
    BY <1>3, <1>4 DEF record_earning, TypeInv, TypeOK, InHand, Holding, worldVars, soldVars

LEMMA TypeServe == TypeInv /\ Serve => TypeInv'
<1> SUFFICES ASSUME TypeInv, Serve PROVE TypeInv'
    OBVIOUS
<1>1. Row \in Keys /\ cur.nonce \in Nonces /\ cur.amount \in Nat
    BY HoldIsReservation, AmountsAssumption
    DEF Serve, Hold, Reservation, TypeInv, InHand
<1>2. timesSold' \in [Nonces -> Nat] /\ soldAmounts' \in [Keys -> Nat]
    BY <1>1 DEF Serve, TypeInv, TypeOK
<1>3. LedgerTypeOK'
    BY DEF Serve, ledgerVars, TypeInv, TypeOK, LedgerTypeOK
<1> QED
    BY <1>2, <1>3, BoundsAssumption
    DEF Serve, Answer, NoRequest, TypeInv, TypeOK, InHand, Holding, Outcomes, worldVars

LEMMA TypeLoseMemory ==
    ASSUME TypeInv, LoseMemory, log' \in LogType
    PROVE  TypeInv'
<1>1. LedgerTypeOK'
    BY RehydrateType DEF LoseMemory
<1>2. crashes' \in 0..MaxCrashes
    BY BoundsAssumption DEF LoseMemory, TypeInv, TypeOK
<1> QED
    BY <1>1, <1>2, BoundsAssumption
    DEF LoseMemory, NoRequest, TypeInv, TypeOK, InHand, Holding, Outcomes, worldVars, soldVars

LEMMA TypeCrash == TypeInv /\ (Crash \/ CrashTearingLog) => TypeInv'
<1> SUFFICES ASSUME TypeInv, Crash \/ CrashTearingLog PROVE TypeInv'
    OBVIOUS
<1>1. CASE Crash
    BY <1>1, TypeLoseMemory DEF Crash, TypeInv, TypeOK
<1>2. CASE CrashTearingLog
    <2>1. Hold \in Reservation
        BY <1>2, HoldIsReservation DEF CrashTearingLog
    <2>2. log' \in LogType
        BY <1>2, <2>1, TornType DEF CrashTearingLog, TypeInv, TypeOK
    <2> QED
        BY <1>2, <2>2, TypeLoseMemory DEF CrashTearingLog
<1> QED
    BY <1>1, <1>2

LEMMA TypeRestart == TypeInv /\ Restart => TypeInv'
<1> SUFFICES ASSUME TypeInv, Restart PROVE TypeInv'
    OBVIOUS
<1>1. load_earnings(log) \in LogType /\ EmptyLog \in LogType /\ {} \in SUBSET Nonces
    BY LoadedType, EmptyLogType DEF TypeInv, TypeOK
<1>2. LedgerTypeOK'
    BY <1>1, RehydrateType DEF Restart, LogType
<1>3. blind' \in BOOLEAN
    BY DEF Restart, TypeInv, TypeOK, LogType
<1> QED
    BY <1>2, <1>3 DEF Restart, TypeInv, TypeOK, InHand, Holding, worldVars, soldVars

LEMMA TypeWorld == TypeInv /\ World => TypeInv'
<1> SUFFICES ASSUME TypeInv, World PROVE TypeInv'
    OBVIOUS
<1> USE DEF TypeInv, TypeOK, InHand, Holding, LedgerTypeOK, ledgerVars, gateVars, soldVars
<1>1. CASE Tick
    BY <1>1, BoundsAssumption DEF Tick
<1>2. ASSUME NEW p \in Payments, NEW from \in ChainStates, NEW to \in ChainStates,
             ChainStep(p, from, to)
      PROVE  TypeInv'
    BY <1>2 DEF ChainStep
<1> QED
    BY <1>1, <1>2 DEF World, Process, Finalise, Expire, ForkOut, ChainStates

LEMMA TypeStutter == TypeInv /\ UNCHANGED vars => TypeInv'
BY DEF TypeInv, TypeOK, InHand, LedgerTypeOK, vars, ledgerVars, gateVars, worldVars, soldVars

LEMMA TypeNext == TypeInv /\ [Next]_vars => TypeInv'
BY TypePresent, TypeSettle, TypeResolve, TypeRecord, TypeServe, TypeCrash,
   TypeRestart, TypeWorld, TypeStutter
DEF Next, Handle, Challenge

LEMMA SpecTypeInv == Spec => []TypeInv
BY TypeInit, TypeNext, PTL DEF Spec

\* The gate's variables keep their types under every fault the model has: any
\* payments, forks, lost answers, torn or dropped log lines and crashes.
THEOREM TypeCorrect == Spec => []TypeOK
<1>1. TypeInv => TypeOK
    BY DEF TypeInv
<1> QED
    BY <1>1, SpecTypeInv, PTL

-----------------------------------------------------------------------------
(***************************************************************************)
(* The sale invariant.  SoldWithinCap alone is not inductive: what bounds  *)
(* a sale is the chain sold <= log <= spent <= Cap, with the payment in    *)
(* hand filling the next gap of the chain at each step of the handler.     *)
(***************************************************************************)

\* Every line of the log is whole; it bounds what was sold, and the cap bounds it.
LogBoundsSales ==
    /\ ~log.open /\ log.tail = {} /\ ~log.garbled
    /\ \A k \in Keys : soldAmounts[k] <= log.amounts[k] /\ log.amounts[k] <= Cap
    /\ \A n \in Nonces : timesSold[n] <= 1 /\ (timesSold[n] > 0 => n \in log.nonces)

SpentBoundsLog ==
    /\ pc # "down" => /\ \A k \in Keys : log.amounts[k] <= spent[k]
                      /\ log.nonces \subseteq used_nonces
    /\ \A k \in Keys : spent[k] <= Cap

\* The handler's one reservation is the only one.
OneHold == held = IF pc \in Holding THEN {Hold} ELSE {}

\* Until it is recorded, the payment in hand has room between log and ledger.
RoomToRecord ==
    pc \in Holding \cup {"record"} =>
        /\ cur.nonce \in used_nonces \ log.nonces
        /\ log.amounts[Row] + cur.amount <= spent[Row]

\* Between its record and its answer it has room between sold and log.
RoomToSell ==
    pc = "serve" =>
        /\ cur.nonce \in log.nonces
        /\ timesSold[cur.nonce] = 0
        /\ soldAmounts[Row] + cur.amount <= log.amounts[Row]

\* What poll saw confirmed stays confirmed.
OkIsConfirmed ==
    /\ pc \in {"record", "serve"} => outcome = "ok"
    /\ pc \in {"down", "idle", "simulate", "send", "poll"} => outcome = "none"
    /\ outcome = "ok" => pc \in {"resolve", "record", "serve"} /\ chain[cur] = "confirmed"

SaleInv ==
    /\ LogBoundsSales
    /\ SpentBoundsLog
    /\ OneHold
    /\ RoomToRecord
    /\ RoomToSell
    /\ OkIsConfirmed

LEMMA SaleInit == Init => SaleInv
BY CapAssumption
DEF Init, EmptyLog, SaleInv, LogBoundsSales, SpentBoundsLog, OneHold,
    RoomToRecord, RoomToSell, OkIsConfirmed, Holding, Keys

\* The types the arithmetic of the steps below rests on.
LEMMA RowTypes ==
    ASSUME TypeInv
    PROVE  /\ Cap \in Nat
           /\ \A k \in Keys : /\ spent[k] \in Nat /\ log.amounts[k] \in Nat
                              /\ soldAmounts[k] \in Nat
           /\ \A n \in Nonces : timesSold[n] \in Nat
BY CapAssumption DEF TypeInv, TypeOK, LedgerTypeOK, LogType

LEMMA SalePresent ==
    ASSUME TypeInv, SaleInv, NEW p \in Payments, Present(p)
    PROVE  SaleInv'
<1> DEFINE k0 == <<p.payer, today>>
<1>1. /\ p.payer \in Payers /\ p.nonce \in Nonces /\ p.amount \in Amounts
      /\ today \in Days
    BY VerifiedPayment DEF Present, TypeInv, TypeOK
<1>2. k0 \in Keys /\ p.amount \in Nat
    BY <1>1, AmountsAssumption DEF Keys
<1>3. SatAdd(spent[k0], p.amount) = spent[k0] + p.amount /\ spent[k0] + p.amount <= Cap
    BY <1>2, RowTypes, CapAssumption DEF Present, Reserve, WithinCap, SatAdd
<1>4. spent' = [spent EXCEPT ![k0] = spent[k0] + p.amount]
    BY <1>3 DEF Present, Reserve
<1>5. \A k \in Keys : spent'[k] = IF k = k0 THEN spent[k] + p.amount ELSE spent[k]
    BY <1>4 DEF TypeInv, TypeOK, LedgerTypeOK
<1>6. LogBoundsSales'
    BY DEF Present, SaleInv, LogBoundsSales, soldVars
<1>7. SpentBoundsLog'
    <2>1. \A k \in Keys : log'.amounts[k] <= spent'[k] /\ spent'[k] <= Cap
        BY <1>2, <1>3, <1>5, RowTypes DEF Present, SaleInv, SpentBoundsLog
    <2> QED
        BY <2>1 DEF Present, Reserve, SaleInv, SpentBoundsLog
<1>8. OneHold'
    BY DEF Present, Reserve, SaleInv, OneHold, Hold, Holding
<1>9. RoomToRecord'
    <2>1. cur'.nonce \in used_nonces' \ log'.nonces
        BY DEF Present, Reserve, NonceReused, SaleInv, SpentBoundsLog
    <2>2. Row' = k0 /\ cur' = p
        BY DEF Present, Row
    <2>3. log'.amounts[k0] + p.amount <= spent'[k0]
        BY <1>2, <1>5, RowTypes DEF Present, SaleInv, SpentBoundsLog
    <2> QED
        BY <2>1, <2>2, <2>3 DEF RoomToRecord
<1>10. RoomToSell' /\ OkIsConfirmed'
    BY DEF Present, SaleInv, RoomToSell, OkIsConfirmed
<1> QED
    BY <1>6, <1>7, <1>8, <1>9, <1>10 DEF SaleInv

LEMMA SaleSettle == TypeInv /\ SaleInv /\ Settle => SaleInv'
<1> SUFFICES ASSUME TypeInv, SaleInv, Settle PROVE SaleInv'
    OBVIOUS
<1>1. /\ UNCHANGED unmoved
      /\ pc \in {"simulate", "send", "poll"} /\ pc' \in Holding
    BY DEF Settle, SimulateRefuses, SimulatePasses, SendAccepted, SendRefused,
           SendReplyLost, PollSettled, PollFailed, PollNothing, Settled, Holding
<1>2. Hold' = Hold /\ Row' = Row /\ pc \in Holding
    BY <1>1 DEF unmoved, Hold, Row, Holding
<1>3. LogBoundsSales' /\ SpentBoundsLog' /\ OneHold' /\ RoomToRecord' /\ RoomToSell'
    BY <1>1, <1>2
    DEF SaleInv, LogBoundsSales, SpentBoundsLog, OneHold, RoomToRecord,
        RoomToSell, unmoved, ledgerVars, soldVars, Holding
<1>4. OkIsConfirmed'
    BY <1>1
    DEF SaleInv, OkIsConfirmed, Settle, SimulateRefuses, SimulatePasses, SendAccepted,
        SendRefused, SendReplyLost, PollSettled, PollFailed, PollNothing, Settled,
        unmoved, Holding
<1> QED
    BY <1>3, <1>4 DEF SaleInv

LEMMA SaleResolve == TypeInv /\ SaleInv /\ Resolve => SaleInv'
<1> SUFFICES ASSUME TypeInv, SaleInv, Resolve PROVE SaleInv'
    OBVIOUS
<1>1. Hold \in Reservation /\ Row \in Keys /\ KeyOf(Hold) = Row
    BY HoldIsReservation DEF Resolve, Holding
<1>2. Hold.nonce = cur.nonce /\ Hold.amount = cur.amount /\ cur.amount \in Nat
    BY <1>1, AmountsAssumption DEF Hold, Reservation
<1>3. log.amounts[Row] + cur.amount <= spent[Row] /\ cur.nonce \notin log.nonces
    BY DEF Resolve, SaleInv, RoomToRecord, Holding
<1>4. held' = {}
    BY DEF Resolve, Confirm, Release, SaleInv, OneHold, Holding
<1>5. LogBoundsSales'
    BY DEF Resolve, SaleInv, LogBoundsSales, soldVars
<1>6. RoomToSell' /\ OkIsConfirmed' /\ OneHold'
    BY <1>4 DEF Resolve, Answer, NoRequest, SaleInv, RoomToSell, OkIsConfirmed,
                OneHold, Holding, worldVars
<1>7. CASE outcome = "definite"
    <2>1. Release(Hold) /\ pc' = "idle"
        BY <1>7 DEF Resolve, resolution_for, Answer
    <2>2. spent' = [spent EXCEPT ![Row] = spent[Row] - cur.amount]
        <3>1. SatSub(spent[Row], cur.amount) = spent[Row] - cur.amount
            BY <1>1, <1>2, <1>3, RowTypes DEF SatSub
        <3>2. spent' = [spent EXCEPT ![Row] = SatSub(spent[Row], cur.amount)]
            BY <2>1, <1>1, <1>2 DEF Release
        <3> QED
            BY <3>1, <3>2
    <2>3. \A k \in Keys : log.amounts[k] <= spent'[k] /\ spent'[k] <= Cap
        BY <2>2, <1>1, <1>2, <1>3, RowTypes
        DEF Resolve, SaleInv, SpentBoundsLog, TypeInv, TypeOK, LedgerTypeOK
    <2>4. log.nonces \subseteq used_nonces'
        BY <2>1, <1>2, <1>3 DEF Release, Resolve, SaleInv, SpentBoundsLog
    <2>5. SpentBoundsLog' /\ RoomToRecord'
        BY <2>1, <2>3, <2>4 DEF Resolve, SpentBoundsLog, RoomToRecord, Holding
    <2> QED
        BY <2>5, <1>5, <1>6 DEF SaleInv
<1>8. CASE outcome # "definite"
    <2>1. UNCHANGED <<spent, used_nonces>>
        BY <1>8 DEF Resolve, resolution_for, Confirm
    <2>2. SpentBoundsLog' /\ RoomToRecord'
        BY <2>1 DEF Resolve, Answer, SaleInv, SpentBoundsLog, RoomToRecord,
                    Holding, Row
    <2> QED
        BY <2>2, <1>5, <1>6 DEF SaleInv
<1> QED
    BY <1>7, <1>8

\* The append fills the gap between the log and the ledger.
LEMMA SaleRecord == LogFaults = {} /\ TypeInv /\ SaleInv /\ record_earning => SaleInv'
<1> SUFFICES ASSUME LogFaults = {}, TypeInv, SaleInv, record_earning PROVE SaleInv'
    OBVIOUS
<1>1. Hold \in Reservation /\ Row \in Keys /\ KeyOf(Hold) = Row
    BY HoldIsReservation DEF record_earning
<1>2. /\ Hold.nonce = cur.nonce /\ Hold.amount = cur.amount
      /\ cur.nonce \in Nonces /\ cur.amount \in Nat
    BY <1>1, AmountsAssumption DEF Hold, Reservation
<1>3. log' = WithSale(log, Hold)
    BY DEF record_earning, AppendSale, SaleInv, LogBoundsSales
<1>4. /\ log'.amounts = [log.amounts EXCEPT ![Row] = log.amounts[Row] + cur.amount]
      /\ log'.nonces = log.nonces \cup {cur.nonce}
      /\ ~log'.open /\ log'.tail = {} /\ ~log'.garbled
    BY <1>1, <1>2, <1>3 DEF WithSale, SaleInv, LogBoundsSales
<1>5. /\ log.amounts[Row] + cur.amount <= spent[Row]
      /\ cur.nonce \in used_nonces \ log.nonces
    BY DEF record_earning, SaleInv, RoomToRecord
<1>6. \A k \in Keys :
          log'.amounts[k] = IF k = Row THEN log.amounts[k] + cur.amount ELSE log.amounts[k]
    BY <1>4 DEF TypeInv, TypeOK, LogType
<1>7. \A k \in Keys : log'.amounts[k] <= spent[k] /\ spent[k] <= Cap
    BY <1>5, <1>6, <1>1, <1>2, RowTypes
    DEF record_earning, SaleInv, SpentBoundsLog
<1>8. LogBoundsSales'
    BY <1>1, <1>2, <1>4, <1>6, <1>7, RowTypes
    DEF record_earning, SaleInv, LogBoundsSales, soldVars
<1>9. SpentBoundsLog'
    BY <1>4, <1>5, <1>7 DEF record_earning, ledgerVars, SaleInv, SpentBoundsLog
<1>10. OneHold' /\ OkIsConfirmed' /\ RoomToRecord'
    BY DEF record_earning, SaleInv, OneHold, OkIsConfirmed, RoomToRecord, Holding,
           ledgerVars, worldVars
<1>11. RoomToSell'
    <2>1. cur' = cur /\ Row' = Row /\ UNCHANGED soldVars
        BY DEF record_earning, Row
    <2>2. timesSold[cur.nonce] = 0
        BY <1>2, <1>5, RowTypes DEF SaleInv, LogBoundsSales
    <2>3. soldAmounts[Row] + cur.amount <= log'.amounts[Row]
        BY <1>1, <1>2, <1>6, RowTypes DEF SaleInv, LogBoundsSales
    <2> QED
        BY <2>1, <2>2, <2>3, <1>4 DEF RoomToSell, soldVars
<1> QED
    BY <1>8, <1>9, <1>10, <1>11 DEF SaleInv

\* The sale fills the gap between what was sold and the log.
LEMMA SaleServe == TypeInv /\ SaleInv /\ Serve => SaleInv'
<1> SUFFICES ASSUME TypeInv, SaleInv, Serve PROVE SaleInv'
    OBVIOUS
<1>1. Row \in Keys /\ cur.nonce \in Nonces /\ cur.amount \in Nat
    BY HoldIsReservation, AmountsAssumption DEF Serve, Hold, Reservation, TypeInv, InHand
<1>2. /\ cur.nonce \in log.nonces /\ timesSold[cur.nonce] = 0
      /\ soldAmounts[Row] + cur.amount <= log.amounts[Row]
    BY DEF Serve, SaleInv, RoomToSell
<1>3. \A k \in Keys : soldAmounts'[k] <= log.amounts[k]
    BY <1>1, <1>2, RowTypes DEF Serve, SaleInv, LogBoundsSales, TypeInv, TypeOK
<1>4. \A n \in Nonces : timesSold'[n] <= 1 /\ (timesSold'[n] > 0 => n \in log.nonces)
    BY <1>1, <1>2, RowTypes DEF Serve, SaleInv, LogBoundsSales, TypeInv, TypeOK
<1>5. LogBoundsSales'
    BY <1>3, <1>4 DEF Serve, SaleInv, LogBoundsSales
<1>6. SpentBoundsLog' /\ OneHold' /\ RoomToRecord' /\ RoomToSell' /\ OkIsConfirmed'
    BY DEF Serve, Answer, NoRequest, SaleInv, SpentBoundsLog, OneHold,
           RoomToRecord, RoomToSell, OkIsConfirmed, Holding, ledgerVars, worldVars
<1> QED
    BY <1>5, <1>6 DEF SaleInv

LEMMA SaleCrash ==
    LogFaults = {} /\ TypeInv /\ SaleInv /\ (Crash \/ CrashTearingLog) => SaleInv'
<1> SUFFICES ASSUME LogFaults = {}, TypeInv, SaleInv, Crash PROVE SaleInv'
    BY DEF CrashTearingLog
<1>1. pc' = "down" /\ outcome' = "none" /\ held' = {} /\ log' = log /\ UNCHANGED soldVars
    BY DEF Crash, LoseMemory, NoRequest, Rehydrate
<1>2. \A k \in Keys : spent'[k] <= Cap
    BY CapAssumption DEF Crash, LoseMemory, Rehydrate, SatAdd
<1> QED
    BY <1>1, <1>2
    DEF SaleInv, LogBoundsSales, SpentBoundsLog, OneHold, RoomToRecord,
        RoomToSell, OkIsConfirmed, Holding, soldVars

\* Nothing on a whole log saturates: the restart restores its rows exactly.
LEMMA SaleRestart == LogFaults = {} /\ TypeInv /\ SaleInv /\ Restart => SaleInv'
<1> SUFFICES ASSUME LogFaults = {}, TypeInv, SaleInv, Restart PROVE SaleInv'
    OBVIOUS
<1>1. load_earnings(log) = log
    BY DEF SaleInv, LogBoundsSales, Readable, load_earnings
<1>2. \A k \in Keys : SatAdd(0, log.amounts[k]) = log.amounts[k]
    BY RowTypes, CapAssumption DEF SaleInv, LogBoundsSales, SatAdd
<1>3. /\ \A k \in Keys : spent'[k] = log.amounts[k]
      /\ used_nonces' = log.nonces /\ held' = {}
    BY <1>1, <1>2 DEF Restart, Rehydrate
<1>4. \A k \in Keys : log.amounts[k] <= spent'[k] /\ spent'[k] <= Cap
    BY <1>3, RowTypes DEF SaleInv, LogBoundsSales
<1>5. LogBoundsSales'
    BY DEF Restart, SaleInv, LogBoundsSales, soldVars
<1>6. SpentBoundsLog' /\ OneHold'
    BY <1>3, <1>4 DEF Restart, SpentBoundsLog, OneHold, Holding
<1>7. RoomToRecord' /\ RoomToSell' /\ OkIsConfirmed'
    BY DEF Restart, SaleInv, RoomToRecord, RoomToSell, OkIsConfirmed, Holding
<1> QED
    BY <1>5, <1>6, <1>7 DEF SaleInv

LEMMA SaleWorld == TypeInv /\ SaleInv /\ World => SaleInv'
<1> SUFFICES ASSUME TypeInv, SaleInv, World PROVE SaleInv'
    OBVIOUS
<1> DEFINE Rest == <<ledgerVars, gateVars, log, crashes, sentOn, soldVars>>
<1>1. UNCHANGED Rest
    BY DEF World, Tick, Process, Finalise, Expire, ForkOut, ChainStep
<1>2. outcome = "ok" => chain'[cur] = "confirmed"
    BY DEF World, Tick, Process, Finalise, Expire, ForkOut, ChainStep, SaleInv,
           OkIsConfirmed, TypeInv, TypeOK, InHand, Holding
<1>3. LogBoundsSales' /\ SpentBoundsLog' /\ OneHold' /\ RoomToRecord' /\ RoomToSell'
    BY <1>1 DEF SaleInv, LogBoundsSales, SpentBoundsLog, OneHold,
                RoomToRecord, RoomToSell, Hold, Row, Holding, ledgerVars, gateVars, soldVars
<1>4. OkIsConfirmed'
    BY <1>1, <1>2 DEF SaleInv, OkIsConfirmed, gateVars
<1> QED
    BY <1>3, <1>4 DEF SaleInv

LEMMA SaleStutter == SaleInv /\ UNCHANGED vars => SaleInv'
BY DEF SaleInv, LogBoundsSales, SpentBoundsLog, OneHold, RoomToRecord,
       RoomToSell, OkIsConfirmed, Hold, Row, Holding, vars, ledgerVars, gateVars,
       worldVars, soldVars

LEMMA SaleNext == LogFaults = {} /\ TypeInv /\ SaleInv /\ [Next]_vars => SaleInv'
BY SalePresent, SaleSettle, SaleResolve, SaleRecord, SaleServe, SaleCrash, SaleRestart,
   SaleWorld, SaleStutter
DEF Next, Handle, Challenge

LEMMA SpecSaleInv == ASSUME LogFaults = {} PROVE Spec => []SaleInv
<1>1. SaleInv /\ TypeInv /\ [Next]_vars => SaleInv'
    BY SaleNext
<1> QED
    BY <1>1, SaleInit, SpecTypeInv, PTL DEF Spec

\* Whatever the crashes, restarts, forks and lost answers, and however small the
\* window they hit, no payer is served past the daily cap, provided the log's
\* writes are neither dropped nor torn.
THEOREM CapHolds == ASSUME LogFaults = {} PROVE Spec => []SoldWithinCap
<1>1. TypeInv /\ SaleInv => SoldWithinCap
    BY RowTypes DEF SaleInv, LogBoundsSales, SoldWithinCap
<1> QED
    BY <1>1, SpecTypeInv, SpecSaleInv, PTL

\* Under the same proviso a nonce buys one reading, across retries and restarts.
THEOREM NonceBuysOnce == ASSUME LogFaults = {} PROVE Spec => []NonceSoldOnce
<1>1. SaleInv => NonceSoldOnce
    BY DEF SaleInv, LogBoundsSales, NonceSoldOnce
<1> QED
    BY <1>1, SpecSaleInv, PTL

-----------------------------------------------------------------------------
(***************************************************************************)
(* The gate implements the abstract sale: answering 200 is a Sell, a block *)
(* becoming final is a Land, and every other step changes nothing of it.   *)
(***************************************************************************)

ConfirmedPayments == {p \in Payments : chain[p] = "confirmed"}

LEMMA ContractInit == Init => Contract!Init
BY DEF Init, Contract!Init, Keys

LEMMA ServeIsSell == TypeInv /\ SaleInv /\ Serve => Contract!Next
<1> SUFFICES ASSUME TypeInv, SaleInv, Serve PROVE Contract!Next
    OBVIOUS
<1>1. cur \in Payments /\ day \in Days /\ cur.nonce \in Nonces /\ cur.amount \in Nat
    BY HoldIsReservation, AmountsAssumption DEF Serve, Hold, Reservation, TypeInv, InHand
<1>2. cur \in ConfirmedPayments
    BY <1>1 DEF Serve, SaleInv, OkIsConfirmed, ConfirmedPayments
<1>3. Row \in Keys
    BY HoldIsReservation DEF Serve
<1>4. timesSold[cur.nonce] = 0 /\ soldAmounts[Row] + cur.amount <= Cap
    BY <1>1, <1>3, RowTypes DEF Serve, SaleInv, RoomToSell, LogBoundsSales
<1>5. timesSold' = [timesSold EXCEPT ![cur.nonce] = 1]
    <2>1. timesSold' = [timesSold EXCEPT ![cur.nonce] = timesSold[cur.nonce] + 1]
        BY DEF Serve
    <2> QED
        BY <1>4, <2>1
<1>6. /\ soldAmounts' = [soldAmounts EXCEPT ![<<cur.payer, day>>] = @ + cur.amount]
      /\ soldAmounts[<<cur.payer, day>>] + cur.amount <= Cap
    BY <1>4 DEF Serve, Row
<1>7. ConfirmedPayments' = ConfirmedPayments
    BY DEF Serve, worldVars, ConfirmedPayments
<1>8. Contract!Sell(cur, day)
    BY <1>2, <1>4, <1>5, <1>6, <1>7 DEF Contract!Sell, ConfirmedPayments
<1> QED
    BY <1>1, <1>8 DEF Contract!Next

\* One transaction changes state, and confirmed is never left.
LEMMA WorldIsLand == TypeInv /\ World => Contract!Next \/ UNCHANGED Contract!vars
<1> SUFFICES ASSUME TypeInv, World PROVE Contract!Next \/ UNCHANGED Contract!vars
    OBVIOUS
<1>1. UNCHANGED soldVars
    BY DEF World, Tick, Process, Finalise, Expire, ForkOut, ChainStep
<1>2. CASE Tick
    BY <1>1, <1>2 DEF Tick, Contract!vars, soldVars
<1>3. CASE \E p \in Payments : ChainStep(p, "processed", "confirmed")
    <2>1. PICK p \in Payments : ChainStep(p, "processed", "confirmed")
        BY <1>3
    <2>2. ConfirmedPayments' = ConfirmedPayments \cup {p}
        BY <2>1 DEF ChainStep, ConfirmedPayments, TypeInv, TypeOK
    <2>3. Contract!Land(p)
        BY <1>1, <2>2 DEF Contract!Land, ConfirmedPayments, soldVars
    <2> QED
        BY <2>3 DEF Contract!Next
<1>4. ASSUME NEW p \in Payments, NEW from \in ChainStates \ {"confirmed"},
             NEW to \in ChainStates \ {"confirmed"}, ChainStep(p, from, to)
      PROVE  UNCHANGED Contract!vars
    <2>1. ConfirmedPayments' = ConfirmedPayments
        BY <1>4 DEF ChainStep, ConfirmedPayments, TypeInv, TypeOK
    <2> QED
        BY <1>1, <2>1 DEF Contract!vars, ConfirmedPayments, soldVars
<1> QED
    BY <1>2, <1>3, <1>4 DEF World, Process, Finalise, Expire, ForkOut, ChainStates

\* A broadcast puts a payment in flight, which confirms nothing.
LEMMA BroadcastKeepsConfirmed ==
    ASSUME TypeInv, pc \in Holding, Broadcast
    PROVE  ConfirmedPayments' = ConfirmedPayments
<1>1. cur \in Payments
    BY DEF TypeInv, InHand
<1> QED
    BY <1>1 DEF Broadcast, ConfirmedPayments, TypeInv, TypeOK

LEMMA HandleKeepsContract ==
    TypeInv /\ (Settle \/ Resolve \/ record_earning) => UNCHANGED Contract!vars
<1> SUFFICES ASSUME TypeInv, Settle \/ Resolve \/ record_earning
             PROVE  UNCHANGED Contract!vars
    OBVIOUS
<1>1. CASE Broadcast /\ (SendAccepted \/ SendReplyLost)
    <2>1. ConfirmedPayments' = ConfirmedPayments
        BY <1>1, BroadcastKeepsConfirmed DEF SendAccepted, SendReplyLost, Holding
    <2> QED
        BY <1>1, <2>1 DEF SendAccepted, SendReplyLost, unmoved, Contract!vars,
                          ConfirmedPayments, soldVars
<1>2. CASE UNCHANGED <<chain, soldVars>>
    BY <1>2 DEF Contract!vars, soldVars
<1> QED
    BY <1>1, <1>2
    DEF Settle, SimulateRefuses, SimulatePasses, SendAccepted, SendRefused, SendReplyLost,
        PollSettled, PollFailed, PollNothing, Resolve, record_earning, unmoved, worldVars

LEMMA RestIsStutter ==
    (\E p \in Payments : Challenge(p) \/ Present(p)) \/ Crash \/ CrashTearingLog
        \/ Restart \/ UNCHANGED vars
    => UNCHANGED Contract!vars
BY DEF Challenge, Present, Crash, CrashTearingLog, LoseMemory, Restart, vars,
       worldVars, soldVars, Contract!vars

LEMMA ContractStep ==
    TypeInv /\ SaleInv /\ [Next]_vars => [Contract!Next]_Contract!vars
BY ServeIsSell, WorldIsLand, HandleKeepsContract, RestIsStutter DEF Next, Handle

\* With a log whose writes are neither dropped nor torn, the gate implements the
\* abstract sale: every crash, restart, lost answer and fork is invisible in it.
THEOREM GateImplementsContract ==
    ASSUME LogFaults = {} PROVE Spec => ImplementsSaleContract
<1>1. TypeInv /\ SaleInv /\ [Next]_vars => [Contract!Next]_Contract!vars
    BY ContractStep
<1> QED
    BY <1>1, ContractInit, SpecTypeInv, SpecSaleInv, PTL
    DEF Spec, ImplementsSaleContract, Contract!Spec

-----------------------------------------------------------------------------
(***************************************************************************)
(* Serving only what the cluster confirmed needs no proviso on the log.    *)
(***************************************************************************)

LEMMA OkNext == TypeInv /\ OkIsConfirmed /\ [Next]_vars => OkIsConfirmed'
<1> SUFFICES ASSUME TypeInv, OkIsConfirmed, [Next]_vars PROVE OkIsConfirmed'
    OBVIOUS
<1> USE DEF OkIsConfirmed, Holding
<1>1. ASSUME NEW p \in Payments, Present(p) PROVE OkIsConfirmed'
    BY <1>1 DEF Present, worldVars
<1>2. CASE Settle
    BY <1>2 DEF Settle, SimulateRefuses, SimulatePasses, SendAccepted, SendRefused,
                SendReplyLost, PollSettled, PollFailed, PollNothing, Settled, unmoved
<1>3. CASE Resolve \/ record_earning \/ Serve
    BY <1>3 DEF Resolve, record_earning, Serve, Answer, NoRequest, worldVars
<1>4. CASE Crash \/ CrashTearingLog \/ Restart
    BY <1>4 DEF Crash, CrashTearingLog, LoseMemory, NoRequest, Restart, worldVars
<1>5. CASE World
    BY <1>5 DEF World, Tick, Process, Finalise, Expire, ForkOut, ChainStep, TypeInv,
                TypeOK, InHand, gateVars
<1>6. CASE UNCHANGED vars
    BY <1>6 DEF vars, gateVars, worldVars
<1> QED
    BY <1>1, <1>2, <1>3, <1>4, <1>5, <1>6 DEF Next, Handle, Challenge

LEMMA SpecOk == Spec => []OkIsConfirmed
<1>1. Init => OkIsConfirmed
    BY DEF Init, OkIsConfirmed
<1> QED
    BY <1>1, OkNext, SpecTypeInv, PTL DEF Spec

\* A reading is served only for a payment the cluster confirmed, under every
\* fault the model has: forks, lost answers, a damaged log, crashes.
THEOREM ServesOnlyConfirmed == Spec => []ServedOnlyConfirmed
<1>1. OkIsConfirmed => ServedOnlyConfirmed
    BY DEF OkIsConfirmed, ServedOnlyConfirmed
<1> QED
    BY <1>1, SpecOk, PTL

-----------------------------------------------------------------------------
(***************************************************************************)
(* The ledger inside the gate, under every fault.                          *)
(***************************************************************************)

\* The handler's one reservation is the only one, it owns its nonce, and the
\* rows add up.
GateLedgerInv == OneHold /\ HoldsOwnTheirNonces /\ RowsInv

LEMMA EmptyLedgerAddsUp ==
    ASSUME held = {}, settled = spent, \A k \in Keys : spent[k] \in Nat
    PROVE  HoldsOwnTheirNonces /\ RowsInv
<1>1. \A k : HeldFor(k) = {}
    BY DEF HeldFor
<1> QED
    BY <1>1, UnitsEmpty, FS_EmptySet DEF HoldsOwnTheirNonces, RowsInv, RowsAddUp

LEMMA RehydrateAddsUp ==
    ASSUME NEW amounts \in [Keys -> Nat], NEW nonces \in SUBSET Nonces,
           Rehydrate(amounts, nonces)
    PROVE  (HoldsOwnTheirNonces /\ RowsInv)'
<1>1. held' = {} /\ settled' = spent' /\ \A k \in Keys : spent'[k] \in Nat
    BY RehydrateType DEF Rehydrate, LedgerTypeOK
<1>2. \A k : HeldFor(k)' = {}
    BY <1>1 DEF HeldFor
<1> QED
    BY <1>1, <1>2, UnitsEmpty, FS_EmptySet DEF HoldsOwnTheirNonces, RowsInv, RowsAddUp

LEMMA GateLedgerNext == TypeInv /\ GateLedgerInv /\ [Next]_vars => GateLedgerInv'
<1> SUFFICES ASSUME TypeInv, GateLedgerInv, [Next]_vars PROVE GateLedgerInv'
    OBVIOUS
<1>0. LedgerTypeOK
    BY DEF TypeInv, TypeOK
<1>1. ASSUME NEW p \in Payments, Present(p) PROVE GateLedgerInv'
    <2>1. /\ p.payer \in Payers /\ p.nonce \in Nonces /\ p.amount \in Amounts
          /\ today \in Days
        BY <1>1, VerifiedPayment DEF Present, TypeInv, TypeOK
    <2>2. Reserve(p.payer, p.nonce, today, p.amount)
        BY <1>1 DEF Present
    <2>3. RowsInv'
        BY <1>0, <2>1, <2>2, RowsReserve DEF GateLedgerInv
    <2>4. OneHold'
        BY <1>1 DEF Present, Reserve, GateLedgerInv, OneHold, Hold, Holding
    <2>5. HoldsOwnTheirNonces'
        BY <2>2 DEF Reserve, NonceReused, GateLedgerInv, HoldsOwnTheirNonces
    <2> QED
        BY <2>3, <2>4, <2>5 DEF GateLedgerInv
<1>2. CASE Resolve
    <2>1. Hold \in held /\ (Confirm(Hold) \/ Release(Hold))
        BY <1>2 DEF Resolve, Confirm, Release
    <2>2. RowsInv'
        BY <1>0, <2>1, RowsConfirm, RowsRelease DEF GateLedgerInv
    <2>3. held' = {}
        BY <1>2, <2>1 DEF Resolve, Confirm, Release, GateLedgerInv, OneHold, Holding
    <2>4. OneHold' /\ HoldsOwnTheirNonces'
        BY <1>2, <2>3 DEF Resolve, Answer, OneHold, HoldsOwnTheirNonces, Holding
    <2> QED
        BY <2>2, <2>4 DEF GateLedgerInv
<1>3. CASE Crash \/ CrashTearingLog
    <2>1. (HoldsOwnTheirNonces /\ RowsInv)'
        BY <1>3, RehydrateAddsUp DEF Crash, CrashTearingLog, LoseMemory
    <2> QED
        BY <1>3, <2>1 DEF Crash, CrashTearingLog, LoseMemory, Rehydrate, GateLedgerInv,
                          OneHold, Holding
<1>4. CASE Restart
    <2>1. /\ load_earnings(log).amounts \in [Keys -> Nat]
          /\ load_earnings(log).nonces \in SUBSET Nonces
          /\ EmptyLog.amounts \in [Keys -> Nat] /\ {} \in SUBSET Nonces
        BY LoadedType, EmptyLogType DEF TypeInv, TypeOK, LogType
    <2>2. (HoldsOwnTheirNonces /\ RowsInv)'
        BY <1>4, <2>1, RehydrateAddsUp DEF Restart
    <2> QED
        BY <1>4, <2>2 DEF Restart, Rehydrate, GateLedgerInv, OneHold, Holding
<1>5. CASE UNCHANGED ledgerVars /\ UNCHANGED Hold /\ (pc \in Holding <=> pc' \in Holding)
    BY <1>5 DEF ledgerVars, GateLedgerInv, OneHold, HoldsOwnTheirNonces, RowsInv,
                RowsAddUp, HeldFor
<1>6. CASE Settle
    BY <1>5, <1>6 DEF Settle, SimulateRefuses, SimulatePasses, SendAccepted, SendRefused,
           SendReplyLost, PollSettled, PollFailed, PollNothing, Settled, unmoved, Holding, Hold
<1>7. CASE record_earning
    BY <1>5, <1>7 DEF record_earning, Hold, Holding
<1>8. CASE Serve
    <2>1. held = {} /\ UNCHANGED ledgerVars /\ pc' \notin Holding
        BY <1>8 DEF Serve, Answer, GateLedgerInv, OneHold, Holding
    <2> QED
        BY <2>1 DEF ledgerVars, GateLedgerInv, OneHold, HoldsOwnTheirNonces, RowsInv,
                    RowsAddUp, HeldFor
<1>9. CASE World
    BY <1>5, <1>9 DEF World, Tick, Process, Finalise, Expire, ForkOut, ChainStep, gateVars, Hold
<1>10. CASE UNCHANGED vars
    BY <1>5, <1>10 DEF vars, gateVars, Hold
<1> QED
    BY <1>1, <1>2, <1>3, <1>4, <1>6, <1>7, <1>8, <1>9, <1>10 DEF Next, Handle, Challenge

LEMMA SpecGateLedger == Spec => []GateLedgerInv
<1>1. Init => GateLedgerInv
    <2> SUFFICES ASSUME Init PROVE GateLedgerInv
        OBVIOUS
    <2>1. HoldsOwnTheirNonces /\ RowsInv
        BY EmptyLedgerAddsUp DEF Init
    <2> QED
        BY <2>1 DEF Init, GateLedgerInv, OneHold, Holding
<1> QED
    BY <1>1, GateLedgerNext, SpecTypeInv, PTL DEF Spec

\* In the gate too, under every fault, a row is what settled and what is held:
\* crashes, restarts and releases neither lose nor double a payment's room.
THEOREM GateRowsAddUp == Spec => []RowsAddUp
<1>1. GateLedgerInv => RowsAddUp
    BY DEF GateLedgerInv, RowsInv
<1> QED
    BY <1>1, SpecGateLedger, PTL

-----------------------------------------------------------------------------
(***************************************************************************)
(* The log inside the ledger, whatever writes are dropped or torn.  What   *)
(* the process meters is not the log's complete lines but what a restart   *)
(* would read of it, the line cut before its newline included.             *)
(***************************************************************************)

\* Only an unterminated log has a tail, and that is one sale.
Shape(l) == /\ ~l.open => l.tail = {}
            /\ \A r, s \in l.tail : r = s

\* What a restart would restore is within the cap, and while the process runs
\* it is in the ledger, with room left for the payment not yet recorded.
LogWithinLedger ==
    /\ Shape(log)
    /\ \A k \in Keys : Readable(log).amounts[k] <= Cap
    /\ pc # "down" => /\ Readable(log).nonces \subseteq used_nonces
                      /\ \A k \in Keys : Readable(log).amounts[k] <= spent[k] /\ spent[k] <= Cap
    /\ pc \in Holding \cup {"record"} =>
        /\ cur.nonce \in used_nonces \ Readable(log).nonces
        /\ Readable(log).amounts[Row] + cur.amount <= spent[Row]

LEMMA ReadableIs ==
    ASSUME NEW l \in LogType, Shape(l)
    PROVE  \/ l.tail = {} /\ Readable(l) = l
           \/ \E r \in Reservation :
                 /\ l.tail = {r}
                 /\ Readable(l).nonces = l.nonces \cup {r.nonce}
                 /\ \A k \in Keys : Readable(l).amounts[k] =
                        IF k = KeyOf(r) THEN l.amounts[k] + r.amount ELSE l.amounts[k]
<1>1. CASE l.tail = {}
    BY <1>1 DEF Readable
<1>2. CASE l.tail # {}
    <2>1. PICK r \in Reservation : l.tail = {r}
        BY <1>2 DEF Shape, LogType
    <2>2. (CHOOSE s \in l.tail : TRUE) = r
        BY <2>1
    <2>3. Readable(l) = WithSale(l, r)
        BY <1>2, <2>2 DEF Readable
    <2>4. l.amounts \in [Keys -> Nat]
        BY DEF LogType
    <2> QED
        BY <2>1, <2>3, <2>4 DEF WithSale
<1> QED
    BY <1>1, <1>2

LEMMA LogFields ==
    ASSUME NEW l \in LogType, NEW k \in Keys
    PROVE  l.amounts[k] \in Nat /\ Readable(l).amounts[k] \in Nat
BY ReadableType DEF LogType

LEMMA ReadableBoundsLines ==
    ASSUME NEW l \in LogType, Shape(l)
    PROVE  /\ \A k \in Keys : l.amounts[k] <= Readable(l).amounts[k]
           /\ l.nonces \subseteq Readable(l).nonces
<1>1. CASE l.tail = {}
    BY <1>1, LogFields, ReadableIs
<1>2. CASE l.tail # {}
    <2>1. PICK r \in Reservation :
              /\ Readable(l).nonces = l.nonces \cup {r.nonce}
              /\ \A k \in Keys : Readable(l).amounts[k] =
                     IF k = KeyOf(r) THEN l.amounts[k] + r.amount ELSE l.amounts[k]
        BY <1>2, ReadableIs
    <2> QED
        BY <2>1, LogFields, ReservationFields
<1> QED
    BY <1>1, <1>2

\* However a write ends, a restart reads at most that one sale more than before.
WroteAtMost(l, m, r) ==
    /\ m \in LogType /\ Shape(m)
    /\ Readable(m).nonces \subseteq Readable(l).nonces \cup {r.nonce}
    /\ \A k \in Keys : Readable(m).amounts[k] <=
           IF k = KeyOf(r) THEN Readable(l).amounts[k] + r.amount ELSE Readable(l).amounts[k]

\* What an append may leave of the log.
Written(l, r) == {l, AppendSale(l, r)} \cup TornAppends(l, r)

LEMMA WritesAtMost ==
    ASSUME NEW l \in LogType, Shape(l), NEW r \in Reservation,
           NEW m \in Written(l, r)
    PROVE  WroteAtMost(l, m, r)
<1>0. /\ l.amounts \in [Keys -> Nat] /\ r.amount \in Nat /\ KeyOf(r) \in Keys
      /\ \A k \in Keys : l.amounts[k] \in Nat /\ Readable(l).amounts[k] \in Nat
      /\ \A k \in Keys : l.amounts[k] <= Readable(l).amounts[k]
      /\ l.nonces \subseteq Readable(l).nonces
    BY LogFields, ReadableBoundsLines, ReservationFields DEF LogType
<1>1. CASE m = l
    BY <1>0, <1>1 DEF WroteAtMost
<1>2. CASE m = AppendSale(l, r) /\ ~l.open
    <2>1. m = WithSale(l, r) /\ m \in LogType /\ m.tail = {} /\ l.tail = {}
        BY <1>2, WithSaleType DEF AppendSale, WithSale, Shape
    <2>2. Readable(m) = m /\ Readable(l) = l /\ Shape(m)
        BY <2>1 DEF Readable, Shape
    <2>3. /\ m.nonces = l.nonces \cup {r.nonce}
          /\ \A k \in Keys : m.amounts[k] =
                 IF k = KeyOf(r) THEN l.amounts[k] + r.amount ELSE l.amounts[k]
        BY <1>0, <2>1 DEF WithSale
    <2> QED
        BY <1>0, <2>1, <2>2, <2>3 DEF WroteAtMost
<1>3. CASE \/ (m = AppendSale(l, r) /\ l.open) \/ (m = Cut(l, r) /\ l.open)
           \/ m = CutShort(l) \/ m = CutInCharacter(l)
    <2>1. /\ m \in LogType /\ m.tail = {} /\ m.amounts = l.amounts /\ m.nonces = l.nonces
        <3>1. CutInCharacter(l) \in LogType
            BY TornType DEF TornAppends
        <3> QED
            BY <1>3, <3>1 DEF AppendSale, CutShort, CutInCharacter, Cut, LogType
    <2>2. Readable(m) = m /\ Shape(m)
        BY <2>1 DEF Readable, Shape
    <2> QED
        BY <1>0, <2>1, <2>2 DEF WroteAtMost
<1>4. CASE m = Cut(l, r) /\ ~l.open
    <2>1. /\ m \in LogType /\ m.tail = {r} /\ m.open
          /\ m.amounts = l.amounts /\ m.nonces = l.nonces
        BY <1>4 DEF Cut, LogType
    <2>2. Shape(m)
        BY <2>1 DEF Shape
    <2>3. /\ Readable(m).nonces = l.nonces \cup {r.nonce}
          /\ \A k \in Keys : Readable(m).amounts[k] =
                 IF k = KeyOf(r) THEN l.amounts[k] + r.amount ELSE l.amounts[k]
        BY <2>1, <2>2, ReadableIs
    <2> QED
        BY <1>0, <2>1, <2>2, <2>3 DEF WroteAtMost
<1> QED
    BY <1>1, <1>2, <1>3, <1>4 DEF Written, TornAppends

LEMMA LogTypes ==
    ASSUME TypeInv
    PROVE  /\ Cap \in Nat /\ log \in LogType
           /\ \A k \in Keys : /\ spent[k] \in Nat /\ log.amounts[k] \in Nat
                              /\ Readable(log).amounts[k] \in Nat
BY RowTypes, LogFields DEF TypeInv, TypeOK

LEMMA WithinPresent ==
    ASSUME TypeInv, LogWithinLedger, NEW p \in Payments, Present(p)
    PROVE  LogWithinLedger'
<1> DEFINE k0 == <<p.payer, today>>
<1>1. /\ p.payer \in Payers /\ p.nonce \in Nonces /\ p.amount \in Amounts
      /\ today \in Days
    BY VerifiedPayment DEF Present, TypeInv, TypeOK
<1>2. k0 \in Keys /\ p.amount \in Nat
    BY <1>1, AmountsAssumption DEF Keys
<1>3. SatAdd(spent[k0], p.amount) = spent[k0] + p.amount /\ spent[k0] + p.amount <= Cap
    BY <1>2, RowTypes, CapAssumption DEF Present, Reserve, WithinCap, SatAdd
<1>4. \A k \in Keys : spent'[k] = IF k = k0 THEN spent[k] + p.amount ELSE spent[k]
    BY <1>3 DEF Present, Reserve, TypeInv, TypeOK, LedgerTypeOK
<1>5. Row' = k0 /\ cur' = p /\ log' = log /\ pc = "idle" /\ pc' = "simulate"
    BY DEF Present, Row
<1>6. /\ Readable(log).nonces \subseteq used_nonces /\ p.nonce \notin used_nonces
      /\ used_nonces' = used_nonces \cup {p.nonce}
    BY <1>5 DEF LogWithinLedger, Present, Reserve, NonceReused
<1>7. \A k \in Keys : Readable(log).amounts[k] <= spent'[k] /\ spent'[k] <= Cap
    BY <1>2, <1>3, <1>4, <1>5, LogTypes DEF LogWithinLedger
<1>8. Readable(log).amounts[k0] + p.amount <= spent'[k0]
    BY <1>2, <1>4, <1>5, LogTypes DEF LogWithinLedger
<1> QED
    BY <1>5, <1>6, <1>7, <1>8 DEF LogWithinLedger

LEMMA WithinResolve == TypeInv /\ LogWithinLedger /\ Resolve => LogWithinLedger'
<1> SUFFICES ASSUME TypeInv, LogWithinLedger, Resolve PROVE LogWithinLedger'
    OBVIOUS
<1>1. Hold \in Reservation /\ Row \in Keys /\ KeyOf(Hold) = Row
    BY HoldIsReservation DEF Resolve, Holding
<1>2. Hold.nonce = cur.nonce /\ Hold.amount = cur.amount /\ cur.amount \in Nat
    BY <1>1, AmountsAssumption DEF Hold, Reservation
<1>3. /\ Readable(log).amounts[Row] + cur.amount <= spent[Row]
      /\ cur.nonce \notin Readable(log).nonces
      /\ pc = "resolve" /\ log' = log
    BY DEF Resolve, LogWithinLedger, Holding
<1>4. CASE outcome = "definite"
    <2>1. Release(Hold) /\ pc' = "idle"
        BY <1>4 DEF Resolve, resolution_for, Answer
    <2>2. SatSub(spent[Row], cur.amount) = spent[Row] - cur.amount
        BY <1>1, <1>2, <1>3, LogTypes DEF SatSub
    <2>3. \A k \in Keys : spent'[k] = IF k = Row THEN spent[k] - cur.amount ELSE spent[k]
        BY <2>1, <2>2, <1>1, <1>2 DEF Release, TypeInv, TypeOK, LedgerTypeOK
    <2>4. \A k \in Keys : Readable(log).amounts[k] <= spent'[k] /\ spent'[k] <= Cap
        BY <2>3, <1>1, <1>2, <1>3, LogTypes DEF LogWithinLedger
    <2>5. Readable(log).nonces \subseteq used_nonces'
        BY <2>1, <1>2, <1>3 DEF Release, LogWithinLedger
    <2> QED
        BY <1>3, <2>1, <2>4, <2>5 DEF LogWithinLedger, Holding
<1>5. CASE outcome # "definite"
    <2>1. UNCHANGED <<spent, used_nonces>> /\ pc' \in {"record", "idle"}
        BY <1>5 DEF Resolve, resolution_for, Confirm, Answer
    <2>2. pc' = "record" => UNCHANGED <<cur, Row>>
        BY DEF Resolve, Answer, Row
    <2> QED
        BY <1>3, <2>1, <2>2 DEF LogWithinLedger, Holding
<1> QED
    BY <1>4, <1>5

\* The payment being recorded is the one the ledger keeps room for.
LEMMA RecordedWithinLedger ==
    ASSUME TypeInv, LogWithinLedger, pc = "record",
           NEW m \in Written(log, Hold)
    PROVE  /\ m \in LogType /\ Shape(m)
           /\ Readable(m).nonces \subseteq used_nonces
           /\ \A k \in Keys : Readable(m).amounts[k] <= spent[k] /\ spent[k] <= Cap
<1>1. Hold \in Reservation /\ Row \in Keys /\ KeyOf(Hold) = Row
    BY HoldIsReservation
<1>2. Hold.nonce = cur.nonce /\ Hold.amount = cur.amount /\ cur.amount \in Nat
    BY <1>1, AmountsAssumption DEF Hold, Reservation
<1>3. WroteAtMost(log, m, Hold)
    BY <1>1, WritesAtMost, LogTypes DEF LogWithinLedger
<1>4. Readable(m).nonces \subseteq used_nonces
    BY <1>2, <1>3 DEF WroteAtMost, LogWithinLedger
<1>5. ASSUME NEW k \in Keys PROVE Readable(m).amounts[k] <= spent[k] /\ spent[k] <= Cap
    <2>1. Readable(m).amounts[k] \in Nat
        BY <1>3, LogFields DEF WroteAtMost
    <2>2. CASE k = Row
        BY <1>1, <1>2, <1>3, <2>1, <2>2, LogTypes DEF WroteAtMost, LogWithinLedger
    <2>3. CASE k # Row
        BY <1>1, <1>2, <1>3, <2>1, <2>3, LogTypes DEF WroteAtMost, LogWithinLedger
    <2> QED
        BY <2>2, <2>3
<1> QED
    BY <1>3, <1>4, <1>5 DEF WroteAtMost

LEMMA WithinRecord == TypeInv /\ LogWithinLedger /\ record_earning => LogWithinLedger'
<1> SUFFICES ASSUME TypeInv, LogWithinLedger, record_earning PROVE LogWithinLedger'
    OBVIOUS
<1>1. /\ log' \in Written(log, Hold)
      /\ pc = "record" /\ pc' = "serve" /\ UNCHANGED <<spent, used_nonces>>
    BY DEF record_earning, ledgerVars, Written
<1>2. /\ log' \in LogType /\ Shape(log')
      /\ Readable(log').nonces \subseteq used_nonces
      /\ \A k \in Keys : Readable(log').amounts[k] <= spent[k] /\ spent[k] <= Cap
    BY <1>1, RecordedWithinLedger
<1>3. \A k \in Keys : Readable(log').amounts[k] <= Cap
    BY <1>2, LogTypes, LogFields
<1> QED
    BY <1>1, <1>2, <1>3 DEF LogWithinLedger, Holding

LEMMA WithinCrash ==
    TypeInv /\ LogWithinLedger /\ (Crash \/ CrashTearingLog) => LogWithinLedger'
<1> SUFFICES ASSUME TypeInv, LogWithinLedger, Crash \/ CrashTearingLog
             PROVE  LogWithinLedger'
    OBVIOUS
<1>1. pc' = "down"
    BY DEF Crash, CrashTearingLog, LoseMemory
<1>2. CASE Crash
    BY <1>1, <1>2 DEF Crash, LogWithinLedger, Holding
<1>3. CASE CrashTearingLog
    <2>1. log' \in Written(log, Hold) /\ pc = "record"
        BY <1>3 DEF CrashTearingLog, Written
    <2>2. /\ log' \in LogType /\ Shape(log')
          /\ \A k \in Keys : Readable(log').amounts[k] <= spent[k] /\ spent[k] <= Cap
        BY <2>1, RecordedWithinLedger
    <2>3. \A k \in Keys : Readable(log').amounts[k] <= Cap
        BY <2>2, LogTypes, LogFields
    <2> QED
        BY <1>1, <2>2, <2>3 DEF LogWithinLedger, Holding
<1> QED
    BY <1>2, <1>3

LEMMA WithinRestart == TypeInv /\ LogWithinLedger /\ Restart /\ ~blind' => LogWithinLedger'
<1> SUFFICES ASSUME TypeInv, LogWithinLedger, Restart, ~blind' PROVE LogWithinLedger'
    OBVIOUS
<1>0. load_earnings(log) = Readable(log)
    BY DEF Restart, load_earnings
<1>1. \A k \in Keys : SatAdd(0, Readable(log).amounts[k]) = Readable(log).amounts[k]
    BY LogTypes, CapAssumption DEF LogWithinLedger, SatAdd
<1>2. /\ \A k \in Keys : spent'[k] = Readable(log).amounts[k]
      /\ used_nonces' = Readable(log).nonces /\ log' = log /\ pc' = "idle"
    BY <1>0, <1>1 DEF Restart, Rehydrate
<1> QED
    BY <1>2, LogTypes DEF LogWithinLedger, Holding

LEMMA WithinNext == TypeInv /\ LogWithinLedger /\ [Next]_vars /\ ~blind' => LogWithinLedger'
<1> SUFFICES ASSUME TypeInv, LogWithinLedger, [Next]_vars, ~blind' PROVE LogWithinLedger'
    OBVIOUS
<1>1. CASE /\ UNCHANGED <<spent, used_nonces, log>> /\ pc # "down" /\ pc' # "down"
           /\ pc' \in Holding \cup {"record"} =>
                  pc \in Holding \cup {"record"} /\ UNCHANGED <<cur, Row>>
    BY <1>1 DEF LogWithinLedger
<1>2. CASE Settle
    BY <1>1, <1>2 DEF Settle, SimulateRefuses, SimulatePasses, SendAccepted, SendRefused,
           SendReplyLost, PollSettled, PollFailed, PollNothing, Settled, unmoved,
           ledgerVars, Holding, Row
<1>3. CASE Serve
    BY <1>1, <1>3 DEF Serve, Answer, ledgerVars, Holding
<1>4. CASE World \/ UNCHANGED vars
    BY <1>4 DEF LogWithinLedger, World, Tick, Process, Finalise, Expire, ForkOut, ChainStep,
                gateVars, ledgerVars, vars, Row
<1> QED
    BY <1>2, <1>3, <1>4, WithinPresent, WithinResolve, WithinRecord, WithinCrash, WithinRestart
    DEF Next, Handle, Challenge

LEMMA BlindStays == TypeInv /\ [Next]_vars /\ ~blind' => ~blind
BY DEF Next, Challenge, Present, Handle, Settle, SimulateRefuses, SimulatePasses, SendAccepted,
       SendRefused, SendReplyLost, PollSettled, PollFailed, PollNothing, unmoved, Resolve,
       record_earning, Serve, Crash, CrashTearingLog, LoseMemory, Restart, World, Tick, Process,
       Finalise, Expire, ForkOut, ChainStep, vars

LEMMA SpecWithin == Spec => [](~blind => LogWithinLedger)
<1>1. Init => LogWithinLedger
    BY CapAssumption DEF Init, EmptyLog, LogWithinLedger, Shape, Readable, Holding, Keys
<1>2. TypeInv /\ (~blind => LogWithinLedger) /\ [Next]_vars => (~blind => LogWithinLedger)'
    BY WithinNext, BlindStays
<1> QED
    BY <1>1, <1>2, SpecTypeInv, PTL DEF Spec

\* While it runs, and as long as every start could read the file, the process meters
\* and refuses every sale on the log's complete lines, whatever other writes were
\* dropped or torn: no release and no restore loses one.
THEOREM LogStaysInLedger == Spec => []LogIsInLedger
<1>1. TypeInv /\ (~blind => LogWithinLedger) => LogIsInLedger
    <2> SUFFICES ASSUME TypeInv, LogWithinLedger, pc # "down"
                 PROVE  /\ \A k \in Keys : log.amounts[k] <= spent[k]
                        /\ log.nonces \subseteq used_nonces
        BY DEF LogIsInLedger
    <2> QED
        BY LogTypes, ReadableBoundsLines DEF LogWithinLedger
<1> QED
    BY <1>1, SpecWithin, SpecTypeInv, PTL

-----------------------------------------------------------------------------
(***************************************************************************)
(* The log restores a lower bound of what settled.  Which payments a row   *)
(* of the log stands for is told by its nonces: each line carries the      *)
(* nonce of a payment no other line carries, since the process refuses     *)
(* the nonces it restored.                                                 *)
(***************************************************************************)

\* Transactions the cluster has seen are finitely many: the gate sends one at a time.
Sent == {p \in Payments : chain[p] # "absent"}

\* The confirmed payments of a row whose nonces are among these.
PaidFor(k, nonces) == {p \in Against(k, {"confirmed"}) : p.nonce \in nonces}

\* The complete lines carry no more than the payments they name, and the cut line
\* is the sale of one more.
PaidLog(l) ==
    /\ \A k \in Keys : l.amounts[k] <= Units(PaidFor(k, l.nonces))
    /\ \A r \in l.tail : /\ r.nonce \notin l.nonces
                         /\ \E p \in Against(KeyOf(r), {"confirmed"}) :
                               p.nonce = r.nonce /\ p.amount = r.amount

\* What is polled for, and what poll saw confirmed, is metered on the day in hand.
SentToday == pc = "poll" \/ outcome = "ok" => sentOn[cur] = day

LogIsPaid == IsFiniteSet(Sent) /\ PaidLog(log) /\ SentToday

PaidInv == TypeInv /\ LogWithinLedger /\ OkIsConfirmed

LEMMA PaymentFields ==
    ASSUME NEW p \in Payments
    PROVE  p.payer \in Payers /\ p.nonce \in Nonces /\ p.amount \in Nat
BY PaymentsAssumption DEF PaymentRecord

LEMMA AgainstMetered ==
    ASSUME IsFiniteSet(Sent), NEW k, NEW states, "absent" \notin states,
           NEW S \in SUBSET Against(k, states)
    PROVE  Metered(S) /\ Units(S) \in Nat
<1>1. Against(k, states) \subseteq Sent /\ Against(k, states) \subseteq Payments
    BY DEF Against, Sent
<1>2. Metered(S)
    BY <1>1, FS_Subset, PaymentFields DEF Metered
<1> QED
    BY <1>2, UnitsNat

\* Only what the nonces of the log name matters to it.
LEMMA PaidKept ==
    ASSUME TypeInv, PaidLog(log), IsFiniteSet(Sent)', log' = log, Shape(log),
           \A p \in Payments :
               chain[p] = "confirmed" /\ p.nonce \in Readable(log).nonces =>
                   chain'[p] = "confirmed" /\ sentOn'[p] = sentOn[p]
    PROVE  PaidLog(log)'
<1>1. log \in LogType /\ log.nonces \subseteq Readable(log).nonces
    BY ReadableBoundsLines DEF TypeInv, TypeOK
<1>2. \A r \in log.tail : r.nonce \in Readable(log).nonces
    BY <1>1, ReadableIs
<1>3. ASSUME NEW k \in Keys PROVE log.amounts[k] <= Units(PaidFor(k, log.nonces)')
    <2>1. PaidFor(k, log.nonces) \subseteq PaidFor(k, log.nonces)'
        BY <1>1 DEF PaidFor, Against
    <2>2. PaidFor(k, log.nonces)' \subseteq Against(k, {"confirmed"})'
        BY DEF PaidFor
    <2>3. \A S \in SUBSET Against(k, {"confirmed"})' : Metered(S) /\ Units(S) \in Nat
        <3>1. /\ Against(k, {"confirmed"})' \subseteq Sent'
              /\ Against(k, {"confirmed"})' \subseteq Payments
            BY DEF Against, Sent
        <3>2. \A S \in SUBSET Against(k, {"confirmed"})' : Metered(S)
            BY <3>1, FS_Subset, PaymentFields DEF Metered
        <3> QED
            BY <3>2, UnitsNat
    <2>4. /\ Metered(PaidFor(k, log.nonces)')
          /\ Units(PaidFor(k, log.nonces)) \in Nat /\ Units(PaidFor(k, log.nonces)') \in Nat
        BY <2>1, <2>2, <2>3
    <2>5. Units(PaidFor(k, log.nonces)) <= Units(PaidFor(k, log.nonces)')
        BY <2>1, <2>4, UnitsSubset
    <2> QED
        BY <2>4, <2>5, LogTypes DEF PaidLog
<1>4. ASSUME NEW r \in log.tail
      PROVE  /\ r.nonce \notin log.nonces
             /\ \E p \in Against(KeyOf(r), {"confirmed"})' :
                    p.nonce = r.nonce /\ p.amount = r.amount
    BY <1>2 DEF PaidLog, Against
<1> QED
    BY <1>3, <1>4 DEF PaidLog, PaidFor

\* Writing the payment in hand, however the write ends, keeps the log paid for.
LEMMA PaidWrite ==
    ASSUME PaidInv, LogIsPaid, pc = "record",
           NEW m \in Written(log, Hold)
    PROVE  PaidLog(m)
<1>1. Hold \in Reservation /\ Row \in Keys /\ KeyOf(Hold) = Row /\ log \in LogType /\ Shape(log)
    BY HoldIsReservation DEF PaidInv, TypeInv, TypeOK, LogWithinLedger
<1>2. Hold.nonce = cur.nonce /\ Hold.amount = cur.amount /\ cur.amount \in Nat
    BY <1>1, AmountsAssumption DEF Hold, Reservation
<1>3. cur \in Payments /\ cur \in Against(Row, {"confirmed"})
    BY DEF PaidInv, TypeInv, InHand, OkIsConfirmed, LogIsPaid, SentToday, Against, Row
<1>4. cur.nonce \notin log.nonces
    BY <1>1, ReadableBoundsLines DEF PaidInv, LogWithinLedger
<1>5. IsFiniteSet(Sent) /\ PaidLog(log)
    BY DEF LogIsPaid
<1>6. CASE m = AppendSale(log, Hold) /\ ~log.open
    <2>1. /\ m.tail = {} /\ m.nonces = log.nonces \cup {cur.nonce}
          /\ \A k \in Keys : m.amounts[k] =
                 IF k = Row THEN log.amounts[k] + cur.amount ELSE log.amounts[k]
        BY <1>1, <1>2, <1>6 DEF AppendSale, WithSale, Shape, LogType
    <2>2. ASSUME NEW k \in Keys PROVE m.amounts[k] <= Units(PaidFor(k, m.nonces))
        <3> DEFINE old == PaidFor(k, log.nonces)
                   new == PaidFor(k, m.nonces)
        <3>1. old \subseteq new /\ new \subseteq Against(k, {"confirmed"})
            BY <2>1 DEF PaidFor
        <3>2. Metered(new) /\ Metered(old) /\ Units(old) \in Nat /\ Units(new) \in Nat
            BY <1>5, <3>1, AgainstMetered
        <3>3. log.amounts[k] <= Units(old) /\ log.amounts[k] \in Nat
            BY <1>1, <1>5, LogFields DEF PaidLog
        <3>4. CASE k = Row
            <4>1. cur \in new /\ cur \notin old
                BY <1>3, <1>4, <2>1, <3>4 DEF PaidFor
            <4>2. old \subseteq new \ {cur} /\ Metered(new \ {cur})
                BY <1>5, <3>1, <4>1, AgainstMetered
            <4>3. /\ Units(old) <= Units(new \ {cur}) /\ Units(new \ {cur}) \in Nat
                  /\ Units(new) = cur.amount + Units(new \ {cur})
                BY <3>2, <4>1, <4>2, UnitsSubset, UnitsRemove, UnitsNat
            <4>4. m.amounts[k] = log.amounts[k] + cur.amount
                BY <2>1, <3>4
            <4> QED
                BY <1>2, <3>2, <3>3, <4>3, <4>4
        <3>5. CASE k # Row
            <4>1. Units(old) <= Units(new)
                BY <3>1, <3>2, UnitsSubset
            <4>2. m.amounts[k] = log.amounts[k]
                BY <2>1, <3>5
            <4> QED
                BY <3>2, <3>3, <4>1, <4>2
        <3> QED
            BY <3>4, <3>5
    <2> QED
        BY <2>1, <2>2 DEF PaidLog
<1>7. CASE m = Cut(log, Hold) /\ ~log.open
    <2>1. m.amounts = log.amounts /\ m.nonces = log.nonces /\ m.tail = {Hold}
        BY <1>7 DEF Cut, LogType
    <2> QED
        BY <1>1, <1>2, <1>3, <1>4, <1>5, <2>1 DEF PaidLog
<1>8. CASE m = log
    BY <1>5, <1>8
<1>9. CASE \/ log.open /\ m \in {AppendSale(log, Hold), Cut(log, Hold)}
           \/ m \in {CutShort(log), CutInCharacter(log)}
    <2>1. m.amounts = log.amounts /\ m.nonces = log.nonces /\ m.tail = {}
        BY <1>1, <1>9 DEF AppendSale, Cut, CutShort, CutInCharacter, LogType
    <2> QED
        BY <1>5, <2>1 DEF PaidLog
<1> QED
    BY <1>6, <1>7, <1>8, <1>9 DEF Written, TornAppends

LEMMA PaidSettle == PaidInv /\ LogIsPaid /\ Settle => LogIsPaid'
<1> SUFFICES ASSUME PaidInv, LogIsPaid, Settle PROVE LogIsPaid'
    OBVIOUS
<1>1. /\ UNCHANGED unmoved /\ pc \in {"simulate", "send", "poll"}
      /\ UNCHANGED <<chain, sentOn>> \/ (pc = "send" /\ Broadcast)
    BY DEF Settle, SimulateRefuses, SimulatePasses, SendAccepted, SendRefused,
           SendReplyLost, PollSettled, PollFailed, PollNothing
<1>2. cur \in Payments /\ cur.nonce \notin Readable(log).nonces /\ log' = log
    BY <1>1 DEF PaidInv, TypeInv, InHand, LogWithinLedger, Holding, unmoved
<1>3. chain \in [Payments -> ChainStates] /\ sentOn \in [Payments -> Days \cup {NoDay}]
    BY DEF PaidInv, TypeInv, TypeOK
<1>4. /\ Sent' \subseteq Sent \cup {cur}
      /\ \A p \in Payments :
            chain[p] = "confirmed" /\ p.nonce \in Readable(log).nonces =>
                chain'[p] = "confirmed" /\ sentOn'[p] = sentOn[p]
    BY <1>1, <1>2, <1>3 DEF Sent, Broadcast
<1>5. IsFiniteSet(Sent)'
    BY <1>4, FS_AddElement, FS_Subset DEF LogIsPaid
<1>6. PaidLog(log)'
    BY <1>2, <1>4, <1>5, PaidKept DEF PaidInv, LogIsPaid, LogWithinLedger
<1>7. SentToday'
    BY <1>1, <1>2, <1>3
    DEF Settle, SimulateRefuses, SimulatePasses, SendAccepted, SendRefused, SendReplyLost,
        PollSettled, PollFailed, PollNothing, Settled, Broadcast, unmoved,
        PaidInv, OkIsConfirmed, TypeInv, InHand, Holding, LogIsPaid, SentToday
<1> QED
    BY <1>5, <1>6, <1>7 DEF LogIsPaid

LEMMA PaidWrites ==
    PaidInv /\ LogIsPaid /\ (record_earning \/ CrashTearingLog) => LogIsPaid'
<1> SUFFICES ASSUME PaidInv, LogIsPaid, record_earning \/ CrashTearingLog PROVE LogIsPaid'
    OBVIOUS
<1>1. /\ log' \in Written(log, Hold)
      /\ pc = "record" /\ UNCHANGED <<chain, sentOn>>
      /\ \/ UNCHANGED <<cur, day, outcome>> /\ pc' = "serve"
         \/ outcome' = "none" /\ pc' = "down"
    BY DEF record_earning, CrashTearingLog, LoseMemory, NoRequest, worldVars, Written
<1>2. PaidLog(log')
    BY <1>1, PaidWrite
<1>3. PaidLog(log)' /\ Sent' = Sent
    BY <1>1, <1>2 DEF PaidLog, PaidFor, Against, Sent
<1> QED
    BY <1>1, <1>3 DEF LogIsPaid, SentToday

LEMMA PaidWorld == PaidInv /\ LogIsPaid /\ World => LogIsPaid'
<1> SUFFICES ASSUME PaidInv, LogIsPaid, World PROVE LogIsPaid'
    OBVIOUS
<1>1. UNCHANGED <<pc, cur, day, outcome, log, sentOn>>
    BY DEF World, Tick, Process, Finalise, Expire, ForkOut, ChainStep, gateVars
<1>2. \A p \in Payments : /\ chain[p] = "confirmed" => chain'[p] = "confirmed"
                          /\ chain[p] = "absent" => chain'[p] = "absent"
    BY DEF World, Tick, Process, Finalise, Expire, ForkOut, ChainStep, PaidInv, TypeInv, TypeOK
<1>3. IsFiniteSet(Sent)'
    <2>1. Sent' \subseteq Sent
        BY <1>2 DEF Sent
    <2> QED
        BY <2>1, FS_Subset DEF LogIsPaid
<1>4. PaidLog(log)'
    BY <1>1, <1>2, <1>3, PaidKept DEF PaidInv, LogIsPaid, LogWithinLedger
<1> QED
    BY <1>1, <1>3, <1>4 DEF LogIsPaid, SentToday

LEMMA PaidNext == PaidInv /\ LogIsPaid /\ [Next]_vars => LogIsPaid'
<1> SUFFICES ASSUME PaidInv, LogIsPaid, [Next]_vars PROVE LogIsPaid'
    OBVIOUS
<1>1. CASE UNCHANGED <<log, chain, sentOn>> /\ SentToday'
    BY <1>1 DEF LogIsPaid, PaidLog, PaidFor, Against, Sent
<1>2. ASSUME NEW p \in Payments, Present(p) PROVE LogIsPaid'
    BY <1>1, <1>2 DEF Present, worldVars, SentToday, PaidInv, OkIsConfirmed
<1>3. CASE Resolve \/ Serve \/ Crash \/ Restart
    BY <1>1, <1>3 DEF Resolve, Serve, Answer, NoRequest, Crash, LoseMemory, Restart, worldVars,
                      LogIsPaid, SentToday
<1>4. CASE UNCHANGED vars
    BY <1>1, <1>4 DEF vars, gateVars, worldVars, LogIsPaid, SentToday
<1> QED
    BY <1>2, <1>3, <1>4, PaidSettle, PaidWrites, PaidWorld DEF Next, Handle, Challenge

LEMMA SpecPaid == Spec => [](~blind => PaidInv /\ LogIsPaid)
<1>1. Init => PaidInv /\ LogIsPaid
    <2> SUFFICES ASSUME Init PROVE PaidInv /\ LogIsPaid
        OBVIOUS
    <2>1. Sent = {} /\ \A k, nonces : PaidFor(k, nonces) = {}
        BY DEF Init, Sent, PaidFor, Against
    <2>2. PaidLog(log)
        BY <2>1, UnitsEmpty DEF Init, EmptyLog, PaidLog
    <2>3. LogIsPaid
        BY <2>1, <2>2, FS_EmptySet DEF Init, LogIsPaid, SentToday
    <2>4. PaidInv
        BY TypeInit, CapAssumption
        DEF Init, EmptyLog, PaidInv, LogWithinLedger, Shape, Readable, OkIsConfirmed, Holding, Keys
    <2> QED
        BY <2>3, <2>4
<1>2. /\ TypeInv /\ (~blind => LogWithinLedger) /\ OkIsConfirmed
      /\ (TypeInv /\ (~blind => LogWithinLedger) /\ OkIsConfirmed)'
      /\ (~blind => PaidInv /\ LogIsPaid) /\ [Next]_vars
      => (~blind => PaidInv /\ LogIsPaid)'
    BY PaidNext, BlindStays DEF PaidInv
<1> QED
    BY <1>1, <1>2, SpecTypeInv, SpecWithin, SpecOk, PTL DEF Spec

\* One request at a time sends one transaction at a time.
LEMMA SpecSent == Spec => []IsFiniteSet(Sent)
<1>1. Init => IsFiniteSet(Sent)
    <2> SUFFICES ASSUME Init PROVE Sent = {}
        BY FS_EmptySet
    <2> QED
        BY DEF Init, Sent
<1>2. ASSUME TypeInv, IsFiniteSet(Sent), [Next]_vars PROVE IsFiniteSet(Sent)'
    <2>1. chain \in [Payments -> ChainStates]
        BY <1>2 DEF TypeInv, TypeOK
    <2>2. UNCHANGED chain \/ Broadcast \/ World
        BY <1>2
        DEF Next, Challenge, Present, Handle, Settle, SimulateRefuses, SimulatePasses,
            SendAccepted, SendRefused, SendReplyLost, PollSettled, PollFailed, PollNothing,
            Resolve, record_earning, Serve, Crash, CrashTearingLog, LoseMemory, Restart,
            worldVars, vars
    <2>3. Sent' \subseteq Sent \cup {cur}
        BY <2>1, <2>2 DEF Sent, Broadcast, World, Tick, Process, Finalise, Expire, ForkOut, ChainStep
    <2> QED
        BY <1>2, <2>3, FS_AddElement, FS_Subset
<1> QED
    BY <1>1, <1>2, SpecTypeInv, PTL DEF Spec

\* Whatever writes to the log are dropped, cut or run together, whatever the
\* crashes, forks and lost answers, a restart never restores money that did not
\* settle, nor restores a payment twice or to another day, as long as every start
\* could read the file.
THEOREM RestoresOnlySettled == Spec => []RestoredIsLowerBound
<1>0. ASSUME PaidInv, LogIsPaid, NEW k \in Keys
      PROVE  load_earnings(log).amounts[k] <= Units(Against(k, {"confirmed"}))
    <2>0. SUFFICES ASSUME ~log.garbled
                   PROVE  Readable(log).amounts[k] <= Units(Against(k, {"confirmed"}))
        <3>1. Units(Against(k, {"confirmed"})) \in Nat
            BY <1>0, AgainstMetered DEF LogIsPaid
        <3>2. log.garbled => load_earnings(log).amounts[k] = 0
            BY DEF load_earnings, EmptyLog
        <3> QED
            BY <3>1, <3>2 DEF load_earnings
    <2> DEFINE all == Against(k, {"confirmed"})
               named == PaidFor(k, log.nonces)
    <2>1. log \in LogType /\ Shape(log) /\ IsFiniteSet(Sent) /\ PaidLog(log)
        BY <1>0 DEF PaidInv, TypeInv, TypeOK, LogWithinLedger, LogIsPaid
    <2>2. /\ named \subseteq all /\ Metered(all) /\ Units(all) \in Nat
          /\ Metered(named) /\ Units(named) \in Nat /\ Units(named) <= Units(all)
        BY <2>1, AgainstMetered, UnitsSubset DEF PaidFor
    <2>3. log.amounts[k] <= Units(named) /\ log.amounts[k] \in Nat
        BY <2>1, LogFields DEF PaidLog
    <2>4. CASE Readable(log).amounts[k] = log.amounts[k]
        BY <2>2, <2>3, <2>4
    <2>5. CASE Readable(log).amounts[k] # log.amounts[k]
        <3>1. PICK r \in Reservation :
                  /\ log.tail = {r} /\ KeyOf(r) = k
                  /\ Readable(log).amounts[k] = log.amounts[k] + r.amount
            BY <2>1, <2>5, ReadableIs
        <3>2. PICK p \in all : p.amount = r.amount /\ p.nonce \notin log.nonces
            BY <2>1, <3>1 DEF PaidLog
        <3>3. p \notin named /\ named \subseteq all \ {p} /\ Metered(all \ {p})
            BY <2>1, <2>2, <3>2, AgainstMetered DEF PaidFor
        <3>4. /\ Units(named) <= Units(all \ {p}) /\ Units(all \ {p}) \in Nat
              /\ Units(all) = p.amount + Units(all \ {p})
            BY <2>2, <3>2, <3>3, UnitsSubset, UnitsRemove, UnitsNat
        <3>5. r.amount \in Nat
            BY ReservationFields
        <3> QED
            BY <2>2, <2>3, <3>1, <3>2, <3>4, <3>5
    <2> QED
        BY <2>4, <2>5
<1>1. (~blind => PaidInv /\ LogIsPaid) => RestoredIsLowerBound
    BY <1>0 DEF RestoredIsLowerBound
<1> QED
    BY <1>1, SpecPaid, PTL

-----------------------------------------------------------------------------
(***************************************************************************)
(* The process's first life, with an RPC that answers and no forks.  Money *)
(* in play for a row, the payment in hand apart, is within what the row    *)
(* has settled: a hold becomes settled before another can be taken, and    *)
(* only a payment that is not in play gives its room back.                 *)
(***************************************************************************)

InUse == {p \in Payments : chain[p] \in InPlay}

\* Money in play that is not the payment being settled.
Others(k) == Against(k, InPlay) \ (IF pc \in Holding THEN {cur} ELSE {})

\* A payment in play keeps its nonce burned, so no second one with that nonce is
\* presented while it is.
InUseIsBurned ==
    /\ \A p \in InUse : p.nonce \in used_nonces
    /\ pc \in Holding => \A p \in InUse : p.nonce = cur.nonce => p = cur

\* The payment in hand enters play when it is sent, on the day whose row it holds,
\* and is out of it for good when its failure is definite.
CurInUse ==
    /\ pc \in {"simulate", "send"} => cur \notin InUse
    /\ pc = "resolve" /\ outcome = "definite" => cur \notin InUse
    /\ pc = "poll" \/ (pc = "resolve" /\ outcome # "definite") => sentOn[cur] = day

OthersAreSettled == \A k \in Keys : Units(Others(k)) <= settled[k]

FirstLife == pc # "down" /\ InUseIsBurned /\ CurInUse /\ OthersAreSettled

GateInv == TypeInv /\ GateLedgerInv /\ IsFiniteSet(Sent)

LEMMA OthersMetered ==
    ASSUME IsFiniteSet(Sent), NEW k
    PROVE  Metered(Others(k)) /\ Units(Others(k)) \in Nat
BY AgainstMetered DEF Others, InPlay

\* Fewer payments in play, and rows that settled no less, keep the bound.
LEMMA FewerOthers ==
    ASSUME GateInv, OthersAreSettled,
           \A k \in Keys : Others(k)' \subseteq Others(k) /\ settled'[k] = settled[k]
    PROVE  OthersAreSettled'
<1> SUFFICES ASSUME NEW k \in Keys PROVE Units(Others(k)') <= settled'[k]
    BY DEF OthersAreSettled
<1>1. Metered(Others(k)) /\ Units(Others(k)) \in Nat
    BY OthersMetered DEF GateInv
<1>2. Units(Others(k)') <= Units(Others(k)) /\ Units(Others(k)') \in Nat
    BY <1>1, UnitsSubset, UnitsNat
<1>3. settled[k] \in Nat
    BY DEF GateInv, TypeInv, TypeOK, LedgerTypeOK
<1> QED
    BY <1>1, <1>2, <1>3 DEF OthersAreSettled

LEMMA LifePresent ==
    ASSUME GateInv, FirstLife, NEW p \in Payments, Present(p)
    PROVE  FirstLife'
<1>1. /\ pc = "idle" /\ pc' = "simulate" /\ cur' = p /\ UNCHANGED <<chain, sentOn, settled>>
      /\ p.nonce \notin used_nonces /\ used_nonces' = used_nonces \cup {p.nonce}
    BY DEF Present, Reserve, NonceReused, worldVars
<1>2. InUse' = InUse /\ p \notin InUse
    BY <1>1 DEF InUse, FirstLife, InUseIsBurned
<1>3. InUseIsBurned' /\ CurInUse'
    BY <1>1, <1>2 DEF FirstLife, InUseIsBurned, CurInUse
<1>4. \A k \in Keys : Others(k)' \subseteq Others(k) /\ settled'[k] = settled[k]
    BY <1>1 DEF Others, Against, Holding
<1> QED
    BY <1>1, <1>3, <1>4, FewerOthers DEF FirstLife

LEMMA LifeSettle ==
    ~ReplyLoss /\ GateInv /\ FirstLife /\ Settle => FirstLife'
<1> SUFFICES ASSUME ~ReplyLoss, GateInv, FirstLife, Settle PROVE FirstLife'
    OBVIOUS
<1>1. /\ UNCHANGED unmoved /\ pc \in Holding /\ pc' \in Holding /\ pc' # "down"
      /\ UNCHANGED <<chain, sentOn>> \/ (pc = "send" /\ Broadcast)
    BY DEF Settle, SimulateRefuses, SimulatePasses, SendAccepted, SendRefused,
           SendReplyLost, PollSettled, PollFailed, PollNothing, Settled, Holding
<1>2. /\ cur \in Payments /\ chain \in [Payments -> ChainStates]
      /\ sentOn \in [Payments -> Days \cup {NoDay}]
      /\ UNCHANGED <<cur, day, spent, settled, used_nonces>>
    BY <1>1 DEF GateInv, TypeInv, TypeOK, InHand, unmoved, ledgerVars
<1>3. \A p \in Payments : p # cur => chain'[p] = chain[p] /\ sentOn'[p] = sentOn[p]
    BY <1>1, <1>2 DEF Broadcast
<1>4. cur.nonce \in used_nonces
    BY <1>1 DEF GateInv, GateLedgerInv, OneHold, HoldsOwnTheirNonces, Hold
<1>5. InUseIsBurned'
    BY <1>1, <1>2, <1>3, <1>4 DEF FirstLife, InUseIsBurned, InUse
<1>6. CurInUse'
    BY <1>1, <1>2
    DEF Settle, SimulateRefuses, SimulatePasses, SendAccepted, SendRefused, SendReplyLost,
        PollSettled, PollFailed, PollNothing, Settled, Broadcast, InPlay, InUse,
        FirstLife, CurInUse, Holding
<1>7. \A k \in Keys : Others(k)' \subseteq Others(k) /\ settled'[k] = settled[k]
    BY <1>1, <1>2, <1>3 DEF Others, Against
<1> QED
    BY <1>1, <1>5, <1>6, <1>7, FewerOthers DEF FirstLife

LEMMA LifeResolve == GateInv /\ FirstLife /\ Resolve => FirstLife'
<1> SUFFICES ASSUME GateInv, FirstLife, Resolve PROVE FirstLife'
    OBVIOUS
<1>1. Hold \in Reservation /\ Row \in Keys /\ KeyOf(Hold) = Row /\ cur \in Payments
    BY HoldIsReservation DEF Resolve, Holding, GateInv, TypeInv, InHand
<1>2. Hold.nonce = cur.nonce /\ Hold.amount = cur.amount /\ cur.amount \in Nat
    BY <1>1, AmountsAssumption DEF Hold, Reservation
<1>3. /\ pc = "resolve" /\ pc \in Holding /\ pc' \in {"idle", "record"}
      /\ UNCHANGED <<chain, sentOn>> /\ InUse' = InUse
    BY DEF Resolve, Answer, worldVars, Holding, InUse
<1>4. CurInUse'
    BY <1>3 DEF CurInUse
<1>5. CASE outcome = "definite"
    <2>1. Release(Hold) /\ cur \notin InUse
        BY <1>3, <1>5 DEF Resolve, resolution_for, FirstLife, CurInUse
    <2>2. InUseIsBurned'
        BY <1>2, <1>3, <2>1 DEF Release, FirstLife, InUseIsBurned, Holding
    <2>3. \A k \in Keys : Others(k)' \subseteq Others(k) /\ settled'[k] = settled[k]
        BY <1>3, <2>1 DEF Release, Others, Against, InUse, Holding
    <2> QED
        BY <1>3, <1>4, <2>2, <2>3, FewerOthers DEF FirstLife
<1>6. CASE outcome # "definite"
    <2>1. Confirm(Hold) /\ sentOn[cur] = day
        BY <1>3, <1>6 DEF Resolve, resolution_for, FirstLife, CurInUse
    <2>2. InUseIsBurned'
        BY <1>3, <2>1 DEF Confirm, FirstLife, InUseIsBurned, Holding
    <2>3. /\ settled[Row] \in Nat /\ spent[Row] \in 0..U64Max
          /\ settled[Row] + cur.amount <= spent[Row]
        <3>1. Hold \in held
            BY <2>1 DEF Confirm
        <3>2. cur.amount <= Units(HeldFor(Row)) /\ Units(HeldFor(Row)) \in Nat
            <4>1. held \ {Hold} = {} /\ HeldFor(Row) = {Hold}
                BY <1>1, <1>3, <3>1 DEF GateInv, GateLedgerInv, OneHold, HeldFor
            <4>2. {} \cup {Hold} = {Hold} /\ Hold \notin {}
                OBVIOUS
            <4>3. Units({Hold}) = cur.amount + Units({})
                BY <1>2, <4>2, UnitsAdd, UnitsEmpty
            <4> QED
                BY <1>2, <4>1, <4>3, UnitsEmpty
        <3> QED
            BY <1>1, <1>2, <3>2 DEF GateInv, GateLedgerInv, RowsInv, RowsAddUp, TypeInv,
                                    TypeOK, LedgerTypeOK
    <2>4. SatAdd(settled[Row], cur.amount) = settled[Row] + cur.amount
        BY <1>2, <2>3, CapAssumption DEF SatAdd
    <2>5. \A k \in Keys : settled'[k] = IF k = Row THEN settled[k] + cur.amount ELSE settled[k]
        BY <1>1, <1>2, <2>1, <2>4 DEF Confirm, GateInv, TypeInv, TypeOK, LedgerTypeOK
    <2>6. ASSUME NEW k \in Keys PROVE Units(Others(k)') <= settled'[k]
        <3>1. /\ Metered(Others(k)) /\ Units(Others(k)) \in Nat /\ settled[k] \in Nat
              /\ Units(Others(k)) <= settled[k] /\ cur \notin Others(k)
            BY <1>3, OthersMetered
            DEF GateInv, TypeInv, TypeOK, LedgerTypeOK, FirstLife, OthersAreSettled, Others
        <3>2. CASE k = Row
            <4>1. Others(k)' \subseteq Others(k) \cup {cur}
                BY <1>3 DEF Others, Against
            <4>2. /\ Metered(Others(k) \cup {cur})
                  /\ Units(Others(k) \cup {cur}) = cur.amount + Units(Others(k))
                BY <1>2, <3>1, UnitsAdd
            <4>3. Units(Others(k)') <= cur.amount + Units(Others(k)) /\ Units(Others(k)') \in Nat
                BY <4>1, <4>2, UnitsSubset, UnitsNat
            <4>4. settled'[k] = settled[k] + cur.amount
                BY <2>5, <3>2
            <4> QED
                BY <1>2, <3>1, <4>3, <4>4
        <3>3. CASE k # Row
            <4>1. k = <<k[1], k[2]>>
                BY DEF Keys
            <4>2. cur \notin Against(k, InPlay)
                BY <2>1, <3>3, <4>1 DEF Against, Row
            <4>3. Others(k)' \subseteq Others(k)
                BY <1>3, <4>2 DEF Others, Against
            <4>4. Units(Others(k)') <= Units(Others(k)) /\ Units(Others(k)') \in Nat
                BY <3>1, <4>3, UnitsSubset, UnitsNat
            <4>5. settled'[k] = settled[k]
                BY <2>5, <3>3
            <4> QED
                BY <3>1, <4>4, <4>5
        <3> QED
            BY <3>2, <3>3
    <2>7. OthersAreSettled'
        BY <2>6 DEF OthersAreSettled
    <2> QED
        BY <1>3, <1>4, <2>2, <2>7 DEF FirstLife
<1> QED
    BY <1>5, <1>6

LEMMA LifeWorld == ~Forks /\ GateInv /\ FirstLife /\ World => FirstLife'
<1> SUFFICES ASSUME ~Forks, GateInv, FirstLife, World PROVE FirstLife'
    OBVIOUS
<1>1. UNCHANGED <<pc, cur, day, outcome, sentOn, settled, used_nonces>>
    BY DEF World, Tick, Process, Finalise, Expire, ForkOut, ChainStep, gateVars, ledgerVars
<1>2. InUse' \subseteq InUse
    BY DEF World, Tick, Process, Finalise, Expire, ForkOut, ChainStep, InUse, InPlay,
           GateInv, TypeInv, TypeOK
<1>3. InUseIsBurned' /\ CurInUse'
    BY <1>1, <1>2 DEF FirstLife, InUseIsBurned, CurInUse
<1>4. \A k \in Keys : Others(k)' \subseteq Others(k) /\ settled'[k] = settled[k]
    BY <1>1, <1>2 DEF Others, Against, InUse
<1> QED
    BY <1>1, <1>3, <1>4, FewerOthers DEF FirstLife

LEMMA LifeRest ==
    ASSUME GateInv, FirstLife,
           record_earning \/ Serve \/ UNCHANGED vars
    PROVE  FirstLife'
<1>1. /\ UNCHANGED <<chain, sentOn, settled, used_nonces>>
      /\ \/ pc \notin Holding /\ pc' \in {"serve", "idle"}
         \/ UNCHANGED <<pc, cur, day, outcome>>
    BY DEF record_earning, Serve, Answer, vars, gateVars, worldVars, ledgerVars, Holding
<1>2. InUse' = InUse
    BY <1>1 DEF InUse
<1>3. pc' # "down" /\ InUseIsBurned' /\ CurInUse'
    BY <1>1, <1>2 DEF FirstLife, InUseIsBurned, CurInUse, Holding
<1>4. \A k \in Keys : Others(k)' \subseteq Others(k) /\ settled'[k] = settled[k]
    BY <1>1 DEF Others, Against, Holding
<1> QED
    BY <1>3, <1>4, FewerOthers DEF FirstLife

LEMMA FirstLifeNext ==
    /\ ~ReplyLoss /\ ~Forks /\ GateInv /\ (crashes = 0 => FirstLife) /\ [Next]_vars
    => (crashes = 0 => FirstLife)'
<1> SUFFICES ASSUME ~ReplyLoss, ~Forks, GateInv, crashes = 0 => FirstLife, [Next]_vars,
                    crashes' = 0
             PROVE  FirstLife'
    OBVIOUS
<1>1. ~(Crash \/ CrashTearingLog)
    BY DEF Crash, CrashTearingLog, LoseMemory, GateInv, TypeInv, TypeOK
<1>2. crashes = 0
    BY <1>1
    DEF Next, Challenge, Present, Handle, Settle, SimulateRefuses, SimulatePasses, SendAccepted,
        SendRefused, SendReplyLost, PollSettled, PollFailed, PollNothing, unmoved, Resolve,
        record_earning, Serve, Restart, World, Tick, Process, Finalise, Expire, ForkOut,
        ChainStep, vars
<1>3. FirstLife /\ ~Restart
    BY <1>2 DEF FirstLife, Restart
<1> QED
    BY <1>1, <1>3, LifePresent, LifeSettle, LifeResolve, LifeWorld, LifeRest
    DEF Next, Handle, Challenge

LEMMA SpecFirstLife ==
    ASSUME ~ReplyLoss, ~Forks
    PROVE  Spec => [](GateInv /\ (crashes = 0 => FirstLife))
<1>1. Init => FirstLife
    <2> SUFFICES ASSUME Init PROVE FirstLife
        OBVIOUS
    <2>1. InUse = {} /\ \A k : Others(k) = {}
        BY DEF Init, InUse, InPlay, Others, Against
    <2>2. OthersAreSettled
        BY <2>1, UnitsEmpty DEF Init, OthersAreSettled
    <2> QED
        BY <2>1, <2>2 DEF Init, FirstLife, InUseIsBurned, CurInUse, Holding
<1>2. TypeInv /\ GateLedgerInv /\ IsFiniteSet(Sent) => GateInv
    BY DEF GateInv
<1>3. GateInv /\ (crashes = 0 => FirstLife) /\ [Next]_vars => (crashes = 0 => FirstLife)'
    BY FirstLifeNext
<1> QED
    BY <1>1, <1>2, <1>3, SpecTypeInv, SpecGateLedger, SpecSent, PTL DEF Spec

\* With an RPC that answers and without forks, what the gate takes for a definite
\* failure moved nothing and never will, in the process's first life.
THEOREM DefiniteIsFinal ==
    ASSUME ~ReplyLoss, ~Forks PROVE Spec => []DefiniteMeansNothingMoves
<1>1. GateInv /\ (crashes = 0 => FirstLife) => DefiniteMeansNothingMoves
    BY DEF GateInv, TypeInv, TypeOK, InHand, Holding, FirstLife, CurInUse, InUse, InPlay,
           ChainStates, DefiniteMeansNothingMoves
<1> QED
    BY <1>1, SpecFirstLife, PTL

\* Under the same proviso the money in play of every row is metered against it at
\* every moment, from before the broadcast on: no slow or unknown confirmation
\* lets a payer past the cap.
THEOREM MoneyIsMetered ==
    ASSUME ~ReplyLoss, ~Forks PROVE Spec => []MoneyInPlayIsMetered
<1>1. GateInv /\ (crashes = 0 => FirstLife) => MoneyInPlayIsMetered
    <2> SUFFICES ASSUME GateInv, FirstLife, NEW k \in Keys
                 PROVE  Units(Against(k, InPlay)) <= spent[k]
        BY DEF MoneyInPlayIsMetered
    <2>1. /\ Metered(Others(k)) /\ Units(Others(k)) \in Nat
          /\ Units(Others(k)) <= settled[k] /\ settled[k] \in Nat
        BY OthersMetered
        DEF GateInv, TypeInv, TypeOK, LedgerTypeOK, FirstLife, OthersAreSettled
    <2>2. spent[k] = settled[k] + Units(HeldFor(k)) /\ Units(HeldFor(k)) \in Nat
        BY HeldForMetered
        DEF GateInv, GateLedgerInv, RowsInv, RowsAddUp, TypeInv, TypeOK
    <2>3. CASE pc \in Holding /\ cur \in Against(k, InPlay)
        <3>1. cur \in Payments /\ cur.amount \in Nat /\ sentOn[cur] = day
            BY <2>3, PaymentFields
            DEF Holding, FirstLife, CurInUse, InUse, Against
        <3>2. KeyOf(Hold) = k /\ Hold.amount = cur.amount
            BY <2>3, <3>1 DEF Against, KeyOf, Hold, Keys
        <3>3. HeldFor(k) = {} \cup {Hold} /\ Hold \notin {}
            BY <2>3, <3>2 DEF HeldFor, GateInv, GateLedgerInv, OneHold
        <3>4. Units(HeldFor(k)) = cur.amount
            BY <3>1, <3>2, <3>3, UnitsAdd, UnitsEmpty
        <3>5. Against(k, InPlay) = Others(k) \cup {cur} /\ cur \notin Others(k)
            BY <2>3 DEF Others
        <3>6. Units(Against(k, InPlay)) = cur.amount + Units(Others(k))
            BY <2>1, <3>1, <3>5, UnitsAdd
        <3> QED
            BY <2>1, <2>2, <3>1, <3>4, <3>6
    <2>4. CASE ~(pc \in Holding /\ cur \in Against(k, InPlay))
        <3>1. Against(k, InPlay) = Others(k)
            BY <2>4 DEF Others
        <3> QED
            BY <2>1, <2>2, <3>1
    <2> QED
        BY <2>3, <2>4
<1> QED
    BY <1>1, SpecFirstLife, PTL

-----------------------------------------------------------------------------
(***************************************************************************)
(* The reading of a presented transaction, and what the cluster makes of   *)
(* it.  An execution is a function of the number of instructions run.      *)
(***************************************************************************)

Start(t, before) == [runs |-> t.decodes /\ t.declared \subseteq t.signed, bal |-> before]

RunOne(t, before, s, ix) ==
    IF s.runs /\ Runs(t, s.bal, ix)
      THEN [runs |-> TRUE, bal |-> Moved(s.bal, ix)]
      ELSE [runs |-> FALSE, bal |-> before]

Follows(f, t, before, n) ==
    f = [i \in 0..n |-> IF i = 0 THEN Start(t, before)
                                 ELSE RunOne(t, before, f[i - 1], t.ixs[i])]

After(t, before) == CHOOSE f : Follows(f, t, before, Len(t.ixs))

LEMMA ExecuteUnfold ==
    ASSUME NEW t, NEW before
    PROVE  Execute(t, before) = After(t, before)[Len(t.ixs)]
BY Zenon DEF Execute, After, Follows, Start, RunOne

LEMMA FollowsExists ==
    ASSUME NEW t, NEW before, NEW n \in Nat
    PROVE  \E f : Follows(f, t, before, n)
<1> DEFINE bad == {m \in Nat : ~\E f : Follows(f, t, before, m)}
<1> SUFFICES ASSUME bad # {} PROVE FALSE
    OBVIOUS
<1>1. PICK m \in bad : \A k \in bad : m <= k
    BY LeastNat, bad \in SUBSET Nat
<1>2. m # 0
    <2> SUFFICES ASSUME m = 0 PROVE FALSE
        OBVIOUS
    <2>1. \A i \in 0..0 : i = 0
        OBVIOUS
    <2> DEFINE f == [i \in 0..0 |-> Start(t, before)]
    <2>2. Follows(f, t, before, 0)
        BY <2>1 DEF Follows
    <2> QED
        BY <1>1, <2>2
<1>3. m \in Nat /\ m - 1 \in Nat /\ m - 1 \notin bad
    <2>1. m \in Nat /\ m - 1 \in Nat /\ ~(m <= m - 1)
        BY <1>1, <1>2
    <2> QED
        BY <1>1, <2>1
<1>4. PICK f : Follows(f, t, before, m - 1)
    BY <1>3
<1> DEFINE Body(h, i) == IF i = 0 THEN Start(t, before) ELSE RunOne(t, before, h[i - 1], t.ixs[i])
           g == [i \in 0..m |-> Body(f, i)]
<1>5. ASSUME NEW i \in 0..(m - 1) PROVE i \in 0..m /\ g[i] = f[i]
    BY <1>3, <1>4 DEF Follows
<1>6. ASSUME NEW i \in 0..m PROVE Body(f, i) = Body(g, i)
    <2>1. i # 0 => i - 1 \in 0..(m - 1)
        BY <1>3
    <2> HIDE DEF g
    <2> QED
        BY <1>5, <2>1
<1>7. Follows(g, t, before, m)
    BY <1>6 DEF Follows
<1> QED
    BY <1>1, <1>7

LEMMA AfterSteps ==
    ASSUME NEW t, NEW before, Len(t.ixs) \in Nat
    PROVE  /\ After(t, before)[0] = Start(t, before)
           /\ \A i \in 1..Len(t.ixs) :
                 After(t, before)[i] = RunOne(t, before, After(t, before)[i - 1], t.ixs[i])
<1>1. Follows(After(t, before), t, before, Len(t.ixs))
    BY FollowsExists DEF After
<1> QED
    BY <1>1 DEF Follows

\* A transaction that ran ran every instruction, each on the balances of the last.
LEMMA RanAll ==
    ASSUME NEW t, NEW before, Len(t.ixs) \in Nat, Execute(t, before).runs
    PROVE  /\ t.decodes /\ t.declared \subseteq t.signed
           /\ After(t, before)[0].bal = before
           /\ Execute(t, before) = After(t, before)[Len(t.ixs)]
           /\ \A i \in 1..Len(t.ixs) :
                 /\ Runs(t, After(t, before)[i - 1].bal, t.ixs[i])
                 /\ After(t, before)[i].bal = Moved(After(t, before)[i - 1].bal, t.ixs[i])
<1> DEFINE n == Len(t.ixs)
           f == After(t, before)
<1>0. Execute(t, before) = f[n]
    BY ExecuteUnfold
<1>1. f[0] = Start(t, before) /\ \A i \in 1..n : f[i] = RunOne(t, before, f[i - 1], t.ixs[i])
    BY AfterSteps
<1> HIDE DEF f, n
<1>2. ASSUME NEW i \in 0..n PROVE f[i].runs
    <2> SUFFICES ASSUME ~f[i].runs PROVE FALSE
        OBVIOUS
    <2> DEFINE good == {m \in i..n : f[m].runs}
    <2>1. n \in good /\ good \in SUBSET Nat
        BY <1>0 DEF n
    <2>2. PICK m \in good : \A k \in good : m <= k
        BY <2>1, LeastNat
    <2>3. m \in i..n /\ m # i /\ f[m].runs
        BY <2>2
    <2>4. m - 1 \in i..n /\ m - 1 \notin good /\ m \in 1..n
        <3>1. m \in Nat /\ m - 1 \in i..n /\ m \in 1..n /\ ~(m <= m - 1)
            BY <2>1, <2>3 DEF n
        <3> QED
            BY <2>2, <3>1
    <2>5. ~f[m - 1].runs
        BY <2>4
    <2>6. f[m] = [runs |-> FALSE, bal |-> before]
        BY <1>1, <2>4, <2>5 DEF RunOne
    <2> QED
        BY <2>3, <2>6
<1>3. t.decodes /\ t.declared \subseteq t.signed /\ f[0].bal = before
    <2>1. f[0].runs
        BY <1>2 DEF n
    <2>2. t.decodes /\ t.declared \subseteq t.signed
        <3> DEFINE c == t.decodes /\ t.declared \subseteq t.signed
        <3> SUFFICES ASSUME c = FALSE PROVE FALSE
            OBVIOUS
        <3>1. f[0] = [runs |-> c, bal |-> before]
            BY <1>1 DEF Start
        <3> HIDE DEF c
        <3> QED
            BY <2>1, <3>1
    <2>3. f[0].bal = before
        BY <1>1 DEF Start
    <2> QED
        BY <2>1, <2>2, <2>3
<1>4. ASSUME NEW i \in 1..n
      PROVE  Runs(t, f[i - 1].bal, t.ixs[i]) /\ f[i].bal = Moved(f[i - 1].bal, t.ixs[i])
    <2>1. f[i].runs /\ f[i] = RunOne(t, before, f[i - 1], t.ixs[i])
        BY <1>1, <1>2 DEF n
    <2> QED
        BY <2>1 DEF RunOne
<1> QED
    BY <1>0, <1>3, <1>4 DEF f, n

LEMMA Presented ==
    ASSUME NEW t \in Presentable
    PROVE  /\ Len(t.ixs) \in Nat /\ DOMAIN t.ixs = 1..Len(t.ixs)
           /\ t.signed \subseteq Wallets
           /\ \A i \in DOMAIN t.ixs : t.ixs[i].kind = "transfer" =>
                /\ t.ixs[i].amount \in Nat /\ t.ixs[i].mint \in BOOLEAN
                /\ t.ixs[i].src \in Owners /\ t.ixs[i].dest \in Owners
<1>1. t.ixs \in Seq(Range(t.ixs))
    BY InstructionsAssumption
<1> QED
    BY <1>1, GateAssumption, InstructionsAssumption

LEMMA MinIn ==
    ASSUME NEW S \in SUBSET Nat, S # {}
    PROVE  Min(S) \in S
<1>1. \E n \in S : \A m \in S : n <= m
    BY LeastNat
<1> QED
    BY <1>1 DEF Min

\* Nothing an executed transaction does takes from the gate's account, and a
\* transfer of the mint to it adds its amount.
LEMMA GateGains ==
    ASSUME NEW t \in Presentable, Execute(t, Funds).runs,
           NEW e \in Addressed(t)
    PROVE  Execute(t, Funds).bal[Gate] >= Funds[Gate] + t.ixs[e].amount
<1> DEFINE n == Len(t.ixs)
           bal(i) == After(t, Funds)[i].bal[Gate]
           gain(i) == IF i < e THEN 0 ELSE t.ixs[e].amount
           bad == {i \in 0..n : ~(bal(i) \in Int /\ bal(i) >= Funds[Gate] + gain(i))}
<1>1. n \in Nat /\ DOMAIN t.ixs = 1..n
    BY Presented
<1>2. /\ e \in 1..n /\ t.ixs[e].kind = "transfer" /\ t.ixs[e].mint
      /\ t.ixs[e].dest = Gate /\ t.ixs[e].amount \in Nat
    BY <1>1, Presented DEF Addressed, parse_transfer_checked
<1>3. Funds[Gate] \in Nat /\ Gate \in Owners /\ Gate \notin t.declared
    BY Presented, RanAll, GateAssumption, InstructionsAssumption DEF Owners
<1>4. bal(0) = Funds[Gate]
    BY <1>1, RanAll
<1>5. ASSUME NEW i \in 1..n, bal(i - 1) \in Int
      PROVE  bal(i) \in Int /\ bal(i) >= bal(i - 1) + (IF i = e THEN t.ixs[e].amount ELSE 0)
    <2> DEFINE b == After(t, Funds)[i - 1].bal
               ix == t.ixs[i]
    <2>1. Runs(t, b, ix) /\ After(t, Funds)[i].bal = Moved(b, ix)
        BY <1>1, RanAll
    <2>2. i \in DOMAIN t.ixs /\ b[Gate] \in Int
        BY <1>1, <1>5
    <2>3. CASE ix.kind = "memo" \/ ~ix.mint
        <3>1. Moved(b, ix) = b /\ i # e
            BY <1>2, <2>3 DEF Moved
        <3> QED
            BY <1>5, <2>1, <3>1
    <2>4. CASE ~(ix.kind = "memo" \/ ~ix.mint)
        <3>1. ix.kind = "transfer" /\ ix.auth \in t.declared /\ ix.auth \in {ix.src, Delegates[ix.src]}
            BY <2>1, <2>4 DEF Runs
        <3>2. ix.src # Gate /\ ix.amount \in Nat
            BY <1>3, <2>2, <3>1, Presented, GateAssumption
        <3>3. Moved(b, ix)[Gate] = b[Gate] - 0 + (IF Gate = ix.dest THEN ix.amount ELSE 0)
            BY <1>3, <2>4, <3>2 DEF Moved
        <3>4. /\ bal(i) = bal(i - 1) + (IF Gate = ix.dest THEN ix.amount ELSE 0)
              /\ bal(i - 1) \in Int /\ ix.amount \in Nat
            BY <1>5, <2>1, <3>2, <3>3
        <3>5. i = e => ix.dest = Gate /\ ix.amount = t.ixs[e].amount
            BY <1>2
        <3> HIDE DEF bal, ix
        <3> QED
            BY <1>2, <3>4, <3>5
    <2> QED
        BY <2>3, <2>4
<1> HIDE DEF bal, n
<1>6. bad = {}
    <2> SUFFICES ASSUME bad # {} PROVE FALSE
        OBVIOUS
    <2>1. PICK i \in bad : \A j \in bad : i <= j
        BY <1>1, LeastNat, bad \in SUBSET Nat
    <2>2. i # 0
        BY <1>2, <1>3, <1>4, <2>1
    <2>3. i \in 1..n /\ i - 1 \in 0..n /\ i - 1 \notin bad
        <3>1. i \in 1..n /\ i - 1 \in 0..n /\ ~(i <= i - 1)
            BY <1>1, <2>1, <2>2
        <3> QED
            BY <2>1, <3>1
    <2>4. bal(i - 1) \in Int /\ bal(i - 1) >= Funds[Gate] + gain(i - 1)
        BY <2>3
    <2>5. bal(i) \in Int /\ bal(i) >= bal(i - 1) + (IF i = e THEN t.ixs[e].amount ELSE 0)
        BY <1>5, <2>3, <2>4
    <2> QED
        BY <1>2, <1>3, <2>1, <2>3, <2>4, <2>5
<1>7. bal(n) >= Funds[Gate] + t.ixs[e].amount
    BY <1>1, <1>2, <1>6
<1> QED
    BY <1>1, <1>7, RanAll DEF bal, n

\* What the gate answered is what it reads in the transaction, what it metered is
\* the transfer it found, and the balances are those of no execution or of one.
CheckInv ==
    /\ tx \in Presentable
    /\ verdict \in {"none", verify_x_payment(tx)}
    /\ verdict = "ok" =>
          /\ find_payment(tx) \in Enough(tx) /\ tx.declared \subseteq tx.signed
          /\ metered = [payer  |-> tx.ixs[find_payment(tx)].auth,
                        amount |-> tx.ixs[find_payment(tx)].amount]
    /\ landed = "no" => funds = Funds
    /\ landed = "done" => /\ verdict = "ok" /\ Execute(tx, Funds).runs
                          /\ funds = Execute(tx, Funds).bal

LEMMA EnoughIndices ==
    ASSUME NEW t \in Presentable
    PROVE  Enough(t) \subseteq Addressed(t) /\ Addressed(t) \subseteq 1..Len(t.ixs)
                /\ 1..Len(t.ixs) \subseteq Nat
BY Presented DEF Enough, Addressed

LEMMA Verified ==
    ASSUME NEW t \in Presentable, verify_x_payment(t) = "ok"
    PROVE  t.declared \subseteq t.signed /\ find_payment(t) \in Enough(t)
<1>1. t.declared \subseteq t.signed /\ Enough(t) # {}
    BY DEF verify_x_payment
<1> QED
    BY <1>1, EnoughIndices, MinIn DEF find_payment

LEMMA CheckStep == CheckInv /\ [CheckNext]_checkVars => CheckInv'
<1> SUFFICES ASSUME CheckInv, [CheckNext]_checkVars PROVE CheckInv'
    OBVIOUS
<1> USE DEF CheckInv
<1>1. CASE Judge
    <2>1. verify_x_payment(tx)' = verify_x_payment(tx) /\ tx' = tx /\ verdict' = verify_x_payment(tx)
        BY <1>1 DEF Judge, verify_x_payment, extract_memo_nonce, Memos, has_memo, Enough,
                    Addressed, find_payment
    <2>2. verdict' = "ok" => find_payment(tx) \in Enough(tx) /\ tx.declared \subseteq tx.signed
        BY <2>1, Verified
    <2> QED
        BY <1>1, <2>1, <2>2 DEF Judge
<1>2. CASE Land
    BY <1>2 DEF Land
<1>3. CASE UNCHANGED checkVars
    BY <1>3 DEF checkVars
<1> QED
    BY <1>1, <1>2, <1>3 DEF CheckNext

LEMMA CheckInvariant == CheckSpec => []CheckInv
<1>1. CheckInit => CheckInv
    BY DEF CheckInit, CheckInv
<1> QED
    BY <1>1, CheckStep, PTL DEF CheckSpec

\* Whatever a presented transaction holds, of any length, the party metered is one
\* that signed it, and when the cluster executes it the gate's account gains at
\* least what was metered.
THEOREM MeteredSignedAndPaid == CheckSpec => []MeteredIsPaid
<1>1. CheckInv => MeteredIsPaid
    <2> SUFFICES ASSUME CheckInv PROVE MeteredIsPaid
        OBVIOUS
    <2>1. verdict = "ok" => metered.payer \in tx.signed
        BY DEF CheckInv, Enough
    <2>2. ASSUME landed = "done" PROVE funds[Gate] >= Funds[Gate] + metered.amount
        <3>1. find_payment(tx) \in Addressed(tx)
            BY <2>2, EnoughIndices DEF CheckInv
        <3> QED
            BY <2>2, <3>1, GateGains DEF CheckInv
    <2> QED
        BY <2>1, <2>2 DEF MeteredIsPaid
<1> QED
    BY <1>1, CheckInvariant, PTL

LEMMA HonestVerifies ==
    ASSUME NEW t \in Presentable, Honest(t)
    PROVE  verify_x_payment(t) = "ok"
<1>1. /\ Len(t.ixs) \in Nat /\ DOMAIN t.ixs = 1..Len(t.ixs)
      /\ t.decodes /\ t.declared \subseteq t.signed
      /\ \A i \in DOMAIN t.ixs : Runs(t, After(t, Funds)[i - 1].bal, t.ixs[i])
    BY Presented, RanAll DEF Honest
<1>2. Min(Memos(t)) \in Memos(t)
    <2>1. Memos(t) # {} /\ Memos(t) \in SUBSET Nat
        BY <1>1 DEF Honest, Memos
    <2> QED
        BY <2>1, MinIn
<1>3. /\ extract_memo_nonce(t) = t.ixs[Min(Memos(t))].text
      /\ extract_memo_nonce(t) # Garbled /\ has_memo(t, extract_memo_nonce(t))
    BY <1>1, <1>2 DEF Runs, Memos, extract_memo_nonce, has_memo
<1>4. PICK e : Addressed(t) = {e}
    <2>1. IsFiniteSet(1..Len(t.ixs)) /\ Addressed(t) \subseteq 1..Len(t.ixs)
        BY <1>1, EnoughIndices, FS_Interval
    <2>2. IsFiniteSet(Addressed(t)) /\ Cardinality(Addressed(t)) = 1
        BY <2>1, FS_Subset DEF Honest
    <2> QED
        BY <2>2, FS_Singleton
<1>5. t.ixs[e].auth \in t.declared /\ t.ixs[e].amount \in {Single, DayPass}
    BY <1>1, <1>4 DEF Runs, Addressed, parse_transfer_checked, Honest
<1>6. Enough(t) = {e}
    BY <1>4, <1>5, MenuAssumption DEF Enough
<1>7. find_payment(t) = e
    BY <1>6, EnoughIndices, MinIn DEF find_payment
<1> QED
    BY <1>1, <1>3, <1>5, <1>6, <1>7 DEF verify_x_payment

\* A payment that executes, names a readable nonce first and pays the gate once at
\* a menu price is never refused, whatever stands around it.
THEOREM HonestPaymentsAccepted == CheckSpec => []HonestIsAccepted
<1>1. CheckInv => HonestIsAccepted
    BY HonestVerifies DEF CheckInv, HonestIsAccepted
<1> QED
    BY <1>1, CheckInvariant, PTL

=============================================================================
