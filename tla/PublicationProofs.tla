-------------------------- MODULE PublicationProofs --------------------------
(***************************************************************************)
(* Theorems about what the project publishes, and about the verdicts a     *)
(* stranger's script gives of it.                                          *)
(*                                                                         *)
(* PagePublish, for any commits, files, batches, sessions and faults: a    *)
(* plan that can be found can be trusted, the live page is one whole       *)
(* commit, and a failed upload leaves no plan behind.                      *)
(*                                                                         *)
(* HashTree, for any input: the hash that names an asset is that of the    *)
(* tree BLAKE3 defines.                                                    *)
(*                                                                         *)
(* ProofBundle and ClaimVerifier, for any transactions, captures, changes  *)
(* and failures: a capture keeps what it read, and neither an accusation   *)
(* nor an all-clear was wrong throughout the run it comes from.            *)
(***************************************************************************)
EXTENDS PagePublish, HashTree, ClaimVerifier, FiniteSetTheorems, WellFoundedInduction, TLAPS

KeysOf(c) == {Blob[c][n] : n \in Assets}
Things    == UNION {KeysOf(c) : c \in Commits}

Places    == {None, "partial", "plan", "gone"}
Tokenless == {"prepare", "clear", "missing", "ceiling", "upload", "upsert", "write", "fill", "replace"}
Gated     == Tokenless \cup {"wrangler", "done"}
Records   == [pc : Gated \cup {"new", "gate", "refused", "killed"},
              mode : {None, "direct", "wrangler", "dry"}, sha : Commits \cup {None},
              todo : Seq(Things), tries : Nat, after : SUBSET Sessions, at : Places]

\* What one session holds, with the assets in `held` on the CDN: past the gate
\* its commit is publishable, and what it has not yet to send is there.
SesOK(r, held) ==
    /\ r \in Records
    /\ r.pc \notin {"new", "refused", "killed"} => r.sha \in Commits
    /\ r.pc \in Tokenless => r.mode = "direct"
    /\ r.pc = "new" => r.mode = None
    /\ r.pc \in Gated => Publishable(r.sha)
    /\ r.pc \in {"ceiling", "upload"} => KeysOf(r.sha) \subseteq held \cup ToSet(r.todo)
    /\ r.pc \in {"upsert", "write", "fill", "replace"} => KeysOf(r.sha) \subseteq held

SessionsOK ==
    /\ origin \in Commits
    /\ DOMAIN ses = Sessions
    /\ \A s \in Sessions : SesOK(ses[s], cdn)

\* A plan that parses, in its place or beside it, is of one publishable commit
\* that is all on the CDN.
PlanOK(p, held) ==
    Parses(p) => \E c \in Commits : /\ Publishable(c) /\ p = PlanOf(c)
                                    /\ KeysOf(c) \subseteq held

PlansOK == PlanOK(plan, cdn) /\ PlanOK(partial, cdn)

PageOK ==
    page # None => \E c \in Commits : /\ Publishable(c) /\ page = [sha |-> c, files |-> Blob[c]]
                                      /\ KeysOf(c) \subseteq cdn

PageInv == SessionsOK /\ PlansOK /\ PageOK

-----------------------------------------------------------------------------
(***************************************************************************)
(* Sequences of keys.                                                      *)
(***************************************************************************)

\* Every asset a finite set of keys asks for is in the sequence made of it.
LEMMA SeqOfKeys ==
    ASSUME NEW S, IsFiniteSet(S)
    PROVE  SetToSeq(S) \in Seq(S) /\ ToSet(SetToSeq(S)) = S
<1> DEFINE n == Cardinality(S)
<1>1. n \in Nat /\ ExistsBijection(1..n, S)
    BY FS_CardinalityType
<1>2. \E f \in [1..n -> S] : IsInjective(f)
    BY <1>1 DEF ExistsBijection, Bijection, Injection
<1>3. SetToSeq(S) \in [1..n -> S] /\ IsInjective(SetToSeq(S))
    BY <1>2 DEF SetToSeq
<1>4. SetToSeq(S) \in Injection(1..n, S)
    BY <1>3 DEF Injection
<1>5. IsFiniteSet(1..n) /\ Cardinality(1..n) = n
    BY <1>1, FS_Interval
<1>6. SetToSeq(S) \in Surjection(1..n, S)
    BY <1>4, <1>5, FS_Injection
<1>7. \A x \in S : \E i \in 1..n : SetToSeq(S)[i] = x
    BY <1>6 DEF Surjection
<1>8. SetToSeq(S) \in Seq(S)
    BY <1>1, <1>3
<1> QED
    BY <1>3, <1>7, <1>8 DEF ToSet

LEMMA KeysFinite == \A c \in Commits : IsFiniteSet(KeysOf(c))
<1> SUFFICES ASSUME NEW c \in Commits PROVE IsFiniteSet(KeysOf(c))
    OBVIOUS
<1> DEFINE f == [n \in Assets |-> Blob[c][n]]
<1>1. IsFiniteSet(Assets)
    BY PublishAssumption, FS_Subset DEF Assets
<1>2. f \in Surjection(Assets, KeysOf(c))
    BY DEF Surjection, KeysOf
<1> QED
    BY <1>1, <1>2, FS_Surjection

LEMMA SomeOfThem ==
    ASSUME NEW n \in Nat, NEW S \in SUBSET (1..n)
    PROVE  Cardinality(S) \in 0..n
<1>1. IsFiniteSet(1..n) /\ Cardinality(1..n) = n
    BY FS_Interval
<1>2. IsFiniteSet(S) /\ Cardinality(S) <= n
    BY <1>1, FS_Subset
<1>3. Cardinality(S) \in Nat
    BY <1>2, FS_CardinalityType
<1> QED
    BY <1>2, <1>3

LEMMA NoneIsOther == None \notin {Empty, Mixed, "direct"}
BY PublishAssumption

\* A batch and what is left of the queue are together the queue.
LEMMA BatchSplits ==
    ASSUME NEW s \in Sessions, ses[s].todo \in Seq(Things)
    PROVE  /\ ToSet(ses[s].todo) = ToSet(Batch(s)) \cup ToSet(Rest(s))
           /\ Rest(s) \in Seq(Things)
<1> DEFINE q == ses[s].todo
           fitting == {i \in 1..Len(q) : Fits(SubSeq(q, 1, i))}
           k == Cardinality(fitting)
<1>1. Len(q) \in Nat /\ k \in 0..Len(q)
    <2>1. Len(q) \in Nat /\ fitting \in SUBSET (1..Len(q))
        OBVIOUS
    <2> HIDE DEF fitting
    <2> QED
        BY <2>1, SomeOfThem
<1>2. Batch(s) = SubSeq(q, 1, k)
    BY DEF Batch
<1> HIDE DEF k, fitting
<1>3. /\ Batch(s) \in Seq(Things) /\ Len(Batch(s)) = k
      /\ \A i \in 1..k : Batch(s)[i] = q[i]
    BY <1>1, <1>2
<1>4. Rest(s) = SubSeq(q, k + 1, Len(q))
    BY <1>3 DEF Rest
<1>5. /\ Rest(s) \in Seq(Things) /\ Len(Rest(s)) = Len(q) - k
      /\ \A i \in 1..(Len(q) - k) : Rest(s)[i] = q[i + k]
    BY <1>1, <1>4
<1>6. DOMAIN q = 1..Len(q) /\ DOMAIN Batch(s) = 1..k /\ DOMAIN Rest(s) = 1..(Len(q) - k)
    BY <1>3, <1>5
<1>7. ASSUME NEW i \in 1..Len(q) PROVE q[i] \in ToSet(Batch(s)) \cup ToSet(Rest(s))
    <2>1. CASE i <= k
        BY <1>1, <1>3, <1>6, <2>1 DEF ToSet
    <2>2. CASE i > k
        <3>1. i - k \in 1..(Len(q) - k) /\ q[i] = q[(i - k) + k]
            BY <1>1, <2>2
        <3>2. q[i] = Rest(s)[i - k]
            BY <1>5, <3>1
        <3> QED
            BY <1>6, <3>1, <3>2 DEF ToSet
    <2> QED
        BY <1>1, <2>1, <2>2
<1>8. \A i \in 1..k : Batch(s)[i] \in ToSet(q)
    <2> TAKE i \in 1..k
    <2>1. i \in 1..Len(q)
        BY <1>1
    <2> QED
        BY <1>3, <1>6, <2>1 DEF ToSet
<1>9. \A i \in 1..(Len(q) - k) : Rest(s)[i] \in ToSet(q)
    <2> TAKE i \in 1..(Len(q) - k)
    <2>1. i + k \in 1..Len(q)
        BY <1>1
    <2> QED
        BY <1>5, <1>6, <2>1 DEF ToSet
<1> QED
    BY <1>5, <1>6, <1>7, <1>8, <1>9 DEF ToSet

-----------------------------------------------------------------------------
(***************************************************************************)
(* The CDN only gains assets, and a step of a session changes of another    *)
(* only where the file it opened is.                                       *)
(***************************************************************************)

LEMMA Monotone ==
    ASSUME NEW small, NEW large, small \subseteq large
    PROVE  /\ \A r : SesOK(r, small) => SesOK(r, large)
           /\ \A p : PlanOK(p, small) => PlanOK(p, large)
BY DEF SesOK, PlanOK

\* Session t after another's step.
Kept(t) == \E x \in Places : ses'[t] = [ses[t] EXCEPT !.at = x]

LEMMA KeptRecord ==
    ASSUME SessionsOK, NEW t \in Sessions, Kept(t)
    PROVE  /\ ses'[t] \in Records
           /\ ses'[t].pc = ses[t].pc /\ ses'[t].mode = ses[t].mode /\ ses'[t].sha = ses[t].sha
           /\ ses'[t].todo = ses[t].todo /\ ses'[t].after = ses[t].after
<1>1. ses[t] \in Records
    BY DEF SessionsOK, SesOK
<1>2. PICK x \in Places : ses'[t] = [ses[t] EXCEPT !.at = x]
    BY DEF Kept
<1> QED
    BY <1>1, <1>2 DEF Records

LEMMA SessionStep ==
    ASSUME SessionsOK, NEW s \in Sessions, DOMAIN ses' = Sessions,
           \A t \in Sessions \ {s} : Kept(t),
           origin' = origin, cdn \subseteq cdn', SesOK(ses'[s], cdn')
    PROVE  SessionsOK'
<1>1. ASSUME NEW t \in Sessions \ {s} PROVE SesOK(ses'[t], cdn')
    <2>1. SesOK(ses[t], cdn')
        BY Monotone DEF SessionsOK
    <2>2. /\ ses'[t] \in Records
          /\ ses'[t].pc = ses[t].pc /\ ses'[t].mode = ses[t].mode /\ ses'[t].sha = ses[t].sha
          /\ ses'[t].todo = ses[t].todo
        BY KeptRecord
    <2> QED
        BY <2>1, <2>2 DEF SesOK
<1> QED
    BY <1>1 DEF SessionsOK

\* Most steps change one session alone.
LEMMA SetKeeps ==
    ASSUME SessionsOK, NEW s \in Sessions, NEW r, Set(s, r)
    PROVE  /\ DOMAIN ses' = Sessions /\ ses'[s] = r
           /\ \A t \in Sessions \ {s} : ses'[t] = ses[t] /\ Kept(t)
<1>1. DOMAIN ses' = Sessions /\ ses'[s] = r /\ \A t \in Sessions \ {s} : ses'[t] = ses[t]
    BY DEF Set, SessionsOK
<1>2. ASSUME NEW t \in Sessions \ {s} PROVE Kept(t)
    <2>1. ses[t] \in Records
        BY DEF SessionsOK, SesOK
    <2>2. ses[t].at \in Places /\ ses[t] = [ses[t] EXCEPT !.at = ses[t].at]
        BY <2>1 DEF Records
    <2> QED
        BY <1>1, <2>2 DEF Kept
<1> QED
    BY <1>1, <1>2

LEMMA SetStep ==
    ASSUME SessionsOK, NEW s \in Sessions, NEW r, Set(s, r),
           origin' = origin, cdn \subseteq cdn', SesOK(r, cdn')
    PROVE  SessionsOK'
BY SetKeeps, SessionStep

\* Where a file is that was at `a`, once the one at `from` is moved to `to`.
Shifted(a, from, to) == IF a \notin {from, to} THEN a ELSE IF a = from THEN to ELSE "gone"

Moves(s, from, to, pc) == ses' = [Moved(from, to) EXCEPT ![s].pc = pc]

LEMMA MoveKeeps ==
    ASSUME SessionsOK, NEW s \in Sessions, NEW from \in Places, NEW to \in Places,
           NEW pc \in {"missing", "refused", "done"}, Moves(s, from, to, pc)
    PROVE  /\ DOMAIN ses' = Sessions
           /\ \A t \in Sessions \ {s} : Kept(t)
           /\ ses'[s] \in Records /\ ses'[s].at = Shifted(ses[s].at, from, to) /\ ses'[s].pc = pc
           /\ ses'[s].mode = ses[s].mode /\ ses'[s].sha = ses[s].sha
           /\ ses'[s].todo = ses[s].todo /\ ses'[s].after = ses[s].after
<1>1. DOMAIN Moved(from, to) = Sessions
    BY DEF Moved
<1>2. ASSUME NEW t \in Sessions
      PROVE  /\ Moved(from, to)[t] = [ses[t] EXCEPT !.at = Shifted(ses[t].at, from, to)]
             /\ Shifted(ses[t].at, from, to) \in Places
    <2>1. ses[t] \in Records
        BY DEF SessionsOK, SesOK
    <2>2. ses[t].at \in Places /\ ses[t] = [ses[t] EXCEPT !.at = ses[t].at]
        BY <2>1 DEF Records
    <2> QED
        BY <2>2 DEF Moved, Shifted, Places
<1>3. DOMAIN ses' = Sessions
    BY <1>1 DEF Moves
<1>4. \A t \in Sessions \ {s} : ses'[t] = Moved(from, to)[t]
    BY <1>1 DEF Moves
<1>5. ses'[s] = [Moved(from, to)[s] EXCEPT !.pc = pc]
    BY <1>1 DEF Moves
<1>6. ses[s] \in Records
    BY DEF SessionsOK, SesOK
<1>7. ses'[s] = [ses[s] EXCEPT !.at = Shifted(ses[s].at, from, to), !.pc = pc]
    BY <1>2, <1>5, <1>6 DEF Records
<1>8. Shifted(ses[s].at, from, to) \in Places
    BY <1>2
<1>9. /\ ses'[s] \in Records /\ ses'[s].at = Shifted(ses[s].at, from, to) /\ ses'[s].pc = pc
      /\ ses'[s].mode = ses[s].mode /\ ses'[s].sha = ses[s].sha
      /\ ses'[s].todo = ses[s].todo /\ ses'[s].after = ses[s].after
    BY <1>6, <1>7, <1>8 DEF Records, Gated, Tokenless
<1>10. ASSUME NEW t \in Sessions \ {s} PROVE Kept(t)
    <2>1. ses'[t] = [ses[t] EXCEPT !.at = Shifted(ses[t].at, from, to)]
        BY <1>2, <1>4
    <2> QED
        BY <1>2, <2>1 DEF Kept
<1> QED
    BY <1>3, <1>9, <1>10

\* A refusal keeps nothing that could be wrong.
LEMMA RefusalOK ==
    ASSUME NEW s \in Sessions, NEW held, NEW before, SesOK(ses[s], before)
    PROVE  SesOK(Refusal(s), held)
BY DEF SesOK, Refusal, Records, Gated, Tokenless

\* Trying again changes the count alone.
LEMMA LostOK ==
    ASSUME SessionsOK, NEW s \in Sessions, Lost(s), origin' = origin, cdn \subseteq cdn'
    PROVE  SessionsOK'
<1> DEFINE r == [ses[s] EXCEPT !.tries = @ + 1]
<1>1. SesOK(ses[s], cdn')
    BY Monotone DEF SessionsOK
<1>2. SesOK(r, cdn')
    BY <1>1 DEF SesOK, Records
<1>3. CASE Set(s, r)
    BY <1>2, <1>3, SetStep
<1>4. CASE Set(s, Refusal(s))
    BY <1>1, <1>4, RefusalOK, SetStep
<1> QED
    BY <1>3, <1>4 DEF Lost

LEMMA AdvanceSession ==
    ASSUME SessionsOK, NEW s \in Sessions, Advance(s)
    PROVE  SessionsOK' /\ cdn \subseteq cdn'
<1> DEFINE r == ses[s]
<1>0. SesOK(r, cdn) /\ r \in Records /\ Keys(s) = KeysOf(r.sha)
    BY DEF SessionsOK, SesOK, Keys, KeysOf
<1>1. CASE Gate(s)
    <2>1. CASE ~Publishable(r.sha)
        BY <1>0, <1>1, <2>1, RefusalOK, SetStep DEF Gate
    <2>2. CASE Publishable(r.sha)
        <3> DEFINE q == [r EXCEPT !.pc = CASE r.mode = "direct"   -> "prepare"
                                           [] r.mode = "wrangler" -> "wrangler"
                                           [] OTHER               -> "done"]
        <3>1. r.pc = "gate" /\ r.sha \in Commits
            BY <1>0, <1>1 DEF Gate, At, SesOK
        <3>2. SesOK(q, cdn)
            BY <1>0, <2>2, <3>1 DEF SesOK, Records, Gated, Tokenless
        <3> QED
            BY <1>1, <2>2, <3>2, SetStep DEF Gate
    <2> QED
        BY <2>1, <2>2
<1>2. ASSUME NEW published \in BOOLEAN, NEW ok \in BOOLEAN, Wrangler(s, published, ok)
      PROVE  SessionsOK' /\ cdn \subseteq cdn'
    <2>1. cdn \subseteq cdn' /\ r.pc = "wrangler" /\ origin' = origin
        BY <1>2 DEF Wrangler, At
    <2>2. SesOK([r EXCEPT !.pc = "done"], cdn')
        BY <1>0, <2>1 DEF SesOK, Records, Gated, Tokenless
    <2> QED
        BY <1>0, <1>2, <2>1, <2>2, RefusalOK, SetStep DEF Wrangler
<1>3. ASSUME NEW writable \in BOOLEAN, PreparePlanPath(s, writable) PROVE SessionsOK' /\ cdn \subseteq cdn'
    <2>1. r.pc = "prepare"
        BY <1>3 DEF PreparePlanPath, At
    <2>2. SesOK([r EXCEPT !.pc = "clear", !.at = "plan"], cdn)
        BY <1>0, <2>1 DEF SesOK, Records, Gated, Tokenless, Places
    <2> QED
        BY <1>0, <1>3, <2>2, RefusalOK, SetStep DEF PreparePlanPath
<1>4. ASSUME NEW sane \in BOOLEAN, CheckMissing(s, sane) PROVE SessionsOK' /\ cdn \subseteq cdn'
    <2> DEFINE answer == IF sane THEN Keys(s) \ cdn ELSE {None}
               q == [r EXCEPT !.tries = 0, !.pc = IF answer = {} THEN "upsert" ELSE "ceiling",
                              !.todo = SetToSeq(answer)]
    <2>1. r.pc = "missing" /\ r.sha \in Commits /\ Publishable(r.sha) /\ UNCHANGED <<origin, cdn>>
        BY <1>0, <1>4 DEF CheckMissing, At, SesOK, Gated, Tokenless
    <2>2. CASE ~(answer \subseteq Keys(s))
        BY <1>0, <1>4, <2>1, <2>2, RefusalOK, SetStep DEF CheckMissing
    <2>3. CASE answer \subseteq Keys(s)
        <3>1. None \notin Keys(s)
            BY <2>1 DEF Publishable, Stages, Keys, Assets
        <3>2. answer = Keys(s) \ cdn
            BY <2>3, <3>1
        <3>3. IsFiniteSet(answer)
            BY <1>0, <2>1, <3>2, KeysFinite, FS_Subset
        <3>4. SetToSeq(answer) \in Seq(answer) /\ ToSet(SetToSeq(answer)) = answer
            BY <3>3, SeqOfKeys
        <3>5. answer \subseteq Things
            BY <1>0, <2>1, <3>2 DEF Things
        <3>6. SetToSeq(answer) \in Seq(Things)
            BY <3>4, <3>5
        <3> HIDE DEF answer
        <3>7. q \in Records /\ q.sha = r.sha /\ q.mode = r.mode /\ q.todo = SetToSeq(answer)
              /\ q.pc = IF answer = {} THEN "upsert" ELSE "ceiling"
            BY <1>0, <3>6 DEF Records, Gated, Tokenless
        <3>8. SesOK(q, cdn)
            <4>1. KeysOf(q.sha) \subseteq cdn \cup ToSet(q.todo)
                BY <1>0, <3>2, <3>4, <3>7
            <4>2. answer = {} => KeysOf(q.sha) \subseteq cdn
                BY <1>0, <3>2, <3>7
            <4> HIDE DEF q
            <4> QED
                BY <1>0, <2>1, <3>7, <4>1, <4>2 DEF SesOK, Gated, Tokenless
        <3>9. Set(s, q)
            BY <1>4, <2>3 DEF CheckMissing, answer
        <3> QED
            BY <2>1, <3>8, <3>9, SetStep
    <2> QED
        BY <2>2, <2>3
<1>5. CASE CheckCeiling(s)
    <2>1. r.pc = "ceiling"
        BY <1>5 DEF CheckCeiling, At
    <2>2. SesOK([r EXCEPT !.pc = "upload"], cdn)
        BY <1>0, <2>1 DEF SesOK, Records, Gated, Tokenless
    <2> QED
        BY <1>0, <1>5, <2>2, RefusalOK, SetStep DEF CheckCeiling
<1>6. CASE UploadBatch(s)
    <2> DEFINE q == [r EXCEPT !.todo = Rest(s), !.tries = 0,
                              !.pc = IF Rest(s) = <<>> THEN "upsert" ELSE "upload"]
    <2>1. /\ r.pc = "upload" /\ cdn' = cdn \cup ToSet(Batch(s)) /\ origin' = origin /\ Set(s, q)
        BY <1>6 DEF UploadBatch, At
    <2>2. r.todo \in Seq(Things)
        BY <1>0 DEF Records
    <2>3. /\ ToSet(r.todo) = ToSet(Batch(s)) \cup ToSet(Rest(s))
          /\ Rest(s) \in Seq(Things)
        BY <2>2, BatchSplits
    <2>4. Rest(s) = <<>> => ToSet(Rest(s)) = {}
        BY DEF ToSet
    <2>5. q \in Records /\ q.sha = r.sha /\ q.todo = Rest(s)
          /\ q.pc = IF Rest(s) = <<>> THEN "upsert" ELSE "upload"
        BY <1>0, <2>3 DEF Records, Gated, Tokenless
    <2>6. SesOK(q, cdn')
        BY <1>0, <2>1, <2>3, <2>4, <2>5 DEF SesOK, Gated, Tokenless
    <2> QED
        BY <2>1, <2>6, SetStep
<1>7. CASE Upsert(s)
    <2>1. r.pc = "upsert"
        BY <1>7 DEF Upsert, At
    <2>2. SesOK([r EXCEPT !.pc = "write", !.tries = 0], cdn)
        BY <1>0, <2>1 DEF SesOK, Records, Gated, Tokenless
    <2> QED
        BY <1>7, <2>2, SetStep DEF Upsert
<1>8. CASE OpenPartial(s)
    <2>1. r.pc = "write"
        BY <1>8 DEF OpenPartial, At
    <2>2. SesOK([r EXCEPT !.pc = "fill", !.at = "partial"], cdn)
        BY <1>0, <2>1 DEF SesOK, Records, Gated, Tokenless, Places
    <2> QED
        BY <1>8, <2>2, SetStep DEF OpenPartial
<1>9. ASSUME NEW whole \in BOOLEAN, Fill(s, whole) PROVE SessionsOK' /\ cdn \subseteq cdn'
    <2>1. r.pc = "fill"
        BY <1>9 DEF Fill, At
    <2>2. SesOK([r EXCEPT !.pc = "replace"], cdn)
        BY <1>0, <2>1 DEF SesOK, Records, Gated, Tokenless
    <2> QED
        BY <1>9, <2>2, SetStep DEF Fill
<1>10. ASSUME NEW from \in Places, NEW to \in Places, NEW pc \in {"missing", "refused", "done"},
              Moves(s, from, to, pc), pc = "missing" => r.pc = "clear",
              r.pc \in {"clear", "replace"}, origin' = origin, cdn' = cdn
       PROVE  SessionsOK' /\ cdn \subseteq cdn'
    <2>1. /\ DOMAIN ses' = Sessions /\ \A t \in Sessions \ {s} : Kept(t)
          /\ ses'[s] \in Records /\ ses'[s].pc = pc /\ ses'[s].mode = r.mode /\ ses'[s].sha = r.sha
        BY <1>10, MoveKeeps
    <2>2. SesOK(ses'[s], cdn')
        BY <1>0, <1>10, <2>1 DEF SesOK, Gated, Tokenless
    <2> QED
        BY <1>10, <2>1, <2>2, SessionStep
<1>11. CASE ClearPlan(s)
    <2>1. Moves(s, "plan", "gone", IF plan = None THEN "refused" ELSE "missing")
        BY <1>11 DEF ClearPlan, Moves
    <2> QED
        BY <1>10, <1>11, <2>1 DEF ClearPlan, At, Places
<1>12. CASE Replace(s)
    <2>1. CASE Set(s, Refusal(s))
        BY <1>0, <1>12, <2>1, RefusalOK, SetStep DEF Replace
    <2>2. CASE Moves(s, "partial", "plan", "done")
        BY <1>10, <1>12, <2>2 DEF Replace, At, Places
    <2> QED
        BY <1>12, <2>1, <2>2 DEF Replace, Moves
<1> QED
    BY <1>1, <1>2, <1>3, <1>4, <1>5, <1>6, <1>7, <1>8, <1>9, <1>11, <1>12 DEF Advance

LEMMA FailSession ==
    ASSUME SessionsOK, NEW s \in Sessions, Fails(s)
    PROVE  /\ SessionsOK' /\ cdn \subseteq cdn'
           /\ UNCHANGED <<plan, partial, page>>
<1>1. CASE CheckMissingLost(s) \/ UpsertLost(s) \/ \E applied \in BOOLEAN : UploadLost(s, applied)
    <2>1. Lost(s) /\ origin' = origin /\ cdn \subseteq cdn' /\ UNCHANGED <<plan, partial, page>>
        BY <1>1 DEF CheckMissingLost, UpsertLost, UploadLost
    <2> QED
        BY <2>1, LostOK
<1>2. CASE Killed(s)
    <2>1. Set(s, [ses[s] EXCEPT !.pc = "killed"]) /\ UNCHANGED <<origin, cdn, plan, partial, page>>
        BY <1>2 DEF Killed
    <2>2. SesOK(ses[s], cdn)
        BY DEF SessionsOK
    <2>3. SesOK([ses[s] EXCEPT !.pc = "killed"], cdn)
        BY <2>2 DEF SesOK, Records, Gated, Tokenless
    <2> QED
        BY <2>1, <2>3, SetStep
<1> QED
    BY <1>1, <1>2 DEF Fails

-----------------------------------------------------------------------------
(***************************************************************************)
(* Plans and the page.                                                     *)
(***************************************************************************)

LEMMA AdvancePlans ==
    ASSUME SessionsOK, PlansOK, NEW s \in Sessions, Advance(s), cdn \subseteq cdn'
    PROVE  PlansOK'
<1>0. /\ PlanOK(plan, cdn') /\ PlanOK(partial, cdn')
      /\ \A p \in {None, Empty, Mixed} : PlanOK(p, cdn')
    <2>1. PlanOK(plan, cdn') /\ PlanOK(partial, cdn')
        BY Monotone DEF PlansOK
    <2>2. \A p \in {None, Empty, Mixed} : PlanOK(p, cdn')
        BY DEF PlanOK, Parses
    <2> QED
        BY <2>1, <2>2
<1>1. ASSUME NEW whole \in BOOLEAN, Fill(s, whole) PROVE PlansOK'
    <2>1. /\ ses[s].sha \in Commits /\ Publishable(ses[s].sha)
          /\ KeysOf(ses[s].sha) \subseteq cdn
        BY <1>1 DEF Fill, At, SessionsOK, SesOK, Gated, Tokenless
    <2>2. PlanOK(PlanOf(ses[s].sha), cdn')
        BY <2>1 DEF PlanOK
    <2>3. plan' \in {plan, PlanOf(ses[s].sha), Mixed} /\ partial' \in {partial, PlanOf(ses[s].sha), Mixed}
        <3>1. /\ partial' = IF ses[s].at = "partial" THEN Filled(s, partial, whole) ELSE partial
              /\ plan' = IF ses[s].at = "plan" THEN Filled(s, plan, whole) ELSE plan
            BY <1>1 DEF Fill
        <3>2. \A held : Filled(s, held, whole) \in {PlanOf(ses[s].sha), Mixed}
            BY DEF Filled
        <3> QED
            BY <3>1, <3>2
    <2> QED
        BY <1>0, <2>2, <2>3 DEF PlansOK
<1>2. CASE Replace(s)
    BY <1>0, <1>2 DEF Replace, PlansOK
<1>3. CASE ~(\E whole \in BOOLEAN : Fill(s, whole)) /\ ~Replace(s)
    <2>1. plan' \in {plan, None, Empty} /\ partial' \in {partial, Empty}
        BY <1>3 DEF Advance, Gate, Wrangler, PreparePlanPath, ClearPlan, CheckMissing, CheckCeiling,
            UploadBatch, Upsert, OpenPartial
    <2> QED
        BY <1>0, <2>1 DEF PlansOK
<1> QED
    BY <1>1, <1>2, <1>3

LEMMA AdvancePage ==
    ASSUME SessionsOK, PageOK, NEW s \in Sessions, Advance(s), cdn \subseteq cdn'
    PROVE  PageOK'
<1>1. page' = page \/ \E ok \in BOOLEAN : Wrangler(s, TRUE, ok)
    BY DEF Advance, Gate, Wrangler, PreparePlanPath, ClearPlan, CheckMissing, CheckCeiling,
        UploadBatch, Upsert, OpenPartial, Fill, Replace
<1>2. CASE page' = page
    BY <1>2 DEF PageOK
<1>3. ASSUME NEW ok \in BOOLEAN, Wrangler(s, TRUE, ok) PROVE PageOK'
    <2>1. ses[s].sha \in Commits /\ Publishable(ses[s].sha)
        BY <1>3 DEF Wrangler, At, SessionsOK, SesOK, Gated, Tokenless
    <2>2. /\ cdn' = cdn \cup KeysOf(ses[s].sha)
          /\ page' = [sha |-> ses[s].sha, files |-> Blob[ses[s].sha]]
        BY <1>3 DEF Wrangler, KeysOf
    <2> QED
        BY <2>1, <2>2 DEF PageOK
<1> QED
    BY <1>1, <1>2, <1>3

\* What an operator creates from a plan is the plan's commit.
LEMMA CreatedPage ==
    ASSUME PlansOK, NEW c \in Commits, CreateDeployment(c)
    PROVE  PageOK'
<1>1. PICK d \in Commits : Publishable(d) /\ plan = PlanOf(d) /\ KeysOf(d) \subseteq cdn
    BY DEF CreateDeployment, PlansOK, PlanOK, Parses
<1>2. /\ plan.sha = d /\ plan.manifest = [n \in Assets |-> Blob[d][n]]
      /\ plan.special = [n \in Special |-> Blob[d][n]]
    BY <1>1 DEF PlanOf
<1>3. d = c /\ cdn' = cdn
    BY <1>2 DEF CreateDeployment
<1>4. page'.sha = c /\ page' = [sha |-> page'.sha, files |-> page'.files]
    BY DEF CreateDeployment
<1>5. page'.files = [n \in Serve |-> Blob[d][n]]
    <2>1. page'.files = [n \in Serve |-> IF n \in Special THEN plan.special[n] ELSE plan.manifest[n]]
        BY DEF CreateDeployment
    <2>2. \A n \in Serve : (IF n \in Special THEN plan.special[n] ELSE plan.manifest[n]) = Blob[d][n]
        BY <1>2 DEF Assets
    <2> QED
        BY <2>1, <2>2
<1>6. page'.files = Blob[c]
    BY <1>3, <1>5, PublishAssumption
<1> QED
    BY <1>1, <1>3, <1>4, <1>6 DEF PageOK

\* What Resolve leaves of a session.
Resolved(pc, mode, sha, after) == [Fresh EXCEPT !.pc = pc, !.mode = mode, !.sha = sha, !.after = after]

LEMMA ResolvedRecord ==
    ASSUME NEW pc \in {"gate", "refused"}, NEW mode \in {"direct", "wrangler", "dry"},
           NEW sha \in Commits, NEW after \in SUBSET Sessions
    PROVE  /\ Resolved(pc, mode, sha, after) \in Records
           /\ Resolved(pc, mode, sha, after).pc = pc
           /\ Resolved(pc, mode, sha, after).sha = sha
           /\ Resolved(pc, mode, sha, after).after = after
           /\ Resolved(pc, mode, sha, after).mode = mode
           /\ Resolved(pc, mode, sha, after).at = None
<1>1. Fresh \in Records
    BY DEF Fresh, Records, Places
<1> QED
    BY <1>1 DEF Resolved, Records, Gated, Tokenless, Fresh

LEMMA PageInvInit == PublishInit => PageInv
<1> SUFFICES ASSUME PublishInit PROVE PageInv
    OBVIOUS
<1>1. Fresh \in Records /\ Fresh.pc = "new" /\ Fresh.mode = None
    BY DEF Fresh, Records, Places
<1>2. SesOK(Fresh, cdn)
    BY <1>1 DEF SesOK, Gated, Tokenless
<1> QED
    BY <1>2 DEF PublishInit, PageInv, SessionsOK, PlansOK, PlanOK, Parses, PageOK

LEMMA PageInvNext == PageInv /\ [PublishNext]_pageVars => PageInv'
<1> SUFFICES ASSUME PageInv, [PublishNext]_pageVars PROVE PageInv'
    OBVIOUS
<1>0. SessionsOK /\ PlansOK /\ PageOK
    BY DEF PageInv
<1>1. ASSUME NEW c \in Commits, Fetch(c) PROVE PageInv'
    BY <1>0, <1>1 DEF Fetch, PageInv, SessionsOK, PlansOK, PageOK
<1>2. ASSUME NEW c \in Commits, CreateDeployment(c) PROVE PageInv'
    <2>1. PageOK'
        BY <1>0, <1>2, CreatedPage
    <2>2. UNCHANGED <<origin, ses, cdn, plan, partial>>
        BY <1>2 DEF CreateDeployment
    <2> QED
        BY <1>0, <2>1, <2>2 DEF PageInv, SessionsOK, PlansOK
<1>3. ASSUME NEW s \in Sessions, NEW mode \in {"direct", "wrangler", "dry"}, NEW usable \in BOOLEAN,
             Resolve(s, mode, usable)
      PROVE  PageInv'
    <2> DEFINE pc    == IF usable THEN "gate" ELSE "refused"
               ended == {t \in Sessions : Ended(t)}
               r     == Resolved(pc, mode, origin, ended)
    <2>1. Set(s, r) /\ UNCHANGED <<origin, cdn, plan, partial, page>>
        BY <1>3 DEF Resolve, Resolved
    <2>2. origin \in Commits /\ pc \in {"gate", "refused"} /\ ended \in SUBSET Sessions
        BY <1>0 DEF SessionsOK
    <2> HIDE DEF pc, ended
    <2>3. r \in Records /\ r.sha = origin /\ r.pc \in {"gate", "refused"}
        BY <2>2, ResolvedRecord
    <2> HIDE DEF r
    <2>4. SesOK(r, cdn)
        BY <2>2, <2>3 DEF SesOK, Gated, Tokenless
    <2>5. SessionsOK'
        BY <1>0, <2>1, <2>4, SetStep
    <2> QED
        BY <1>0, <2>1, <2>5 DEF PageInv, PlansOK, PageOK
<1>4. ASSUME NEW s \in Sessions, Advance(s) PROVE PageInv'
    BY <1>0, <1>4, AdvanceSession, AdvancePlans, AdvancePage DEF PageInv
<1>5. ASSUME NEW s \in Sessions, Fails(s) PROVE PageInv'
    <2>1. SessionsOK' /\ cdn \subseteq cdn' /\ UNCHANGED <<plan, partial, page>>
        BY <1>0, <1>5, FailSession
    <2>2. PlansOK'
        BY <1>0, <2>1, Monotone DEF PlansOK
    <2>3. PageOK'
        BY <1>0, <2>1 DEF PageOK
    <2> QED
        BY <2>1, <2>2, <2>3 DEF PageInv
<1>6. CASE UNCHANGED pageVars
    BY <1>0, <1>6 DEF pageVars, PageInv, SessionsOK, PlansOK, PageOK
<1> QED
    BY <1>1, <1>2, <1>3, <1>4, <1>5, <1>6 DEF PublishNext

LEMMA PageInvAlways == PublishSpec => []PageInv
BY PageInvInit, PageInvNext, PTL DEF PublishSpec

\* What customers load is one commit, whole, with every asset behind it resident.
THEOREM LivePageIsOneCommit == PublishSpec => []LivePageIsWhole
<1>1. PageInv => LivePageIsWhole
    <2> SUFFICES ASSUME PageInv, page # None
                 PROVE  /\ page.files = Blob[page.sha] /\ Unserved(page.sha) = {}
                        /\ \A n \in Assets : page.files[n] \in cdn
        BY DEF LivePageIsWhole
    <2>1. PICK c \in Commits : /\ Publishable(c) /\ page = [sha |-> c, files |-> Blob[c]]
                               /\ KeysOf(c) \subseteq cdn
        BY DEF PageInv, PageOK
    <2> QED
        BY <2>1 DEF KeysOf, Publishable, Stages
<1> QED
    BY <1>1, PageInvAlways, PTL

-----------------------------------------------------------------------------
(***************************************************************************)
(* Failed uploads.  A run clears the plan path first.  When no other       *)
(* tokenless run is beside it, nothing comes back there until its own plan *)
(* is moved to it, and the sibling it moves holds its own text.            *)
(***************************************************************************)
Alone(s) == \A t \in Sessions : ~Beside(s, t)

AfterInv == \A s \in Sessions : \A t \in ses[s].after : t \in Sessions /\ Ended(t)

LoneInv ==
    \A s \in Sessions :
        Uploading(s) /\ Alone(s) =>
            /\ plan = None /\ ses[s].at # "plan"
            /\ ses[s].pc = "fill"    => ses[s].at = "partial" /\ partial = Empty
            /\ ses[s].pc = "replace" => partial = PlanOf(ses[s].sha)

Clearing(s) == ses[s].at = "plan" /\ ses[s].pc \in {"clear", "killed"}

TruncatedInv ==
    plan \in {Empty, Mixed} => \/ \E s \in Sessions : Clearing(s)
                              \/ \E s, t \in Sessions : Beside(s, t)

PathInv == AfterInv /\ LoneInv /\ TruncatedInv

\* What every step of a run keeps, its own and the others' sessions.
LEMMA StepEffect ==
    ASSUME SessionsOK, NEW s \in Sessions, Advance(s) \/ Fails(s)
    PROVE  /\ ~Ended(s) /\ ses[s].pc # "new"
           /\ \A t \in Sessions \ {s} : Kept(t)
           /\ ses'[s].mode = ses[s].mode /\ ses'[s].after = ses[s].after
           /\ \/ ses[s].mode = "direct"
              \/ UNCHANGED <<plan, partial>> /\ \A t \in Sessions \ {s} : ses'[t] = ses[t]
<1> DEFINE r == ses[s]
<1>0. r \in Records /\ (r.pc \in Tokenless => r.mode = "direct")
    BY DEF SessionsOK, SesOK
<1>1. ASSUME NEW q, Set(s, q), q.mode = r.mode, q.after = r.after
      PROVE  /\ \A t \in Sessions \ {s} : Kept(t) /\ ses'[t] = ses[t]
             /\ ses'[s].mode = r.mode /\ ses'[s].after = r.after
    BY <1>1, SetKeeps
<1>2. /\ \A x : [r EXCEPT !.pc = x].mode = r.mode /\ [r EXCEPT !.pc = x].after = r.after
      /\ \A x, y : /\ [r EXCEPT !.pc = x, !.at = y].mode = r.mode
                   /\ [r EXCEPT !.pc = x, !.at = y].after = r.after
                   /\ [r EXCEPT !.at = y, !.pc = x].mode = r.mode
                   /\ [r EXCEPT !.at = y, !.pc = x].after = r.after
      /\ Refusal(s).mode = r.mode /\ Refusal(s).after = r.after
    BY <1>0 DEF Refusal, Records
<1>3. CASE Gate(s)
    <2> DEFINE next == CASE r.mode = "direct"   -> "prepare"
                         [] r.mode = "wrangler" -> "wrangler"
                         [] OTHER               -> "done"
    <2>1. r.pc = "gate" /\ UNCHANGED <<plan, partial>>
        BY <1>3 DEF Gate, At
    <2>2. Set(s, Refusal(s)) \/ Set(s, [r EXCEPT !.pc = next])
        BY <1>3 DEF Gate
    <2> HIDE DEF next
    <2> QED
        BY <1>1, <1>2, <2>1, <2>2 DEF Ended
<1>4. ASSUME NEW published \in BOOLEAN, NEW ok \in BOOLEAN, Wrangler(s, published, ok)
      PROVE  /\ r.pc = "wrangler" /\ UNCHANGED <<plan, partial>>
             /\ \E q : Set(s, q) /\ q.mode = r.mode /\ q.after = r.after
    <2>1. Set(s, [r EXCEPT !.pc = "done"]) \/ Set(s, Refusal(s))
        BY <1>4 DEF Wrangler
    <2> QED
        BY <1>2, <1>4, <2>1 DEF Wrangler, At
<1>5. CASE \E writable \in BOOLEAN : PreparePlanPath(s, writable)
    <2>1. /\ r.pc = "prepare"
          /\ \/ Set(s, [r EXCEPT !.pc = "clear", !.at = "plan"])
             \/ Set(s, Refusal(s))
        BY <1>5 DEF PreparePlanPath, At
    <2> QED
        BY <1>0, <1>1, <1>2, <2>1 DEF Ended, Tokenless
<1>6. CASE \E sane \in BOOLEAN : CheckMissing(s, sane)
    <2>1. r.pc = "missing"
        BY <1>6 DEF CheckMissing, At
    <2>2. PICK sane \in BOOLEAN : CheckMissing(s, sane)
        BY <1>6
    <2> DEFINE answer == IF sane THEN Keys(s) \ cdn ELSE {None}
               next   == IF answer = {} THEN "upsert" ELSE "ceiling"
               q == [r EXCEPT !.tries = 0, !.pc = next, !.todo = SetToSeq(answer)]
    <2>3. Set(s, q) \/ Set(s, Refusal(s))
        BY <2>2 DEF CheckMissing
    <2>4. q.mode = r.mode /\ q.after = r.after
        <3> HIDE DEF answer, next
        <3> QED
            BY <1>0 DEF Records
    <2> HIDE DEF q
    <2> QED
        BY <1>0, <1>1, <1>2, <2>1, <2>3, <2>4 DEF Ended, Tokenless
<1>7. CASE UploadBatch(s)
    <2> DEFINE q == [r EXCEPT !.todo = Rest(s), !.tries = 0,
                              !.pc = IF Rest(s) = <<>> THEN "upsert" ELSE "upload"]
    <2>1. r.pc = "upload" /\ Set(s, q)
        BY <1>7 DEF UploadBatch, At
    <2>2. q.mode = r.mode /\ q.after = r.after
        BY <1>0 DEF Records
    <2> HIDE DEF q
    <2> QED
        BY <1>0, <1>1, <2>1, <2>2 DEF Ended, Tokenless
<1>8. CASE Upsert(s)
    <2>1. r.pc = "upsert" /\ Set(s, [r EXCEPT !.pc = "write", !.tries = 0])
        BY <1>8 DEF Upsert, At
    <2>2. /\ [r EXCEPT !.pc = "write", !.tries = 0].mode = r.mode
          /\ [r EXCEPT !.pc = "write", !.tries = 0].after = r.after
        BY <1>0 DEF Records
    <2> QED
        BY <1>0, <1>1, <2>1, <2>2 DEF Ended, Tokenless
<1>9. CASE CheckCeiling(s) \/ OpenPartial(s) \/ \E whole \in BOOLEAN : Fill(s, whole)
    <2>1. r.pc \in {"ceiling", "write", "fill"}
        BY <1>9 DEF CheckCeiling, OpenPartial, Fill, At
    <2>2. \/ Set(s, Refusal(s)) \/ Set(s, [r EXCEPT !.pc = "upload"])
          \/ Set(s, [r EXCEPT !.pc = "fill", !.at = "partial"])
          \/ Set(s, [r EXCEPT !.pc = "replace"])
        BY <1>9 DEF CheckCeiling, OpenPartial, Fill
    <2> QED
        BY <1>0, <1>1, <1>2, <2>1, <2>2 DEF Ended, Tokenless
<1>10. ASSUME NEW from \in Places, NEW to \in Places, NEW pc \in {"missing", "refused", "done"},
              Moves(s, from, to, pc)
       PROVE  /\ \A t \in Sessions \ {s} : Kept(t)
              /\ ses'[s].mode = r.mode /\ ses'[s].after = r.after
    BY <1>10, MoveKeeps
<1>11. CASE ClearPlan(s)
    <2>1. r.pc = "clear" /\ Moves(s, "plan", "gone", IF plan = None THEN "refused" ELSE "missing")
        BY <1>11 DEF ClearPlan, Moves, At
    <2> QED
        BY <1>0, <1>10, <2>1 DEF Ended, Tokenless, Places
<1>12. CASE Replace(s)
    <2>1. r.pc = "replace"
        BY <1>12 DEF Replace, At
    <2>2. Set(s, Refusal(s)) \/ Moves(s, "partial", "plan", "done")
        BY <1>12 DEF Replace, Moves
    <2> QED
        BY <1>0, <1>1, <1>2, <1>10, <2>1, <2>2 DEF Ended, Tokenless, Places
<1>13. CASE Fails(s)
    <2>1. ~Ended(s) /\ r.pc # "new" /\ UNCHANGED <<plan, partial>>
        BY <1>13 DEF Fails, CheckMissingLost, UpsertLost, Killed, UploadLost, At, Ended
    <2>2. \/ Set(s, Refusal(s)) \/ Set(s, [r EXCEPT !.tries = @ + 1])
          \/ Set(s, [r EXCEPT !.pc = "killed"])
        BY <1>13 DEF Fails, CheckMissingLost, UpsertLost, Killed, UploadLost, Lost
    <2>3. [r EXCEPT !.tries = @ + 1].mode = r.mode /\ [r EXCEPT !.tries = @ + 1].after = r.after
        BY <1>0 DEF Records
    <2> QED
        BY <1>1, <1>2, <2>1, <2>2, <2>3
<1>14. (\E published, ok \in BOOLEAN : Wrangler(s, published, ok)) =>
          /\ r.pc = "wrangler" /\ UNCHANGED <<plan, partial>>
          /\ \E q : Set(s, q) /\ q.mode = r.mode /\ q.after = r.after
    BY <1>4
<1>15. CASE \E published, ok \in BOOLEAN : Wrangler(s, published, ok)
    BY <1>1, <1>14, <1>15 DEF Ended
<1> QED
    BY <1>3, <1>15, <1>5, <1>6, <1>7, <1>8, <1>9, <1>11, <1>12, <1>13 DEF Advance

\* Two tokenless runs that are under way now are beside each other.
LEMMA Neighbours ==
    ASSUME AfterInv, NEW s \in Sessions, NEW t \in Sessions, s # t, ~Ended(s), ~Ended(t),
           ses[s].mode = "direct", ses[t].mode = "direct"
    PROVE  Beside(s, t)
BY DEF AfterInv, Beside

\* The step of a session that is alone.
LEMMA OwnStep ==
    ASSUME SessionsOK, NEW s \in Sessions, Advance(s) \/ Fails(s),
           Uploading(s) => /\ plan = None /\ ses[s].at # "plan"
                           /\ ses[s].pc = "fill" => ses[s].at = "partial" /\ partial = Empty
                           /\ ses[s].pc = "replace" => partial = PlanOf(ses[s].sha),
           Uploading(s)'
    PROVE  /\ plan' = None /\ ses'[s].at # "plan"
           /\ ses'[s].pc = "fill" => ses'[s].at = "partial" /\ partial' = Empty
           /\ ses'[s].pc = "replace" => partial' = PlanOf(ses'[s].sha)
<1> DEFINE r == ses[s]
<1>0. r \in Records
    BY DEF SessionsOK, SesOK
<1>1. \A q : Set(s, q) => ses'[s] = q
    BY SetKeeps
<1>2. CASE Gate(s)
    <2> DEFINE next == CASE r.mode = "direct"   -> "prepare"
                         [] r.mode = "wrangler" -> "wrangler"
                         [] OTHER               -> "done"
    <2>1. ses'[s] = [r EXCEPT !.pc = "refused"] \/ ses'[s] = [r EXCEPT !.pc = next]
        BY <1>1, <1>2 DEF Gate, Refusal
    <2>2. next \in {"prepare", "wrangler", "done"}
        OBVIOUS
    <2> HIDE DEF next
    <2>3. ses'[s].pc \in {"refused", "prepare", "wrangler", "done"}
        BY <1>0, <2>1, <2>2 DEF Records
    <2> QED
        BY <2>3 DEF Uploading
<1>3. CASE \/ \E published, ok \in BOOLEAN : Wrangler(s, published, ok)
           \/ \E writable \in BOOLEAN : PreparePlanPath(s, writable)
    <2>1. \/ ses'[s] = [r EXCEPT !.pc = "refused"] \/ ses'[s] = [r EXCEPT !.pc = "done"]
          \/ ses'[s] = [r EXCEPT !.pc = "clear", !.at = "plan"]
        BY <1>1, <1>3 DEF Wrangler, PreparePlanPath, Refusal
    <2>2. ses'[s].pc \in {"refused", "done", "clear"}
        BY <1>0, <2>1 DEF Records
    <2> QED
        BY <2>2 DEF Uploading
<1>4. CASE ClearPlan(s)
    <2> DEFINE pc == IF plan = None THEN "refused" ELSE "missing"
    <2>1. Moves(s, "plan", "gone", pc) /\ plan' = None
        BY <1>4 DEF ClearPlan, Moves
    <2>2. pc \in {"missing", "refused", "done"}
        OBVIOUS
    <2> HIDE DEF pc
    <2>3. ses'[s].at = Shifted(r.at, "plan", "gone") /\ ses'[s].pc = pc
        BY <2>1, <2>2, MoveKeeps DEF Places
    <2> QED
        BY <2>1, <2>2, <2>3 DEF Shifted
<1>5. CASE \E sane \in BOOLEAN : CheckMissing(s, sane)
    <2>1. PICK sane \in BOOLEAN : CheckMissing(s, sane)
        BY <1>5
    <2> DEFINE answer == IF sane THEN Keys(s) \ cdn ELSE {None}
               next   == IF answer = {} THEN "upsert" ELSE "ceiling"
               q == [r EXCEPT !.tries = 0, !.pc = next, !.todo = SetToSeq(answer)]
    <2>2. r.pc = "missing" /\ plan' = plan /\ (ses'[s] = q \/ ses'[s] = [r EXCEPT !.pc = "refused"])
        BY <1>1, <2>1 DEF CheckMissing, At, Refusal
    <2>3. next \in {"upsert", "ceiling"}
        OBVIOUS
    <2>4. q.pc = next /\ q.at = r.at /\ [r EXCEPT !.pc = "refused"].pc = "refused"
        <3> HIDE DEF answer, next
        <3> QED
            BY <1>0 DEF Records
    <2> HIDE DEF q, next
    <2> QED
        BY <2>2, <2>3, <2>4 DEF Uploading
<1>6. CASE CheckCeiling(s)
    <2>1. /\ r.pc = "ceiling" /\ plan' = plan
          /\ (ses'[s] = [r EXCEPT !.pc = "upload"] \/ ses'[s] = [r EXCEPT !.pc = "refused"])
        BY <1>1, <1>6 DEF CheckCeiling, At, Refusal
    <2>2. ses'[s].pc \in {"upload", "refused"} /\ ses'[s].at = r.at
        BY <1>0, <2>1 DEF Records
    <2> QED
        BY <2>1, <2>2 DEF Uploading
<1>7. CASE UploadBatch(s)
    <2> DEFINE q == [r EXCEPT !.todo = Rest(s), !.tries = 0,
                              !.pc = IF Rest(s) = <<>> THEN "upsert" ELSE "upload"]
    <2>1. r.pc = "upload" /\ plan' = plan /\ ses'[s] = q
        BY <1>1, <1>7 DEF UploadBatch, At
    <2>2. q.pc \in {"upsert", "upload"} /\ q.at = r.at
        BY <1>0 DEF Records
    <2> HIDE DEF q
    <2> QED
        BY <2>1, <2>2 DEF Uploading
<1>8. CASE Upsert(s)
    <2>1. r.pc = "upsert" /\ plan' = plan /\ ses'[s] = [r EXCEPT !.pc = "write", !.tries = 0]
        BY <1>1, <1>8 DEF Upsert, At
    <2>2. ses'[s].pc = "write" /\ ses'[s].at = r.at
        BY <1>0, <2>1 DEF Records
    <2> QED
        BY <2>1, <2>2 DEF Uploading
<1>9. CASE OpenPartial(s)
    <2>1. /\ r.pc = "write" /\ plan' = plan /\ partial' = Empty
          /\ ses'[s] = [r EXCEPT !.pc = "fill", !.at = "partial"]
        BY <1>1, <1>9 DEF OpenPartial, At
    <2>2. ses'[s].pc = "fill" /\ ses'[s].at = "partial"
        BY <1>0, <2>1 DEF Records
    <2> QED
        BY <2>1, <2>2 DEF Uploading
<1>10. ASSUME NEW whole \in BOOLEAN, Fill(s, whole)
       PROVE  /\ plan' = None /\ ses'[s].at # "plan" /\ ses'[s].pc = "replace"
              /\ partial' = PlanOf(ses'[s].sha)
    <2>1. r.pc = "fill" /\ ses'[s] = [r EXCEPT !.pc = "replace"]
        BY <1>1, <1>10 DEF Fill, At
    <2>2. ses'[s].pc = "replace" /\ ses'[s].at = r.at /\ ses'[s].sha = r.sha
        BY <1>0, <2>1 DEF Records
    <2>3. plan = None /\ r.at = "partial" /\ partial = Empty
        BY <2>1 DEF Uploading
    <2>4. plan' = plan /\ partial' = PlanOf(r.sha)
        BY <1>10, <2>3 DEF Fill, Filled
    <2> QED
        BY <2>2, <2>3, <2>4
<1>11. CASE Replace(s)
    <2>1. ses'[s] = [r EXCEPT !.pc = "refused"] \/ Moves(s, "partial", "plan", "done")
        BY <1>1, <1>11 DEF Replace, Refusal, Moves
    <2>2. ses'[s].pc \in {"refused", "done"}
        BY <1>0, <2>1, MoveKeeps DEF Records, Places
    <2> QED
        BY <2>2 DEF Uploading
<1>12. CASE Fails(s)
    <2>1. /\ UNCHANGED <<plan, partial>>
          /\ \/ ses'[s] = [r EXCEPT !.pc = "refused"] \/ ses'[s] = [r EXCEPT !.tries = @ + 1]
             \/ ses'[s] = [r EXCEPT !.pc = "killed"]
        BY <1>1, <1>12 DEF Fails, CheckMissingLost, UpsertLost, Killed, UploadLost, Lost, Refusal
    <2>2. \/ ses'[s].pc \in {"refused", "killed"}
          \/ ses'[s].pc = r.pc /\ ses'[s].at = r.at /\ ses'[s].sha = r.sha
        BY <1>0, <2>1 DEF Records
    <2> QED
        BY <2>1, <2>2 DEF Uploading
<1> QED
    BY <1>2, <1>3, <1>4, <1>5, <1>6, <1>7, <1>8, <1>9, <1>10, <1>11, <1>12 DEF Advance

\* Runs that were beside each other stay so.
LEMMA BesideStays ==
    ASSUME \A t \in Sessions : ses'[t].mode = ses[t].mode /\ ses'[t].after = ses[t].after
    PROVE  \A t, u \in Sessions : Beside(t, u) => Beside(t, u)'
BY DEF Beside

\* A step of a run keeps what the two invariants say of the runs.
LEMMA RunsStep ==
    ASSUME SessionsOK, AfterInv, LoneInv, NEW s \in Sessions, Advance(s) \/ Fails(s)
    PROVE  /\ AfterInv' /\ LoneInv'
           /\ \A t, u \in Sessions : Beside(t, u) => Beside(t, u)'
<1>1. /\ ~Ended(s) /\ ses[s].pc # "new"
      /\ \A t \in Sessions \ {s} : Kept(t)
      /\ ses'[s].mode = ses[s].mode /\ ses'[s].after = ses[s].after
      /\ \/ ses[s].mode = "direct"
         \/ UNCHANGED <<plan, partial>> /\ \A t \in Sessions \ {s} : ses'[t] = ses[t]
    BY StepEffect
<1>2. \A t \in Sessions \ {s} : /\ ses'[t].pc = ses[t].pc /\ ses'[t].mode = ses[t].mode
                                /\ ses'[t].sha = ses[t].sha /\ ses'[t].after = ses[t].after
    BY <1>1, KeptRecord
<1>3. \A t \in Sessions : ses'[t].mode = ses[t].mode /\ ses'[t].after = ses[t].after
    BY <1>1, <1>2
<1>4. \A t, u \in Sessions : Beside(t, u) => Beside(t, u)'
    BY <1>3, BesideStays
<1>5. AfterInv'
    <2>1. \A t \in Sessions : Ended(t) => Ended(t)'
        BY <1>1, <1>2 DEF Ended
    <2> QED
        BY <1>3, <2>1 DEF AfterInv
<1>6. ASSUME NEW t \in Sessions, Uploading(t)', Alone(t)'
      PROVE  /\ plan' = None /\ ses'[t].at # "plan"
             /\ ses'[t].pc = "fill" => ses'[t].at = "partial" /\ partial' = Empty
             /\ ses'[t].pc = "replace" => partial' = PlanOf(ses'[t].sha)
    <2>1. Alone(t)
        BY <1>4, <1>6 DEF Alone
    <2>2. CASE t = s
        BY <1>6, <2>1, <2>2, OwnStep DEF LoneInv
    <2>3. CASE t # s
        <3>1. Uploading(t)
            BY <1>2, <1>6, <2>3 DEF Uploading
        <3>2. ~Ended(t) /\ ses[t].mode = "direct"
            BY <3>1 DEF Uploading, Ended, SessionsOK, SesOK, Tokenless
        <3>3. ses[s].mode # "direct"
            BY <1>1, <2>1, <2>3, <3>2, Neighbours DEF Alone
        <3>4. UNCHANGED <<plan, partial>> /\ ses'[t] = ses[t]
            BY <1>1, <2>3, <3>3
        <3> QED
            BY <2>1, <3>1, <3>4 DEF LoneInv
    <2> QED
        BY <2>2, <2>3
<1> QED
    BY <1>4, <1>5, <1>6 DEF LoneInv

\* A file that does not parse is at the plan path only while a run clears it,
\* after one was killed at it, or beside another run.
LEMMA TruncatedStep ==
    ASSUME SessionsOK, PathInv, NEW s \in Sessions, Advance(s) \/ Fails(s),
           plan' \in {Empty, Mixed}, \A t, u \in Sessions : ~Beside(t, u)
    PROVE  \E t \in Sessions : Clearing(t)'
<1> DEFINE r == ses[s]
<1>0. r \in Records /\ Alone(s) /\ (r.pc \in Tokenless => r.sha \in Commits)
    BY DEF SessionsOK, SesOK, Alone, Tokenless
<1>1. \A q : Set(s, q) => ses'[s] = q /\ \A t \in Sessions \ {s} : ses'[t] = ses[t]
    BY SetKeeps
<1>2. ASSUME NEW q, Set(s, q), plan' = plan, r.pc # "clear" PROVE \E t \in Sessions : Clearing(t)'
    <2>1. PICK t \in Sessions : Clearing(t)
        BY <1>2 DEF PathInv, TruncatedInv
    <2>2. ~Ended(s)
        BY StepEffect
    <2>3. t # s
        BY <1>2, <2>1, <2>2 DEF Clearing, Ended
    <2> QED
        BY <1>1, <1>2, <2>1, <2>3 DEF Clearing
<1>3. CASE Gate(s)
    BY <1>2, <1>3 DEF Gate, At
<1>4. CASE \E published, ok \in BOOLEAN : Wrangler(s, published, ok)
    BY <1>2, <1>4 DEF Wrangler, At
<1>5. ASSUME NEW writable \in BOOLEAN, PreparePlanPath(s, writable) PROVE \E t \in Sessions : Clearing(t)'
    <2>1. CASE writable
        <3>1. ses'[s] = [r EXCEPT !.pc = "clear", !.at = "plan"]
            BY <1>1, <1>5, <2>1 DEF PreparePlanPath
        <3>2. ses'[s].pc = "clear" /\ ses'[s].at = "plan"
            BY <1>0, <3>1 DEF Records
        <3> QED
            BY <3>2 DEF Clearing
    <2>2. CASE ~writable
        BY <1>2, <1>5, <2>2 DEF PreparePlanPath, At
    <2> QED
        BY <2>1, <2>2
<1>6. ~ClearPlan(s)
    BY NoneIsOther DEF ClearPlan
<1>7. CASE \E sane \in BOOLEAN : CheckMissing(s, sane)
    BY <1>2, <1>7 DEF CheckMissing, At
<1>8. CASE CheckCeiling(s) \/ UploadBatch(s) \/ Upsert(s) \/ OpenPartial(s)
    BY <1>2, <1>8 DEF CheckCeiling, UploadBatch, Upsert, OpenPartial, At
<1>9. ASSUME NEW whole \in BOOLEAN, Fill(s, whole) PROVE \E t \in Sessions : Clearing(t)'
    <2>1. r.pc = "fill"
        BY <1>9 DEF Fill, At
    <2>2. plan = None /\ r.at # "plan"
        BY <1>0, <2>1 DEF PathInv, LoneInv, Uploading
    <2> QED
        BY <1>9, <2>2, NoneIsOther DEF Fill
<1>10. ~Replace(s)
    <2>1. SUFFICES ASSUME Replace(s) PROVE FALSE
        OBVIOUS
    <2>2. r.pc = "replace"
        BY <2>1 DEF Replace, At
    <2>3. partial = PlanOf(r.sha) /\ r.sha \in Commits
        BY <1>0, <2>2 DEF PathInv, LoneInv, Uploading, Tokenless
    <2>4. PlanOf(r.sha) \notin {None, Empty, Mixed}
        BY <2>3, PlanAssumption
    <2> QED
        BY <2>1, <2>3, <2>4 DEF Replace
<1>11. CASE Fails(s)
    <2>1. PICK q : Set(s, q) /\ plan' = plan
        BY <1>11 DEF Fails, CheckMissingLost, UpsertLost, UploadLost, Killed, Lost
    <2>2. CASE r.pc # "clear"
        BY <1>2, <2>1, <2>2
    <2>3. CASE r.pc = "clear"
        <3>1. Set(s, [r EXCEPT !.pc = "killed"])
            BY <1>11, <2>3 DEF Fails, CheckMissingLost, UpsertLost, UploadLost, Killed, At
        <3>2. ses'[s].pc = "killed" /\ ses'[s].at = r.at
            BY <1>0, <1>1, <3>1 DEF Records
        <3>3. PICK t \in Sessions : Clearing(t)
            BY <2>1 DEF PathInv, TruncatedInv
        <3> QED
            BY <1>1, <3>1, <3>2, <3>3 DEF Clearing
    <2> QED
        BY <2>2, <2>3
<1> QED
    BY <1>3, <1>4, <1>5, <1>6, <1>7, <1>8, <1>9, <1>10, <1>11 DEF Advance

LEMMA PathInvInit == PublishInit => PathInv
<1> SUFFICES ASSUME PublishInit PROVE PathInv
    OBVIOUS
<1>1. \A s \in Sessions : ses[s].after = {} /\ ses[s].pc = "new"
    BY DEF PublishInit, Fresh
<1>2. plan \notin {Empty, Mixed}
    BY NoneIsOther DEF PublishInit
<1> QED
    BY <1>1, <1>2 DEF PathInv, AfterInv, LoneInv, TruncatedInv, Uploading

LEMMA PathInvNext ==
    ASSUME PageInv, PathInv, [PublishNext]_pageVars
    PROVE  PathInv'
<1>0. SessionsOK /\ AfterInv /\ LoneInv /\ TruncatedInv
    BY DEF PageInv, PathInv
<1>1. ASSUME UNCHANGED <<ses, plan, partial>> PROVE PathInv'
    <2>1. AfterInv'
        BY <1>0, <1>1 DEF AfterInv, Ended
    <2>2. LoneInv'
        BY <1>0, <1>1 DEF LoneInv, Uploading, Alone, Beside
    <2>3. TruncatedInv'
        BY <1>0, <1>1 DEF TruncatedInv, Clearing, Beside
    <2> QED
        BY <2>1, <2>2, <2>3 DEF PathInv
<1>2. ASSUME NEW c \in Commits, Fetch(c) \/ CreateDeployment(c) PROVE PathInv'
    BY <1>1, <1>2 DEF Fetch, CreateDeployment
<1>3. ASSUME NEW s \in Sessions, NEW mode \in {"direct", "wrangler", "dry"}, NEW usable \in BOOLEAN,
             Resolve(s, mode, usable)
      PROVE  PathInv'
    <2> DEFINE pc    == IF usable THEN "gate" ELSE "refused"
               ended == {t \in Sessions : Ended(t)}
               r     == Resolved(pc, mode, origin, ended)
    <2>1. Set(s, r) /\ UNCHANGED <<plan, partial>> /\ ses[s].pc = "new"
        BY <1>3 DEF Resolve, Resolved, At
    <2>2. origin \in Commits /\ pc \in {"gate", "refused"} /\ ended \in SUBSET Sessions
        BY <1>0 DEF SessionsOK
    <2>3. \A t \in ended : t \in Sessions /\ Ended(t)
        OBVIOUS
    <2> HIDE DEF pc, ended
    <2>4. r.pc \in {"gate", "refused"} /\ r.after = ended
        BY <2>2, ResolvedRecord
    <2> HIDE DEF r
    <2>5. ses'[s] = r /\ \A t \in Sessions \ {s} : ses'[t] = ses[t]
        BY <1>0, <2>1, SetKeeps
    <2>6. \A t \in Sessions : Ended(t) => t # s /\ Ended(t)'
        BY <2>1, <2>5 DEF Ended
    <2>7. AfterInv'
        <3> SUFFICES ASSUME NEW t \in Sessions, NEW u \in ses'[t].after PROVE u \in Sessions /\ Ended(u)'
            BY DEF AfterInv
        <3>1. CASE t = s
            BY <2>3, <2>4, <2>5, <2>6, <3>1
        <3>2. CASE t # s
            BY <1>0, <2>5, <2>6, <3>2 DEF AfterInv
        <3> QED
            BY <3>1, <3>2
    <2>8. ses[s].mode # "direct"
        BY <1>0, <2>1, NoneIsOther DEF SessionsOK, SesOK
    <2>9. \A t, u \in Sessions : Beside(t, u) => Beside(t, u)'
        BY <2>5, <2>8 DEF Beside
    <2>10. LoneInv'
        <3> SUFFICES ASSUME NEW t \in Sessions, Uploading(t)', Alone(t)'
                     PROVE  /\ plan' = None /\ ses'[t].at # "plan"
                            /\ ses'[t].pc = "fill" => ses'[t].at = "partial" /\ partial' = Empty
                            /\ ses'[t].pc = "replace" => partial' = PlanOf(ses'[t].sha)
            BY DEF LoneInv
        <3>1. t # s
            BY <2>4, <2>5 DEF Uploading
        <3>2. ses'[t] = ses[t] /\ Alone(t)
            BY <2>5, <2>9, <3>1 DEF Alone
        <3> QED
            BY <1>0, <2>1, <3>2 DEF LoneInv, Uploading
    <2>11. TruncatedInv'
        <3> SUFFICES ASSUME plan' \in {Empty, Mixed}
                     PROVE  (\E t \in Sessions : Clearing(t)') \/ \E t, u \in Sessions : Beside(t, u)'
            BY DEF TruncatedInv
        <3>1. (\E t \in Sessions : Clearing(t)) \/ \E t, u \in Sessions : Beside(t, u)
            BY <1>0, <2>1 DEF TruncatedInv
        <3>2. \A t \in Sessions : Clearing(t) => Clearing(t)'
            BY <2>1, <2>5 DEF Clearing
        <3> QED
            BY <2>9, <3>1, <3>2
    <2> QED
        BY <2>7, <2>10, <2>11 DEF PathInv
<1>4. ASSUME NEW s \in Sessions, Advance(s) \/ Fails(s) PROVE PathInv'
    <2>1. AfterInv' /\ LoneInv' /\ \A t, u \in Sessions : Beside(t, u) => Beside(t, u)'
        BY <1>0, <1>4, RunsStep
    <2>2. TruncatedInv'
        BY <1>0, <1>4, <2>1, TruncatedStep DEF TruncatedInv
    <2> QED
        BY <2>1, <2>2 DEF PathInv
<1>5. CASE UNCHANGED pageVars
    BY <1>1, <1>5 DEF pageVars
<1> QED
    BY <1>2, <1>3, <1>4, <1>5 DEF PublishNext

\* A plan that parses is the whole of one commit that passed every gate, with
\* every asset it names on the CDN; a file there that does not parse was left
\* by a run clearing the path, by one killed at it, or by two runs beside each
\* other.
THEOREM PlanIsTrusted == PublishSpec => []PlanIsUploaded
<1>1. PageInv /\ PathInv => PlanIsUploaded
    <2> SUFFICES ASSUME PageInv, PathInv PROVE PlanIsUploaded
        OBVIOUS
    <2>1. ASSUME Parses(plan)
          PROVE  /\ Publishable(plan.sha) /\ plan = PlanOf(plan.sha)
                 /\ \A n \in Assets : plan.manifest[n] \in cdn
        <3>1. PICK c \in Commits : Publishable(c) /\ plan = PlanOf(c) /\ KeysOf(c) \subseteq cdn
            BY <2>1 DEF PageInv, PlansOK, PlanOK
        <3>2. plan.sha = c /\ \A n \in Assets : plan.manifest[n] = Blob[c][n]
            BY <3>1 DEF PlanOf
        <3> QED
            BY <3>1, <3>2 DEF KeysOf
    <2>2. plan \in {Empty, Mixed} =>
             \/ \E s \in Sessions : ses[s].at = "plan" /\ ses[s].pc \in {"clear", "killed"}
             \/ \E s, t \in Sessions : Beside(s, t)
        BY DEF PathInv, TruncatedInv, Clearing
    <2> QED
        BY <2>1, <2>2 DEF PlanIsUploaded
<1>2. PageInv /\ PathInv /\ [PublishNext]_pageVars => PathInv'
    BY PathInvNext
<1> QED
    BY <1>1, <1>2, PageInvAlways, PathInvInit, PTL DEF PublishSpec

\* A run that fails while it uploads leaves no plan to deploy, neither its own
\* nor an earlier one's, unless another tokenless run was beside it.
THEOREM FailureLeavesNoPlan == PublishSpec => FailedUploadLeavesNoPlan
<1>1. ASSUME PageInv, PathInv, [PublishNext]_pageVars, NEW s \in Sessions,
             Uploading(s), ses'[s].pc \in {"refused", "killed"}, plan' # None
      PROVE  \E t \in Sessions : Beside(s, t)
    <2> SUFFICES ASSUME Alone(s) PROVE FALSE
        BY DEF Alone
    <2>0. SessionsOK /\ AfterInv /\ LoneInv
        BY <1>1 DEF PageInv, PathInv
    <2>1. /\ plan = None /\ ses[s].at # "plan"
          /\ ses[s].pc = "replace" => partial = PlanOf(ses[s].sha)
        BY <1>1, <2>0 DEF LoneInv
    <2>2. /\ ~Ended(s) /\ ses[s].mode = "direct" /\ ses[s].pc \in Tokenless
          /\ ses[s].sha \in Commits /\ ses[s].pc # "clear" /\ ses[s].pc # "prepare"
        BY <1>1, <2>0 DEF Uploading, Ended, SessionsOK, SesOK, Tokenless
    <2>3. ses' # ses
        BY <1>1, <2>2 DEF Ended
    <2>4. PICK t \in Sessions : Advance(t) \/ Fails(t)
        BY <1>1, <2>1 DEF PublishNext, Fetch, CreateDeployment, Resolve, pageVars
    <2>5. CASE t # s
        <3>1. ses'[s].pc = ses[s].pc
            BY <2>0, <2>4, <2>5, StepEffect, KeptRecord
        <3> QED
            BY <1>1, <3>1 DEF Uploading
    <2>6. CASE t = s
        <3>1. PlanOf(ses[s].sha) # None
            BY <2>2, PlanAssumption
        <3>2. CASE Replace(s)
            <4>1. ses[s].pc = "replace" /\ partial # None
                BY <2>1, <3>1, <3>2 DEF Replace, At
            <4>2. Moves(s, "partial", "plan", "done")
                BY <3>2, <4>1 DEF Replace, Moves
            <4>3. ses'[s].pc = "done"
                BY <2>0, <4>2, MoveKeeps DEF Places
            <4> QED
                BY <1>1, <4>3
        <3>3. CASE ~Replace(s)
            <4>1. plan' = plan
                BY <2>1, <2>2, <2>4, <2>6, <3>3 DEF Advance, Gate, Wrangler, PreparePlanPath, ClearPlan,
                    CheckMissing, CheckCeiling, UploadBatch, Upsert, OpenPartial, Fill, At,
                    Fails, CheckMissingLost, UpsertLost, UploadLost, Killed
            <4> QED
                BY <1>1, <2>1, <4>1
        <3> QED
            BY <3>2, <3>3
    <2> QED
        BY <2>5, <2>6
<1>2. PageInv /\ PathInv /\ [PublishNext]_pageVars =>
        [\A s \in Sessions :
            Uploading(s) /\ ses'[s].pc \in {"refused", "killed"} /\ plan' # None =>
                \E t \in Sessions : Beside(s, t)]_pageVars
    BY <1>1
<1>3. PageInv /\ PathInv /\ [PublishNext]_pageVars => PathInv'
    BY PathInvNext
<1> QED
    BY <1>2, <1>3, PageInvAlways, PathInvInit, PTL DEF PublishSpec, FailedUploadLeavesNoPlan

-----------------------------------------------------------------------------
(***************************************************************************)
(* The evidence file and its capture.                                      *)
(***************************************************************************)

Statuses == {"absent", "missing", "captured", "damaged"}
Entries == [Txs -> Statuses]
CaptureRecord ==
    [at : {"idle", "asking", "writing"}, left : SUBSET Txs, asked : SUBSET Txs, force : BOOLEAN,
     held : SUBSET Txs, txs : Entries, failed : BOOLEAN]

BundleTypeOK ==
    /\ retained \subseteq Txs
    /\ file \in Entries \cup {Torn}
    /\ capture \in [Captures -> CaptureRecord]

\* What a capture run found captured it still holds as such, and as long as no
\* fetch failed it holds every signature it was asked for and has asked about.
HoldsWhatItRead(one) ==
    /\ \A t \in one.held : one.txs[t] = "captured"
    /\ one.left \subseteq one.asked
    /\ ~one.failed => \A t \in one.asked \ one.left : IsCaptured(one.txs[t])
    /\ one.at = "writing" => one.left = {}

BundleInv == BundleTypeOK /\ \A c \in Captures : HoldsWhatItRead(capture[c])

LEMMA IdleHolds == Idle \in CaptureRecord /\ HoldsWhatItRead(Idle)
BY DEF Idle, CaptureRecord, Entries, Statuses, HoldsWhatItRead

LEMMA BundleStart == BundleInit => BundleInv
BY IdleHolds DEF BundleInit, BundleInv, BundleTypeOK, Entries, Statuses

LEMMA TakeHolds ==
    ASSUME NEW one \in CaptureRecord, HoldsWhatItRead(one), NEW t \in one.left,
           one.at = "asking", NEW status \in {"missing", "captured"}
    PROVE  LET taken == [Take(one, t, status) EXCEPT !.left = @ \ {t}]
           IN  taken \in CaptureRecord /\ HoldsWhatItRead(taken)
<1> USE DEF CaptureRecord, Entries, Statuses, HoldsWhatItRead
<1>1. t \in Txs
    OBVIOUS
<1>2. CASE status = "captured"
    BY <1>1, <1>2 DEF Take, IsCaptured
<1>3. CASE status = "missing" /\ IsCaptured(one.txs[t])
    BY <1>1, <1>3 DEF Take, IsCaptured
<1>4. CASE status = "missing" /\ ~IsCaptured(one.txs[t])
    BY <1>1, <1>4 DEF Take, IsCaptured
<1> QED
    BY <1>2, <1>3, <1>4

LEMMA BundleStep == BundleInv /\ [BundleNext]_bundleVars => BundleInv'
<1> SUFFICES ASSUME BundleInv, [BundleNext]_bundleVars PROVE BundleInv'
    OBVIOUS
<1> USE DEF BundleInv, BundleTypeOK
<1>1. ASSUME NEW c \in Captures, NEW asked \in Requests, NEW refresh \in BOOLEAN, NEW force \in BOOLEAN,
             StartCapture(c, asked, refresh, force)
      PROVE  BundleInv'
    <2> DEFINE targets == asked \cup IF refresh THEN {t \in Txs : file[t] = "missing"} ELSE {}
               started == [Idle EXCEPT !.at = "asking", !.left = targets, !.asked = targets,
                                       !.force = force, !.held = {t \in Txs : file[t] = "captured"}, !.txs = file]
    <2>1. started \in CaptureRecord /\ HoldsWhatItRead(started)
        BY <1>1, BundleAssumption DEF StartCapture, Idle, CaptureRecord, Entries, Statuses, HoldsWhatItRead
    <2>2. capture' = [capture EXCEPT ![c] = started]
        BY <1>1 DEF StartCapture
    <2> HIDE DEF started
    <2> QED
        BY <1>1, <2>1, <2>2 DEF StartCapture
<1>2. ASSUME NEW c \in Captures, NEW t \in Txs, Ask(c, t) PROVE BundleInv'
    <2>0. capture[c] \in CaptureRecord /\ HoldsWhatItRead(capture[c])
        OBVIOUS
    <2>1. CASE Skip(capture[c], t) /\ capture' = [capture EXCEPT ![c].left = @ \ {t}]
        <3> DEFINE skipped == [capture[c] EXCEPT !.left = @ \ {t}]
        <3>1. skipped \in CaptureRecord /\ HoldsWhatItRead(skipped)
            BY <1>2, <2>0, <2>1 DEF Ask, Skip, IsCaptured, CaptureRecord, HoldsWhatItRead
        <3>2. capture' = [capture EXCEPT ![c] = skipped]
            BY <2>1
        <3> HIDE DEF skipped
        <3> QED
            BY <1>2, <3>1, <3>2 DEF Ask
    <2>2. ASSUME NEW status \in fetch(t),
                 capture' = [capture EXCEPT ![c] = [Take(capture[c], t, status) EXCEPT !.left = @ \ {t}]]
          PROVE  BundleInv'
        <3> DEFINE taken == [Take(capture[c], t, status) EXCEPT !.left = @ \ {t}]
        <3>1. taken \in CaptureRecord /\ HoldsWhatItRead(taken)
            BY <1>2, <2>0, TakeHolds DEF Ask, fetch
        <3> HIDE DEF taken
        <3>2. capture' = [capture EXCEPT ![c] = taken]
            BY <2>2 DEF taken
        <3> QED
            BY <1>2, <3>1, <3>2 DEF Ask
    <2> QED
        BY <1>2, <2>1, <2>2 DEF Ask
<1>3. ASSUME NEW c \in Captures, BeginWrite(c) PROVE BundleInv'
    BY <1>3 DEF BeginWrite, CaptureRecord, HoldsWhatItRead
<1>4. ASSUME NEW c \in Captures, EndWrite(c) PROVE BundleInv'
    BY <1>4, IdleHolds DEF EndWrite, CaptureRecord
<1>5. ASSUME NEW c \in Captures, KillCapture(c) PROVE BundleInv'
    BY <1>5, IdleHolds DEF KillCapture
<1>6. ASSUME NEW t \in Txs, Prune(t) PROVE BundleInv'
    BY <1>6 DEF Prune
<1>7. ASSUME NEW t \in Txs, Spoil(t) PROVE BundleInv'
    BY <1>7 DEF Spoil, Entries, Statuses
<1>8. CASE SpoilSibling
    BY <1>8 DEF SpoilSibling
<1>9. CASE UNCHANGED bundleVars
    BY <1>9 DEF bundleVars
<1> QED
    BY <1>1, <1>2, <1>3, <1>4, <1>5, <1>6, <1>7, <1>8, <1>9 DEF BundleNext

LEMMA BundleKept == VerifierSpec => []BundleInv
<1>1. VerifierInit => BundleInv
    BY BundleStart DEF VerifierInit
<1>2. BundleInv /\ [VerifierNext]_<<bundleVars, verifierVars>> => BundleInv'
    BY BundleStep DEF VerifierNext
<1> QED
    BY <1>1, <1>2, PTL DEF VerifierSpec

\* Of any number of capture runs, each writes back what was captured when it read
\* the file, and exits 0 only if it wrote every signature it was asked for: no
\* failed or forced fetch, retention or damage meanwhile loses held bytes.
THEOREM CaptureKeepsHeldBytes == VerifierSpec => HeldBytesAreKept
<1>1. BundleInv /\ [VerifierNext]_<<bundleVars, verifierVars>>
      => [\A c \in Captures : EndWrite(c) =>
            /\ \A t \in capture[c].held : file'[t] = "captured"
            /\ ExitsZero(c) => \A t \in capture[c].asked : IsCaptured(file'[t])]_bundleVars
    BY DEF BundleInv, EndWrite, ExitsZero, HoldsWhatItRead
<1> QED
    BY <1>1, BundleKept, PTL DEF VerifierSpec, HeldBytesAreKept

-----------------------------------------------------------------------------
(***************************************************************************)
(* The verdicts.                                                           *)
(***************************************************************************)
GateRecord ==
    [sold : Nat, log : Nat, memory : Nat, restored : Nat, before : Nat, torn : Nat,
     skipped : Nat, healthy : BOOLEAN]
WorldParts == {"programs", "feed", "page", "shop", "box", "old"}
Reads == [restored : Nat, skipped : Nat, chain : Nat]
RunRecord ==
    [at : Nat, fails : SUBSET Claims, transport : SUBSET Claims, misread : SUBSET Claims,
     tries : Nat, spent : Nat, troubles : Nat, bundle : Entries, read : Reads]
SeenRecord == [true : SUBSET Claims, false : SUBSET Claims, bare : SUBSET Txs]

VerifierTypeOK ==
    /\ gate \in GateRecord
    /\ DOMAIN world = WorldParts
    /\ landed \subseteq Txs
    /\ run \in [Tools -> RunRecord]
    /\ seen \in [Tools -> SeenRecord]

\* The log carries at most one line the chain has no sale for, and since the last
\* restart a torn line comes with a sale.
GateInv ==
    /\ gate.log <= gate.sold + 1 /\ gate.restored <= gate.sold + 1
    /\ gate.restored > gate.sold /\ gate.skipped = 0 => gate.torn = 0

\* What a failure that is not one of transport may come from.
Causes(r) == seen[r].false \cup run[r].misread \cup (seen[r].bare \ retained)

\* What a transaction that did not end as claimed can pass by.
PassedOffline(r, t) == t \notin retained \ run[r].misread /\ IsCaptured(run[r].bundle[t])

\* A failure is one of transport or has a cause; once the bundle was read, the run
\* has the bytes of what the file proves all along; and of a run without a failure,
\* every transaction asked about ended as claimed or was passed offline.
VerifyInv(r) ==
    /\ run[r].transport \subseteq run[r].fails
    /\ run[r].fails \ run[r].transport \subseteq Causes(r)
    /\ run[r].at > 1 => \A t \in Txs \ seen[r].bare : IsCaptured(run[r].bundle[t])
    /\ run[r].fails = {} =>
          \A i \in 1..(run[r].at - 1) : i \in DOMAIN Checks[r] /\ Checks[r][i] \in Txs \ landed
              => PassedOffline(r, Checks[r][i])

\* What /health said of a gate that was never right since it was read: as many
\* sales restored as the chain will only have after the next one.
HealthStands(r) == "revenue" \notin seen[r].true =>
    /\ gate.skipped = 0 /\ gate.torn = 0
    /\ gate.restored = gate.sold + 1 /\ run[r].read.restored = gate.restored

EarningsInv(r) ==
    /\ run[r].at \in 0..4
    /\ run[r].at = 3 /\ (run[r].read.skipped > 0 \/ run[r].read.restored > gate.sold)
          => "revenue" \in seen[r].false
    /\ run[r].at = 3 /\ run[r].read.skipped = 0 => HealthStands(r)
    /\ run[r].at = 4 /\ (run[r].read.skipped > 0 \/ run[r].read.restored > run[r].read.chain)
          => "revenue" \in seen[r].false \cup run[r].misread
    /\ run[r].at = 4 /\ run[r].read.skipped = 0 /\ run[r].read.restored <= run[r].read.chain
          => "revenue" \in seen[r].true

VerdictInv ==
    /\ GateInv
    /\ \A r \in Tools :
        /\ run[r].at # 0 => IF r = "verify" THEN VerifyInv(r) ELSE EarningsInv(r)

VerifierInv == VerifierTypeOK /\ BundleInv /\ VerdictInv

VerifyChecks == {"programs", "feed", "page", "shop", "box"} \cup Txs

\* The programs come first, and every transaction is what some check is about.
LEMMA ChecksCoverClaims ==
    /\ \A i \in DOMAIN Checks["verify"] : Checks["verify"][i] \in VerifyChecks
    /\ \A i \in DOMAIN Checks["verify"] : Checks["verify"][i] = "programs" <=> i = 1
    /\ \A t \in Txs : \E i \in 1..Len(Checks["verify"]) : Checks["verify"][i] = t
    /\ DOMAIN Checks["verify"] = 1..Len(Checks["verify"]) /\ Len(Checks["verify"]) \in Nat
<1> DEFINE n == Len(TxSeq)
           all == <<"programs">> \o TxSeq \o <<"feed", "page", "shop", "box">>
<1>1. n \in Nat /\ TxSeq \in Seq(Txs) /\ DOMAIN TxSeq = 1..n
    BY ToolsAssumption
<1>2. Checks["verify"] = all
    BY DEF Checks
<1>3. /\ Len(all) = n + 5 /\ DOMAIN all = 1..(n + 5)
      /\ all[1] = "programs" /\ \A i \in 1..n : all[i + 1] = TxSeq[i]
      /\ all[n + 2] = "feed" /\ all[n + 3] = "page" /\ all[n + 4] = "shop" /\ all[n + 5] = "box"
    BY <1>1
<1> HIDE DEF all
<1>4. ASSUME NEW i \in 1..(n + 5) PROVE all[i] \in VerifyChecks /\ (all[i] = "programs" <=> i = 1)
    <2>1. CASE i \in 2..(n + 1)
        <3>1. i - 1 \in 1..n /\ all[(i - 1) + 1] = TxSeq[i - 1] /\ (i - 1) + 1 = i
            BY <1>1, <1>3, <2>1
        <3>2. all[i] \in Txs /\ i # 1
            BY <1>1, <3>1, <2>1
        <3> QED
            BY <3>2, ToolsAssumption DEF VerifyChecks
    <2>2. CASE i = 1 \/ i = n + 2 \/ i = n + 3 \/ i = n + 4 \/ i = n + 5
        BY <1>1, <1>3, <2>2 DEF VerifyChecks
    <2> QED
        BY <1>1, <2>1, <2>2
<1>5. ASSUME NEW t \in Txs PROVE \E i \in 1..(n + 5) : all[i] = t
    <2>1. PICK i \in 1..n : TxSeq[i] = t
        BY <1>1, ToolsAssumption
    <2>2. i + 1 \in 1..(n + 5) /\ all[i + 1] = t
        BY <1>1, <1>3, <2>1
    <2> QED
        BY <2>2
<1> QED
    BY <1>1, <1>2, <1>3, <1>4, <1>5

\* What a check fails on did not hold, but for a first sale and a transaction that
\* is forgotten and not proved; a transaction it passes ended as claimed or was proved.
LEMMA JudgedAsItIs ==
    ASSUME NEW r, NEW c \in VerifyChecks, gate \in GateRecord
    PROVE  /\ Judged(r, c) \subseteq Claims \ {"revenue"}
           /\ \A x \in Judged(r, c) :
                ~Holds(x) \/ x \in FirstSale(c) \/ (x = c /\ x \in Txs \ retained /\ ~verified_offline(r, x))
           /\ Judged(r, c) = {} /\ c \in Txs \ landed => c \notin retained /\ verified_offline(r, c)
           /\ FirstSale(c) \subseteq Claims
<1> USE ToolsAssumption DEF VerifyChecks, Judged, Holds, FirstSale, Claims
<1>1. CASE c \in Txs
    BY <1>1 DEF TxFails
<1>2. CASE c = "shop"
    <2>1. LedgerFails => ~Holds("ledger") \/ gate.before = 0
        BY DEF LedgerFails, RoundTrips, GateRecord
    <2>2. Holds("shop") <=> world["shop"]
        OBVIOUS
    <2>3. Judged(r, c) = (IF world.shop THEN {} ELSE {"shop"}) \cup (IF LedgerFails THEN {"ledger"} ELSE {})
        BY <1>2
    <2> QED
        BY <1>2, <2>1, <2>2, <2>3
<1>3. CASE c = "box"
    BY <1>3 DEF BoxFails
<1>4. CASE c \in {"programs", "feed", "page"}
    BY <1>4
<1> QED
    BY <1>1, <1>2, <1>3, <1>4

-----------------------------------------------------------------------------

\* What a run has seen grows, the nodes forget, and how a transaction ended stays.
History == Observe /\ landed' = landed /\ retained' \subseteq retained

\* What a step adds to the history of a run that is on.
LEMMA Observes ==
    ASSUME VerifierTypeOK, Observe, NEW r \in Tools
    PROVE  /\ seen' \in [Tools -> SeenRecord]
           /\ run'[r].at # 0 =>
                /\ seen[r].false \subseteq seen'[r].false
                /\ r = "earnings" => seen[r].true \subseteq seen'[r].true
                /\ r = "earnings" => IF BorneOut' THEN "revenue" \in seen'[r].true ELSE "revenue" \in seen'[r].false
                /\ r # "earnings" => seen[r].bare \subseteq seen'[r].bare
                /\ r # "earnings" => \A c \in Claims \ {"revenue"} : ~Holds(c)' => c \in seen'[r].false
                /\ r # "earnings" => \A t \in Txs : ~Proves(t)' => t \in seen'[r].bare
<1> DEFINE told(s) == [Nothing EXCEPT !.true = seen[s].true \cup IF BorneOut' THEN {"revenue"} ELSE {},
                         !.false = seen[s].false \cup IF BorneOut' THEN {} ELSE {"revenue"}]
           shown(s) == [Nothing EXCEPT !.false = seen[s].false \cup {c \in Claims \ {"revenue"} : ~Holds(c)'},
                         !.bare = seen[s].bare \cup {t \in Txs : ~Proves(t)'}]
<1>1. seen' = [s \in Tools |-> IF run'[s].at = 0 THEN Nothing ELSE IF s = "earnings" THEN told(s) ELSE shown(s)]
    BY DEF Observe
<1>2. \A s \in Tools : seen[s] \in SeenRecord
    BY DEF VerifierTypeOK
<1>3. Nothing \in SeenRecord
    BY DEF Nothing, SeenRecord
<1>4. \A s \in Tools : told(s) \in SeenRecord
    BY <1>2, <1>3 DEF SeenRecord, Claims
<1>5. \A s \in Tools : shown(s) \in SeenRecord
    BY <1>2, <1>3 DEF SeenRecord
<1>6. seen[r].true \subseteq told(r).true /\ seen[r].false \subseteq told(r).false
      /\ IF BorneOut' THEN "revenue" \in told(r).true ELSE "revenue" \in told(r).false
    BY <1>3 DEF SeenRecord
<1>7. /\ seen[r].false \subseteq shown(r).false /\ seen[r].bare \subseteq shown(r).bare
      /\ \A c \in Claims \ {"revenue"} : ~Holds(c)' => c \in shown(r).false
      /\ \A t \in Txs : ~Proves(t)' => t \in shown(r).bare
    BY <1>3 DEF SeenRecord
<1> HIDE DEF told, shown
<1>8. seen' \in [Tools -> SeenRecord]
    BY <1>1, <1>3, <1>4, <1>5
<1> QED
    BY <1>1, <1>6, <1>7, <1>8

LEMMA GateMoves ==
    ASSUME gate \in GateRecord, GateInv, GateChanges
    PROVE  /\ gate' \in GateRecord /\ GateInv' /\ gate'.sold >= gate.sold
           /\ gate.skipped = 0 /\ gate.torn = 0 /\ gate.restored = gate.sold + 1 =>
                \/ gate'.restored <= gate'.sold /\ gate'.skipped = 0
                \/ /\ gate'.skipped = 0 /\ gate'.torn = 0 /\ gate'.sold = gate.sold
                   /\ gate'.restored = gate'.sold + 1
<1>1. CASE Sells
    <2>1. PICK line \in {"whole", "none", "cut"} :
              gate' = [gate EXCEPT !.sold = @ + 1, !.memory = @ + 1,
                               !.log = IF line = "whole" THEN @ + 1 ELSE @,
                               !.torn = IF line = "cut" THEN @ + 1 ELSE @]
        BY <1>1 DEF Sells
    <2> DEFINE lines == IF line = "whole" THEN gate.log + 1 ELSE gate.log
               cuts == IF line = "cut" THEN gate.torn + 1 ELSE gate.torn
    <2>7. lines \in Nat /\ cuts \in Nat /\ gate.sold + 1 \in Nat /\ gate.memory + 1 \in Nat
        BY DEF GateRecord
    <2>8. gate' = [gate EXCEPT !.sold = gate.sold + 1, !.memory = gate.memory + 1, !.log = lines, !.torn = cuts]
        BY <2>1
    <2> HIDE DEF lines, cuts
    <2>2. gate' \in GateRecord
        BY <2>7, <2>8 DEF GateRecord
    <2>3. /\ gate'.sold = gate.sold + 1 /\ gate'.log \in {gate.log, gate.log + 1}
          /\ gate'.restored = gate.restored /\ gate'.skipped = gate.skipped
        BY <2>1 DEF GateRecord
    <2> QED
        BY <2>2, <2>3 DEF GateRecord, GateInv
<1>2. CASE RestartsGate
    <2>1. gate' \in GateRecord
        BY <1>2 DEF RestartsGate, GateRecord
    <2>2. /\ gate'.sold = gate.sold /\ gate'.log = gate.log /\ gate'.torn = gate.torn
          /\ gate'.restored = gate.log /\ gate'.skipped = gate.torn
        BY <1>2 DEF RestartsGate, GateRecord
    <2> QED
        BY <2>1, <2>2 DEF GateRecord, GateInv
<1>3. CASE LosesLog \/ PadsLog \/ Panics
    <2>1. gate' \in GateRecord
        <3>1. CASE LosesLog
            BY <3>1 DEF LosesLog, GateRecord
        <3>2. CASE PadsLog
            <4>1. gate.log + 1 \in Nat /\ gate' = [gate EXCEPT !.log = gate.log + 1]
                BY <3>2 DEF PadsLog, GateRecord
            <4> QED
                BY <4>1 DEF GateRecord
        <3>3. CASE Panics
            BY <3>3 DEF Panics, GateRecord
        <3> QED
            BY <1>3, <3>1, <3>2, <3>3
    <2>2. /\ gate'.sold = gate.sold /\ gate'.torn \in {gate.torn, 0}
          /\ gate'.log \in {gate.log, 0} \/ (gate.log <= gate.sold /\ gate'.log = gate.log + 1)
          /\ gate'.restored = gate.restored /\ gate'.skipped = gate.skipped
        BY <1>3 DEF LosesLog, PadsLog, Panics, GateRecord
    <2> QED
        BY <2>1, <2>2 DEF GateRecord, GateInv
<1> QED
    BY <1>1, <1>2, <1>3 DEF GateChanges

\* What a run was told does not change while the gate does: the revenue may turn
\* true or false, and a run that may still report it has seen it do so.
LEMMA EarningsKept ==
    ASSUME VerifierInv, History, NEW r \in Tools, r = "earnings", run'[r] = run[r], run[r].at # 0,
           GateChanges \/ gate' = gate
    PROVE  EarningsInv(r)'
<1>1. /\ EarningsInv(r) /\ GateInv /\ gate \in GateRecord /\ run[r] \in RunRecord
    BY DEF VerifierInv, VerdictInv, VerifierTypeOK
<1>2. /\ seen[r].true \subseteq seen'[r].true /\ seen[r].false \subseteq seen'[r].false
      /\ BorneOut' => "revenue" \in seen'[r].true
    BY Observes DEF VerifierInv, History
<1>3. BorneOut' <=> gate'.restored <= gate'.sold /\ gate'.skipped = 0
    BY DEF BorneOut
<1>4. gate'.sold >= gate.sold /\ gate'.sold \in Nat /\ gate.sold \in Nat
    BY <1>1, GateMoves DEF GateRecord
<1>5. ASSUME run[r].at = 3, run[r].read.skipped = 0 PROVE HealthStands(r)'
    <2>1. HealthStands(r)
        BY <1>1, <1>5 DEF EarningsInv
    <2>2. CASE "revenue" \in seen[r].true
        BY <1>2, <2>2 DEF HealthStands
    <2>3. CASE "revenue" \notin seen[r].true
        BY <1>1, <1>2, <1>3, <2>1, <2>3, GateMoves DEF HealthStands
    <2> QED
        BY <2>2, <2>3
<1>6. run[r].read.restored \in Nat
    BY <1>1 DEF RunRecord, Reads
<1> QED
    BY <1>1, <1>2, <1>4, <1>5, <1>6 DEF EarningsInv

LEMMA VerifyKept ==
    ASSUME VerifierInv, History, NEW r \in Tools, r = "verify", run'[r] = run[r], run[r].at # 0
    PROVE  VerifyInv(r)'
<1>1. VerifyInv(r)
    BY DEF VerifierInv, VerdictInv
<1>2. /\ seen[r].false \subseteq seen'[r].false /\ seen[r].bare \subseteq seen'[r].bare
      /\ landed' = landed /\ retained' \subseteq retained
    BY Observes DEF VerifierInv, History
<1> QED
    BY <1>1, <1>2 DEF VerifyInv, Causes, PassedOffline

-----------------------------------------------------------------------------

LEMMA BeginStep ==
    ASSUME VerifierInv, History, NEW r \in Tools, Begin(r)
    PROVE  /\ run' \in [Tools -> RunRecord]
           /\ \A s \in Tools \ {r} : run'[s] = run[s]
           /\ IF r = "verify" THEN VerifyInv(r)' ELSE EarningsInv(r)'
<1> DEFINE begun == [Waiting EXCEPT !.at = 1]
<1>1. /\ begun \in RunRecord /\ begun.at = 1 /\ begun.fails = {} /\ begun.transport = {} /\ begun.misread = {}
    BY IdleHolds DEF Waiting, RunRecord, Reads, Claims, VerifierInv, BundleInv, BundleTypeOK, Idle,
                     CaptureRecord
<1>2. run' = [run EXCEPT ![r] = begun]
    BY DEF Begin
<1> HIDE DEF begun
<1>3. run'[r] = begun /\ run' \in [Tools -> RunRecord] /\ \A s \in Tools \ {r} : run'[s] = run[s]
    BY <1>1, <1>2 DEF VerifierInv, VerifierTypeOK
<1> QED
    BY <1>1, <1>3 DEF VerifyInv, EarningsInv

\* A step of the verifier adds at most failures that have a cause or are of
\* transport, and passes a transaction that did not end as claimed only offline.
LEMMA CheckedStep ==
    ASSUME VerifierInv, History, NEW r \in Tools, r = "verify",
           UNCHANGED <<bundleVars, world, gate>>,
           NEW fails \in SUBSET (Claims \ {"revenue"}), NEW transport \in SUBSET fails, NEW misread \in SUBSET Claims,
           NEW trouble \in Nat, run[r].at \in DOMAIN Checks[r],
           After(r, fails, transport, misread, trouble),
           \A x \in fails : \/ ~Holds(x) \/ x \in transport \cup misread
                            \/ x = Check(r) /\ x \in Txs \ retained /\ ~verified_offline(r, x),
           fails = {} /\ Check(r) \in Txs \ landed =>
                Check(r) \notin retained \ misread /\ verified_offline(r, Check(r))
    PROVE  run' \in [Tools -> RunRecord] /\ VerifyInv(r)'
<1>1. run[r] \in RunRecord /\ VerifyInv(r) /\ run[r].at \in Nat \ {0}
    BY ChecksCoverClaims DEF VerifierInv, VerifierTypeOK, VerdictInv
<1> DEFINE bytes == bundle_txs(r)
           now == [run[r] EXCEPT !.at = @ + 1, !.tries = 0, !.bundle = bytes, !.fails = @ \cup fails,
                       !.transport = @ \cup transport, !.misread = @ \cup misread,
                       !.troubles = @ + trouble]
<1>2. run' = [run EXCEPT ![r] = now]
    BY DEF After
<1>a. bytes \in Entries /\ (Check(r) # "programs" => bytes = run[r].bundle)
    BY <1>1, IdleHolds DEF bundle_txs, Waiting, RunRecord, VerifierInv, BundleInv, BundleTypeOK, Idle, CaptureRecord
<1>b. Check(r) = "programs" => \A t \in Txs : Proves(t) => IsCaptured(bytes[t])
    BY DEF bundle_txs, Proves, VerifiesOffline, verify_one, IsCaptured
<1> HIDE DEF bytes
<1>3. /\ now \in RunRecord /\ now.at = run[r].at + 1 /\ now.fails = run[r].fails \cup fails
      /\ now.transport = run[r].transport \cup transport /\ now.misread = run[r].misread \cup misread
      /\ now.bundle = bytes
    <2>1. /\ run[r].at + 1 \in Nat /\ run[r].troubles + trouble \in Nat
          /\ run[r].fails \cup fails \in SUBSET Claims /\ run[r].transport \cup transport \in SUBSET Claims
          /\ run[r].misread \cup misread \in SUBSET Claims
        BY <1>1 DEF RunRecord
    <2> QED
        BY <1>1, <1>a, <2>1 DEF RunRecord
<1> HIDE DEF now
<1>4. run'[r] = now /\ run' \in [Tools -> RunRecord] /\ run'[r].at # 0
    BY <1>1, <1>2, <1>3 DEF VerifierInv, VerifierTypeOK
<1>5. /\ \A c : Holds(c)' <=> Holds(c)
      /\ \A t : Proves(t)' <=> Proves(t)
      /\ retained' = retained /\ landed' = landed
    BY DEF Holds, Proves, VerifiesOffline, verify_one, RoundTrips, BorneOut, bundleVars, History
<1>6. /\ seen[r].false \subseteq seen'[r].false /\ seen[r].bare \subseteq seen'[r].bare
      /\ \A c \in Claims \ {"revenue"} : ~Holds(c) => c \in seen'[r].false
      /\ \A t \in Txs : ~Proves(t) => t \in seen'[r].bare
    BY <1>4, <1>5, Observes DEF VerifierInv, History
<1>7. (Check(r) = "programs" <=> run[r].at = 1) /\ (Check(r) \in Txs => Check(r) # "programs")
    BY ChecksCoverClaims, ToolsAssumption DEF Check
<1>8. ASSUME NEW t \in Txs, t \notin seen'[r].bare PROVE IsCaptured(bytes[t])
    <2>1. CASE Check(r) = "programs"
        BY <1>b, <1>6, <1>8, <2>1
    <2>2. CASE Check(r) # "programs"
        <3>1. run[r].at > 1 /\ bytes = run[r].bundle
            BY <1>1, <1>7, <1>a, <2>2
        <3> QED
            BY <1>1, <1>6, <1>8, <3>1 DEF VerifyInv
    <2> QED
        BY <2>1, <2>2
<1>9. now.transport \subseteq now.fails
    BY <1>1, <1>3 DEF VerifyInv
<1>10. ASSUME NEW x \in now.fails \ now.transport
       PROVE  x \in seen'[r].false \cup now.misread \cup (seen'[r].bare \ retained)
    <2>1. CASE x \in run[r].fails
        BY <1>1, <1>3, <1>6, <1>10, <2>1 DEF VerifyInv, Causes
    <2>2. CASE x \in fails /\ (~Holds(x) \/ x \in transport \cup misread)
        BY <1>3, <1>6, <1>10, <2>2
    <2>3. CASE x = Check(r) /\ x \in Txs \ retained /\ ~verified_offline(r, x)
        <3>1. bytes = run[r].bundle
            BY <1>7, <1>a, <2>3
        <3>2. Proves(x) /\ IsCaptured(bytes[x]) => verified_offline(r, x)
            BY <3>1 DEF Proves, verified_offline
        <3> QED
            BY <1>6, <1>8, <2>3, <3>2
    <2> QED
        BY <1>3, <1>10, <2>1, <2>2, <2>3
<1>11. ASSUME now.fails = {}, NEW i \in 1..(now.at - 1), i \in DOMAIN Checks[r], Checks[r][i] \in Txs \ landed
       PROVE  Checks[r][i] \notin retained \ now.misread /\ IsCaptured(now.bundle[Checks[r][i]])
    <2>1. CASE i = run[r].at
        <3>1. Check(r) = Checks[r][i] /\ fails = {} /\ bytes = run[r].bundle
            BY <1>3, <1>7, <1>a, <1>11, <2>1 DEF Check
        <3> QED
            BY <1>3, <1>11, <3>1 DEF verified_offline
    <2>2. CASE i # run[r].at
        <3>1. i \in 1..(run[r].at - 1) /\ run[r].fails = {}
            BY <1>1, <1>3, <1>11, <2>2
        <3>2. PassedOffline(r, Checks[r][i])
            BY <1>1, <1>11, <3>1 DEF VerifyInv
        <3>3. run[r].at # 1
            BY <1>1, <3>1
        <3> QED
            BY <1>3, <1>7, <1>a, <3>2, <3>3 DEF PassedOffline
    <2> QED
        BY <2>1, <2>2
<1> QED
    BY <1>3, <1>4, <1>5, <1>8, <1>9, <1>10, <1>11 DEF VerifyInv, Causes, PassedOffline

LEMMA VerifyStep ==
    ASSUME VerifierInv, History, NEW r \in Tools, Verify(r), UNCHANGED <<bundleVars, world, gate>>
    PROVE  /\ r = "verify" /\ run' \in [Tools -> RunRecord] /\ VerifyInv(r)'
           /\ \A s \in Tools \ {r} : run'[s] = run[s]
<1> DEFINE c == Check(r)
<1>1. r = "verify" /\ run[r].at \in DOMAIN Checks[r] /\ c \in VerifyChecks /\ c \in Claims \ {"revenue"}
    <2>1. r = "verify" /\ run[r].at \in 1..Len(Checks[r])
        BY DEF Verify, Answered, Refused, Misanswered, ErrorAnswer, Asking
    <2> QED
        BY <2>1, ChecksCoverClaims, ToolsAssumption DEF Check, VerifyChecks, Claims
<1>2. run[r] \in RunRecord /\ run \in [Tools -> RunRecord] /\ gate \in GateRecord /\ VerifyInv(r)
    BY <1>1, ChecksCoverClaims DEF VerifierInv, VerifierTypeOK, VerdictInv
<1>3. \A s \in Tools \ {r} : run'[s] = run[s]
    BY <1>2 DEF Verify, Answered, Refused, Misanswered, ErrorAnswer, After
<1>4. CASE Answered(r)
    BY <1>1, <1>2, <1>3, <1>4, JudgedAsItIs, CheckedStep DEF Answered
<1>5. CASE Refused(r)
    <2>1. CASE After(r, {c}, {c}, {}, 1)
        BY <1>1, <1>3, <2>1, CheckedStep
    <2>2. CASE run' = [run EXCEPT ![r].tries = @ + 1, ![r].spent = @ + 1, ![r].troubles = @ + 1]
        <3> DEFINE now == [run[r] EXCEPT !.tries = @ + 1, !.spent = @ + 1, !.troubles = @ + 1]
        <3>1. run' = [run EXCEPT ![r] = now]
            BY <2>2
        <3>2. /\ now \in RunRecord /\ now.at = run[r].at /\ now.fails = run[r].fails
              /\ now.transport = run[r].transport /\ now.misread = run[r].misread
              /\ now.bundle = run[r].bundle
            <4>1. run[r].tries + 1 \in Nat /\ run[r].spent + 1 \in Nat /\ run[r].troubles + 1 \in Nat
                BY <1>2 DEF RunRecord
            <4> QED
                BY <1>2, <4>1 DEF RunRecord
        <3> HIDE DEF now
        <3>3. run'[r] = now /\ run' \in [Tools -> RunRecord] /\ run'[r].at # 0
            BY <1>1, <1>2, <3>1, <3>2, ChecksCoverClaims
        <3>4. /\ seen[r].false \subseteq seen'[r].false /\ seen[r].bare \subseteq seen'[r].bare
              /\ landed' = landed /\ retained' \subseteq retained
            BY <1>1, <3>3, Observes DEF VerifierInv, History
        <3>5. VerifyInv(r)'
            BY <1>2, <3>2, <3>3, <3>4 DEF VerifyInv, Causes, PassedOffline
        <3> QED
            BY <1>1, <1>3, <3>3, <3>5
    <2> QED
        BY <1>5, <2>1, <2>2 DEF Refused
<1>6. CASE ErrorAnswer(r)
    <2> DEFINE proved == c \in Txs /\ verified_offline(r, c)
    <2>1. After(r, IF proved THEN {} ELSE {c}, {}, {c}, 1)
        BY <1>6 DEF ErrorAnswer
    <2>2. CASE proved
        BY <1>1, <1>3, <2>1, <2>2, CheckedStep
    <2>3. CASE ~proved
        BY <1>1, <1>3, <2>1, <2>3, CheckedStep
    <2> QED
        BY <2>2, <2>3
<1>7. CASE Misanswered(r)
    <2>1. PICK fails \in {{c}} \cup IF c = "box" THEN {{}} ELSE {} : After(r, fails, {}, fails, 1)
        BY <1>7 DEF Misanswered
    <2>2. fails = {c} \/ (fails = {} /\ c \notin Txs)
        BY ToolsAssumption
    <2> QED
        BY <1>1, <1>3, <2>1, <2>2, CheckedStep
<1> QED
    BY <1>4, <1>5, <1>6, <1>7 DEF Verify

LEMMA EarningsChecks == Checks["earnings"] = <<"price", "revenue", "chain">>
BY DEF Checks

LEMMA EarningsStep ==
    ASSUME VerifierInv, History, NEW r \in Tools, ReadPrice(r) \/ ReadHealth(r) \/ Lists(r),
           UNCHANGED <<bundleVars, world, gate>>
    PROVE  /\ r = "earnings" /\ run' \in [Tools -> RunRecord] /\ EarningsInv(r)'
           /\ \A s \in Tools \ {r} : run'[s] = run[s]
<1>1. /\ r = "earnings" /\ run[r] \in RunRecord /\ run \in [Tools -> RunRecord] /\ gate \in GateRecord
      /\ Checks[r] = <<"price", "revenue", "chain">> /\ run[r].at \in 1..3 /\ EarningsInv(r) /\ GateInv
    <2>1. r = "earnings" /\ Checks[r] = <<"price", "revenue", "chain">>
        BY EarningsChecks DEF ReadPrice, ReadHealth, Lists, Asking
    <2>2. run[r].at \in 1..3
        BY <2>1 DEF ReadPrice, ReadHealth, Lists, Asking
    <2> QED
        BY <2>1, <2>2 DEF VerifierInv, VerifierTypeOK, VerdictInv
<1>2. \A s \in Tools \ {r} : run'[s] = run[s]
    BY <1>1 DEF ReadPrice, ReadHealth, Lists, After
<1>3. CASE ReadPrice(r)
    <2>1. run[r].at = 1
        BY <1>1, <1>3 DEF ReadPrice, Check
    <2> DEFINE now == [run[r] EXCEPT !.at = @ + 1, !.tries = 0, !.bundle = bundle_txs(r), !.fails = @ \cup {},
                                     !.transport = @ \cup {}, !.misread = @ \cup {}, !.troubles = @ + 0]
    <2>2. run' = [run EXCEPT ![r] = now]
        BY <1>3 DEF ReadPrice, After
    <2>a. bundle_txs(r) \in Entries
        BY <1>1, <1>3 DEF bundle_txs, ReadPrice, RunRecord
    <2>3. now \in RunRecord /\ now.at = 2
        <3>1. run[r].at + 1 = 2 /\ run[r].at + 1 \in Nat /\ run[r].troubles + 0 = run[r].troubles
            BY <1>1, <2>1 DEF RunRecord
        <3>2. run[r] \in RunRecord
            BY <1>1
        <3> QED
            BY <2>a, <3>1, <3>2 DEF RunRecord
    <2> HIDE DEF now
    <2> QED
        BY <1>1, <1>2, <2>2, <2>3 DEF EarningsInv
<1>4. CASE ReadHealth(r)
    <2>1. run[r].at = 2
        BY <1>1, <1>4 DEF ReadHealth, Check
    <2> DEFINE heard == [run[r].read EXCEPT !.restored = gate.restored, !.skipped = gate.skipped]
               now == [run[r] EXCEPT !.at = @ + 1, !.read = heard]
    <2>2. run' = [run EXCEPT ![r] = now]
        BY <1>4 DEF ReadHealth
    <2>3. heard \in Reads /\ heard.restored = gate.restored /\ heard.skipped = gate.skipped
        BY <1>1 DEF RunRecord, Reads, GateRecord
    <2> HIDE DEF heard
    <2>4. now \in RunRecord /\ now.at = 3 /\ now.read = heard
        <3>1. run[r].at + 1 = 3 /\ run[r].at + 1 \in Nat /\ heard \in Reads /\ run[r] \in RunRecord
            BY <1>1, <2>1, <2>3
        <3> QED
            BY <3>1 DEF RunRecord
    <2> HIDE DEF now
    <2>5. run'[r] = now /\ run' \in [Tools -> RunRecord]
        BY <1>1, <2>2, <2>4
    <2>6. BorneOut' <=> gate.restored <= gate.sold /\ gate.skipped = 0
        BY DEF BorneOut
    <2>7. IF BorneOut' THEN "revenue" \in seen'[r].true ELSE "revenue" \in seen'[r].false
        BY <1>1, <2>4, <2>5, Observes DEF VerifierInv, History
    <2>8. gate.restored \in Nat /\ gate.sold \in Nat /\ gate.skipped \in Nat /\ gate.torn \in Nat
        BY <1>1 DEF GateRecord
    <2>9. CASE BorneOut'
        BY <1>1, <1>2, <2>3, <2>4, <2>5, <2>6, <2>7, <2>8, <2>9 DEF EarningsInv, HealthStands
    <2>10. CASE ~BorneOut'
        <3>1. gate.skipped > 0 \/ gate.restored > gate.sold
            BY <2>6, <2>8, <2>10
        <3>2. gate.skipped = 0 => gate.torn = 0 /\ gate.restored = gate.sold + 1
            BY <1>1, <2>8, <3>1 DEF GateInv
        <3>3. run'[r].at = 3 /\ run'[r].read.restored = gate.restored /\ run'[r].read.skipped = gate.skipped
            BY <2>3, <2>4, <2>5
        <3>4. EarningsInv(r)'
            BY <2>7, <2>10, <3>2, <3>3 DEF EarningsInv, HealthStands
        <3> QED
            BY <1>1, <1>2, <2>5, <3>4
    <2> QED
        BY <2>9, <2>10
<1>5. CASE Lists(r)
    <2>1. run[r].at = 3
        <3>1. Check(r) = "chain"
            BY <1>5 DEF Lists
        <3> QED
            BY <1>1, <3>1 DEF Check
    <2>2. PICK n \in chain_settlements :
              run' = [run EXCEPT ![r].at = @ + 1, ![r].read.chain = n,
                                 ![r].misread = IF n < gate.sold THEN {"revenue"} ELSE {}]
        BY <1>5 DEF Lists
    <2> DEFINE heard == [run[r].read EXCEPT !.chain = n]
               doubted == IF n < gate.sold THEN {"revenue"} ELSE {}
               now == [run[r] EXCEPT !.at = @ + 1, !.read = heard, !.misread = doubted]
    <2>3. run' = [run EXCEPT ![r] = now]
        BY <2>2
    <2>4. n \in Nat /\ n <= gate.sold /\ gate.sold \in Nat
        BY <1>1 DEF chain_settlements, GateRecord
    <2>5. /\ heard \in Reads /\ heard.chain = n /\ heard.restored = run[r].read.restored
          /\ heard.skipped = run[r].read.skipped /\ doubted \in SUBSET Claims
          /\ heard.restored \in Nat
        BY <1>1, <2>4 DEF RunRecord, Reads, Claims
    <2> HIDE DEF heard
    <2>6. now \in RunRecord /\ now.at = 4 /\ now.read = heard /\ now.misread = doubted
        <3>1. run[r].at + 1 = 4 /\ run[r].at + 1 \in Nat /\ heard \in Reads /\ doubted \in SUBSET Claims /\ run[r] \in RunRecord
            BY <1>1, <2>1, <2>5
        <3> HIDE DEF doubted
        <3> QED
            BY <3>1 DEF RunRecord
    <2> HIDE DEF now
    <2>7. run'[r] = now /\ run' \in [Tools -> RunRecord]
        BY <1>1, <2>3, <2>6
    <2>8. /\ seen[r].true \subseteq seen'[r].true /\ seen[r].false \subseteq seen'[r].false
        BY <1>1, <2>6, <2>7, Observes DEF VerifierInv, History
    <2>9. ASSUME heard.skipped > 0 \/ heard.restored > n
          PROVE  "revenue" \in seen'[r].false \cup doubted
        BY <1>1, <2>1, <2>4, <2>5, <2>8, <2>9 DEF EarningsInv
    <2>10. ASSUME heard.skipped = 0, heard.restored <= n
           PROVE  "revenue" \in seen'[r].true
        BY <1>1, <2>1, <2>4, <2>5, <2>8, <2>10 DEF EarningsInv, HealthStands
    <2>11. EarningsInv(r)'
        BY <2>5, <2>6, <2>7, <2>9, <2>10 DEF EarningsInv
    <2> QED
        BY <1>1, <1>2, <2>7, <2>11
<1> QED
    BY <1>3, <1>4, <1>5

LEMMA EndStep ==
    ASSUME VerifierInv, NEW r \in Tools, Ends(r)
    PROVE  /\ run' \in [Tools -> RunRecord] /\ run'[r].at = 0
           /\ \A s \in Tools \ {r} : run'[s] = run[s]
<1>1. Waiting \in RunRecord /\ Waiting.at = 0
    BY IdleHolds DEF Waiting, RunRecord, Reads, Idle, CaptureRecord
<1> QED
    BY <1>1 DEF Ends, VerifierInv, VerifierTypeOK

-----------------------------------------------------------------------------

LEMMA VerifierStart == VerifierInit => VerifierInv
<1> SUFFICES ASSUME VerifierInit PROVE VerifierInv
    OBVIOUS
<1>1. Waiting \in RunRecord /\ Waiting.at = 0 /\ Nothing \in SeenRecord
    BY IdleHolds DEF Waiting, RunRecord, Reads, Idle, CaptureRecord, Nothing, SeenRecord
<1>2. gate \in GateRecord /\ GateInv
    BY DEF VerifierInit, GateRecord, GateInv
<1>3. DOMAIN world = WorldParts
    BY DEF VerifierInit, WorldParts
<1> QED
    BY <1>1, <1>2, <1>3, BundleStart DEF VerifierInit, VerifierInv, VerifierTypeOK, VerdictInv

\* The runs a step does not advance keep their part of the invariant.
LEMMA RestKept ==
    ASSUME VerifierInv, History, NEW R \in SUBSET Tools, run' \in [Tools -> RunRecord],
           \A s \in Tools \ R : run'[s] = run[s],
           \A s \in R : run'[s].at # 0 => IF s = "verify" THEN VerifyInv(s)' ELSE EarningsInv(s)',
           gate' = gate \/ GateChanges, DOMAIN world' = WorldParts, BundleInv'
    PROVE  VerifierInv'
<1>1. /\ gate \in GateRecord /\ GateInv
    BY DEF VerifierInv, VerdictInv, VerifierTypeOK
<1>2. gate' \in GateRecord /\ GateInv'
    BY <1>1, GateMoves DEF GateInv
<1>4. ASSUME NEW s \in Tools \ R, run'[s].at # 0
      PROVE  IF s = "verify" THEN VerifyInv(s)' ELSE EarningsInv(s)'
    <2>1. s = "verify" \/ s = "earnings"
        BY ToolsAssumption
    <2> QED
        BY <1>4, <2>1, VerifyKept, EarningsKept
<1>5. seen' \in [Tools -> SeenRecord]
    <2>1. CASE Tools = {}
        BY <2>1 DEF Observe, History
    <2>2. CASE Tools # {}
        BY <2>2, Observes DEF VerifierInv, History
    <2> QED
        BY <2>1, <2>2
<1> QED
    BY <1>2, <1>4, <1>5 DEF VerifierInv, VerifierTypeOK, VerdictInv, History

LEMMA VerifierStep == VerifierInv /\ [VerifierNext]_<<bundleVars, verifierVars>> => VerifierInv'
<1> SUFFICES ASSUME VerifierInv, [VerifierNext]_<<bundleVars, verifierVars>> PROVE VerifierInv'
    OBVIOUS
<1>0. BundleInv' /\ run \in [Tools -> RunRecord] /\ DOMAIN world = WorldParts
    BY BundleStep DEF VerifierInv, VerifierNext, VerifierTypeOK
<1>a. BundleNext => retained' \subseteq retained
    BY DEF BundleNext, StartCapture, Ask, BeginWrite, EndWrite, KillCapture, Prune, Spoil, SpoilSibling
<1>1. ASSUME NEW r \in Tools, Begin(r) \/ Verify(r) \/ Earnings(r) \/ Conclude(r),
             UNCHANGED <<bundleVars, world, gate, changes>>, UNCHANGED landed, Observe
      PROVE  VerifierInv'
    <2>0. History
        BY <1>1 DEF History, bundleVars
    <2>1. CASE Begin(r)
        BY <1>0, <1>1, <2>0, <2>1, BeginStep, RestKept, {r} \in SUBSET Tools
    <2>2. CASE Verify(r)
        BY <1>0, <1>1, <2>0, <2>2, VerifyStep, RestKept, {r} \in SUBSET Tools
    <2>3. CASE ReadPrice(r) \/ ReadHealth(r) \/ Lists(r)
        BY <1>0, <1>1, <2>0, <2>3, EarningsStep, RestKept, {r} \in SUBSET Tools
    <2>4. CASE Ends(r)
        BY <1>0, <1>1, <2>0, <2>4, EndStep, RestKept, {r} \in SUBSET Tools
    <2> QED
        BY <1>1, <2>1, <2>2, <2>3, <2>4 DEF Earnings, Conclude, Unavailable
<1>2. ASSUME GateChanges \/ WorldChanges, UNCHANGED <<bundleVars, run>>, UNCHANGED landed, Observe
      PROVE  VerifierInv'
    <2>0. History
        BY <1>2 DEF History, bundleVars
    <2>1. DOMAIN world' = WorldParts /\ (gate' = gate \/ GateChanges)
        BY <1>0, <1>2 DEF GateChanges, WorldChanges
    <2> QED
        BY <1>0, <1>2, <2>0, <2>1, RestKept, {} \in SUBSET Tools
<1>3. ASSUME BundleNext, UNCHANGED <<world, gate, run, changes>>, UNCHANGED landed, Observe
      PROVE  VerifierInv'
    <2>0. History
        BY <1>a, <1>3 DEF History
    <2> QED
        BY <1>0, <1>3, <2>0, RestKept, {} \in SUBSET Tools
<1>4. CASE UNCHANGED <<bundleVars, verifierVars>>
    BY <1>0, <1>4 DEF verifierVars, VerifierInv, VerifierTypeOK, VerdictInv, GateInv, VerifyInv,
                      EarningsInv, HealthStands, Causes, PassedOffline, bundleVars
<1> QED
    BY <1>1, <1>2, <1>3, <1>4 DEF VerifierNext

LEMMA VerdictsKept == VerifierSpec => []VerifierInv
BY VerifierStart, VerifierStep, PTL DEF VerifierSpec

\* A run that says a claim broke names only claims that were false at some point
\* of it, whatever was sold, restarted, lost, forgotten or re-captured between its
\* checks: the misreadings listed as such are excepted, and a transaction no node
\* serves any more where the bundle failed to prove it at some point of the run.
THEOREM BrokenClaimsWereBroken == VerifierSpec => []NoFalseAccusation
<1>1. VerifierInv => NoFalseAccusation
    <2> SUFFICES ASSUME VerifierInv, NEW r \in Tools, Concluded(r), Exit(r) = 1
                 PROVE  LET accused == IF r = "earnings" THEN {"revenue"} ELSE run[r].fails \ run[r].transport
                        IN  accused # {} /\ accused \subseteq Causes(r)
        BY DEF NoFalseAccusation, Causes
    <2>1. CASE r = "verify"
        <3>1. VerifyInv(r)
            BY <2>1, ChecksCoverClaims DEF Concluded, VerifierInv, VerdictInv
        <3>2. run[r].fails # {} /\ run[r].transport # run[r].fails
            BY <2>1 DEF Exit
        <3> QED
            BY <2>1, <3>1, <3>2 DEF VerifyInv
    <2>2. CASE r = "earnings"
        <3>1. run[r].at = 4
            BY <2>2, EarningsChecks DEF Concluded
        <3> QED
            BY <2>2, <3>1 DEF Exit, VerifierInv, VerdictInv, EarningsInv, Causes
    <2> QED
        BY <2>1, <2>2, ToolsAssumption
<1> QED
    BY <1>1, VerdictsKept, PTL

\* A run that ends green saw the revenue borne out at some point, though the figures
\* come from two endpoints at two times; or every transaction ended as claimed, but
\* for those no node served or an error stood for, whose bytes the bundle had.
THEOREM GreenClaimsWereTrue == VerifierSpec => []GreenWasTrue
<1>1. VerifierInv => GreenWasTrue
    <2> SUFFICES ASSUME VerifierInv, NEW r \in Tools, Concluded(r), Exit(r) = 0
                 PROVE  IF r = "earnings" THEN "revenue" \in seen[r].true
                        ELSE \A t \in Txs \ landed : PassedOffline(r, t)
        BY DEF GreenWasTrue, PassedOffline
    <2>0. run[r] \in RunRecord
        BY DEF VerifierInv, VerifierTypeOK
    <2>1. CASE r = "verify"
        <3>1. run[r].fails = {} /\ run[r].at = Len(Checks[r]) + 1 /\ VerifyInv(r)
            BY <2>1, ChecksCoverClaims DEF Concluded, Exit, VerifierInv, VerdictInv
        <3>2. ASSUME NEW t \in Txs \ landed PROVE PassedOffline(r, t)
            <4>1. PICK i \in 1..Len(Checks[r]) : Checks[r][i] = t
                BY <2>1, ChecksCoverClaims
            <4>2. i \in 1..(run[r].at - 1) /\ i \in DOMAIN Checks[r]
                BY <2>1, <3>1, ChecksCoverClaims
            <4> QED
                BY <3>1, <4>1, <4>2 DEF VerifyInv
        <3> QED
            BY <2>1, <3>2
    <2>2. CASE r = "earnings"
        <3>1. run[r].at = 4
            BY <2>2, EarningsChecks DEF Concluded
        <3> QED
            BY <2>0, <2>2, <3>1 DEF Exit, VerifierInv, VerdictInv, EarningsInv, RunRecord, Reads
    <2> QED
        BY <2>1, <2>2, ToolsAssumption
<1> QED
    BY <1>1, VerdictsKept, PTL

-----------------------------------------------------------------------------
(***************************************************************************)
(* The hash tree.  Its shape is about powers of two, and the library knows *)
(* 2^k as the number of subsets of k elements: what the argument needs of  *)
(* powers comes first, then that the recursive definition of the tree has  *)
(* a solution, then the stack.                                             *)
(***************************************************************************)

LEMMA LeastNat == ASSUME NEW N \in SUBSET Nat, N # {}
                  PROVE  \E n \in N : \A m \in N : n <= m
<1>1. PICK n \in N : \A m \in N : <<m, n>> \notin OpToRel(<, Nat)
    BY NatLessThanWellFounded, WFMin, Zenon
<1>2. \A m \in N : ~(m < n)
    BY <1>1 DEF OpToRel
<1> QED
    BY <1>2

\* The subsets of a set with one element more are those without it and those with it.
LEMMA TwiceTheSubsets ==
    ASSUME NEW S, IsFiniteSet(S), NEW x, x \notin S
    PROVE  Cardinality(SUBSET (S \cup {x})) = 2 * Cardinality(SUBSET S)
<1> DEFINE with == {s \cup {x} : s \in SUBSET S}
           add == [s \in SUBSET S |-> s \cup {x}]
<1>1. add \in Bijection(SUBSET S, with)
    <2>1. add \in [SUBSET S -> with]
        OBVIOUS
    <2>2. \A s, t \in SUBSET S : add[s] = add[t] => s = t
        <3> SUFFICES ASSUME NEW s \in SUBSET S, NEW t \in SUBSET S, s \cup {x} = t \cup {x}
                     PROVE  s = t
            OBVIOUS
        <3> QED
            OBVIOUS
    <2>3. \A w \in with : \E s \in SUBSET S : add[s] = w
        OBVIOUS
    <2> QED
        BY <2>1, <2>2, <2>3 DEF Bijection, Injection, Surjection, IsInjective
<1>2. IsFiniteSet(SUBSET S) /\ Cardinality(SUBSET S) \in Nat
    BY FS_SUBSET, FS_CardinalityType
<1>3. IsFiniteSet(with) /\ Cardinality(with) = Cardinality(SUBSET S)
    BY <1>1, <1>2, FS_Bijection DEF ExistsBijection
<1>4. SUBSET (S \cup {x}) = (SUBSET S) \cup with
    <2> SUFFICES ASSUME NEW s \in SUBSET (S \cup {x}) PROVE s \in (SUBSET S) \cup with
        OBVIOUS
    <2>1. CASE x \in s
        <3>1. s = (s \ {x}) \cup {x} /\ s \ {x} \in SUBSET S
            BY <2>1
        <3> QED
            BY <3>1
    <2> QED
        BY <2>1
<1>5. (SUBSET S) \cap with = {}
    OBVIOUS
<1> HIDE DEF with
<1>6. Cardinality((SUBSET S) \cup with)
        = Cardinality(SUBSET S) + Cardinality(with) - Cardinality((SUBSET S) \cap with)
    BY <1>2, <1>3, FS_Union
<1>7. Cardinality((SUBSET S) \cap with) = 0
    BY <1>5, FS_EmptySet
<1>8. Cardinality(SUBSET (S \cup {x})) = Cardinality((SUBSET S) \cup with)
    BY <1>4, Zenon
<1> QED
    BY <1>2, <1>3, <1>6, <1>7, <1>8

LEMMA PowerZero == 2^0 = 1
<1>1. SUBSET {} = {{}}
    OBVIOUS
<1> QED
    BY <1>1, FS_SUBSET, FS_EmptySet, FS_Singleton

LEMMA PowerNext == ASSUME NEW k \in Nat PROVE 2^k \in Nat /\ 2^(k + 1) = 2 * 2^k
<1> DEFINE S == 1..k
<1>1. IsFiniteSet(S) /\ Cardinality(S) = k /\ k + 1 \notin S
    BY FS_Interval
<1>2. IsFiniteSet(S \cup {k + 1}) /\ Cardinality(S \cup {k + 1}) = k + 1
    BY <1>1, FS_AddElement
<1> HIDE DEF S
<1>3. Cardinality(SUBSET S) = 2^k /\ Cardinality(SUBSET S) \in Nat
    BY <1>1, FS_SUBSET, FS_CardinalityType
<1>4. Cardinality(SUBSET (S \cup {k + 1})) = 2^(k + 1)
    BY <1>2, FS_SUBSET
<1> QED
    BY <1>1, <1>3, <1>4, TwiceTheSubsets

Powers == {2^k : k \in Nat}

LEMMA PowerOfSum == ASSUME NEW a \in Nat, NEW d \in Nat PROVE 2^(a + d) = 2^a * 2^d
<1> DEFINE Bad == {n \in Nat : 2^(a + n) # 2^a * 2^n}
<1>1. SUFFICES ASSUME Bad # {} PROVE FALSE
    OBVIOUS
<1>2. PICK n \in Bad : \A m \in Bad : n <= m
    BY <1>1, LeastNat, Bad \in SUBSET Nat
<1>3. n \in Nat /\ 2^a \in Nat
    BY PowerNext
<1>4. CASE n = 0
    BY <1>2, <1>3, <1>4, PowerZero
<1>5. CASE n # 0
    <2> DEFINE m == n - 1
    <2>1. m \in Nat /\ n = m + 1 /\ a + n = (a + m) + 1 /\ m \notin Bad
        BY <1>2, <1>3, <1>5
    <2> HIDE DEF m
    <2>2. 2^(a + m) = 2^a * 2^m
        BY <2>1
    <2>3. /\ 2^m \in Nat /\ 2^n = 2 * 2^m
          /\ 2^(a + m) \in Nat /\ 2^(a + n) = 2 * 2^(a + m)
        BY <2>1, PowerNext
    <2>4. 2^(a + n) = 2^a * 2^n
        BY <1>3, <2>2, <2>3
    <2> QED
        BY <1>2, <2>4
<1> QED
    BY <1>4, <1>5

\* A power of two is a positive number, past its exponent.
LEMMA PowerPastExponent == ASSUME NEW k \in Nat PROVE 2^k \in Nat /\ 2^k > k
<1> DEFINE Bad == {n \in Nat : ~(2^n > n)}
<1>1. SUFFICES ASSUME Bad # {} PROVE FALSE
    BY PowerNext
<1>2. PICK n \in Bad : \A m \in Bad : n <= m
    BY <1>1, LeastNat, Bad \in SUBSET Nat
<1>3. CASE n = 0
    BY <1>2, <1>3, PowerZero
<1>4. CASE n # 0
    <2> DEFINE m == n - 1
    <2>1. m \in Nat /\ n = m + 1 /\ m \notin Bad
        BY <1>2, <1>4
    <2> HIDE DEF m
    <2>2. 2^m \in Nat /\ 2^m > m /\ 2^n = 2 * 2^m
        BY <2>1, PowerNext
    <2>3. 2^n > n
        BY <2>1, <2>2
    <2> QED
        BY <1>2, <2>3
<1> QED
    BY <1>3, <1>4

\* Of two powers of two the larger is an even multiple of the smaller.
LEMMA PowerRatio ==
    ASSUME NEW p \in Powers, NEW q \in Powers, p < q
    PROVE  \E m \in Nat \ {0} : q = 2 * p * m
<1>1. PICK a \in Nat : p = 2^a
    BY DEF Powers
<1>2. PICK b \in Nat : q = 2^b
    BY DEF Powers
<1>3. a < b
    <2> SUFFICES ASSUME b <= a PROVE FALSE
        OBVIOUS
    <2> DEFINE d == a - b
    <2>1. d \in Nat /\ a = b + d
        OBVIOUS
    <2> HIDE DEF d
    <2>2. 2^a = 2^b * 2^d /\ 2^b \in Nat /\ 2^d \in Nat /\ 2^d > d
        BY <2>1, PowerOfSum, PowerPastExponent
    <2> QED
        BY <1>1, <1>2, <2>1, <2>2
<1> DEFINE d == b - a - 1
<1>4. d \in Nat /\ b = (a + 1) + d
    BY <1>3
<1> HIDE DEF d
<1>5. 2^b = 2^(a + 1) * 2^d /\ 2^(a + 1) = 2 * 2^a /\ 2^a \in Nat
    BY <1>4, PowerOfSum, PowerNext
<1>6. 2^d \in Nat \ {0}
    BY <1>4, PowerPastExponent
<1>7. q = 2 * p * 2^d
    BY <1>1, <1>2, <1>5, <1>6
<1> QED
    BY <1>6, <1>7

LEMMA PowersDouble ==
    /\ 1 \in Powers
    /\ \A p \in Powers : p \in Nat \ {0} /\ 2 * p \in Powers
    /\ \A p, q \in Powers : p < q => 2 * p <= q
<1>1. 1 \in Powers
    BY PowerZero DEF Powers
<1>2. ASSUME NEW p \in Powers PROVE p \in Nat \ {0} /\ 2 * p \in Powers
    <2>1. PICK k \in Nat : p = 2^k
        BY DEF Powers
    <2>2. 2^k \in Nat \ {0} /\ 2 * p = 2^(k + 1) /\ k + 1 \in Nat
        BY <2>1, PowerNext, PowerPastExponent
    <2> QED
        BY <2>1, <2>2 DEF Powers
<1>3. ASSUME NEW p \in Powers, NEW q \in Powers, p < q PROVE 2 * p <= q
    <2>1. PICK m \in Nat \ {0} : q = 2 * p * m
        BY <1>3, PowerRatio
    <2> QED
        BY <1>2, <2>1
<1> QED
    BY <1>1, <1>2, <1>3

LEMMA LeftSizeIs ==
    ASSUME NEW p \in Powers, NEW n \in Nat, p < n, n <= 2 * p
    PROVE  LeftSize(n) = p
<1>1. PICK k \in Nat : p = 2^k
    BY DEF Powers
<1>2. k \in 0..n /\ p \in {2^j : j \in 0..n}
    BY <1>1, PowerPastExponent
<1>3. ASSUME NEW q \in {2^j : j \in 0..n}, q < n, 2 * q >= n PROVE q = p
    <2>1. q \in Powers
        BY DEF Powers
    <2> QED
        BY <1>3, <2>1, PowersDouble
<1> QED
    BY <1>2, <1>3, PowersDouble DEF LeftSize

LEMMA LeftSizeExists ==
    ASSUME NEW n \in Nat, n >= 2
    PROVE  LeftSize(n) \in Powers /\ LeftSize(n) \in 1..(n - 1) /\ n <= 2 * LeftSize(n)
<1> DEFINE Enough == {k \in Nat : n <= 2^k}
<1>1. n \in Enough
    BY PowerPastExponent
<1>2. PICK k \in Enough : \A j \in Enough : k <= j
    BY <1>1, LeastNat, Enough \in SUBSET Nat
<1>3. k # 0
    <2>1. 0 \notin Enough
        BY PowerZero
    <2> HIDE DEF Enough
    <2> QED
        BY <1>2, <2>1
<1> DEFINE j == k - 1
<1>4. j \in Nat /\ k = j + 1 /\ j \notin Enough
    BY <1>2, <1>3
<1> HIDE DEF j
<1>5. 2^j \in Powers /\ 2^j \in Nat /\ 2^k = 2 * 2^j
    BY <1>4, PowerNext DEF Powers
<1>6. 2^j < n /\ n <= 2 * 2^j
    BY <1>2, <1>4, <1>5
<1>7. LeftSize(n) = 2^j
    BY <1>5, <1>6, LeftSizeIs
<1> QED
    BY <1>5, <1>6, <1>7, PowersDouble

-----------------------------------------------------------------------------
LEMMA ChunksOf ==
    ASSUME NEW len \in Nat
    PROVE  /\ Chunks(len) \in Nat \ {0}
           /\ \A c \in Nat : (c + 1) * ChunkBlocks >= len <=> c + 1 >= Chunks(len)
BY HashAssumption DEF Chunks

TreesFrom(len, f, n) ==
    [from \in Nat |->
        IF n = 1 THEN ChunkNode(from, BlocksOf(len, from))
        ELSE ParentNode(ChainingValue(f[LeftSize(n)][from]),
                        ChainingValue(f[n - LeftSize(n)][from + LeftSize(n)]))]

\* f is the definition's node, on sizes up to m.
BuildsTrees(f, len, m) == f = [n \in 1..m |-> TreesFrom(len, f, n)]

\* The definition of TreeOver has a solution, by induction on the size.
LEMMA TreesExist ==
    ASSUME NEW len, NEW m \in Nat \ {0}
    PROVE  \E f : BuildsTrees(f, len, m)
<1> DEFINE Bad == {k \in Nat \ {0} : \A f : ~BuildsTrees(f, len, k)}
<1>1. SUFFICES ASSUME Bad # {} PROVE FALSE
    OBVIOUS
<1>2. PICK k \in Bad : \A j \in Bad : k <= j
    BY <1>1, LeastNat, Bad \in SUBSET Nat
<1>3. CASE k = 1
    <2> DEFINE f == [n \in 1..1 |-> [from \in Nat |-> ChunkNode(from, BlocksOf(len, from))]]
    <2>1. BuildsTrees(f, len, 1)
        BY DEF BuildsTrees, TreesFrom
    <2> QED
        BY <1>2, <1>3, <2>1
<1>4. CASE k # 1
    <2> DEFINE j == k - 1
    <2>1. j \in Nat \ {0} /\ k = j + 1 /\ j \notin Bad
        BY <1>2, <1>4
    <2>2. PICK f : BuildsTrees(f, len, j)
        BY <2>1
    <2> HIDE DEF j
    <2> DEFINE g == [n \in 1..k |-> IF n = k THEN TreesFrom(len, f, k) ELSE f[n]]
    <2>3. \A n \in 1..j : g[n] = f[n]
        BY <2>1
    <2>4. ASSUME NEW n \in 1..k, n # 1
          PROVE  LeftSize(n) \in 1..j /\ n - LeftSize(n) \in 1..j
        BY <2>1, <2>4, LeftSizeExists
    <2> HIDE DEF g
    <2>5. ASSUME NEW n \in 1..k PROVE TreesFrom(len, g, n) = TreesFrom(len, f, n)
        BY <2>3, <2>4 DEF TreesFrom
    <2>6. ASSUME NEW n \in 1..k PROVE g[n] = TreesFrom(len, g, n)
        <3>1. CASE n = k
            BY <2>5, <3>1 DEF g
        <3>2. CASE n # k
            <4>1. n \in 1..j /\ g[n] = f[n]
                BY <2>1, <2>3, <3>2
            <4>2. f[n] = TreesFrom(len, f, n)
                BY <2>2, <4>1 DEF BuildsTrees
            <4> QED
                BY <2>5, <4>1, <4>2
        <3> QED
            BY <3>1, <3>2
    <2>7. g = [n \in 1..k |-> g[n]]
        BY DEF g
    <2>8. BuildsTrees(g, len, k)
        BY <2>6, <2>7 DEF BuildsTrees
    <2> QED
        BY <1>2, <2>8
<1> QED
    BY <1>3, <1>4

\* The node over n chunks from one on, of an input of len blocks.
Node(len, from, n) == TreeOver(len)[n][from]

LEMMA NodeIs ==
    ASSUME NEW len \in Nat, NEW from \in Nat, NEW n \in 1..Chunks(len)
    PROVE  /\ n = 1 => Node(len, from, n) = ChunkNode(from, BlocksOf(len, from))
           /\ n # 1 => Node(len, from, n) =
                         ParentNode(ChainingValue(Node(len, from, LeftSize(n))),
                                    ChainingValue(Node(len, from + LeftSize(n), n - LeftSize(n))))
<1>1. \E f : BuildsTrees(f, len, Chunks(len))
    BY ChunksOf, TreesExist
<1>2. BuildsTrees(TreeOver(len), len, Chunks(len))
    BY <1>1 DEF TreeOver, BuildsTrees, TreesFrom
<1>3. TreeOver(len)[n] = TreesFrom(len, TreeOver(len), n)
    BY <1>2 DEF BuildsTrees
<1>4. Node(len, from, n) = TreesFrom(len, TreeOver(len), n)[from]
    BY <1>3 DEF Node
<1> QED
    BY <1>4 DEF TreesFrom, Node

\* A complete tree of p chunks and one of up to p chunks to its right make one.
LEMMA NodeJoins ==
    ASSUME NEW len \in Nat, NEW from \in Nat, NEW p \in Powers, NEW r \in 1..p,
           p + r <= Chunks(len)
    PROVE  Node(len, from, p + r) = ParentNode(ChainingValue(Node(len, from, p)),
                                               ChainingValue(Node(len, from + p, r)))
<1>1. p \in Nat \ {0} /\ Chunks(len) \in Nat
    BY PowersDouble, ChunksOf
<1>2. p + r \in 1..Chunks(len) /\ p + r # 1
    BY <1>1
<1>3. LeftSize(p + r) = p /\ (p + r) - p = r
    BY <1>1, LeftSizeIs
<1> QED
    BY <1>2, <1>3, NodeIs

-----------------------------------------------------------------------------
Values(len) == {ChainingValue(Node(len, from, n)) : from \in Nat, n \in 1..Chunks(len)}

Width(at, i) == at[i] - at[i - 1]

\* A complete subtree that starts at an even multiple of its size.
Slot(len, v, from, p) ==
    p \in Powers /\ (\E j \in Nat : from = 2 * p * j) /\ v = ChainingValue(Node(len, from, p))

\* The subtrees of s lie side by side, between at[i - 1] and at[i], each at least
\* twice the next.
Slots(len, s, at, end) ==
    /\ at \in [0..Len(s) -> Nat] /\ at[0] = 0 /\ at[Len(s)] = end
    /\ \A i \in 1..Len(s) : Slot(len, s[i], at[i - 1], Width(at, i))
    /\ \A i \in 2..Len(s) : 2 * Width(at, i) <= Width(at, i - 1)

\* s holds the subtrees of the chunks below end, the last of at least so many.
Stacked(len, s, end, least) ==
    /\ s \in Seq(Values(len))
    /\ \E at : Slots(len, s, at, end) /\ (s # <<>> => least <= Width(at, Len(s)))

LEMMA EmptyStack ==
    ASSUME NEW len, NEW end, NEW least
    PROVE  Stacked(len, <<>>, end, least) <=> end = 0
<1> DEFINE none == [i \in 0..0 |-> 0]
<1>1. Len(<<>>) = 0 /\ <<>> \in Seq(Values(len))
    OBVIOUS
<1>2. Slots(len, <<>>, none, 0)
    BY <1>1 DEF Slots
<1> QED
    BY <1>1, <1>2 DEF Stacked, Slots

LEMMA FrontOf ==
    ASSUME NEW V, NEW s \in Seq(V), s # <<>>
    PROVE  /\ Len(s) \in Nat \ {0} /\ Last(s) = s[Len(s)]
           /\ Front(s) \in Seq(V) /\ Len(Front(s)) = Len(s) - 1
           /\ \A i \in 1..(Len(s) - 1) : Front(s)[i] = s[i]
<1>1. Len(s) \in Nat \ {0} /\ s \in [1..Len(s) -> V]
    OBVIOUS
<1> DEFINE k == Len(s)
<1>2. Front(s) = [i \in 1..(k - 1) |-> s[i]]
    BY <1>1 DEF Front
<1> HIDE DEF k
<1>3. k \in Nat \ {0} /\ \A i \in 1..(k - 1) : s[i] \in V
    BY <1>1 DEF k
<1>4. Front(s) \in Seq(V) /\ Len(Front(s)) = k - 1
    BY <1>2, <1>3
<1> QED
    BY <1>1, <1>2, <1>4 DEF k, Last

LEMMA TakeSubtree ==
    ASSUME NEW len \in Nat, NEW s, NEW end, NEW least, Stacked(len, s, end, least), s # <<>>
    PROVE  \E from \in Nat, q \in Powers :
              /\ end = from + q /\ least <= q /\ Slot(len, Last(s), from, q)
              /\ Stacked(len, Front(s), from, 2 * q)
              /\ \A l : l <= q => Stacked(len, s, end, l)
<1>1. PICK at : Slots(len, s, at, end) /\ least <= Width(at, Len(s))
    BY DEF Stacked
<1> DEFINE k == Len(s)
           q == Width(at, k)
           below == [i \in 0..(k - 1) |-> at[i]]
<1>2. s \in Seq(Values(len))
    BY DEF Stacked
<1>3. /\ k \in Nat \ {0} /\ Last(s) = s[k] /\ Front(s) \in Seq(Values(len))
      /\ Len(Front(s)) = k - 1 /\ \A i \in 1..(k - 1) : Front(s)[i] = s[i]
    BY <1>2, FrontOf
<1>s. /\ at[0] = 0 /\ at[k] = end /\ \A i \in 0..k : at[i] \in Nat
      /\ \A i \in 1..k : Slot(len, s[i], at[i - 1], Width(at, i))
      /\ \A i \in 2..k : 2 * Width(at, i) <= Width(at, i - 1)
    BY <1>1 DEF Slots
<1> HIDE DEF k
<1>4. /\ at[k - 1] \in Nat /\ at[k] \in Nat /\ q \in Powers /\ q \in Nat
      /\ end = at[k - 1] + q /\ Slot(len, Last(s), at[k - 1], q)
    <2>1. at[k - 1] \in Nat /\ at[k] \in Nat /\ Slot(len, Last(s), at[k - 1], q)
        BY <1>3, <1>s
    <2>2. q \in Powers /\ q \in Nat
        BY <2>1, PowersDouble DEF Slot
    <2> QED
        BY <1>s, <2>1, <2>2 DEF Width
<1>5. Slots(len, Front(s), below, at[k - 1])
    <2>1. below \in [0..(k - 1) -> Nat] /\ below[0] = 0 /\ below[k - 1] = at[k - 1]
        BY <1>3, <1>s
    <2>2. \A i \in 1..(k - 1) : below[i - 1] = at[i - 1] /\ Width(below, i) = Width(at, i)
        BY <1>3 DEF Width
    <2> HIDE DEF below
    <2>3. ASSUME NEW i \in 1..(k - 1)
          PROVE  Slot(len, Front(s)[i], below[i - 1], Width(below, i))
        <3>1. i \in 1..k
            BY <1>3
        <3> QED
            BY <1>s, <1>3, <2>2, <3>1
    <2>4. ASSUME NEW i \in 2..(k - 1)
          PROVE  2 * Width(below, i) <= Width(below, i - 1)
        <3>1. i \in 2..k /\ i \in 1..(k - 1) /\ i - 1 \in 1..(k - 1)
            BY <1>3
        <3> QED
            BY <1>s, <2>2, <3>1
    <2> QED
        BY <1>3, <2>1, <2>3, <2>4 DEF Slots
<1>6. Front(s) # <<>> => 2 * q <= Width(below, Len(Front(s)))
    <2> SUFFICES ASSUME Front(s) # <<>> PROVE 2 * Width(at, k) <= Width(at, k - 1) /\ k - 1 > 0
        BY <1>3 DEF Width
    <2>1. k - 1 # 0
        BY <1>3
    <2> QED
        BY <1>3, <1>s, <2>1
<1>7. Stacked(len, Front(s), at[k - 1], 2 * q)
    BY <1>3, <1>5, <1>6 DEF Stacked
<1>8. \A l : l <= q => Stacked(len, s, end, l)
    BY <1>1, <1>2, <1>4 DEF Stacked, k
<1> QED
    BY <1>1, <1>4, <1>7, <1>8 DEF k

LEMMA AddSubtree ==
    ASSUME NEW len \in Nat, NEW s, NEW end \in Nat, NEW p \in Powers, NEW v,
           Stacked(len, s, end, 2 * p), Slot(len, v, end, p), end + p <= Chunks(len)
    PROVE  Stacked(len, Append(s, v), end + p, p)
<1>1. PICK at : Slots(len, s, at, end) /\ (s # <<>> => 2 * p <= Width(at, Len(s)))
    BY DEF Stacked
<1> DEFINE k == Len(s)
           t == Append(s, v)
           above == [i \in 0..(k + 1) |-> IF i = k + 1 THEN end + p ELSE at[i]]
<1>2. /\ s \in Seq(Values(len)) /\ k \in Nat /\ p \in Nat \ {0} /\ v \in Values(len)
      /\ Chunks(len) \in Nat
    <2>1. s \in Seq(Values(len)) /\ k \in Nat
        BY DEF Stacked
    <2>2. p \in Nat \ {0} /\ Chunks(len) \in Nat
        BY PowersDouble, ChunksOf
    <2>3. p \in 1..Chunks(len)
        BY <2>2
    <2> QED
        BY <2>1, <2>2, <2>3 DEF Slot, Values
<1>s. /\ at[0] = 0 /\ at[k] = end /\ \A i \in 0..k : at[i] \in Nat
      /\ \A i \in 1..k : Slot(len, s[i], at[i - 1], Width(at, i))
      /\ \A i \in 2..k : 2 * Width(at, i) <= Width(at, i - 1)
    BY <1>1 DEF Slots
<1>3. /\ t \in Seq(Values(len)) /\ Len(t) = k + 1 /\ t[k + 1] = v /\ t # <<>>
      /\ \A i \in 1..k : t[i] = s[i]
    BY <1>2
<1>4. /\ above \in [0..(k + 1) -> Nat] /\ above[0] = 0 /\ above[k] = end
      /\ above[k + 1] = end + p /\ Width(above, k + 1) = p
      /\ \A i \in 1..k : above[i - 1] = at[i - 1] /\ Width(above, i) = Width(at, i)
    BY <1>s, <1>2 DEF Width
<1> HIDE DEF above, t, k
<1>5. ASSUME NEW i \in 1..(k + 1) PROVE Slot(len, t[i], above[i - 1], Width(above, i))
    <2>1. CASE i = k + 1
        BY <1>2, <1>3, <1>4, <2>1
    <2>2. CASE i # k + 1
        <3>1. i \in 1..k
            BY <1>2, <2>2
        <3> QED
            BY <1>s, <1>3, <1>4, <3>1
    <2> QED
        BY <2>1, <2>2
<1>6. ASSUME NEW i \in 2..(k + 1) PROVE 2 * Width(above, i) <= Width(above, i - 1)
    <2>1. CASE i = k + 1
        <3>1. s # <<>> /\ i - 1 = k /\ k \in 1..k
            BY <1>2, <2>1 DEF k
        <3> QED
            BY <1>1, <1>4, <2>1, <3>1 DEF k
    <2>2. CASE i # k + 1
        <3>1. i \in 2..k /\ i \in 1..k /\ i - 1 \in 1..k
            BY <1>2, <2>2
        <3> QED
            BY <1>s, <1>4, <3>1
    <2> QED
        BY <2>1, <2>2
<1>7. Slots(len, t, above, end + p)
    BY <1>3, <1>4, <1>5, <1>6 DEF Slots
<1>8. p <= Width(above, Len(t))
    BY <1>2, <1>3, <1>4
<1> QED
    BY <1>3, <1>7, <1>8 DEF Stacked, t

-----------------------------------------------------------------------------
\* The subtree in hand ends with the chunk just read, and is no larger than those
\* on the stack.
Merging == \E p \in Powers :
    /\ p * total = counter + 1 /\ counter + 1 < Chunks(length)
    /\ Stacked(length, stack, counter + 1 - p, p)
    /\ merged = ChainingValue(Node(length, counter + 1 - p, p))

\* What the stack does not hold is the output node.
Unwinding == \E from \in 0..(Chunks(length) - 1) :
    /\ Stacked(length, stack, from, Chunks(length) - from)
    /\ out = Node(length, from, Chunks(length) - from)

TreeInv ==
    /\ length \in Nat /\ counter \in Nat /\ total \in Nat /\ counter < Chunks(length)
    /\ out = NoNode /\ total = 0 => Stacked(length, stack, counter, 1)
    /\ out = NoNode /\ total # 0 => Merging
    /\ out # NoNode => total = 0 /\ Unwinding
    /\ RootIsTree

LEMMA TreeInit == HashInit => TreeInv
<1> SUFFICES ASSUME HashInit PROVE TreeInv
    OBVIOUS
<1>1. length \in Nat /\ 0 < Chunks(length)
    BY HashAssumption, ChunksOf DEF HashInit
<1> QED
    BY <1>1, EmptyStack DEF HashInit, TreeInv, RootIsTree

LEMMA TreeRead == TreeInv /\ ReadChunk => TreeInv'
<1> SUFFICES ASSUME TreeInv, ReadChunk PROVE TreeInv'
    OBVIOUS
<1> DEFINE node == ChunkNode(counter, BlocksOf(length, counter))
<1>1. /\ length \in Nat /\ counter \in Nat /\ counter < Chunks(length) /\ Chunks(length) \in Nat
      /\ Stacked(length, stack, counter, 1)
    BY ChunksOf DEF TreeInv, ReadChunk
<1>2. /\ length' = length /\ counter' = counter /\ stack' = stack /\ root' = root
      /\ out = NoNode /\ total = 0
    BY DEF ReadChunk
<1>3. 1 \in 1..Chunks(length) /\ node = Node(length, counter, 1)
    BY <1>1, NodeIs
<1>4. node # NoNode
    BY DEF ChunkNode, NoNode
<1>5. RootIsTree'
    BY <1>2 DEF TreeInv, RootIsTree
<1> HIDE DEF node
<1>6. CASE LastChunk(counter)
    <2>1. out' = node /\ total' = 0
        BY <1>2, <1>6 DEF ReadChunk, node
    <2>2. counter + 1 >= Chunks(length)
        BY <1>1, <1>6, ChunksOf DEF LastChunk
    <2>3. Chunks(length) - counter = 1 /\ counter \in 0..(Chunks(length) - 1)
        BY <1>1, <2>2
    <2>4. Unwinding'
        BY <1>1, <1>2, <1>3, <2>1, <2>3 DEF Unwinding
    <2> QED
        BY <1>1, <1>2, <1>4, <1>5, <2>1, <2>4 DEF TreeInv
<1>7. CASE ~LastChunk(counter)
    <2>1. out' = NoNode /\ total' = counter + 1 /\ merged' = ChainingValue(node)
        BY <1>2, <1>7 DEF ReadChunk, node
    <2>2. counter + 1 < Chunks(length)
        BY <1>1, <1>7, ChunksOf DEF LastChunk
    <2>3. 1 \in Powers /\ counter + 1 - 1 = counter /\ 1 * (counter + 1) = counter + 1
        BY <1>1, PowersDouble
    <2>4. Merging'
        BY <1>1, <1>2, <1>3, <2>1, <2>2, <2>3 DEF Merging
    <2> QED
        BY <1>1, <1>2, <1>5, <2>1, <2>4 DEF TreeInv
<1> QED
    BY <1>6, <1>7

\* While the count is even the last subtree on the stack is as large as the one in
\* hand: were it larger, the chunks before this one were an even multiple of it.
LEMMA TreeMerge == TreeInv /\ MergeSubtree => TreeInv'
<1> SUFFICES ASSUME TreeInv, MergeSubtree PROVE TreeInv'
    OBVIOUS
<1>1. /\ length \in Nat /\ counter \in Nat /\ total \in Nat \ {0} /\ total % 2 = 0
      /\ counter < Chunks(length) /\ Chunks(length) \in Nat /\ out = NoNode /\ Merging
    BY ChunksOf DEF TreeInv, MergeSubtree, Merges
<1>2. /\ length' = length /\ counter' = counter /\ root' = root /\ out' = NoNode
      /\ merged' = ChainingValue(ParentNode(Last(stack), merged))
      /\ stack' = Front(stack) /\ total' = total \div 2
    BY <1>1 DEF MergeSubtree
<1>3. PICK p \in Powers :
        /\ p * total = counter + 1 /\ counter + 1 < Chunks(length)
        /\ Stacked(length, stack, counter + 1 - p, p)
        /\ merged = ChainingValue(Node(length, counter + 1 - p, p))
    BY <1>1 DEF Merging
<1>4. p \in Nat \ {0} /\ 2 * p \in Powers
    BY PowersDouble
<1>5. PICK half \in Nat \ {0} : total = 2 * half
    BY <1>1
<1>6. counter + 1 - p = p * (2 * half - 1)
    BY <1>1, <1>3, <1>4, <1>5
<1>7. stack # <<>>
    BY <1>3, <1>4, <1>5, <1>6, EmptyStack
<1>8. PICK from \in Nat, q \in Powers :
        /\ counter + 1 - p = from + q /\ p <= q /\ Slot(length, Last(stack), from, q)
        /\ Stacked(length, Front(stack), from, 2 * q)
    BY <1>1, <1>3, <1>7, TakeSubtree
<1>9. q = p
    <2> SUFFICES ASSUME p < q PROVE FALSE
        BY <1>4, <1>8, PowersDouble
    <2>1. PICK m \in Nat \ {0} : q = 2 * p * m
        BY PowerRatio
    <2>2. PICK j \in Nat : from = 2 * q * j
        BY <1>8 DEF Slot
    <2>3. p * (2 * half - 1) = 2 * q * j + q
        BY <1>6, <1>8, <2>2
    <2>4. 2 * half - 1 = 2 * (2 * m * j + m)
        BY <1>4, <1>5, <2>1, <2>3
    <2> QED
        BY <1>5, <2>1, <2>4
<1>10. from = counter + 1 - 2 * p /\ counter + 1 - p = from + p /\ p + p = 2 * p
    BY <1>1, <1>4, <1>8, <1>9
<1>11. Node(length, from, 2 * p) =
         ParentNode(ChainingValue(Node(length, from, p)), ChainingValue(Node(length, from + p, p)))
    <2>1. p \in 1..p /\ p + p <= Chunks(length)
        BY <1>1, <1>3, <1>4, <1>10
    <2> QED
        BY <1>1, <1>10, <2>1, NodeJoins
<1>12. merged' = ChainingValue(Node(length, from, 2 * p))
    BY <1>2, <1>3, <1>8, <1>9, <1>10, <1>11 DEF Slot
<1>13. total' = half /\ (2 * p) * half = counter + 1
    BY <1>1, <1>2, <1>3, <1>4, <1>5
<1>14. Merging'
    BY <1>2, <1>3, <1>4, <1>8, <1>9, <1>10, <1>12, <1>13 DEF Merging
<1>15. RootIsTree'
    BY <1>2 DEF TreeInv, RootIsTree
<1> QED
    BY <1>1, <1>2, <1>13, <1>14, <1>15 DEF TreeInv

\* Once the count is odd the subtree in hand starts at an even multiple of its
\* size, and those on the stack are larger.
LEMMA TreeKeep == TreeInv /\ KeepSubtree => TreeInv'
<1> SUFFICES ASSUME TreeInv, KeepSubtree PROVE TreeInv'
    OBVIOUS
<1>1. /\ length \in Nat /\ counter \in Nat /\ total \in Nat \ {0} /\ total % 2 # 0
      /\ counter < Chunks(length) /\ Chunks(length) \in Nat /\ out = NoNode /\ Merging
    BY ChunksOf DEF TreeInv, KeepSubtree, Merges
<1>2. /\ length' = length /\ counter' = counter + 1 /\ root' = root /\ out' = NoNode
      /\ stack' = Append(stack, merged) /\ total' = 0
    BY <1>1 DEF KeepSubtree
<1>3. PICK p \in Powers :
        /\ p * total = counter + 1 /\ counter + 1 < Chunks(length)
        /\ Stacked(length, stack, counter + 1 - p, p)
        /\ merged = ChainingValue(Node(length, counter + 1 - p, p))
    BY <1>1 DEF Merging
<1>4. p \in Nat \ {0}
    BY PowersDouble
<1>5. PICK half \in Nat : total = 2 * half + 1
    BY <1>1
<1> DEFINE start == counter + 1 - p
<1>6. start = 2 * p * half /\ start \in Nat /\ start + p = counter + 1
    BY <1>1, <1>3, <1>4, <1>5
<1> HIDE DEF start
<1>7. Slot(length, merged, start, p)
    BY <1>3, <1>5, <1>6 DEF Slot, start
<1>8. Stacked(length, stack, start, 2 * p)
    <2>1. CASE stack = <<>>
        BY <1>3, <2>1, EmptyStack DEF start
    <2>2. CASE stack # <<>>
        <3>1. PICK from \in Nat, q \in Powers :
                /\ start = from + q /\ p <= q /\ Slot(length, Last(stack), from, q)
                /\ \A l : l <= q => Stacked(length, stack, start, l)
            BY <1>1, <1>3, <2>2, TakeSubtree DEF start
        <3>2. PICK j \in Nat : from = 2 * q * j
            BY <3>1 DEF Slot
        <3>3. q # p
            <4> SUFFICES ASSUME q = p PROVE FALSE
                OBVIOUS
            <4>1. p * (2 * half) = 2 * p * j + p
                BY <1>4, <1>5, <1>6, <3>1, <3>2
            <4>2. 2 * half = 2 * j + 1
                BY <1>4, <1>5, <3>2, <4>1
            <4> QED
                BY <1>5, <3>2, <4>2
        <3>4. 2 * p <= q
            BY <1>4, <3>1, <3>3, PowersDouble
        <3> QED
            BY <3>1, <3>4
    <2> QED
        BY <2>1, <2>2
<1>9. Stacked(length, Append(stack, merged), counter + 1, p)
    BY <1>1, <1>3, <1>6, <1>7, <1>8, AddSubtree
<1>10. Stacked(length', stack', counter', 1)
    <2>1. Append(stack, merged) # <<>>
        BY <1>8 DEF Stacked
    <2>2. PICK from \in Nat, q \in Powers :
            \A l : l <= q => Stacked(length, Append(stack, merged), counter + 1, l)
        BY <1>1, <1>9, <2>1, TakeSubtree
    <2>3. 1 <= q
        BY PowersDouble
    <2> QED
        BY <1>2, <2>2, <2>3
<1>11. RootIsTree'
    BY <1>2 DEF TreeInv, RootIsTree
<1> QED
    BY <1>1, <1>2, <1>3, <1>10, <1>11 DEF TreeInv

LEMMA TreeUnwind == TreeInv /\ Unwind => TreeInv'
<1> SUFFICES ASSUME TreeInv, Unwind PROVE TreeInv'
    OBVIOUS
<1>1. /\ length \in Nat /\ counter \in Nat /\ total = 0 /\ counter < Chunks(length)
      /\ Chunks(length) \in Nat /\ out # NoNode /\ stack # <<>> /\ Unwinding
    BY ChunksOf DEF TreeInv, Unwind
<1>2. /\ length' = length /\ counter' = counter /\ total' = 0 /\ root' = root
      /\ out' = ParentNode(Last(stack), ChainingValue(out)) /\ stack' = Front(stack)
    BY <1>1 DEF Unwind
<1>3. PICK start \in 0..(Chunks(length) - 1) :
        /\ Stacked(length, stack, start, Chunks(length) - start)
        /\ out = Node(length, start, Chunks(length) - start)
    BY <1>1 DEF Unwinding
<1>4. PICK from \in Nat, q \in Powers :
        /\ start = from + q /\ Chunks(length) - start <= q /\ Slot(length, Last(stack), from, q)
        /\ Stacked(length, Front(stack), from, 2 * q)
    BY <1>1, <1>3, TakeSubtree
<1> DEFINE rest == Chunks(length) - start
           all  == Chunks(length) - from
<1>5. q \in Nat \ {0} /\ rest \in 1..q /\ q + rest = all /\ all <= Chunks(length) /\ all <= 2 * q
    <2>1. q \in Nat \ {0}
        BY PowersDouble
    <2> QED
        BY <1>1, <1>3, <1>4, <2>1
<1>6. out' = Node(length, from, all)
    BY <1>1, <1>2, <1>3, <1>4, <1>5, NodeJoins DEF Slot
<1>7. Stacked(length, Front(stack), from, all)
    <2>1. CASE Front(stack) = <<>>
        BY <1>4, <2>1, EmptyStack
    <2>2. CASE Front(stack) # <<>>
        <3>1. PICK q2 \in Powers : 2 * q <= q2 /\ \A l : l <= q2 => Stacked(length, Front(stack), from, l)
            BY <1>1, <1>4, <2>2, TakeSubtree
        <3>2. all <= q2
            BY <1>1, <1>4, <1>5, <3>1, PowersDouble
        <3> QED
            BY <3>1, <3>2
    <2> QED
        BY <2>1, <2>2
<1>8. from \in 0..(Chunks(length) - 1)
    BY <1>1, <1>3, <1>4, <1>5
<1>9. Unwinding'
    BY <1>2, <1>6, <1>7, <1>8 DEF Unwinding
<1>10. out' # NoNode
    BY <1>2 DEF ParentNode, NoNode
<1>11. RootIsTree'
    BY <1>2 DEF TreeInv, RootIsTree
<1> QED
    BY <1>1, <1>2, <1>9, <1>10, <1>11 DEF TreeInv

LEMMA TreeFinish == TreeInv /\ Finish => TreeInv'
<1> SUFFICES ASSUME TreeInv, Finish PROVE TreeInv'
    OBVIOUS
<1>1. PICK start \in 0..(Chunks(length) - 1) :
        /\ Stacked(length, stack, start, Chunks(length) - start)
        /\ out = Node(length, start, Chunks(length) - start)
    BY DEF TreeInv, Unwinding, Finish
<1>2. start = 0 /\ Chunks(length) - start = Chunks(length)
    BY <1>1, ChunksOf, EmptyStack DEF TreeInv, Finish
<1>3. root' = RootBytes(TreeOver(length)[Chunks(length)][0])
    BY <1>1, <1>2 DEF Finish, Node
<1>4. UNCHANGED <<length, counter, total, merged, stack, out>>
    BY DEF Finish
<1> QED
    BY <1>3, <1>4 DEF TreeInv, Merging, Unwinding, RootIsTree

\* Merging while the count is even builds the tree of the definition, for chunks of
\* any size and inputs of any length.
THEOREM RootIsTheTree == HashSpec => []RootIsTree
<1>1. TreeInv /\ [HashNext]_hashVars => TreeInv'
    <2> SUFFICES ASSUME TreeInv, [HashNext]_hashVars PROVE TreeInv'
        OBVIOUS
    <2>1. CASE UNCHANGED hashVars
        BY <2>1 DEF hashVars, TreeInv, Merging, Unwinding, RootIsTree
    <2> QED
        BY <2>1, TreeRead, TreeMerge, TreeKeep, TreeUnwind, TreeFinish DEF HashNext
<1>2. TreeInv => RootIsTree
    BY DEF TreeInv
<1> QED
    BY <1>1, <1>2, TreeInit, PTL DEF HashSpec

=============================================================================
