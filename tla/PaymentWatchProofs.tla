-------------------------- MODULE PaymentWatchProofs --------------------------
(***************************************************************************)
(* Theorems about PaymentWatch, for any history, page size, number of      *)
(* pages, endpoints and faults: the cursor passes no payment untested, and *)
(* with an endpoint to ask nothing is reported paid that did not land.     *)
(***************************************************************************)
EXTENDS PaymentWatch, TLAPS

\* A scan reads another page only while it may.
TypeInv == TypeOK /\ (pc = "pages" => page < MaxPages)

LEMMA Numbers ==
    /\ PageSize \in Nat /\ PageSize > 0 /\ MaxPages \in Nat /\ MaxPages > 0
    /\ Endpoints \in Nat /\ MaxFaults \in Nat
    /\ Before \in Seq(Txs) /\ FirstCursor \in 0..Len(Before)
BY WatchAssumption

Verdicts == {"none", "error", "NOT_YET", "PAID", "DISPUTED", "UNCONFIRMED"}

LEMMA TypeInit == Init => TypeInv
<1> SUFFICES ASSUME Init PROVE TypeInv
    OBVIOUS
<1>1. InRange
    BY Numbers DEF Init, InRange
<1>2. drained \in BOOLEAN
    BY DEF Init
<1> QED
    BY <1>1, <1>2, Numbers DEF Init, TypeInv, TypeOK

\* A check that returns, with the history and the cursor in range.
LEMMA ReturnType ==
    ASSUME TypeInv, NEW v \in Verdicts, Return(v), UNCHANGED <<history, examined>>,
           cursor' \in 0..Len(history), hit' \in 0..Len(history), faults' \in 0..MaxFaults
    PROVE  TypeInv' /\ pc' \in {"idle", "done"}
<1>1. /\ verdict' \in Verdicts /\ pc' \in {"idle", "done"}
      /\ page' = 0 /\ newest' = 0 /\ oldest' = 0 /\ drained' = FALSE
      /\ at' = 0 /\ asked' = 0 /\ best' = "none"
    BY DEF Return
<1>2. history \in Seq(Txs) /\ Len(history) \in Nat /\ examined \subseteq 1..Len(history)
    BY DEF TypeInv, TypeOK, InRange
<1>3. drained' \in BOOLEAN
    BY <1>1
<1> QED
    BY <1>1, <1>2, <1>3, Numbers DEF TypeInv, TypeOK, InRange, Verdicts

LEMMA ReadPageType ==
    ASSUME TypeInv, ReadPage
    PROVE  /\ TypeInv'
           /\ pc' = "fetch" => at' = newest' /\ (drained' => oldest' = cursor + 1)
<1> DEFINE short == PageTop - PageEnd < PageSize
           top   == IF page = 0 /\ PageTop > cursor THEN PageTop ELSE newest
<1>1. /\ history \in Seq(Txs) /\ Len(history) \in Nat
      /\ cursor \in 0..Len(history) /\ newest \in 0..Len(history)
      /\ oldest \in 0..Len(history) + 1 /\ page \in Nat /\ page < MaxPages
    BY DEF TypeInv, TypeOK, InRange, ReadPage
<1>2. /\ PageEnd \in cursor..Len(history)
      /\ short => PageEnd = cursor
    <2>1. PageTop \in Int /\ PageTop <= Len(history)
        BY <1>1 DEF PageTop
    <2>2. PageTop - PageSize > cursor => PageEnd = PageTop - PageSize
        BY DEF PageEnd
    <2>3. ~(PageTop - PageSize > cursor) => PageEnd = cursor
        BY DEF PageEnd
    <2> QED
        BY <1>1, <2>1, <2>2, <2>3, Numbers
<1>3. top \in 0..Len(history)
    BY <1>1 DEF PageTop
<1>4. /\ page' = page + 1 /\ oldest' = PageEnd + 1 /\ newest' = top
      /\ UNCHANGED <<history, cursor, hit, asked, best, verdict, faults, examined>>
    BY DEF ReadPage
<1>5. CASE short \/ page + 1 = MaxPages
    <2>1. at' = top /\ pc' = "fetch" /\ (drained' => short)
        BY <1>5 DEF ReadPage, EnoughPages
    <2>2. drained' \in BOOLEAN
        BY <1>5 DEF ReadPage, EnoughPages
    <2>3. InRange'
        BY <1>1, <1>2, <1>3, <1>4, <2>1, Numbers DEF TypeInv, TypeOK, InRange
    <2> QED
        BY <1>1, <1>2, <1>3, <1>4, <2>1, <2>2, <2>3 DEF TypeInv, TypeOK
<1>6. CASE ~(short \/ page + 1 = MaxPages)
    <2>1. /\ at' = 0 /\ pc' = "pages"
        BY <1>6 DEF ReadPage, EnoughPages
    <2>2. drained' \in BOOLEAN
        BY <1>6 DEF ReadPage, EnoughPages
    <2>3. InRange'
        BY <1>1, <1>2, <1>3, <1>4, <2>1, Numbers DEF TypeInv, TypeOK, InRange
    <2>4. page' < MaxPages
        BY <1>1, <1>4, <1>6, Numbers
    <2> QED
        BY <1>4, <2>1, <2>2, <2>3, <2>4 DEF TypeInv, TypeOK
<1> QED
    BY <1>5, <1>6

LEMMA TypeNext == TypeInv /\ [Next]_vars => TypeInv'
<1> SUFFICES ASSUME TypeInv, [Next]_vars PROVE TypeInv'
    OBVIOUS
<1>0. /\ history \in Seq(Txs) /\ Len(history) \in Nat /\ faults \in 0..MaxFaults
      /\ cursor \in 0..Len(history) /\ newest \in 0..Len(history) /\ hit \in 0..Len(history)
      /\ at \in 0..Len(history) /\ drained \in BOOLEAN
    BY DEF TypeInv, TypeOK, InRange
<1>1. ASSUME NEW t \in Txs, Land(t) PROVE TypeInv'
    <2>1. history' \in Seq(Txs) /\ Len(history') = Len(history) + 1
        BY <1>0, <1>1 DEF Land
    <2> QED
        BY <1>0, <1>1, <2>1 DEF Land, checkVars, TypeInv, TypeOK, InRange
<1>2. CASE Poll
    BY <1>2, Numbers DEF Poll, TypeInv, TypeOK, InRange
<1>3. CASE Fails
    <2>1. faults' \in 0..MaxFaults
        BY <1>0, <1>3, Numbers DEF Fails, Fault
    <2> QED
        BY <1>0, <1>3, <2>1, ReturnType DEF Fails, Verdicts
<1>4. CASE ReadPage
    BY <1>4, ReadPageType
<1>5. CASE SkipEntry
    <2>1. faults' \in 0..MaxFaults
        BY <1>0, <1>5, Numbers DEF SkipEntry, Fault
    <2> QED
        BY <1>0, <1>5, <2>1 DEF SkipEntry, Fetching, TypeInv, TypeOK, InRange
<1>6. CASE Test
    <2>1. at \in 1..Len(history) /\ examined' \subseteq 1..Len(history)
        BY <1>0, <1>6 DEF Test, Fetching, TypeInv, TypeOK, InRange
    <2>2. /\ at' \in 0..Len(history) /\ hit' \in 0..Len(history)
          /\ pc = "fetch" /\ pc' \in {"fetch", "corroborate"}
        BY <1>0, <1>6, <2>1 DEF Test, Fetching
    <2>3. UNCHANGED <<history, cursor, page, newest, oldest, drained, asked, best, verdict, faults>>
        BY <1>6 DEF Test
    <2> QED
        BY <1>0, <2>1, <2>2, <2>3 DEF TypeInv, TypeOK, InRange
<1>7. CASE NotYet
    <2>1. cursor' \in 0..Len(history)
        BY <1>0, <1>7 DEF NotYet, next_cursor
    <2> QED
        BY <1>0, <1>7, <2>1, ReturnType DEF NotYet, Verdicts
<1>8. CASE Agrees
    BY <1>8, Numbers DEF Agrees, Asking, TypeInv, TypeOK, InRange
<1>9. CASE Disagrees
    BY <1>0, <1>9, ReturnType DEF Disagrees, Asking, Verdicts
<1>10. CASE Unconfirmed
    <2>1. faults' \in 0..MaxFaults
        BY <1>0, <1>10, Numbers DEF Unconfirmed, Fault
    <2> QED
        BY <1>10, <2>1, Numbers DEF Unconfirmed, Asking, TypeInv, TypeOK, InRange
<1>11. CASE Report
    BY <1>0, <1>11, ReturnType DEF Report, Verdicts
<1>12. CASE UNCHANGED vars
    BY <1>12 DEF vars, checkVars, TypeInv, TypeOK, InRange
<1> QED
    BY <1>1, <1>2, <1>3, <1>4, <1>5, <1>6, <1>7, <1>8, <1>9, <1>10, <1>11, <1>12
    DEF Next, Check

\* The watch's variables keep their types, whatever lands and whatever fails.
THEOREM TypeCorrect == Spec => []TypeOK
<1>1. TypeInv => TypeOK
    BY DEF TypeInv
<1> QED
    BY <1>1, TypeInit, TypeNext, PTL DEF Spec

-----------------------------------------------------------------------------
(***************************************************************************)
(* The cursor.  Two provisos: the caller starts from a cursor (a first poll *)
(* without one takes the newest signature even of a range it did not drain)*)
(* and a payment's body is served once it is listed (a null body is skipped *)
(* and not looked at again).                                               *)
(***************************************************************************)

\* A payment at position i has been tested.
Tested(i) == Pays(i) => i \in examined

\* What a scan has looked at: everything of its range above `at`; a drained
\* range reaches down to the cursor.
ScanInv ==
    /\ cursor > 0
    /\ NothingSkipped
    /\ pc = "fetch" =>
        /\ at <= newest
        /\ drained => oldest = cursor + 1
        /\ \A i \in at + 1 .. newest : i >= oldest => Tested(i)

LEMMA AppendKeeps ==
    ASSUME TypeInv, NEW t \in Txs, Land(t)
    PROVE  /\ Len(history') = Len(history) + 1
           /\ \A i \in 1..Len(history) : history'[i] = history[i]
BY DEF TypeInv, TypeOK, InRange, Land

LEMMA CursorNext ==
    ASSUME Unreadable \cap Matching = {}, TypeInv, TypeInv', ScanInv, [Next]_vars
    PROVE  ScanInv'
<1>0. /\ history \in Seq(Txs) /\ Len(history) \in Nat
      /\ cursor \in 0..Len(history) /\ newest \in 0..Len(history)
      /\ at \in 0..Len(history) /\ oldest \in 0..Len(history) + 1
      /\ FirstCursor \in Nat
    BY Numbers DEF TypeInv, TypeOK, InRange
<1>1. ASSUME NEW t \in Txs, Land(t) PROVE ScanInv'
    <2>1. \A i \in 1..Len(history) : Tested(i)' <=> Tested(i)
        BY <1>1, AppendKeeps DEF Tested, Pays, Land
    <2>2. UNCHANGED <<cursor, pc, at, newest, oldest, drained, examined>>
        BY <1>1 DEF Land, checkVars
    <2>3. NothingSkipped'
        <3>1. \A i \in FirstCursor + 1 .. cursor : i \in 1..Len(history) /\ Tested(i)
            BY <1>0 DEF ScanInv, NothingSkipped, Tested
        <3> QED
            BY <2>1, <2>2, <3>1 DEF NothingSkipped, Tested
    <2>4. ASSUME pc = "fetch", NEW i \in at + 1 .. newest, i >= oldest PROVE Tested(i)'
        <3>1. i \in 1..Len(history) /\ Tested(i)
            BY <1>0, <2>4 DEF ScanInv
        <3> QED
            BY <2>1, <3>1
    <2> QED
        BY <2>2, <2>3, <2>4 DEF ScanInv
<1>2. ASSUME UNCHANGED <<history, cursor, examined>>, pc' # "fetch" PROVE ScanInv'
    BY <1>2 DEF ScanInv, NothingSkipped, Pays
<1>3. CASE ReadPage
    <2>1. UNCHANGED <<history, cursor, examined>>
        BY <1>3 DEF ReadPage
    <2>2. CASE pc' = "fetch"
        <3>1. at' = newest'
            BY <1>3, <2>2, ReadPageType
        <3>2. drained' => oldest' = cursor + 1
            BY <1>3, <2>2, ReadPageType
        <3>3. newest' \in Nat
            BY DEF TypeInv, TypeOK, InRange
        <3>4. ASSUME NEW n \in Nat, NEW i \in n + 1 .. n PROVE FALSE
            OBVIOUS
        <3>5. \A i \in at' + 1 .. newest' : FALSE
            BY <3>1, <3>3, <3>4, Zenon
        <3>6. cursor' > 0 /\ NothingSkipped'
            BY <2>1 DEF ScanInv, NothingSkipped, Pays
        <3>7. at' <= newest' /\ (drained' => oldest' = cursor' + 1)
            BY <2>1, <3>1, <3>2, <3>3
        <3> QED
            BY <3>6, <3>7, <3>5, Zenon DEF ScanInv
    <2> QED
        BY <1>2, <2>1, <2>2
<1>4. CASE SkipEntry
    <2>1. /\ pc = "fetch" /\ at > 0 /\ at' = at - 1
          /\ UNCHANGED <<history, cursor, pc, newest, oldest, drained, examined>>
        BY <1>4 DEF SkipEntry, Fetching
    <2>2. ~Pays(at)
        BY <1>4 DEF SkipEntry, Pays
    <2>3. \A i \in at .. newest : i >= oldest => Tested(i)
        BY <1>0, <2>1, <2>2 DEF ScanInv, Tested
    <2>4. \A i : Tested(i)' <=> Tested(i)
        BY <2>1 DEF Tested, Pays
    <2> QED
        BY <1>0, <2>1, <2>3, <2>4 DEF ScanInv, NothingSkipped, Tested
<1>5. CASE Test
    <2>1. /\ pc = "fetch" /\ at > 0 /\ examined' = examined \cup {at}
          /\ UNCHANGED <<history, cursor, newest, oldest, drained>>
        BY <1>5 DEF Test, Fetching
    <2>2. \A i : Tested(i) => Tested(i)'
        BY <2>1 DEF Tested, Pays
    <2>3. NothingSkipped'
        BY <1>0, <2>1, <2>2 DEF ScanInv, NothingSkipped, Tested
    <2>4. CASE pc' = "fetch"
        <3>1. at' = at - 1
            BY <1>5, <2>4 DEF Test
        <3>2. \A i : i = at => Tested(i)'
            BY <2>1 DEF Tested
        <3>3. \A i \in at .. newest : i >= oldest => Tested(i)'
            <4> SUFFICES ASSUME NEW i \in at .. newest, i >= oldest PROVE Tested(i)'
                OBVIOUS
            <4>1. CASE i = at
                BY <3>2, <4>1
            <4>2. CASE i # at
                BY <1>0, <2>1, <2>2, <4>2 DEF ScanInv
            <4> QED
                BY <4>1, <4>2
        <3> QED
            BY <1>0, <2>1, <2>3, <3>1, <3>3 DEF ScanInv
    <2> QED
        BY <2>1, <2>3, <2>4 DEF ScanInv
<1>6. CASE NotYet
    <2>1. /\ pc = "fetch" /\ ~(at >= oldest /\ at > 0) /\ pc' = "idle"
          /\ cursor' = next_cursor /\ UNCHANGED <<history, examined>>
        BY <1>6 DEF NotYet, Return, Fetching
    <2>2. CASE cursor' = cursor
        BY <1>2, <2>1, <2>2
    <2>3. CASE cursor' # cursor
        <3>1. cursor' = newest /\ newest > 0 /\ drained
            BY <1>0, <2>1, <2>3 DEF next_cursor, ScanInv
        <3>2. oldest = cursor + 1
            BY <2>1, <3>1 DEF ScanInv
        <3>3. ASSUME NEW i \in FirstCursor + 1 .. newest PROVE Tested(i)
            <4>1. CASE i <= cursor
                BY <1>0, <4>1 DEF ScanInv, NothingSkipped, Tested
            <4>2. CASE i > cursor
                BY <1>0, <2>1, <3>2, <4>2 DEF ScanInv
            <4> QED
                BY <1>0, <4>1, <4>2
        <3> QED
            BY <2>1, <3>1, <3>3 DEF ScanInv, NothingSkipped, Tested, Pays
    <2> QED
        BY <2>2, <2>3
<1>7. CASE Poll \/ Fails \/ Agrees \/ Disagrees \/ Unconfirmed \/ Report
    <2>1. UNCHANGED <<history, cursor, examined>> /\ pc' # "fetch"
        BY <1>7 DEF Poll, Fails, Agrees, Disagrees, Unconfirmed, Report, Asking, Return
    <2> QED
        BY <1>2, <2>1
<1>8. CASE UNCHANGED vars
    BY <1>8 DEF vars, checkVars, ScanInv, NothingSkipped, Tested, Pays
<1> QED
    BY <1>1, <1>3, <1>4, <1>5, <1>6, <1>7, <1>8 DEF Next, Check

\* A watch that starts from a cursor never moves it over a payment it has not
\* tested, however many signatures land between two polls or two pages.
THEOREM CursorSkipsNothing ==
    ASSUME FirstCursor > 0, Unreadable \cap Matching = {}
    PROVE  Spec => []NothingSkipped
<1> DEFINE Inv == TypeInv /\ ScanInv
<1>1. Init => Inv
    <2> SUFFICES ASSUME Init PROVE Inv
        OBVIOUS
    <2>1. cursor = FirstCursor /\ pc = "idle"
        BY DEF Init
    <2>2. NothingSkipped
        BY <2>1, Numbers DEF NothingSkipped
    <2> QED
        BY <2>1, <2>2, TypeInit DEF ScanInv
<1>2. Inv /\ [Next]_vars => Inv'
    BY TypeNext, CursorNext
<1>3. Inv => NothingSkipped
    BY DEF ScanInv
<1> QED
    BY <1>1, <1>2, <1>3, PTL DEF Spec

-----------------------------------------------------------------------------
(***************************************************************************)
(* The verdict.                                                            *)
(***************************************************************************)

\* The hit is a matching transaction; an agreement is of one that landed, and
\* there is none before the endpoints are asked.
HitInv ==
    /\ pc \in {"corroborate", "done"} => hit \in 1..Len(history) /\ Pays(hit)
    /\ pc # "corroborate" => best = "none"
    /\ pc = "corroborate" /\ best = "agrees" => Landed(hit)
    /\ PaidIsReal

LEMMA VerdictNext == TypeInv /\ HitInv /\ [Next]_vars => HitInv'
<1> SUFFICES ASSUME TypeInv, HitInv, [Next]_vars PROVE HitInv'
    OBVIOUS
<1>0. Len(history) \in Nat /\ at \in 0..Len(history) /\ asked \in Nat
    BY Numbers DEF TypeInv, TypeOK, InRange
<1>1. ASSUME NEW t \in Txs, Land(t) PROVE HitInv'
    <2>1. UNCHANGED <<pc, hit, best>>
        BY <1>1 DEF Land, checkVars
    <2>2. \A i \in 1..Len(history) : (Pays(i)' <=> Pays(i)) /\ (Landed(i)' <=> Landed(i))
        BY <1>1, AppendKeeps DEF Pays, Landed
    <2>3. Len(history') = Len(history) + 1
        BY <1>1, AppendKeeps
    <2> QED
        BY <1>0, <2>1, <2>2, <2>3 DEF HitInv, PaidIsReal
<1>2. ASSUME NEW v \in Verdicts, v # "PAID", Return(v) PROVE HitInv'
    BY <1>2 DEF Return, HitInv, PaidIsReal
<1>3. CASE Test
    <2>1. /\ Fetching /\ UNCHANGED <<history, best>> /\ best = "none"
          /\ pc' = "corroborate" => hit' = at /\ Pays(at)
          /\ pc' \in {"fetch", "corroborate"}
        BY <1>3 DEF Test, Fetching, check_transaction, HitInv
    <2>2. at \in 1..Len(history)
        BY <1>0, <2>1 DEF Fetching
    <2> QED
        BY <2>1, <2>2 DEF HitInv, PaidIsReal, Pays, Landed
<1>4. CASE Agrees
    BY <1>4 DEF Agrees, Asking, HitInv, PaidIsReal, Pays, Landed
<1>5. CASE Unconfirmed
    BY <1>5 DEF Unconfirmed, Asking, HitInv, PaidIsReal, Pays, Landed
<1>6. CASE Report
    <2>1. UNCHANGED <<history, hit>> /\ pc = "corroborate" /\ best' = "none"
          /\ (pc' = "done" => Endpoints = 0 \/ best = "agrees")
          /\ pc' \in {"idle", "done"}
        BY <1>6 DEF Report, Return
    <2> QED
        BY <2>1, Numbers DEF HitInv, PaidIsReal, Pays, Landed
<1>7. CASE Poll \/ ReadPage \/ SkipEntry
    <2>1. /\ pc \in {"idle", "pages", "fetch"} /\ pc' \in {"pages", "fetch"}
          /\ UNCHANGED <<history, best>>
        BY <1>7 DEF Poll, ReadPage, SkipEntry, Fetching
    <2> QED
        BY <2>1 DEF HitInv, PaidIsReal
<1>8. CASE Fails \/ NotYet \/ Disagrees
    BY <1>2, <1>8 DEF Fails, NotYet, Disagrees, Verdicts
<1>9. CASE UNCHANGED vars
    BY <1>9 DEF vars, checkVars, HitInv, PaidIsReal, Pays, Landed
<1> QED
    BY <1>1, <1>3, <1>4, <1>5, <1>6, <1>7, <1>8, <1>9 DEF Next, Check

\* With an endpoint configured, the watch reports PAID only of a matching
\* transaction the cluster confirmed, whichever endpoints lag or stay silent.
THEOREM PaidMeansConfirmed == Spec => []PaidIsReal
<1> DEFINE Inv == TypeInv /\ HitInv
<1>1. Init => Inv
    <2>1. Init => HitInv
        BY DEF Init, HitInv, PaidIsReal
    <2> QED
        BY <2>1, TypeInit
<1>2. Inv /\ [Next]_vars => Inv'
    BY TypeNext, VerdictNext
<1>3. Inv => PaidIsReal
    BY DEF HitInv
<1> QED
    BY <1>1, <1>2, <1>3, PTL DEF Spec

=============================================================================
