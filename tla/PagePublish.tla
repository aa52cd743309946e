------------------------------ MODULE PagePublish ------------------------------
(***************************************************************************)
(* scripts/deploy-pay-page.py: a run resolves a ref, gates the bytes that   *)
(* commit holds, and publishes them with wrangler or, tokenless, uploads    *)
(* the assets and leaves a plan for the operator who creates the            *)
(* deployment.  Several sessions run it on one host with one plan path.     *)
(* A content stands for the bytes; its asset key is the content itself.     *)
(***************************************************************************)
EXTENDS Naturals, Sequences, FiniteSets, SequencesExt

CONSTANTS
    Sessions,       \* invocations of the script
    Commits,
    Serve,          \* what the browser fetches, the document and the header rules included
    Special,        \* served names Pages reads as configuration, at the root
    Index,          \* the document
    Blob,           \* [Commits -> [Serve -> content or None]]
    Refs,           \* [content of the document -> local names it references]
    Leaky,          \* contents that carry an identifier of the host
    Oversized,      \* contents over the per-asset ceiling
    Unbuilt,        \* commits whose document does not match its sources
    Irregular,      \* commits with an entry that is not a regular file
    None,
    Empty, Mixed,    \* files that do not parse: truncated, and two texts mixed
    Size,           \* [content -> bytes as posted]
    UploadAttempts, BatchFiles, BatchBytes,
    MaxFaults       \* bound on lost answers and killed runs

ASSUME PublishAssumption ==
    /\ IsFiniteSet(Serve) /\ Special \subseteq Serve /\ Index \in Serve \ Special
    /\ \A c \in Commits : Blob[c] = [n \in Serve |-> Blob[c][n]]
    /\ UploadAttempts \in Nat \ {0} /\ BatchFiles \in Nat \ {0}
    /\ BatchBytes \in Nat /\ MaxFaults \in Nat
    /\ None \notin {Empty, Mixed, "direct"}

VARIABLES
    origin,    \* the commit the ref names
    ses,       \* what each invocation is doing
    cdn,       \* asset keys the CDN holds
    plan,      \* the file at --plan-out
    partial,   \* its sibling, written first
    page,      \* the deployment that is live
    faults     \* lost answers and killed runs so far
pageVars == <<origin, ses, cdn, plan, partial, page, faults>>

Assets == Serve \ Special
Fresh == [pc |-> "new", mode |-> None, sha |-> None, todo |-> <<>>, tries |-> 0,
          after |-> {}, at |-> None]
Ended(s) == ses[s].pc \in {"done", "refused", "killed"}

Set(s, r)     == ses' = [ses EXCEPT ![s] = r]
At(s, pc)     == ses[s].pc = pc
Refusal(s)    == [ses[s] EXCEPT !.pc = "refused"]
----------------------------------------------------------------------------
(* The ref and the gates.  The bytes are those of the commit the ref was    *)
(* resolved to; nothing is read from the working tree.                      *)

Fetch(c) ==
    /\ origin # c
    /\ origin' = c
    /\ UNCHANGED <<ses, cdn, plan, partial, page, faults>>

\* A transport that cannot be used (two of them, a token file that holds no
\* token) and a ref that does not resolve end the run here.
Resolve(s, mode, usable) ==
    /\ At(s, "new")
    /\ Set(s, [Fresh EXCEPT !.pc = IF usable THEN "gate" ELSE "refused",
                            !.mode = mode, !.sha = origin,
                            !.after = {t \in Sessions : Ended(t)}])
    /\ UNCHANGED <<origin, cdn, plan, partial, page, faults>>

\* materialise: every blob of the commit, or nothing.
Materialises(c) == c \notin Irregular

Unserved(c) == Refs[Blob[c][Index]] \ Serve

Scan(c) == {n \in Serve : Blob[c][n] \in Leaky}

\* stage: the deploy set is complete and carries every local reference.
StagesUnreferenced(c) == \A n \in Serve : Blob[c][n] # None
Stages(c) == (\A n \in Serve : Blob[c][n] # None) /\ Unserved(c) = {}

Publishable(c) ==
    /\ Materialises(c)
    /\ c \notin Unbuilt
    /\ Stages(c)
    /\ Scan(c) = {}

Gate(s) ==
    /\ At(s, "gate")
    /\ LET r == ses[s] IN
       Set(s, IF ~Publishable(r.sha) THEN Refusal(s)
              ELSE [r EXCEPT !.pc = CASE r.mode = "direct"   -> "prepare"
                                      [] r.mode = "wrangler" -> "wrangler"
                                      [] OTHER               -> "done"])
    /\ UNCHANGED <<origin, cdn, plan, partial, page, faults>>

\* npx is missing, or wrangler fails before or after it published.
Wrangler(s, published, ok) ==
    /\ At(s, "wrangler")
    /\ ok => published
    /\ Set(s, IF ok THEN [ses[s] EXCEPT !.pc = "done"] ELSE Refusal(s))
    /\ cdn' = IF published THEN cdn \cup {Blob[ses[s].sha][n] : n \in Assets} ELSE cdn
    /\ page' = IF published THEN [sha |-> ses[s].sha, files |-> Blob[ses[s].sha]] ELSE page
    /\ UNCHANGED <<origin, plan, partial, faults>>
----------------------------------------------------------------------------
(* The tokenless transport.                                                 *)

\* The plan path is opened, which truncates the file that is there, and then
\* removed: when another run removed it first, this one is refused.  `at` is
\* where the file a run opened last is now, the paths being shared.
ProbePlanPath(s, writable) ==
    /\ At(s, "prepare")
    /\ Set(s, IF writable THEN [ses[s] EXCEPT !.pc = "missing"] ELSE Refusal(s))
    /\ UNCHANGED <<origin, cdn, plan, partial, page, faults>>

PreparePlanPath(s, writable) ==
    /\ At(s, "prepare")
    /\ plan' = IF writable THEN Empty ELSE plan
    /\ Set(s, IF writable THEN [ses[s] EXCEPT !.pc = "clear", !.at = "plan"] ELSE Refusal(s))
    /\ UNCHANGED <<origin, cdn, partial, page, faults>>

\* The file at `from` is at `to` now, for every run that has it open; a file
\* that was at `to` is under no name any more.
Moved(from, to) ==
    [t \in Sessions |->
        IF ses[t].at \notin {from, to} THEN ses[t]
        ELSE [ses[t] EXCEPT !.at = IF @ = from THEN to ELSE "gone"]]

ClearPlan(s) ==
    /\ At(s, "clear")
    /\ plan' = None
    /\ ses' = [Moved("plan", "gone") EXCEPT ![s].pc = IF plan = None THEN "refused" ELSE "missing"]
    /\ UNCHANGED <<origin, cdn, partial, page, faults>>

Keys(s) == {Blob[ses[s].sha][n] : n \in Assets}

\* _post_json: retry what may have been lost, and refuse every other failure.
\* `applied` says whether the server acted on a request whose answer was lost.
Lost(s) ==
    /\ faults < MaxFaults
    /\ faults' = faults + 1
    /\ Set(s, IF ses[s].tries + 1 < UploadAttempts
              THEN [ses[s] EXCEPT !.tries = @ + 1]
              ELSE Refusal(s))

\* A subset of the asked keys is an answer; anything else is refused.
CheckMissing(s, sane) ==
    /\ At(s, "missing")
    /\ LET answer == IF sane THEN Keys(s) \ cdn ELSE {None} IN
       Set(s, IF ~(answer \subseteq Keys(s)) THEN Refusal(s)
              ELSE [ses[s] EXCEPT !.tries = 0,
                        !.pc = IF answer = {} THEN "upsert" ELSE "ceiling",
                        !.todo = SetToSeq(answer)])
    /\ UNCHANGED <<origin, cdn, plan, partial, page, faults>>
CheckMissingLost(s) ==
    /\ At(s, "missing")
    /\ Lost(s)
    /\ UNCHANGED <<origin, cdn, plan, partial, page>>


\* The ceiling is checked over every item before the first batch is posted.
CheckCeiling(s) ==
    /\ At(s, "ceiling")
    /\ Set(s, IF ToSet(ses[s].todo) \cap Oversized # {} THEN Refusal(s)
              ELSE [ses[s] EXCEPT !.pc = "upload"])
    /\ UNCHANGED <<origin, cdn, plan, partial, page, faults>>

\* A batch is as long as both bounds allow; one item may pass the bound on bytes.
Fits(items) ==
    /\ Len(items) <= BatchFiles
    /\ Len(items) > 1 => MapThenSumSet(LAMBDA i : Size[items[i]], DOMAIN items) <= BatchBytes
Batch(s) == LET todo == ses[s].todo
                fitting == {k \in 1..Len(todo) : Fits(SubSeq(todo, 1, k))}
            IN  SubSeq(todo, 1, Cardinality(fitting))
RestSkipped(s) == SubSeq(ses[s].todo, Len(Batch(s)) + 2, Len(ses[s].todo))
Rest(s)  == SubSeq(ses[s].todo, Len(Batch(s)) + 1, Len(ses[s].todo))

UploadBatch(s) ==
    /\ At(s, "upload")
    /\ cdn' = cdn \cup ToSet(Batch(s))
    /\ Set(s, [ses[s] EXCEPT !.todo = Rest(s), !.tries = 0,
                             !.pc = IF Rest(s) = <<>> THEN "upsert" ELSE "upload"])
    /\ UNCHANGED <<origin, plan, partial, page, faults>>
UploadLost(s, applied) ==
    /\ At(s, "upload")
    /\ cdn' = IF applied THEN cdn \cup ToSet(Batch(s)) ELSE cdn
    /\ Lost(s)
    /\ UNCHANGED <<origin, plan, partial, page>>

Upsert(s) ==
    /\ At(s, "upsert")
    /\ Set(s, [ses[s] EXCEPT !.pc = "write", !.tries = 0])
    /\ UNCHANGED <<origin, cdn, plan, partial, page, faults>>
UpsertLost(s) ==
    /\ At(s, "upsert")
    /\ Lost(s)
    /\ UNCHANGED <<origin, cdn, plan, partial, page>>

\* deployment_plan: keys for the assets, the text itself for the configuration.
PlanOf(c) == [sha |-> c, manifest |-> [n \in Assets |-> Blob[c][n]],
              special |-> [n \in Special |-> Blob[c][n]]]

ASSUME PlanAssumption == \A c \in Commits : PlanOf(c) \notin {None, Empty, Mixed}

\* write_text truncates the shared sibling, and fills it afterwards wherever it
\* has been moved to.  Over a text that another run wrote meanwhile it leaves
\* its own, or a piece of the other's behind it.
OpenPartial(s) ==
    /\ At(s, "write")
    /\ partial' = Empty
    /\ Set(s, [ses[s] EXCEPT !.pc = "fill", !.at = "partial"])
    /\ UNCHANGED <<origin, cdn, plan, page, faults>>

Filled(s, held, whole) == IF whole \/ held = Empty THEN PlanOf(ses[s].sha) ELSE Mixed

Fill(s, whole) ==
    /\ At(s, "fill")
    /\ partial' = IF ses[s].at = "partial" THEN Filled(s, partial, whole) ELSE partial
    /\ plan' = IF ses[s].at = "plan" THEN Filled(s, plan, whole) ELSE plan
    /\ Set(s, [ses[s] EXCEPT !.pc = "replace"])
    /\ UNCHANGED <<origin, cdn, page, faults>>

\* os.replace moves whatever the shared sibling holds, and fails when another
\* run has moved it already.
Replace(s) ==
    /\ At(s, "replace")
    /\ IF partial = None
       THEN Set(s, Refusal(s)) /\ UNCHANGED plan
       ELSE ses' = [Moved("partial", "plan") EXCEPT ![s].pc = "done"] /\ plan' = partial
    /\ partial' = None
    /\ UNCHANGED <<origin, cdn, page, faults>>

\* The process is killed.
Killed(s) ==
    /\ ~At(s, "new") /\ ~Ended(s)
    /\ faults < MaxFaults
    /\ faults' = faults + 1
    /\ Set(s, [ses[s] EXCEPT !.pc = "killed"])
    /\ UNCHANGED <<origin, cdn, plan, partial, page>>

\* Step 3, an operator with an account: deploy the commit asked for, from a
\* plan that parses.
CreateDeployment(c) ==
    /\ plan \notin {None, Empty, Mixed} /\ plan.sha = c
    /\ page' = [sha |-> c, files |-> [n \in Serve |-> IF n \in Special THEN plan.special[n]
                                                      ELSE plan.manifest[n]]]
    /\ page' # page
    /\ UNCHANGED <<origin, ses, cdn, plan, partial, faults>>
----------------------------------------------------------------------------
PublishInit ==
    /\ origin \in Commits
    /\ ses = [s \in Sessions |-> Fresh]
    /\ cdn = {} /\ plan = None /\ partial = None /\ page = None /\ faults = 0

Advance(s) ==
    \/ Gate(s)
    \/ \E published, ok \in BOOLEAN : Wrangler(s, published, ok)
    \/ \E writable \in BOOLEAN : PreparePlanPath(s, writable)
    \/ \E sane \in BOOLEAN : CheckMissing(s, sane)
    \/ \E whole \in BOOLEAN : Fill(s, whole)
    \/ ClearPlan(s) \/ CheckCeiling(s) \/ UploadBatch(s) \/ Upsert(s) \/ OpenPartial(s) \/ Replace(s)
Fails(s) ==
    \/ CheckMissingLost(s) \/ UpsertLost(s) \/ Killed(s)
    \/ \E applied \in BOOLEAN : UploadLost(s, applied)

PublishNext ==
    \/ \E c \in Commits : Fetch(c) \/ CreateDeployment(c)
    \/ \E s \in Sessions :
        \/ \E mode \in {"direct", "wrangler", "dry"}, usable \in BOOLEAN : Resolve(s, mode, usable)
        \/ Advance(s)
        \/ Fails(s)

PublishSpec == PublishInit /\ [][PublishNext]_pageVars
----------------------------------------------------------------------------
\* Two tokenless runs that were both under way at some time.
Beside(s, t) ==
    /\ s # t
    /\ ses[s].mode = "direct" /\ ses[t].mode = "direct"
    /\ s \notin ses[t].after /\ t \notin ses[s].after

Parses(p) == p \notin {None, Empty, Mixed}

(* A plan that parses can be trusted when it is found: it is the whole of   *)
(* one commit that passed every gate, and every key in it is on the CDN;    *)
(* lost answers, replies about other keys, deaths between two steps and     *)
(* another session on the same plan path included.  What is found there and *)
(* does not parse was truncated by a run that is clearing the path, or was  *)
(* killed at it, or two runs worked beside each other on the path.          *)
PlanIsUploaded ==
    /\ Parses(plan) => /\ Publishable(plan.sha) /\ plan = PlanOf(plan.sha)
                       /\ \A n \in Assets : plan.manifest[n] \in cdn
    /\ plan \in {Empty, Mixed} =>
           \/ \E s \in Sessions : ses[s].at = "plan" /\ ses[s].pc \in {"clear", "killed"}
           \/ \E s, t \in Sessions : Beside(s, t)

(* What customers load is one commit, whole: its document, every module the *)
(* document imports and the header rules that keep it out of caches, with   *)
(* every asset behind it resident.                                          *)
LivePageIsWhole ==
    page # None => /\ page.files = Blob[page.sha]
                   /\ Unserved(page.sha) = {}
                   /\ \A n \in Assets : page.files[n] \in cdn

(* A run that failed once it had cleared the path leaves no plan for the    *)
(* operator to deploy: not its own, and not the one an earlier run          *)
(* finished.  When another run was beside it any file may be there, this    *)
(* run's own text included, which the other run can have moved for it.      *)
Uploading(s) == ses[s].pc \in {"missing", "ceiling", "upload", "upsert", "write", "fill", "replace"}
FailedUploadLeavesNoPlan ==
    [][\A s \in Sessions :
          Uploading(s) /\ ses'[s].pc \in {"refused", "killed"} /\ plan' # None =>
              \E t \in Sessions : Beside(s, t)]_pageVars
=============================================================================
