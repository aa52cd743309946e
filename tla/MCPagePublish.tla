----------------------------- MODULE MCPagePublish -----------------------------
(***************************************************************************)
(* Two runs over eight commits: two that can be published, and one that     *)
(* fails each gate.  Three assets, of which a batch takes two, and a large  *)
(* document fills one alone.  The hash tree runs for itself, on inputs of up to      *)
(* twenty chunks; it has states of its own and none in common.              *)
(***************************************************************************)
EXTENDS PagePublish, HashTree

CONSTANTS s1, s2, index, bundle, style, headers,
          cA, cB, cLeak, cBig, cHole, cStale, cRef, cLink,
          docA, docB, docRef, code, sheet, big, leak, rules

MCSessions == {s1, s2}
MCCommits  == {cA, cB, cLeak, cBig, cHole, cStale, cRef, cLink}
MCServe    == {index, bundle, style, headers}
MCSpecial  == {headers}
MCLeaky    == {leak}
MCOversized == {big}
MCUnbuilt  == {cStale}
MCIrregular == {cLink}

Page(document, module) == (index :> document) @@ (bundle :> module) @@ (style :> sheet) @@ (headers :> rules)
MCBlob == (cA :> Page(docA, code)) @@ (cB :> Page(docB, code)) @@ (cLeak :> Page(docA, leak))
          @@ (cBig :> Page(docA, big)) @@ (cHole :> Page(docB, None))
          @@ (cStale :> Page(docA, code)) @@ (cRef :> Page(docRef, code))
          @@ (cLink :> Page(docA, code))
MCRefs == (docA :> {bundle}) @@ (docB :> {bundle}) @@ (docRef :> {bundle, "unserved"})
MCSize == [x \in {docA, docRef, code, sheet, big, leak, rules} |-> 1] @@ (docB :> 2)

MCInit ==
    \/ PublishInit /\ length = 0 /\ counter = 0 /\ total = 0 /\ merged = NoNode /\ stack = <<>> /\ out = NoNode
                   /\ root = RootBytes(ChunkNode(0, 0))
    \/ HashInit /\ origin = cA /\ ses = [s \in Sessions |-> [Fresh EXCEPT !.pc = "refused"]]
                /\ cdn = {} /\ plan = None /\ partial = None /\ page = None /\ faults = 0
MCNext ==
    \/ PublishNext /\ UNCHANGED hashVars
    \/ HashNext /\ UNCHANGED pageVars
MCSpec == MCInit /\ [][MCNext]_<<pageVars, hashVars>>
=============================================================================
