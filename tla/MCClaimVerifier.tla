--------------------------- MODULE MCClaimVerifier ---------------------------
(* The scripts over two kinds of behaviour, chosen by focus: in one the system *)
(* changes twice around a run; in the other a capture run rewrites the bundle, *)
(* the node forgets and hands spoil entries while the claims are checked.  The *)
(* checks after the transactions' read nothing of the bundle, so it rests then.*)
EXTENDS ClaimVerifier
CONSTANTS t1, t2, c1
VARIABLE focus
MCTxs == {t1, t2}
AllOrNone == {{}, MCTxs}
MCTxSeq == <<t1, t2>>
BothTools == {"verify", "earnings"}

BundleRests == run["verify"].at > Len(TxSeq) + 1
MCInit ==
    /\ VerifierInit /\ sibling
    /\ \/ focus = "system" /\ landed = Txs
       \/ focus = "evidence" /\ gate.sold = 1
MCNext ==
    /\ VerifierNext /\ UNCHANGED focus
    /\ IF focus = "system" THEN UNCHANGED bundleVars
       ELSE /\ UNCHANGED <<world, gate>> /\ run'["earnings"].at = 0
            /\ BundleRests => UNCHANGED bundleVars
            /\ damage' + Cardinality(Txs \ retained') + 2 * run'["verify"].troubles <= 2
MCSpec == MCInit /\ [][MCNext]_<<bundleVars, verifierVars, focus>>
=============================================================================
