---------------------------- MODULE MC_KeyStore ----------------------------
(* Three overlapping tool runs, one pair stored before, an overlay with    *)
(* no setting yet and one with both settings present twice.  Runs are      *)
(* interchangeable, so the instance is checked up to their permutations.   *)
EXTENDS KeyStore, TLC

CONSTANTS r1, r2, r3, e0, NoValue

MCRuns == {r1, r2, r3}
MCOldEntries == {e0}
MCInitStores == {<<e0>>}
MCInitOverlays ==
    { << [key |-> "other", val |-> NoValue] >>,
      << [key |-> SecretKey, val |-> NoValue],
         [key |-> "other", val |-> NoValue],
         [key |-> SecretKey, val |-> NoValue],
         [key |-> PeerKey, val |-> NoValue] >> }
MCEntryArgs == {NoValue, 0, 1}
MCMaxCrashes == 1
MCSymmetry == Permutations(MCRuns)
=============================================================================
