----------------------------- MODULE MCPageTree -----------------------------
(***************************************************************************)
(* Small instances of PageTree: trees of three levels, with an empty       *)
(* subtree, with a missing node, and with a page beside its subtrees.      *)
(***************************************************************************)
EXTENDS PageTree, TLC

CONSTANTS nRoot, nA, nB, nP1, nP2, nP3, nMiss, boxX, boxY, boxTiny

MCTree == {
  nRoot :> <<nA, nP3>> @@ nA :> <<nP1, nB>> @@ nB :> <<nP2>>,
  nRoot :> <<nP1, nA, nB>> @@ nA :> <<nP2>> @@ nB :> <<nP3>>,
  nRoot :> <<nA, nB, nP3>> @@ nA :> <<>> @@ nB :> <<nP1, nP2>>,
  nRoot :> <<nMiss, nA>> @@ nA :> <<nB, nMiss, nP3>> @@ nB :> <<nP1, nP2>>}

ASSUME MCTreeAssumption == \A t \in Tree : OneParent(t)
=============================================================================
