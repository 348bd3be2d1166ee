---------------------------- MODULE MCBookReader ----------------------------
(***************************************************************************)
(* A small instance of BookReader.                                         *)
(***************************************************************************)
EXTENDS BookReader, TLC

CONSTANTS b1, b2

MCPageCount == b1 :> 3 @@ b2 :> 2
MCBroken == {<<b2, 1>>}
MCGarbled == {<<b1, 2>>}
=============================================================================
