----------------------------- MODULE MCHashTable -----------------------------
(***************************************************************************)
(* A small instance of HashTable: seven keys that collide in the table of    *)
(* six slots and run around its end, and partly still collide after it has *)
(* doubled.                                                                *)
(***************************************************************************)
EXTENDS HashTable, TLC

CONSTANTS k1, k2, k3, k4, k5, k6, k7

MCHash == k1 :> 5 @@ k2 :> 11 @@ k3 :> 4 @@ k4 :> 10 @@ k5 :> 0 @@ k6 :> 5 @@ k7 :> 11
MCItems == [k \in Key |-> IF k = k1 THEN {<<k, 1>>, <<k, 2>>} ELSE {<<k, 1>>}]
MCVal == UNION {MCItems[k] : k \in Key}
=============================================================================
