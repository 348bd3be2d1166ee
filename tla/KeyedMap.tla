------------------------------- MODULE KeyedMap -------------------------------
(***************************************************************************)
(* What the hash table of the PDF library promises its users, the resource *)
(* store (mupdf/pdf_store.c) and the glyph cache (fitzdraw/glyphcache.c):  *)
(* a map.  A value entered under a key stays there, and under no other     *)
(* key, until that key is removed or the table emptied, whatever happens   *)
(* to the other keys.                                                      *)
(***************************************************************************)
CONSTANTS Key, Val

VARIABLE map       \* the values under each key: none or one

MapInit == map = [k \in Key |-> {}]

Enter(k, v) == map[k] = {} /\ map' = [map EXCEPT ![k] = {v}]
Drop(k) == map[k] # {} /\ map' = [map EXCEPT ![k] = {}]
Clear == map' = [k \in Key |-> {}]

MapNext == Clear \/ \E k \in Key : Drop(k) \/ \E v \in Val : Enter(k, v)

MapSpec == MapInit /\ [][MapNext]_map
=============================================================================
