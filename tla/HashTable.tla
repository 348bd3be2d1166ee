------------------------------ MODULE HashTable ------------------------------
(***************************************************************************)
(* The open addressing hash table of the PDF library (fitz/base_hash.c):   *)
(* linear probing, a table that doubles when it is more than eight tenths  *)
(* full, and a removal that leaves no tombstone but shifts later entries   *)
(* back into the hole.  The two loops that move entries, of fz_hashremove  *)
(* and of fz_resizehash, take one step per slot, so that the invariant     *)
(* that makes them right can be stated in their middle.  The bytes of the  *)
(* key that a freed slot keeps are left out: no probe reads them.          *)
(***************************************************************************)
EXTENDS Integers, FiniteSets

CONSTANTS
  Key, Val,
  Items,         \* the values made for a key: an item of the store, or a
                 \* glyph, is allocated for the key it is then entered under
  Free,          \* a slot whose val is null
  Hash,          \* hash(key, keylen), before it is reduced to the table's size
  InitialSize,   \* the argument of fz_newhash
  MaxSize        \* bound of the model: the table does not double beyond it

(* 4096 in pdf_newstore and the glyph memory over 24 in fz_newglyphcache;    *)
(* below 6 slots the test of fz_hashinsert lets a table become full, and a   *)
(* probe for an absent key never ends.                                       *)
ASSUME SizeAssumption == InitialSize \in Nat /\ InitialSize >= 6
ASSUME HashAssumption == Hash \in [Key -> Nat]
ASSUME ItemsAssumption == Items \in [Key -> SUBSET Val]
ASSUME FreeAssumption == Free \notin [key : Key, val : Val]
ASSUME MaxSizeAssumption == MaxSize \in Nat

VARIABLES
  size, load,    \* fz_hashtable: number of slots, number of entries
  ents,          \* fz_hashtable: the slots
  pc,            \* "ready", "shift" (in fz_hashremove) or "copy" (in fz_resizehash)
  hole, look,    \* locals of fz_hashremove, 0 outside it
  old, at,       \* locals of fz_resizehash: the slots to copy and the index
  pend           \* the entry whose fz_hashinsert doubles the table

vars == <<size, load, ents, pc, hole, look, old, at, pend>>

Slots(n) == 0 .. n - 1
Entry == [key : Key, val : Val]
AllFree(n) == [i \in Slots(n) |-> Free]

Home(k, n) == Hash[k] % n
(* Mutant of Succ: the look-up does not wrap around the end.                 *)
SuccUnwrapped(i, n) == i + 1

Succ(i, n) == IF i + 1 = n THEN 0 ELSE i + 1

(* j is one of the slots a probe that starts at a has passed before it comes *)
(* to b: the slots from a to b, b excluded, around the end of the table.     *)
Passed(a, j, b) == IF a <= b THEN a <= j /\ j < b ELSE a <= j \/ j < b

(* Where a probe for k ends: at a free slot, or at the key.                  *)
FreeSlot(t, n, k) ==
  {p \in Slots(n) :
     t[p] = Free /\ \A j \in Slots(n) : Passed(Home(k, n), j, p) => t[j] # Free}
KeySlot(t, n, k) ==
  {p \in Slots(n) :
     /\ t[p] # Free /\ t[p].key = k
     /\ \A j \in Slots(n) :
          Passed(Home(k, n), j, p) => t[j] # Free /\ t[j].key # k}

(* fz_hashfind: the value of the entry the probe stops at, or null.          *)
Find(t, n, k) == {t[p].val : p \in KeySlot(t, n, k)}

(* Mutant of Crowded: the table is let grow fuller.                          *)
CrowdedLater(l, n) == l > (n * 9) \div 10

(* The test that sends fz_hashinsert to fz_resizehash first.                 *)
Crowded(l, n) == l > (n * 8) \div 10

(* The second half of fz_hashinsert.                                         *)
PutIn(t, n, e) == \E p \in FreeSlot(t, n, e.key) : ents' = [t EXCEPT ![p] = e]

Init ==
  /\ size = InitialSize /\ load = 0 /\ ents = AllFree(InitialSize)
  /\ pc = "ready" /\ hole = 0 /\ look = 0
  /\ old = AllFree(0) /\ at = 0 /\ pend = Free

(* fz_hashinsert, as the store and the glyph cache call it: for a key that   *)
(* fz_hashfind does not find.  The size fz_resizehash refuses ("assert:      *)
(* resize hash too small") is never asked of it.                             *)
Insert(k, v) ==
  /\ pc = "ready"
  /\ Find(ents, size, k) = {}
  /\ \/ /\ ~Crowded(load, size)
        /\ PutIn(ents, size, [key |-> k, val |-> v])
        /\ load' = load + 1
        /\ UNCHANGED <<size, pc, old, at, pend>>
     \/ /\ Crowded(load, size) /\ 2 * size <= MaxSize
        /\ pc' = "copy" /\ old' = ents /\ at' = 0
        /\ pend' = [key |-> k, val |-> v]
        /\ size' = 2 * size /\ ents' = AllFree(2 * size) /\ load' = 0
  /\ UNCHANGED <<hole, look>>

(* One round of the loop of fz_resizehash, and its end: back in              *)
(* fz_hashinsert, the pending entry is put into the larger table.            *)
CopySlot ==
  /\ pc = "copy" /\ at < size \div 2
  /\ IF old[at] # Free
     THEN PutIn(ents, size, old[at]) /\ load' = load + 1
     ELSE UNCHANGED <<ents, load>>
  /\ at' = at + 1
  /\ UNCHANGED <<size, pc, hole, look, old, pend>>

(* Mutant of CopyDone: the loop stops one slot early.                        *)
CopyDoneEarly ==
  /\ pc = "copy" /\ at = size \div 2 - 1
  /\ PutIn(ents, size, pend)
  /\ load' = load + 1
  /\ pc' = "ready" /\ pend' = Free /\ old' = AllFree(0) /\ at' = 0
  /\ UNCHANGED <<size, hole, look>>

CopyDone ==
  /\ pc = "copy" /\ at = size \div 2
  /\ PutIn(ents, size, pend)
  /\ load' = load + 1
  /\ pc' = "ready" /\ pend' = Free /\ old' = AllFree(0) /\ at' = 0
  /\ UNCHANGED <<size, hole, look>>

(* fz_hashremove: the entry is cleared, and the loop that closes the hole    *)
(* begins at the slot after it.                                              *)
Remove(k) ==
  /\ pc = "ready"
  /\ \E p \in KeySlot(ents, size, k) :
       /\ ents' = [ents EXCEPT ![p] = Free]
       /\ hole' = p /\ look' = Succ(p, size)
  /\ pc' = "shift"
  /\ UNCHANGED <<size, load, old, at, pend>>

(* Mutant of MayMove: a case of the wrapped table is forgotten.              *)
MayMoveNoWrappedHole(code, h, l) == (code <= h /\ h < l) \/ (l < code /\ code <= h)

(* The condition, in three cases, that the entry at `look` may move back.    *)
MayMove(code, h, l) ==
  \/ code <= h /\ h < l
  \/ l < code /\ code <= h
  \/ h < l /\ l < code

(* Mutant of ShiftSlot: the index stays where nothing was moved.             *)
ShiftSlotStays ==
  /\ pc = "shift" /\ ents[look] # Free
  /\ IF MayMove(Home(ents[look].key, size), hole, look)
     THEN /\ ents' = [ents EXCEPT ![hole] = ents[look], ![look] = Free]
          /\ hole' = look /\ look' = Succ(look, size)
     ELSE UNCHANGED <<ents, hole, look>>
  /\ UNCHANGED <<size, load, pc, old, at, pend>>

ShiftSlot ==
  /\ pc = "shift" /\ ents[look] # Free
  /\ IF MayMove(Home(ents[look].key, size), hole, look)
     THEN /\ ents' = [ents EXCEPT ![hole] = ents[look], ![look] = Free]
          /\ hole' = look
     ELSE UNCHANGED <<ents, hole>>
  /\ look' = Succ(look, size)
  /\ UNCHANGED <<size, load, pc, old, at, pend>>

ShiftDone ==
  /\ pc = "shift" /\ ents[look] = Free
  /\ load' = load - 1 /\ pc' = "ready" /\ hole' = 0 /\ look' = 0
  /\ UNCHANGED <<size, ents, old, at, pend>>

(* fz_emptyhash.                                                             *)
Empty ==
  /\ pc = "ready"
  /\ load' = 0 /\ ents' = AllFree(size)
  /\ UNCHANGED <<size, pc, hole, look, old, at, pend>>

Next ==
  \/ \E k \in Key : Remove(k) \/ \E v \in Items[k] : Insert(k, v)
  \/ CopySlot \/ CopyDone \/ ShiftSlot \/ ShiftDone \/ Empty

(* The loops run on: nothing in them waits.                                  *)
SafetySpec == Init /\ [][Next]_vars
Spec == SafetySpec /\ WF_vars(CopySlot \/ CopyDone \/ ShiftSlot \/ ShiftDone)
-----------------------------------------------------------------------------
(* PROPERTIES                                                                *)

TypeOK ==
  /\ size \in Nat /\ size >= 6 /\ load \in Int
  /\ ents \in [Slots(size) -> Entry \cup {Free}]
  /\ pc \in {"ready", "shift", "copy"}
  /\ pc = "shift" => hole \in Slots(size) /\ look \in Slots(size)
  /\ pc = "copy" => /\ size = 2 * (size \div 2)
                    /\ old \in [Slots(size \div 2) -> Entry \cup {Free}]
                    /\ at \in 0 .. size \div 2
                    /\ pend \in Entry

(* The header comment of base_hash.c: "removing entries works correctly in   *)
(* this implementation".  No slot between an entry and the place its key     *)
(* hashes to is free, so that a probe which stops at a free slot has not     *)
(* missed it; only the hole being closed may lie there.                      *)
Reachable ==
  \A i \in Slots(size) : ents[i] # Free =>
    \A j \in Slots(size) :
      Passed(Home(ents[i].key, size), j, i) =>
        ents[j] # Free \/ (pc = "shift" /\ j = hole)

(* A key is in one slot only, whichever entries were shifted or copied: the  *)
(* callers rely on one removal removing it.                                  *)
OneSlotPerKey ==
  \A i, j \in Slots(size) :
    ents[i] # Free /\ ents[j] # Free /\ ents[i].key = ents[j].key => i = j

(* The loops of fz_hashfind, fz_hashinsert and fz_hashremove end only at a   *)
(* free slot or at the key: the test of fz_hashinsert always leaves one      *)
(* free, also while a doubled table is being filled, and the insertions      *)
(* fz_resizehash makes never find the new table crowded again.               *)
ProbesEnd ==
  /\ \E p \in Slots(size) : ents[p] = Free
  /\ pc = "copy" => ~Crowded(load, size)

(* fz_hashtable.load counts the entries; doubling is decided from it alone.  *)
LoadIsEntries ==
  load = Cardinality({i \in Slots(size) : ents[i] # Free})
           + (IF pc = "shift" THEN 1 ELSE 0)

(* The table as the map its users see: an entry that waits in the old slots  *)
(* while the table doubles is still entered, the pending one is not yet.     *)
ValuesIn(t, S, k) == {t[i].val : i \in {s \in S : t[s] # Free /\ t[s].key = k}}
Contents(k) ==
  IF pc = "copy"
  THEN ValuesIn(ents, Slots(size), k) \cup ValuesIn(old, at .. size \div 2 - 1, k)
  ELSE ValuesIn(ents, Slots(size), k)
Map == INSTANCE KeyedMap WITH map <- [k \in Key |-> Contents(k)]

(* Whatever is shifted or copied, the table is the map KeyedMap promises:    *)
(* no entry is lost, moved to another key or brought back.                   *)
ImplementsMap == Map!MapSpec

(* Between operations fz_hashfind answers what was entered, for every key.   *)
FindsEntered ==
  pc = "ready" => \A k \in Key : Find(ents, size, k) = Contents(k)

(* Every loop that moves entries ends.                                       *)
LoopsEnd == pc # "ready" ~> pc = "ready"
=============================================================================
