--------------------------- MODULE HashTableProofs ---------------------------
(***************************************************************************)
(* Proofs about HashTable, for every set of keys, hash function and size.  *)
(***************************************************************************)
EXTENDS HashTable, TLAPS, FiniteSetTheorems

(* Cyclic positions.                                                         *)
LEMMA HomeInSlots ==
  ASSUME NEW k \in Key, NEW n \in Nat, n >= 1
  PROVE  Home(k, n) \in Slots(n)
<1>1. Hash[k] \in Nat  BY HashAssumption
<1> QED  BY <1>1, SMTT(30) DEF Home, Slots

LEMMA SuccInSlots ==
  ASSUME NEW n \in Nat, NEW i \in Slots(n)
  PROVE  Succ(i, n) \in Slots(n)
BY DEF Slots, Succ

(* The three cases of the code's test say that the hole lies on the way of   *)
(* the probe from `code` to `l`.                                             *)
LEMMA MayMoveIsPassed ==
  ASSUME NEW code \in Int, NEW h \in Int, NEW l \in Int
  PROVE  MayMove(code, h, l) <=> Passed(code, h, l)
BY DEF MayMove, Passed

LEMMA PassedShorter ==
  ASSUME NEW a \in Int, NEW h \in Int, NEW l \in Int, NEW j \in Int,
         Passed(a, h, l), Passed(a, j, h)
  PROVE  Passed(a, j, l) /\ j # h /\ j # l
BY DEF Passed

LEMMA PassedSucc ==
  ASSUME NEW n \in Nat, NEW h \in Slots(n), NEW l \in Slots(n), NEW j \in Slots(n),
         h # l, Passed(Succ(h, n), j, Succ(l, n))
  PROVE  Passed(Succ(h, n), j, l) \/ j = l
BY DEF Passed, Succ, Slots

LEMMA PassedAround ==
  ASSUME NEW n \in Nat, NEW a \in Slots(n), NEW h \in Slots(n),
         NEW l \in Slots(n), NEW i \in Slots(n),
         Passed(a, h, i), ~Passed(Succ(h, n), i, l), i # l
  PROVE  h # l /\ Passed(a, l, i)
BY DEF Passed, Succ, Slots

-----------------------------------------------------------------------------
(* The inductive invariant.  In the middle of a removal: every slot between  *)
(* the hole and the one looked at is taken, and no entry that was looked at  *)
(* already needs the hole on the way of its probe.                           *)
Closing ==
  pc = "shift" =>
    /\ ents[hole] = Free
    /\ \A j \in Slots(size) : Passed(Succ(hole, size), j, look) => ents[j] # Free
    /\ \A i \in Slots(size) :
         ents[i] # Free /\ Passed(Home(ents[i].key, size), hole, i) =>
           ~Passed(Succ(hole, size), i, look)

(* In the middle of a doubling: the new table, the slots still to be copied  *)
(* and the pending entry have no key in common.                              *)
Copying ==
  pc = "copy" =>
    /\ \A i, j \in at .. size \div 2 - 1 :
         old[i] # Free /\ old[j] # Free /\ old[i].key = old[j].key => i = j
    /\ \A i \in at .. size \div 2 - 1, j \in Slots(size) :
         old[i] # Free /\ ents[j] # Free => old[i].key # ents[j].key
    /\ \A i \in at .. size \div 2 - 1 : old[i] # Free => old[i].key # pend.key
    /\ \A j \in Slots(size) : ents[j] # Free => ents[j].key # pend.key

IInv == TypeOK /\ Reachable /\ OneSlotPerKey /\ Closing /\ Copying

(* fz_hashfind sees every entry of a table that is not being closed.         *)
LEMMA FindSees ==
  ASSUME TypeOK, Reachable, OneSlotPerKey, pc # "shift",
         NEW k \in Key, NEW p \in Slots(size), ents[p] # Free, ents[p].key = k
  PROVE  p \in KeySlot(ents, size, k)
<1> SUFFICES ASSUME NEW j \in Slots(size), Passed(Home(k, size), j, p)
             PROVE  ents[j] # Free /\ ents[j].key # k
  BY DEF KeySlot
<1>1. ents[j] # Free
  BY DEF Reachable
<1>2. j # p
  <2>1. Home(k, size) \in Slots(size)  BY HomeInSlots DEF TypeOK
  <2> QED  BY <2>1 DEF Passed, Slots
<1> QED  BY <1>1, <1>2 DEF OneSlotPerKey

(* Entering an entry whose key is in no slot, where the probe stops.         *)
LEMMA PutKeeps ==
  ASSUME TypeOK, Reachable, OneSlotPerKey, pc # "shift", NEW e \in Entry,
         \A i \in Slots(size) : ents[i] # Free => ents[i].key # e.key,
         PutIn(ents, size, e), size' = size, pc' # "shift"
  PROVE  /\ ents' \in [Slots(size) -> Entry \cup {Free}]
         /\ \A i \in Slots(size) : ents'[i] # Free => ents'[i] = e \/ ents'[i] = ents[i]
         /\ Reachable' /\ OneSlotPerKey'
<1>1. PICK p \in FreeSlot(ents, size, e.key) : ents' = [ents EXCEPT ![p] = e]
  BY DEF PutIn
<1>2. /\ p \in Slots(size) /\ ents[p] = Free
      /\ \A j \in Slots(size) : Passed(Home(e.key, size), j, p) => ents[j] # Free
  BY <1>1 DEF FreeSlot
<1>3. e # Free
  BY FreeAssumption DEF Entry
<1>4. \A i \in Slots(size) : ents'[i] = IF i = p THEN e ELSE ents[i]
  BY <1>1, <1>2 DEF TypeOK
<1>5. ents' \in [Slots(size) -> Entry \cup {Free}]
  BY <1>1, <1>2 DEF TypeOK
<1>6. Reachable'
  BY <1>2, <1>3, <1>4 DEF Reachable
<1>7. OneSlotPerKey'
  BY <1>2, <1>3, <1>4 DEF OneSlotPerKey
<1> QED  BY <1>4, <1>5, <1>6, <1>7

LEMMA InitOK == Init => IInv
<1> SUFFICES ASSUME Init PROVE IInv
  OBVIOUS
<1>1. \A i \in Slots(size) : ents[i] = Free
  BY DEF Init, AllFree
<1>2. TypeOK
  BY SizeAssumption DEF Init, TypeOK, AllFree
<1> QED  BY <1>1, <1>2 DEF Init, IInv, Reachable, OneSlotPerKey, Closing, Copying

LEMMA InsertOK ==
  ASSUME IInv, NEW k \in Key, NEW v \in Items[k], Insert(k, v)
  PROVE  IInv'
<1> DEFINE e == [key |-> k, val |-> v]
<1>1. e \in Entry /\ e.key = k
  BY ItemsAssumption DEF Entry
<1>2. \A i \in Slots(size) : ents[i] # Free => ents[i].key # k
  BY FindSees DEF IInv, Insert, Find
<1>3. pc = "ready"
  BY DEF Insert
<1> HIDE DEF e
<1>4. CASE ~Crowded(load, size) /\ PutIn(ents, size, e) /\ load' = load + 1
             /\ UNCHANGED <<size, pc, old, at, pend>>
  <2>1. /\ ents' \in [Slots(size) -> Entry \cup {Free}]
        /\ Reachable' /\ OneSlotPerKey'
    BY <1>1, <1>2, <1>3, <1>4, PutKeeps DEF IInv
  <2>2. TypeOK'
    BY <1>3, <1>4, <2>1 DEF IInv, TypeOK
  <2> QED  BY <1>3, <1>4, <2>1, <2>2 DEF IInv, Closing, Copying
<1>5. CASE /\ pc' = "copy" /\ old' = ents /\ at' = 0 /\ pend' = e
           /\ size' = 2 * size /\ ents' = AllFree(2 * size) /\ load' = 0
  <2>1. size' \in Nat /\ size' >= 6 /\ size' \div 2 = size
    BY <1>5 DEF IInv, TypeOK
  <2>2. \A i \in Slots(size') : ents'[i] = Free
    BY <1>5 DEF AllFree
  <2>3. ents' \in [Slots(size') -> Entry \cup {Free}]
    BY <1>5 DEF AllFree
  <2>4. TypeOK'
    BY <1>1, <1>5, <2>1, <2>3 DEF IInv, TypeOK
  <2>5. at' .. size' \div 2 - 1 = Slots(size)
    BY <1>5, <2>1 DEF Slots
  <2>6. Copying'
    BY <1>1, <1>2, <1>5, <2>2, <2>5 DEF IInv, OneSlotPerKey, Copying
  <2> QED  BY <1>5, <2>2, <2>4, <2>6 DEF IInv, Reachable, OneSlotPerKey, Closing
<1> QED  BY <1>4, <1>5 DEF Insert, e

LEMMA CopySlotOK == ASSUME IInv, CopySlot PROVE IInv'
<1> DEFINE n == size \div 2
<1>1. /\ pc = "copy" /\ pc' = "copy" /\ size' = size /\ at < n /\ at' = at + 1
      /\ old' = old /\ pend' = pend /\ n \in Nat /\ at \in 0 .. n
  BY DEF CopySlot, IInv, TypeOK
<1>2. at \in at .. n - 1 /\ at \in Slots(n) /\ at' .. n - 1 \subseteq at .. n - 1
      /\ at \notin at' .. n - 1
  BY <1>1 DEF Slots
<1>3. CASE old[at] # Free /\ PutIn(ents, size, old[at]) /\ load' = load + 1
  <2>1. old[at] \in Entry
    BY <1>1, <1>2, <1>3 DEF IInv, TypeOK
  <2>2. \A i \in Slots(size) : ents[i] # Free => ents[i].key # old[at].key
    BY <1>1, <1>2, <1>3 DEF IInv, Copying
  <2>3. /\ ents' \in [Slots(size) -> Entry \cup {Free}]
        /\ \A i \in Slots(size) : ents'[i] # Free => ents'[i] = old[at] \/ ents'[i] = ents[i]
        /\ Reachable' /\ OneSlotPerKey'
    BY <1>1, <1>3, <2>1, <2>2, PutKeeps DEF IInv
  <2>4. TypeOK'
    BY <1>1, <1>3, <2>3 DEF IInv, TypeOK
  <2>5. Copying'
    <3>1. \A i, j \in at' .. n - 1 :
            old[i] # Free /\ old[j] # Free /\ old[i].key = old[j].key => i = j
      BY <1>1, <1>2 DEF IInv, Copying
    <3>2. \A i \in at' .. n - 1, j \in Slots(size) :
            old[i] # Free /\ ents'[j] # Free => old[i].key # ents'[j].key
      BY <1>1, <1>2, <1>3, <2>3 DEF IInv, Copying
    <3>3. \A j \in Slots(size) : ents'[j] # Free => ents'[j].key # pend.key
      BY <1>1, <1>2, <1>3, <2>3 DEF IInv, Copying
    <3>4. \A i \in at' .. n - 1 : old[i] # Free => old[i].key # pend.key
      BY <1>1, <1>2 DEF IInv, Copying
    <3> QED  BY <1>1, <3>1, <3>2, <3>3, <3>4 DEF Copying
  <2> QED  BY <1>1, <2>3, <2>4, <2>5 DEF IInv, Closing
<1>4. CASE UNCHANGED <<ents, load>>
  <2>1. TypeOK'
    BY <1>1, <1>4 DEF IInv, TypeOK
  <2>2. Copying'
    BY <1>1, <1>2, <1>4 DEF IInv, Copying
  <2> QED  BY <1>1, <1>4, <2>1, <2>2 DEF IInv, Reachable, OneSlotPerKey, Closing
<1> QED  BY <1>3, <1>4 DEF CopySlot

LEMMA CopyDoneOK == ASSUME IInv, CopyDone PROVE IInv'
<1>1. /\ pc = "copy" /\ pc' = "ready" /\ size' = size /\ pend \in Entry
      /\ PutIn(ents, size, pend) /\ load' = load + 1
  BY DEF CopyDone, IInv, TypeOK
<1>2. \A i \in Slots(size) : ents[i] # Free => ents[i].key # pend.key
  BY <1>1 DEF IInv, Copying
<1>3. /\ ents' \in [Slots(size) -> Entry \cup {Free}]
      /\ Reachable' /\ OneSlotPerKey'
  BY <1>1, <1>2, PutKeeps DEF IInv
<1>4. TypeOK'
  BY <1>1, <1>3 DEF IInv, TypeOK
<1> QED  BY <1>1, <1>3, <1>4 DEF IInv, Closing, Copying

LEMMA RemoveOK == ASSUME IInv, NEW k \in Key, Remove(k) PROVE IInv'
<1>1. PICK p \in KeySlot(ents, size, k) :
        ents' = [ents EXCEPT ![p] = Free] /\ hole' = p /\ look' = Succ(p, size)
  BY DEF Remove
<1>2. /\ pc = "ready" /\ pc' = "shift" /\ size' = size /\ load' = load
      /\ p \in Slots(size) /\ size \in Nat
  BY <1>1 DEF Remove, KeySlot, IInv, TypeOK
<1>3. \A i \in Slots(size) : ents'[i] = IF i = p THEN Free ELSE ents[i]
  BY <1>1, <1>2 DEF IInv, TypeOK
<1>4. look' \in Slots(size)
  BY <1>1, <1>2, SuccInSlots
<1>5. TypeOK'
  BY <1>1, <1>2, <1>4 DEF IInv, TypeOK
<1>6. Reachable' /\ OneSlotPerKey'
  BY <1>1, <1>2, <1>3 DEF IInv, Reachable, OneSlotPerKey
<1>7. \A i \in Slots(size) : ~Passed(Succ(p, size), i, look')
  BY <1>1, <1>2, <1>4 DEF Passed, Slots
<1>8. Closing'
  BY <1>1, <1>2, <1>3, <1>7 DEF Closing
<1> QED  BY <1>2, <1>5, <1>6, <1>8 DEF IInv, Copying

LEMMA ShiftSlotOK == ASSUME IInv, ShiftSlot PROVE IInv'
<1> DEFINE e == ents[look]
           home(i) == Home(ents[i].key, size)
<1>1. /\ pc = "shift" /\ pc' = "shift" /\ size' = size /\ load' = load
      /\ size \in Nat /\ size >= 6 /\ look' = Succ(look, size)
      /\ hole \in Slots(size) /\ look \in Slots(size)
      /\ e # Free /\ ents[hole] = Free /\ hole # look
  BY DEF ShiftSlot, IInv, TypeOK, Closing
<1>2. look' \in Slots(size)
  BY <1>1, SuccInSlots
<1>3. \A i \in Slots(size) : ents[i] # Free => home(i) \in Slots(size)
  BY <1>1, HomeInSlots DEF IInv, TypeOK, Entry
<1>4. Slots(size) \subseteq Int
  BY DEF Slots
<1>5. MayMove(home(look), hole, look) <=> Passed(home(look), hole, look)
  BY <1>1, <1>3, <1>4, MayMoveIsPassed
<1>6. CASE MayMove(home(look), hole, look)
  <2>1. /\ ents' = [ents EXCEPT ![hole] = e, ![look] = Free]
        /\ hole' = look
    BY <1>6 DEF ShiftSlot
  <2>2. \A i \in Slots(size) : ents'[i] = IF i = look THEN Free
                                          ELSE IF i = hole THEN e ELSE ents[i]
    BY <1>1, <2>1 DEF IInv, TypeOK
  <2>3. TypeOK'
    <3>1. ents' \in [Slots(size) -> Entry \cup {Free}]
      BY <1>1, <2>1 DEF IInv, TypeOK
    <3> QED  BY <1>1, <1>2, <2>1, <3>1 DEF IInv, TypeOK
  <2>4. OneSlotPerKey'
    BY <1>1, <2>2 DEF IInv, OneSlotPerKey
  <2>5. Reachable'
    <3>1. SUFFICES ASSUME NEW i \in Slots(size), ents'[i] # Free, NEW j \in Slots(size),
                          Passed(Home(ents'[i].key, size), j, i), j # look
                   PROVE  ents'[j] # Free
      BY <1>1, <2>1 DEF Reachable
    <3>2. CASE i = hole
      <4>1. Passed(home(look), j, hole)
        BY <1>1, <2>2, <3>1, <3>2
      <4>2. Passed(home(look), j, look) /\ j # hole
        BY <1>1, <1>3, <1>4, <1>5, <1>6, <4>1, PassedShorter
      <4>3. ents[j] # Free
        BY <1>1, <4>2 DEF IInv, Reachable
      <4> QED  BY <2>2, <3>1, <4>2, <4>3
    <3>3. CASE i # hole
      <4>1. ents'[i] = ents[i]
        BY <2>2, <3>1, <3>3
      <4>2. ents[j] # Free \/ j = hole
        BY <3>1, <4>1 DEF IInv, Reachable
      <4> QED  BY <1>1, <2>2, <3>1, <4>2
    <3> QED  BY <3>2, <3>3
  <2>6. \A i \in Slots(size) : ~Passed(Succ(look, size), i, Succ(look, size))
    BY <1>1, <1>2, <1>4 DEF Passed
  <2>7. Closing'
    BY <1>1, <2>1, <2>2, <2>6 DEF Closing
  <2> QED  BY <1>1, <2>3, <2>4, <2>5, <2>7 DEF IInv, Copying
<1>7. CASE ~MayMove(home(look), hole, look)
  <2>1. ents' = ents /\ hole' = hole
    BY <1>7 DEF ShiftSlot
  <2>2. TypeOK'
    BY <1>1, <1>2, <2>1 DEF IInv, TypeOK
  <2>3. Reachable' /\ OneSlotPerKey'
    BY <1>1, <2>1 DEF IInv, Reachable, OneSlotPerKey
  <2>4. \A j \in Slots(size) : Passed(Succ(hole, size), j, look') =>
          Passed(Succ(hole, size), j, look) \/ j = look
    BY <1>1, PassedSucc
  <2>5. Closing'
    <3>1. \A j \in Slots(size) : Passed(Succ(hole, size), j, look') => ents[j] # Free
      BY <1>1, <2>4 DEF IInv, Closing
    <3>2. \A i \in Slots(size) : ents[i] # Free /\ Passed(home(i), hole, i) =>
            ~Passed(Succ(hole, size), i, look')
      BY <1>1, <1>5, <1>7, <2>4 DEF IInv, Closing
    <3> QED  BY <1>1, <2>1, <3>1, <3>2 DEF Closing
  <2> QED  BY <1>1, <2>2, <2>3, <2>5 DEF IInv, Copying
<1> QED  BY <1>6, <1>7

LEMMA ShiftDoneOK == ASSUME IInv, ShiftDone PROVE IInv'
<1>1. /\ pc = "shift" /\ pc' = "ready" /\ size' = size /\ load' = load - 1
      /\ ents' = ents /\ size \in Nat /\ size >= 6
      /\ hole \in Slots(size) /\ look \in Slots(size)
      /\ ents[hole] = Free /\ ents[look] = Free
  BY DEF ShiftDone, IInv, TypeOK, Closing
<1>2. Reachable'
  <2>1. SUFFICES ASSUME NEW i \in Slots(size), ents[i] # Free, NEW j \in Slots(size),
                        Passed(Home(ents[i].key, size), j, i), ents[j] = Free
                 PROVE  FALSE
    BY <1>1 DEF Reachable
  <2>2. j = hole
    BY <2>1 DEF IInv, Reachable
  <2>3. Home(ents[i].key, size) \in Slots(size)
    BY <1>1, <2>1, HomeInSlots DEF IInv, TypeOK, Entry
  <2>4. ~Passed(Succ(hole, size), i, look) /\ i # look
    BY <1>1, <2>1, <2>2 DEF IInv, Closing
  <2>5. hole # look /\ Passed(Home(ents[i].key, size), look, i)
    BY <1>1, <2>1, <2>2, <2>3, <2>4, PassedAround
  <2> QED  BY <1>1, <2>1, <2>5 DEF IInv, Reachable
<1>3. TypeOK'
  BY <1>1 DEF IInv, TypeOK
<1> QED  BY <1>1, <1>2, <1>3 DEF IInv, OneSlotPerKey, Closing, Copying

LEMMA EmptyOK == ASSUME IInv, Empty PROVE IInv'
<1>1. \A i \in Slots(size) : ents'[i] = Free
  BY DEF Empty, AllFree
<1>2. TypeOK'
  BY DEF Empty, AllFree, IInv, TypeOK
<1> QED  BY <1>1, <1>2 DEF Empty, IInv, Reachable, OneSlotPerKey, Closing, Copying

(* After any sequence of insertions and removals every entry is found: no    *)
(* probe for it meets a free slot first, and it is in one slot only.         *)
THEOREM ProbeInvariant == SafetySpec => []IInv
<1>1. Init => IInv
  BY InitOK
<1>2. IInv /\ [Next]_vars => IInv'
  <2> SUFFICES ASSUME IInv, [Next]_vars PROVE IInv'
    OBVIOUS
  <2>1. CASE UNCHANGED vars
    BY <2>1 DEF vars, IInv, TypeOK, Reachable, OneSlotPerKey, Closing, Copying
  <2> QED  BY <2>1, InsertOK, RemoveOK, CopySlotOK, CopyDoneOK, ShiftSlotOK,
              ShiftDoneOK, EmptyOK DEF Next
<1> QED  BY <1>1, <1>2, PTL DEF SafetySpec

(* The slots hold entries or are free, and the indices of the two loops stay *)
(* inside the table, for every size of six slots and more.                   *)
THEOREM HashTableType == SafetySpec => []TypeOK
BY ProbeInvariant, PTL DEF IInv

(* The same stated alone: this is what makes the probes of fz_hashfind right *)
(* after the shifts of fz_hashremove and the copies of fz_resizehash.        *)
THEOREM HashTableReachable == SafetySpec => [](Reachable /\ OneSlotPerKey)
BY ProbeInvariant, PTL DEF IInv

-----------------------------------------------------------------------------
(* The load.                                                                 *)
Taken(t, n) == {i \in Slots(n) : t[i] # Free}

(* The load stays near eight tenths of the table, and a table being filled   *)
(* holds no more than the slots already copied.                              *)
LoadBounded ==
  /\ IsFiniteSet(Taken(ents, size))
  /\ LoadIsEntries
  /\ pc \in {"ready", "shift"} => load <= (size * 8) \div 10 + 1
  /\ pc = "copy" => load <= at

LEMMA TakenFinite ==
  ASSUME NEW n \in Nat, NEW t
  PROVE  IsFiniteSet(Taken(t, n)) /\ Cardinality(Taken(t, n)) \in Nat
<1>1. IsFiniteSet(Slots(n))
  BY FS_Interval DEF Slots
<1>2. IsFiniteSet(Taken(t, n))
  BY <1>1, FS_Subset DEF Taken
<1> QED  BY <1>2, FS_CardinalityType

LEMMA PutCounts ==
  ASSUME TypeOK, NEW e \in Entry, PutIn(ents, size, e), size' = size
  PROVE  Cardinality(Taken(ents', size')) = Cardinality(Taken(ents, size)) + 1
<1>1. PICK p \in Slots(size) : ents[p] = Free /\ ents' = [ents EXCEPT ![p] = e]
  BY DEF PutIn, FreeSlot
<1>2. e # Free
  BY FreeAssumption DEF Entry
<1>3. Taken(ents', size') = Taken(ents, size) \cup {p} /\ p \notin Taken(ents, size)
  BY <1>1, <1>2 DEF Taken, TypeOK
<1>4. IsFiniteSet(Taken(ents, size)) /\ Cardinality(Taken(ents, size)) \in Nat
  BY TakenFinite DEF TypeOK
<1> QED  BY <1>3, <1>4, FS_AddElement

LEMMA AllFreeCounts ==
  ASSUME NEW n \in Nat
  PROVE  Cardinality(Taken(AllFree(n), n)) = 0
<1>1. Taken(AllFree(n), n) = {}
  BY DEF Taken, AllFree
<1> QED  BY <1>1, FS_EmptySet

LEMMA LoadInit == Init => LoadBounded
<1> SUFFICES ASSUME Init PROVE LoadBounded
  OBVIOUS
<1>1. size \in Nat /\ size >= 6 /\ pc = "ready" /\ load = 0 /\ ents = AllFree(size)
  BY SizeAssumption DEF Init
<1>2. Cardinality(Taken(ents, size)) = 0 /\ IsFiniteSet(Taken(ents, size))
  BY <1>1, AllFreeCounts, TakenFinite
<1> QED  BY <1>1, <1>2 DEF LoadBounded, LoadIsEntries, Taken

LEMMA LoadStep ==
  ASSUME IInv, IInv', LoadBounded, [Next]_vars
  PROVE  LoadBounded'
<1>1. IsFiniteSet(Taken(ents, size)') /\ Cardinality(Taken(ents, size)') \in Nat
      /\ Cardinality(Taken(ents, size)) \in Nat
  BY TakenFinite DEF IInv, TypeOK
<1>2. load = Cardinality(Taken(ents, size)) + (IF pc = "shift" THEN 1 ELSE 0)
  BY DEF LoadBounded, LoadIsEntries, Taken
<1> DEFINE Kept ==
             /\ load' = Cardinality(Taken(ents', size')) + (IF pc' = "shift" THEN 1 ELSE 0)
             /\ pc' \in {"ready", "shift"} => load' <= (size' * 8) \div 10 + 1
             /\ pc' = "copy" => load' <= at'
<1>3. SUFFICES Kept
  BY <1>1 DEF LoadBounded, LoadIsEntries, Taken
<1>4. size \in Nat /\ size >= 6 /\ load \in Int
  BY DEF IInv, TypeOK
<1>5. CASE UNCHANGED vars
  BY <1>2, <1>5 DEF vars, LoadBounded
<1>6. ASSUME NEW k \in Key, NEW v \in Items[k], Insert(k, v)
      PROVE  Kept
  <2>1. [key |-> k, val |-> v] \in Entry
    BY ItemsAssumption DEF Entry
  <2>2. CASE /\ ~Crowded(load, size) /\ PutIn(ents, size, [key |-> k, val |-> v])
             /\ load' = load + 1 /\ UNCHANGED <<size, pc, old, at, pend>>
    <3>1. Cardinality(Taken(ents', size')) = Cardinality(Taken(ents, size)) + 1
      BY <2>1, <2>2, PutCounts DEF IInv
    <3>2. load <= (size * 8) \div 10
      BY <2>2, <1>4 DEF Crowded
    <3> QED  BY <1>1, <1>2, <1>4, <1>6, <2>2, <3>1, <3>2 DEF Insert
  <2>3. CASE /\ size' = 2 * size /\ ents' = AllFree(2 * size) /\ load' = 0
             /\ pc' = "copy" /\ at' = 0
    BY <1>4, <2>3, AllFreeCounts
  <2> QED  BY <1>6, <2>2, <2>3 DEF Insert
<1>7. ASSUME NEW k \in Key, Remove(k)
      PROVE  Kept
  <2>1. PICK p \in Slots(size) : ents[p] # Free /\ ents' = [ents EXCEPT ![p] = Free]
    BY <1>7 DEF Remove, KeySlot
  <2>2. Taken(ents', size) = Taken(ents, size) \ {p} /\ p \in Taken(ents, size)
    BY <2>1 DEF Taken, IInv, TypeOK
  <2>3. Cardinality(Taken(ents', size)) = Cardinality(Taken(ents, size)) - 1
    BY <2>2, FS_RemoveElement DEF LoadBounded
  <2> QED  BY <1>1, <1>2, <1>4, <1>7, <2>3 DEF Remove, LoadBounded
<1>8. ASSUME CopySlot
      PROVE  Kept
  <2>1. at \in Slots(size \div 2) /\ pc = "copy" /\ pc' = "copy" /\ at' = at + 1 /\ size' = size
        /\ old \in [Slots(size \div 2) -> Entry \cup {Free}] /\ at \in Int
    BY <1>8 DEF CopySlot, IInv, TypeOK, Slots
  <2>2. CASE old[at] # Free /\ PutIn(ents, size, old[at]) /\ load' = load + 1
    <3>1. old[at] \in Entry
      BY <2>1, <2>2
    <3>2. Cardinality(Taken(ents', size')) = Cardinality(Taken(ents, size)) + 1
      BY <2>1, <2>2, <3>1, PutCounts DEF IInv
    <3> QED  BY <1>1, <1>2, <1>4, <2>1, <2>2, <3>2 DEF LoadBounded
  <2>3. CASE UNCHANGED <<ents, load>>
    BY <1>2, <1>4, <2>1, <2>3 DEF LoadBounded
  <2> QED  BY <1>8, <2>2, <2>3 DEF CopySlot
<1>9. ASSUME CopyDone
      PROVE  Kept
  <2>1. /\ pc = "copy" /\ pc' = "ready" /\ at = size \div 2 /\ size' = size
        /\ PutIn(ents, size, pend) /\ pend \in Entry /\ load' = load + 1
    BY <1>9 DEF CopyDone, IInv, TypeOK
  <2>2. Cardinality(Taken(ents', size')) = Cardinality(Taken(ents, size)) + 1
    BY <2>1, PutCounts DEF IInv
  <2>3. load <= size \div 2 /\ size \div 2 <= (size * 8) \div 10
    BY <1>4, <2>1 DEF LoadBounded
  <2> QED  BY <1>1, <1>2, <1>4, <2>1, <2>2, <2>3
<1>10. ASSUME ShiftSlot
       PROVE  Kept
  <2>1. /\ pc = "shift" /\ pc' = "shift" /\ size' = size /\ load' = load
        /\ hole \in Slots(size) /\ look \in Slots(size)
        /\ ents[hole] = Free /\ ents[look] # Free
    BY <1>10 DEF ShiftSlot, IInv, TypeOK, Closing
  <2>2. CASE ents' = [ents EXCEPT ![hole] = ents[look], ![look] = Free]
    <3>1. Taken(ents', size) = (Taken(ents, size) \ {look}) \cup {hole}
      BY <2>1, <2>2 DEF Taken, IInv, TypeOK
    <3>2. look \in Taken(ents, size) /\ hole \notin Taken(ents, size) \ {look}
      BY <2>1 DEF Taken
    <3>3. /\ IsFiniteSet(Taken(ents, size) \ {look})
          /\ Cardinality(Taken(ents, size) \ {look}) = Cardinality(Taken(ents, size)) - 1
      BY <3>2, FS_RemoveElement DEF LoadBounded
    <3>4. Cardinality(Taken(ents', size)) = Cardinality(Taken(ents, size))
      BY <1>1, <3>1, <3>2, <3>3, FS_AddElement
    <3> QED  BY <1>2, <2>1, <3>4 DEF LoadBounded
  <2>3. CASE ents' = ents
    BY <1>2, <2>1, <2>3 DEF LoadBounded
  <2> QED  BY <1>10, <2>2, <2>3 DEF ShiftSlot
<1>11. ASSUME ShiftDone
       PROVE  Kept
  BY <1>1, <1>2, <1>4, <1>11 DEF ShiftDone, LoadBounded
<1>12. ASSUME Empty
       PROVE  Kept
  BY <1>4, <1>12, AllFreeCounts DEF Empty
<1> QED  BY <1>5, <1>6, <1>7, <1>8, <1>9, <1>10, <1>11, <1>12 DEF Next

(* A bounded load leaves a slot free.                                        *)
LEMMA LoadLeavesRoom == IInv /\ LoadBounded => ProbesEnd
<1> SUFFICES ASSUME IInv, LoadBounded PROVE ProbesEnd
  OBVIOUS
<1>1. size \in Nat /\ size >= 6 /\ load \in Int
  BY DEF IInv, TypeOK
<1>2. load < size /\ (pc = "copy" => load <= size \div 2)
  BY <1>1 DEF LoadBounded, IInv, TypeOK
<1>3. Cardinality(Taken(ents, size)) < size
  <2>1. Cardinality(Taken(ents, size)) \in Nat
    BY <1>1, TakenFinite
  <2> QED  BY <1>1, <1>2, <2>1 DEF LoadBounded, LoadIsEntries, Taken
<1>4. Cardinality(Slots(size)) = size
  BY <1>1, FS_Interval DEF Slots
<1>5. Taken(ents, size) # Slots(size)
  BY <1>1, <1>3, <1>4
<1>6. \E p \in Slots(size) : ents[p] = Free
  BY <1>5 DEF Taken
<1>7. pc = "copy" => ~Crowded(load, size)
  BY <1>1, <1>2 DEF Crowded
<1> QED  BY <1>6, <1>7 DEF ProbesEnd

(* The loops of the probes end for every size of six slots and more: a slot  *)
(* is always free, and the load that decides on doubling counts the entries. *)
THEOREM HashTableRoom == SafetySpec => [](ProbesEnd /\ LoadIsEntries)
<1>1. Init => LoadBounded
  BY LoadInit
<1>2. IInv /\ IInv' /\ LoadBounded /\ [Next]_vars => LoadBounded'
  BY LoadStep
<1>3. IInv /\ LoadBounded => ProbesEnd /\ LoadIsEntries
  BY LoadLeavesRoom DEF LoadBounded
<1> QED  BY <1>1, <1>2, <1>3, ProbeInvariant, PTL DEF SafetySpec

-----------------------------------------------------------------------------
(* The table implements the map.                                             *)
LEMMA FindIsContents == IInv => FindsEntered
<1> SUFFICES ASSUME IInv, pc = "ready", NEW k \in Key
             PROVE  Find(ents, size, k) = Contents(k)
  BY DEF FindsEntered
<1>1. \A p \in Slots(size) : ents[p] # Free /\ ents[p].key = k
                               => p \in KeySlot(ents, size, k)
  BY FindSees DEF IInv
<1>2. KeySlot(ents, size, k) = {s \in Slots(size) : ents[s] # Free /\ ents[s].key = k}
  BY <1>1 DEF KeySlot
<1> QED  BY <1>2 DEF Find, Contents, ValuesIn

(* A loop's step does not change what the table contains.                    *)
LEMMA PutContents ==
  ASSUME TypeOK, NEW e \in Entry, PutIn(ents, size, e), NEW k \in Key
  PROVE  ValuesIn(ents', Slots(size), k) =
           ValuesIn(ents, Slots(size), k) \cup (IF e.key = k THEN {e.val} ELSE {})
<1>1. PICK p \in Slots(size) : ents[p] = Free /\ ents' = [ents EXCEPT ![p] = e]
  BY DEF PutIn, FreeSlot
<1>2. e # Free
  BY FreeAssumption DEF Entry
<1>3. \A i \in Slots(size) : ents'[i] = IF i = p THEN e ELSE ents[i]
  BY <1>1 DEF TypeOK
<1>4. ASSUME NEW v
      PROVE  v \in ValuesIn(ents', Slots(size), k) <=>
               \/ v \in ValuesIn(ents, Slots(size), k)
               \/ e.key = k /\ v = e.val
  <2>1. v \in ValuesIn(ents', Slots(size), k) <=>
          \E i \in Slots(size) : ents'[i] # Free /\ ents'[i].key = k /\ v = ents'[i].val
    BY DEF ValuesIn
  <2>2. v \in ValuesIn(ents, Slots(size), k) <=>
          \E i \in Slots(size) : ents[i] # Free /\ ents[i].key = k /\ v = ents[i].val
    BY DEF ValuesIn
  <2>3. (\E i \in Slots(size) : ents'[i] # Free /\ ents'[i].key = k /\ v = ents'[i].val)
          <=> \/ \E i \in Slots(size) : ents[i] # Free /\ ents[i].key = k /\ v = ents[i].val
              \/ e.key = k /\ v = e.val
    BY <1>1, <1>2, <1>3
  <2> QED  BY <2>1, <2>2, <2>3
<1> QED  BY <1>4

LEMMA ShiftContents ==
  ASSUME IInv, ShiftSlot, NEW k \in Key
  PROVE  ValuesIn(ents', Slots(size), k) = ValuesIn(ents, Slots(size), k)
<1>1. CASE ents' = ents
  BY <1>1
<1>2. CASE ents' = [ents EXCEPT ![hole] = ents[look], ![look] = Free]
  <2>1. /\ hole \in Slots(size) /\ look \in Slots(size)
        /\ ents[hole] = Free /\ ents[look] # Free /\ hole # look
    BY DEF ShiftSlot, IInv, TypeOK, Closing
  <2>2. \A i \in Slots(size) : ents'[i] = IF i = look THEN Free
                                          ELSE IF i = hole THEN ents[look] ELSE ents[i]
    BY <1>2, <2>1 DEF IInv, TypeOK
  <2>3. ASSUME NEW v
        PROVE  v \in ValuesIn(ents', Slots(size), k) <=> v \in ValuesIn(ents, Slots(size), k)
    <3>1. v \in ValuesIn(ents', Slots(size), k) <=>
            \E i \in Slots(size) : ents'[i] # Free /\ ents'[i].key = k /\ v = ents'[i].val
      BY DEF ValuesIn
    <3>2. v \in ValuesIn(ents, Slots(size), k) <=>
            \E i \in Slots(size) : ents[i] # Free /\ ents[i].key = k /\ v = ents[i].val
      BY DEF ValuesIn
    <3>3. (\E i \in Slots(size) : ents'[i] # Free /\ ents'[i].key = k /\ v = ents'[i].val)
            <=> \E i \in Slots(size) : ents[i] # Free /\ ents[i].key = k /\ v = ents[i].val
      BY <2>1, <2>2
    <3> QED  BY <3>1, <3>2, <3>3
  <2> QED  BY <2>3
<1> QED  BY <1>1, <1>2 DEF ShiftSlot

(* What is left to copy, without the slot just copied.                       *)
LEMMA CopyContents ==
  ASSUME IInv, pc = "copy", at < size \div 2, NEW k \in Key
  PROVE  ValuesIn(old, at .. size \div 2 - 1, k) =
           ValuesIn(old, at + 1 .. size \div 2 - 1, k)
             \cup (IF old[at] # Free /\ old[at].key = k THEN {old[at].val} ELSE {})
<1>1. at .. size \div 2 - 1 = {at} \cup (at + 1 .. size \div 2 - 1)
  BY DEF IInv, TypeOK
<1> QED  BY <1>1 DEF ValuesIn

LEMMA ContentsStep ==
  ASSUME IInv, IInv', [Next]_vars
  PROVE  [Map!MapNext]_([k \in Key |-> Contents(k)])
<1> DEFINE map == [k \in Key |-> Contents(k)]
<1>1. SUFFICES \/ map' = map
               \/ \E k \in Key, v \in Val : map[k] = {} /\ map' = [map EXCEPT ![k] = {v}]
               \/ \E k \in Key : map[k] # {} /\ map' = [map EXCEPT ![k] = {}]
               \/ map' = [k \in Key |-> {}]
  BY DEF Map!MapNext, Map!Enter, Map!Drop, Map!Clear
<1> HIDE DEF map
<1>2. CASE UNCHANGED vars
  BY <1>2 DEF vars, map, Contents
<1>3. ASSUME NEW k \in Key, NEW v \in Items[k], Insert(k, v)
      PROVE  map' = map \/ (map[k] = {} /\ map' = [map EXCEPT ![k] = {v}])
  <2> DEFINE e == [key |-> k, val |-> v]
  <2>1. pc = "ready" /\ Find(ents, size, k) = {}
    BY <1>3 DEF Insert
  <2>2. map[k] = {}
    BY <2>1, FindIsContents DEF FindsEntered, map
  <2>3. e \in Entry
    BY ItemsAssumption DEF Entry
  <2>4. CASE PutIn(ents, size, e) /\ UNCHANGED <<size, pc, old, at, pend>>
    <3>1. \A q \in Key : Contents(q)' = Contents(q) \cup (IF e.key = q THEN {e.val} ELSE {})
      BY <2>1, <2>3, <2>4, PutContents DEF Contents, IInv
    <3>2. \A q \in Key : map'[q] = IF q = k THEN {v} ELSE map[q]
      BY <2>2, <3>1 DEF map
    <3> QED  BY <2>2, <3>2 DEF map
  <2>5. CASE /\ size' = 2 * size /\ ents' = AllFree(2 * size)
             /\ pc' = "copy" /\ old' = ents /\ at' = 0
    <3>1. size' \div 2 = size /\ at' .. size' \div 2 - 1 = Slots(size)
      BY <2>5 DEF IInv, TypeOK, Slots
    <3>2. \A q \in Key : ValuesIn(ents', Slots(size'), q) = {}
      BY <2>5 DEF ValuesIn, AllFree
    <3>3. \A q \in Key : Contents(q)' = Contents(q)
      BY <2>1, <2>5, <3>1, <3>2 DEF Contents
    <3> QED  BY <3>3 DEF map
  <2> QED  BY <1>3, <2>4, <2>5 DEF Insert
<1>4. ASSUME NEW k \in Key, Remove(k)
      PROVE  map[k] # {} /\ map' = [map EXCEPT ![k] = {}]
  <2>1. PICK p \in KeySlot(ents, size, k) : ents' = [ents EXCEPT ![p] = Free]
    BY <1>4 DEF Remove
  <2>2. /\ pc = "ready" /\ pc' = "shift" /\ size' = size /\ p \in Slots(size)
        /\ ents[p] # Free /\ ents[p].key = k
    BY <1>4, <2>1 DEF Remove, KeySlot
  <2>3. \A i \in Slots(size) : ents'[i] = IF i = p THEN Free ELSE ents[i]
    BY <2>1, <2>2 DEF IInv, TypeOK
  <2>4. \A i \in Slots(size) : ents[i] # Free /\ ents[i].key = k => i = p
    BY <2>2 DEF IInv, OneSlotPerKey
  <2>5. \A q \in Key : ValuesIn(ents', Slots(size), q) =
                         IF q = k THEN {} ELSE ValuesIn(ents, Slots(size), q)
    <3>1. ValuesIn(ents', Slots(size), k) = {}
      BY <2>3, <2>4 DEF ValuesIn
    <3>2. ASSUME NEW q \in Key, q # k
          PROVE  ValuesIn(ents', Slots(size), q) = ValuesIn(ents, Slots(size), q)
      <4>1. {s \in Slots(size) : ents'[s] # Free /\ ents'[s].key = q} =
              {s \in Slots(size) : ents[s] # Free /\ ents[s].key = q}
        BY <2>2, <2>3, <3>2
      <4>2. \A s \in Slots(size) : ents'[s] # Free => ents'[s] = ents[s]
        BY <2>3
      <4> QED  BY <4>1, <4>2 DEF ValuesIn
    <3> QED  BY <3>1, <3>2
  <2>6. ents[p].val \in ValuesIn(ents, Slots(size), k)
    BY <2>2 DEF ValuesIn
  <2>7. \A q \in Key : map'[q] = IF q = k THEN {} ELSE map[q]
    BY <2>2, <2>5 DEF map, Contents
  <2> QED  BY <2>2, <2>6, <2>7 DEF map, Contents
<1>5. ASSUME CopySlot
      PROVE  map' = map
  <2>1. /\ pc = "copy" /\ pc' = "copy" /\ size' = size /\ old' = old
        /\ at' = at + 1 /\ at < size \div 2
    BY <1>5 DEF CopySlot
  <2>2. CASE old[at] # Free /\ PutIn(ents, size, old[at])
    <3>1. old[at] \in Entry
      BY <2>1, <2>2 DEF IInv, TypeOK, Slots
    <3>2. \A q \in Key : ValuesIn(ents', Slots(size), q) =
            ValuesIn(ents, Slots(size), q) \cup (IF old[at].key = q THEN {old[at].val} ELSE {})
      BY <2>2, <3>1, PutContents DEF IInv
    <3>3. \A q \in Key : Contents(q)' = Contents(q)
      BY <2>1, <2>2, <3>2, CopyContents DEF Contents
    <3> QED  BY <3>3 DEF map
  <2>3. CASE old[at] = Free /\ UNCHANGED ents
    <3>1. \A q \in Key : Contents(q)' = Contents(q)
      BY <2>1, <2>3, CopyContents DEF Contents
    <3> QED  BY <3>1 DEF map
  <2> QED  BY <1>5, <2>2, <2>3 DEF CopySlot
<1>6. ASSUME CopyDone
      PROVE  /\ pend.key \in Key /\ pend.val \in Val /\ map[pend.key] = {}
             /\ map' = [map EXCEPT ![pend.key] = {pend.val}]
  <2>1. /\ pc = "copy" /\ pc' = "ready" /\ size' = size /\ at = size \div 2
        /\ PutIn(ents, size, pend) /\ pend \in Entry
    BY <1>6 DEF CopyDone, IInv, TypeOK
  <2>2. \A q \in Key : ValuesIn(old, at .. size \div 2 - 1, q) = {}
    BY <2>1 DEF ValuesIn, IInv, TypeOK
  <2>3. Contents(pend.key) = {}
    BY <2>1, <2>2 DEF Contents, ValuesIn, IInv, Copying
  <2>4. \A q \in Key : Contents(q)' =
                         Contents(q) \cup (IF pend.key = q THEN {pend.val} ELSE {})
    BY <2>1, <2>2, PutContents DEF Contents, IInv
  <2>5. pend.key \in Key /\ pend.val \in Val
    BY <2>1 DEF Entry
  <2>6. \A q \in Key : map'[q] = IF q = pend.key THEN {pend.val} ELSE map[q]
    BY <2>3, <2>4 DEF map
  <2> QED  BY <2>3, <2>5, <2>6 DEF map
<1>7. ASSUME ShiftSlot
      PROVE  map' = map
  <2>1. \A q \in Key : Contents(q)' = Contents(q)
    BY <1>7, ShiftContents DEF ShiftSlot, Contents
  <2> QED  BY <2>1 DEF map
<1>8. ASSUME ShiftDone
      PROVE  map' = map
  <2>1. \A q \in Key : Contents(q)' = Contents(q)
    BY <1>8 DEF ShiftDone, Contents
  <2> QED  BY <2>1 DEF map
<1>9. ASSUME Empty
      PROVE  map' = [k \in Key |-> {}]
  <2>1. \A q \in Key : Contents(q)' = {}
    BY <1>9 DEF Empty, Contents, ValuesIn, AllFree
  <2> QED  BY <2>1 DEF map
<1> QED
  <2>1. CASE \E k \in Key : \E v \in Items[k] : Insert(k, v)
    BY <1>3, <2>1, ItemsAssumption
  <2>2. CASE CopyDone
    BY <1>6, <2>2
  <2> QED  BY <1>2, <1>4, <1>5, <1>7, <1>8, <1>9, <2>1, <2>2 DEF Next

(* fz_hashfind answers what was entered, for every hash function and size.   *)
THEOREM HashTableFinds == SafetySpec => []FindsEntered
BY ProbeInvariant, FindIsContents, PTL

(* The table with its shifts and copies is the map KeyedMap promises, for    *)
(* every hash function and size.                                             *)
THEOREM HashTableImplementsMap == SafetySpec => ImplementsMap
<1>1. Init => Map!MapInit
  BY DEF Init, Map!MapInit, Contents, ValuesIn, AllFree
<1>2. IInv /\ IInv' /\ [Next]_vars => [Map!MapNext]_([k \in Key |-> Contents(k)])
  BY ContentsStep
<1> QED
  BY <1>1, <1>2, ProbeInvariant, PTL DEF SafetySpec, ImplementsMap, Map!MapSpec
=============================================================================
