--------------------------- MODULE ImageCacheProofs ---------------------------
(***************************************************************************)
(* Theorems about ImageCache for any addresses, views, limits and number   *)
(* of threads: its types, that the stores' maps and orders agree, and what *)
(* clear() leaves behind: nothing else makes the main thread throw, and    *)
(* the next click replaces what it left on the screen.                     *)
(***************************************************************************)
EXTENDS ImageCache, TLAPS, SequenceTheorems

-----------------------------------------------------------------------------
(* The operators of ImageMemory. *)

LEMMA NonePic == None \notin Pic
  BY MemoryAssumption DEF Pic

LEMMA EmptyMemoryOK == EmptyMemory \in Memory /\ StoreAgrees(EmptyMemory)
  <1>1. Nothing \in [Url -> Pic \cup {None}] /\ <<>> \in Seq(Url) /\ Len(<<>>) = 0
    BY DEF Nothing
  <1>2. Agrees(<<>>, Nothing)
    BY <1>1, MemoryAssumption DEF Agrees, Nothing
  <1> QED BY <1>1, <1>2 DEF EmptyMemory, Memory, StoreAgrees

LEMMA ConfiguredOK ==
  ASSUME NEW m \in Memory, NEW style \in Style, StoreAgrees(m)
  PROVE  Configured(style, m) \in Memory /\ StoreAgrees(Configured(style, m))
  <1>1. CASE style = "LRU"
    <2> DEFINE n == Configured(style, m)
    <2>1. n = [m EXCEPT !.lruMap = Nothing, !.lruOrder = <<>>]
      BY <1>1 DEF Configured
    <2>2. /\ n.imageMap = m.imageMap /\ n.fifoList = m.fifoList
          /\ n.lruMap = Nothing /\ n.lruOrder = <<>>
      BY <2>1 DEF Memory
    <2>3. Nothing = EmptyMemory.lruMap /\ <<>> = EmptyMemory.lruOrder
      BY DEF EmptyMemory
    <2>4. n \in Memory
      BY <2>1, EmptyMemoryOK, <2>3 DEF Memory
    <2>5. StoreAgrees(n)
      BY <2>2, <2>3, EmptyMemoryOK DEF StoreAgrees
    <2> QED BY <2>4, <2>5
  <1>2. CASE style # "LRU"
    BY <1>2 DEF Configured
  <1> QED BY <1>1, <1>2

\* Moving an element to the end of a sequence without repetitions permutes it.
LEMMA MoveToEndOK ==
  ASSUME NEW s \in Seq(Url), NEW k \in 1..Len(s)
  PROVE  /\ MoveToEnd(s, k) \in Seq(Url)
         /\ Len(MoveToEnd(s, k)) = Len(s)
         /\ \A i \in 1..Len(s) :
               MoveToEnd(s, k)[i] = IF i < k THEN s[i]
                                    ELSE IF i < Len(s) THEN s[i + 1] ELSE s[k]
  <1>1. Len(s) \in Nat /\ \A i \in 1..Len(s) : s[i] \in Url
    OBVIOUS
  <1>2. MoveToEnd(s, k) \in [1..Len(s) -> Url]
    BY <1>1 DEF MoveToEnd
  <1>3. MoveToEnd(s, k) \in Seq(Url) /\ Len(MoveToEnd(s, k)) = Len(s)
    BY <1>1, <1>2, IsASeq, LenProperties
  <1> QED BY <1>3 DEF MoveToEnd

LEMMA MoveToEndAgrees ==
  ASSUME NEW s \in Seq(Url), NEW k \in 1..Len(s), NEW map, Agrees(s, map)
  PROVE  Agrees(MoveToEnd(s, k), map)
  <1> DEFINE r == MoveToEnd(s, k)
  <1> HIDE DEF r
  <1>0. Len(s) \in Nat /\ k \in Nat /\ k >= 1 /\ k <= Len(s)
    OBVIOUS
  <1>1. /\ Len(r) = Len(s)
        /\ \A i \in 1..Len(s) : r[i] = IF i < k THEN s[i]
                                       ELSE IF i < Len(s) THEN s[i + 1] ELSE s[k]
    BY MoveToEndOK DEF r
  <1>2. \A i, j \in 1..Len(s) : r[i] = r[j] => i = j
    <2> DEFINE from(i) == IF i < k THEN i ELSE IF i < Len(s) THEN i + 1 ELSE k
    <2>1. \A i \in 1..Len(s) : from(i) \in 1..Len(s) /\ r[i] = s[from(i)]
      BY <1>0, <1>1
    <2>2. \A i, j \in 1..Len(s) : from(i) = from(j) => i = j
      BY <1>0
    <2> HIDE DEF from
    <2>3. \A i, j \in 1..Len(s) : s[i] = s[j] => i = j
      BY DEF Agrees
    <2> QED BY <2>1, <2>2, <2>3
  <1>3. \A i \in 1..Len(s) : map[r[i]] # None
    BY <1>0, <1>1 DEF Agrees
  <1>4. ASSUME NEW u \in Url, map[u] # None
        PROVE  \E i \in 1..Len(s) : r[i] = u
    <2>1. PICK j \in 1..Len(s) : s[j] = u
      BY <1>4 DEF Agrees
    <2>2. CASE j < k
      BY <2>1, <2>2, <1>0, <1>1
    <2>3. CASE j = k
      BY <2>1, <2>3, <1>0, <1>1
    <2>4. CASE j > k
      <3>1. j - 1 \in 1..Len(s) /\ ~(j - 1 < k) /\ j - 1 < Len(s) /\ (j - 1) + 1 = j
        BY <2>4, <1>0
      <3> QED BY <2>1, <3>1, <1>1
    <2> QED BY <2>2, <2>3, <2>4, <1>0
  <1> QED BY <1>1, <1>2, <1>3, <1>4 DEF Agrees, r

LEMMA TouchOK ==
  ASSUME NEW m \in Memory, NEW style \in Style, NEW u \in Url, StoreAgrees(m)
  PROVE  Touch(style, m, u) \in Memory /\ StoreAgrees(Touch(style, m, u))
  <1> DEFINE at == CHOOSE k \in 1..Len(m.lruOrder) : m.lruOrder[k] = u
             n == [m EXCEPT !.lruOrder = MoveToEnd(m.lruOrder, at)]
  <1>1. CASE style = "LRU" /\ \E k \in 1..Len(m.lruOrder) : m.lruOrder[k] = u
    <2>1. at \in 1..Len(m.lruOrder) /\ m.lruOrder \in Seq(Url)
      BY <1>1 DEF Memory
    <2>2. Touch(style, m, u) = n
      BY <1>1 DEF Touch
    <2> HIDE DEF at
    <2>3. MoveToEnd(m.lruOrder, at) \in Seq(Url)
      BY <2>1, MoveToEndOK
    <2>4. Agrees(MoveToEnd(m.lruOrder, at), m.lruMap)
      BY <2>1, MoveToEndAgrees DEF StoreAgrees
    <2>5. /\ n \in Memory
          /\ n.fifoList = m.fifoList /\ n.imageMap = m.imageMap
          /\ n.lruOrder = MoveToEnd(m.lruOrder, at) /\ n.lruMap = m.lruMap
      BY <2>3 DEF Memory
    <2> QED BY <2>2, <2>4, <2>5 DEF StoreAgrees
  <1>2. CASE ~(style = "LRU" /\ \E k \in 1..Len(m.lruOrder) : m.lruOrder[k] = u)
    BY <1>2 DEF Touch
  <1> QED BY <1>1, <1>2

\* Dropping the eldest of an order and its entry.
LEMMA DropEldest ==
  ASSUME NEW s \in Seq(Url), NEW map \in [Url -> Pic \cup {None}], Agrees(s, map),
         Len(s) >= MemoryFileCount
  PROVE  LET rest == Tail(s)
             left == [map EXCEPT ![Head(s)] = None]
         IN /\ rest \in Seq(Url) /\ left \in [Url -> Pic \cup {None}]
            /\ Agrees(rest, left) /\ Len(rest) < MemoryFileCount
            /\ \A u \in Url : map[u] = None => left[u] = None
  <1> DEFINE rest == Tail(s)
             left == [map EXCEPT ![Head(s)] = None]
  <1>1. /\ Len(s) \in Nat /\ Len(s) >= 1 /\ s # <<>>
        /\ Len(s) = MemoryFileCount /\ MemoryFileCount \in Nat
        /\ \A i \in 1..Len(s) : s[i] \in Url
    BY MemoryAssumption DEF Agrees
  <1>2. /\ rest \in Seq(Url) /\ Len(rest) = Len(s) - 1
        /\ \A i \in 1..Len(rest) : rest[i] = s[i + 1]
        /\ Head(s) = s[1] /\ Head(s) \in Url
    BY <1>1
  <1>3. \A u \in Url : left[u] = IF u = s[1] THEN None ELSE map[u]
    BY <1>2
  <1>4. left \in [Url -> Pic \cup {None}]
    OBVIOUS
  <1> HIDE DEF rest, left
  <1>5. \A i, j \in 1..Len(rest) : rest[i] = rest[j] => i = j
    <2> SUFFICES ASSUME NEW i \in 1..Len(rest), NEW j \in 1..Len(rest), rest[i] = rest[j]
                 PROVE  i = j
      OBVIOUS
    <2>1. i + 1 \in 1..Len(s) /\ j + 1 \in 1..Len(s) /\ s[i + 1] = s[j + 1]
      BY <1>1, <1>2
    <2>2. i + 1 = j + 1
      BY <2>1 DEF Agrees
    <2> QED BY <2>2
  <1>6. \A i \in 1..Len(rest) : left[rest[i]] # None
    <2> SUFFICES ASSUME NEW i \in 1..Len(rest) PROVE left[rest[i]] # None
      OBVIOUS
    <2>1. i + 1 \in 1..Len(s) /\ i + 1 # 1 /\ 1 \in 1..Len(s) /\ rest[i] = s[i + 1]
      BY <1>1, <1>2
    <2>2. s[i + 1] # s[1] /\ map[s[i + 1]] # None /\ s[i + 1] \in Url
      BY <2>1, <1>1 DEF Agrees
    <2> QED BY <2>1, <2>2, <1>3
  <1>7. ASSUME NEW u \in Url, left[u] # None
        PROVE  \E i \in 1..Len(rest) : rest[i] = u
    <2>1. u # s[1] /\ map[u] # None
      BY <1>3, <1>7
    <2>2. PICK j \in 1..Len(s) : s[j] = u
      BY <2>1 DEF Agrees
    <2>3. j - 1 \in 1..Len(rest) /\ (j - 1) + 1 = j
      BY <2>1, <2>2, <1>1, <1>2
    <2>4. rest[j - 1] = u
      BY <2>2, <2>3, <1>2
    <2> QED BY <2>3, <2>4
  <1>8. Agrees(rest, left)
    BY <1>1, <1>2, <1>5, <1>6, <1>7 DEF Agrees
  <1> QED BY <1>1, <1>2, <1>3, <1>4, <1>8 DEF rest, left

\* Appending an address that is not stored, with its entry.
LEMMA AddNewest ==
  ASSUME NEW s \in Seq(Url), NEW map \in [Url -> Pic \cup {None}], Agrees(s, map),
         Len(s) < MemoryFileCount, NEW u \in Url, map[u] = None, NEW pic \in Pic
  PROVE  /\ Append(s, u) \in Seq(Url)
         /\ [map EXCEPT ![u] = pic] \in [Url -> Pic \cup {None}]
         /\ Agrees(Append(s, u), [map EXCEPT ![u] = pic])
  <1> DEFINE more == Append(s, u)
             held == [map EXCEPT ![u] = pic]
  <1>1. /\ more \in Seq(Url) /\ Len(more) = Len(s) + 1 /\ Len(s) \in Nat
        /\ \A i \in 1..Len(s) : more[i] = s[i] /\ s[i] \in Url
        /\ more[Len(s) + 1] = u
    OBVIOUS
  <1>2. \A v \in Url : held[v] = IF v = u THEN pic ELSE map[v]
    OBVIOUS
  <1>3. held \in [Url -> Pic \cup {None}] /\ pic # None
    BY NonePic
  <1>4. \A i \in 1..Len(s) : s[i] # u
    BY DEF Agrees
  <1> HIDE DEF more, held
  <1>5. \A i, j \in 1..Len(more) : more[i] = more[j] => i = j
    <2> SUFFICES ASSUME NEW i \in 1..Len(more), NEW j \in 1..Len(more), more[i] = more[j]
                 PROVE  i = j
      OBVIOUS
    <2>1. CASE i = Len(s) + 1 /\ j = Len(s) + 1
      BY <2>1
    <2>2. CASE i = Len(s) + 1 /\ j # Len(s) + 1
      <3>1. j \in 1..Len(s)
        BY <2>2, <1>1
      <3> QED BY <2>2, <3>1, <1>1, <1>4
    <2>3. CASE i # Len(s) + 1 /\ j = Len(s) + 1
      <3>1. i \in 1..Len(s)
        BY <2>3, <1>1
      <3> QED BY <2>3, <3>1, <1>1, <1>4
    <2>4. CASE i # Len(s) + 1 /\ j # Len(s) + 1
      <3>1. i \in 1..Len(s) /\ j \in 1..Len(s)
        BY <2>4, <1>1
      <3> QED BY <3>1, <1>1 DEF Agrees
    <2> QED BY <2>1, <2>2, <2>3, <2>4
  <1>6. \A i \in 1..Len(more) : held[more[i]] # None
    <2> SUFFICES ASSUME NEW i \in 1..Len(more) PROVE held[more[i]] # None
      OBVIOUS
    <2>1. CASE i = Len(s) + 1
      BY <2>1, <1>1, <1>2, <1>3
    <2>2. CASE i # Len(s) + 1
      <3>1. i \in 1..Len(s)
        BY <2>2, <1>1
      <3>2. map[s[i]] # None
        BY <3>1 DEF Agrees
      <3> QED BY <3>1, <3>2, <1>1, <1>2, <1>4
    <2> QED BY <2>1, <2>2
  <1>7. ASSUME NEW v \in Url, held[v] # None
        PROVE  \E i \in 1..Len(more) : more[i] = v
    <2>1. CASE v = u
      <3>1. Len(s) + 1 \in 1..Len(more)
        BY <1>1
      <3> QED BY <2>1, <3>1, <1>1
    <2>2. CASE v # u
      <3>1. PICK i \in 1..Len(s) : s[i] = v
        BY <2>2, <1>2, <1>7 DEF Agrees
      <3>2. i \in 1..Len(more) /\ more[i] = v
        BY <3>1, <1>1
      <3> QED BY <3>2
    <2> QED BY <2>1, <2>2
  <1>8. Agrees(more, held)
    BY <1>1, <1>5, <1>6, <1>7, MemoryAssumption DEF Agrees
  <1> QED BY <1>1, <1>3, <1>8 DEF more, held

LEMMA refreshListOK ==
  ASSUME NEW m \in Memory, NEW style \in Style, NEW u \in Url, NEW pic \in Pic,
         StoreAgrees(m), ~isExist(style, m, u)
  PROVE  /\ refreshList(style, m, u, pic) \in Memory
         /\ StoreAgrees(refreshList(style, m, u, pic))
  <1> DEFINE n == refreshList(style, m, u, pic)
  <1>1. /\ m.fifoList \in Seq(Url) /\ m.imageMap \in [Url -> Pic \cup {None}]
        /\ m.lruOrder \in Seq(Url) /\ m.lruMap \in [Url -> Pic \cup {None}]
        /\ Agrees(m.fifoList, m.imageMap) /\ Agrees(m.lruOrder, m.lruMap)
    BY DEF Memory, StoreAgrees
  <1>2. CASE style = "LRU" /\ Len(m.lruOrder) >= MemoryFileCount
    <2> DEFINE rest == Tail(m.lruOrder)
               left == [m.lruMap EXCEPT ![Head(m.lruOrder)] = None]
    <2>1. /\ rest \in Seq(Url) /\ left \in [Url -> Pic \cup {None}]
          /\ Agrees(rest, left) /\ Len(rest) < MemoryFileCount /\ left[u] = None
      BY <1>1, <1>2, DropEldest DEF isExist, Lookup
    <2>2. n = [m EXCEPT !.lruMap = [left EXCEPT ![u] = pic], !.lruOrder = Append(rest, u)]
      BY <1>2 DEF refreshList, LruPut
    <2> HIDE DEF rest, left, n
    <2>3. /\ Append(rest, u) \in Seq(Url)
          /\ [left EXCEPT ![u] = pic] \in [Url -> Pic \cup {None}]
          /\ Agrees(Append(rest, u), [left EXCEPT ![u] = pic])
      BY <2>1, AddNewest
    <2>4. /\ n \in Memory
          /\ n.fifoList = m.fifoList /\ n.imageMap = m.imageMap
          /\ n.lruOrder = Append(rest, u) /\ n.lruMap = [left EXCEPT ![u] = pic]
      BY <2>2, <2>3 DEF Memory
    <2> QED BY <1>1, <2>3, <2>4 DEF StoreAgrees, n
  <1>3. CASE style = "LRU" /\ ~(Len(m.lruOrder) >= MemoryFileCount)
    <2>1. n = [m EXCEPT !.lruMap = [m.lruMap EXCEPT ![u] = pic],
                        !.lruOrder = Append(m.lruOrder, u)]
      BY <1>3 DEF refreshList, LruPut
    <2>2. m.lruMap[u] = None /\ Len(m.lruOrder) < MemoryFileCount
      BY <1>1, <1>3, MemoryAssumption DEF isExist, Lookup
    <2>3. /\ Append(m.lruOrder, u) \in Seq(Url)
          /\ [m.lruMap EXCEPT ![u] = pic] \in [Url -> Pic \cup {None}]
          /\ Agrees(Append(m.lruOrder, u), [m.lruMap EXCEPT ![u] = pic])
      BY <1>1, <2>2, AddNewest
    <2> HIDE DEF n
    <2>4. /\ n \in Memory
          /\ n.fifoList = m.fifoList /\ n.imageMap = m.imageMap
          /\ n.lruOrder = Append(m.lruOrder, u) /\ n.lruMap = [m.lruMap EXCEPT ![u] = pic]
      BY <2>1, <2>3 DEF Memory
    <2> QED BY <1>1, <2>3, <2>4 DEF StoreAgrees, n
  <1>4. CASE style # "LRU"
    <2> DEFINE e == EvictFirst(m)
    <2>1. /\ e \in Memory /\ StoreAgrees(e)
          /\ Len(e.fifoList) < MemoryFileCount /\ e.imageMap[u] = None
      <3>1. m.imageMap[u] = None
        BY <1>4 DEF isExist, Lookup
      <3>2. CASE Len(m.fifoList) >= MemoryFileCount
        <4> DEFINE rest == Tail(m.fifoList)
                   left == [m.imageMap EXCEPT ![Head(m.fifoList)] = None]
        <4>1. /\ rest \in Seq(Url) /\ left \in [Url -> Pic \cup {None}]
              /\ Agrees(rest, left) /\ Len(rest) < MemoryFileCount /\ left[u] = None
          BY <1>1, <3>1, <3>2, DropEldest
        <4>2. e = [m EXCEPT !.imageMap = left, !.fifoList = rest]
          BY <3>2 DEF EvictFirst
        <4> HIDE DEF rest, left, e
        <4>3. /\ e \in Memory /\ e.fifoList = rest /\ e.imageMap = left
              /\ e.lruOrder = m.lruOrder /\ e.lruMap = m.lruMap
          BY <4>1, <4>2 DEF Memory
        <4> QED BY <1>1, <4>1, <4>3 DEF StoreAgrees
      <3>3. CASE ~(Len(m.fifoList) >= MemoryFileCount)
        BY <1>1, <3>1, <3>3, MemoryAssumption DEF EvictFirst
      <3> QED BY <3>2, <3>3
    <2>2. n = PutLast(e, u, pic)
      BY <1>4 DEF refreshList
    <2> HIDE DEF e, n
    <2>3. /\ e.fifoList \in Seq(Url) /\ e.imageMap \in [Url -> Pic \cup {None}]
          /\ Agrees(e.fifoList, e.imageMap) /\ Agrees(e.lruOrder, e.lruMap)
      BY <2>1 DEF Memory, StoreAgrees
    <2>4. /\ Append(e.fifoList, u) \in Seq(Url)
          /\ [e.imageMap EXCEPT ![u] = pic] \in [Url -> Pic \cup {None}]
          /\ Agrees(Append(e.fifoList, u), [e.imageMap EXCEPT ![u] = pic])
      BY <2>1, <2>3, AddNewest
    <2>5. /\ n \in Memory
          /\ n.fifoList = Append(e.fifoList, u) /\ n.imageMap = [e.imageMap EXCEPT ![u] = pic]
          /\ n.lruOrder = e.lruOrder /\ n.lruMap = e.lruMap
      BY <2>1, <2>2, <2>4 DEF Memory, PutLast
    <2> QED BY <2>3, <2>4, <2>5 DEF StoreAgrees, n
  <1> QED BY <1>2, <1>3, <1>4

-----------------------------------------------------------------------------
(* The views. *)

LEMMA PlainOK == \A k \in {"blank", "begin", "error", "recycled"} : Plain(k) \in Display
  BY DEF Display

LEMMA DrawOK ==
  ASSUME NEW s \in [Visible -> Display], NEW v, NEW d \in Display
  PROVE  Draw(s, v, d) \in [Visible -> Display]
  BY DEF Draw

LEMMA UnmapOK ==
  ASSUME NEW s \in [Visible -> Display], NEW gone
  PROVE  Unmap(s, gone) \in [Visible -> Display]
  <1> SUFFICES ASSUME NEW w \in Visible, s[w].mapped
               PROVE  [s[w] EXCEPT !.mapped = FALSE] \in Display
    BY DEF Unmap
  <1>1. s[w] \in [kind : {"picture"}, pic : Pic, mapped : BOOLEAN]
    BY DEF Display, Plain
  <1>2. [s[w] EXCEPT !.mapped = FALSE] \in [kind : {"picture"}, pic : Pic, mapped : BOOLEAN]
    BY <1>1
  <1> QED BY <1>2 DEF Display

LEMMA RenderOK ==
  ASSUME NEW style \in Style, NEW m \in Memory, StoreAgrees(m),
         NEW s \in [Visible -> Display], NEW u \in Url, NEW v, NEW pic \in Pic,
         NEW fromMemory \in BOOLEAN, Render(style, m, s, u, v, pic, fromMemory)
  PROVE  mem' \in Memory /\ StoreAgrees(mem)' /\ shown' \in [Visible -> Display]
  <1> DEFINE stored == ~isExist(style, m, u)
             n == IF stored THEN refreshList(style, m, u, pic) ELSE Touch(style, m, u)
             d == [kind |-> "picture", pic |-> pic,
                   mapped |-> style = "FIFO" /\ (stored \/ fromMemory)]
  <1>1. n \in Memory /\ StoreAgrees(n)
    BY refreshListOK, TouchOK
  <1>2. d \in Display
    BY DEF Display
  <1>3. mem' = n /\ shown' = Draw(Unmap(s, Evicted(m, n)), v, d)
    BY DEF Render
  <1> HIDE DEF n, d
  <1>4. shown' \in [Visible -> Display]
    BY <1>2, <1>3, UnmapOK, DrawOK
  <1> QED BY <1>1, <1>3, <1>4 DEF StoreAgrees

-----------------------------------------------------------------------------
(* The pools. *)

LEMMA NewPoolOK == NewPool \in Pool
  BY DEF NewPool, Pool, Job

LEMMA SubmitOK ==
  ASSUME NEW ps \in Seq(Pool), Len(ps) > 0, NEW u \in Url
  PROVE  /\ [ps EXCEPT ![Len(ps)].queue = Append(@, u)] \in Seq(Pool)
         /\ Len([ps EXCEPT ![Len(ps)].queue = Append(@, u)]) = Len(ps)
  <1> DEFINE q == [ps[Len(ps)] EXCEPT !.queue = Append(ps[Len(ps)].queue, u)]
  <1>1. Len(ps) \in 1..Len(ps) /\ ps[Len(ps)] \in Pool
    OBVIOUS
  <1>2. q \in Pool
    <2>1. ps[Len(ps)].queue \in Seq(Url)
      BY <1>1 DEF Pool
    <2>2. Append(ps[Len(ps)].queue, u) \in Seq(Url)
      BY <2>1
    <2> HIDE <2>1
    <2> QED BY <1>1, <2>2 DEF Pool
  <1>3. [ps EXCEPT ![Len(ps)] = q] \in Seq(Pool) /\ Len([ps EXCEPT ![Len(ps)] = q]) = Len(ps)
    BY <1>1, <1>2, ExceptSeq
  <1> QED BY <1>3

LEMMA RunOK ==
  ASSUME NEW ps \in Seq(Pool), NEW p \in 1..Len(ps), NEW t \in Thread, NEW job \in Job
  PROVE  /\ [ps EXCEPT ![p].run[t] = job] \in Seq(Pool)
         /\ Len([ps EXCEPT ![p].run[t] = job]) = Len(ps)
  <1> DEFINE q == [ps[p] EXCEPT !.run[t] = job]
  <1>1. ps[p] \in Pool
    OBVIOUS
  <1>2. q \in Pool
    BY <1>1 DEF Pool
  <1>3. [ps EXCEPT ![p] = q] \in Seq(Pool) /\ Len([ps EXCEPT ![p] = q]) = Len(ps)
    BY <1>2, ExceptSeq
  <1> QED BY <1>3

LEMMA showOK ==
  ASSUME TypeOK, NEW c \in Config, NEW m \in Memory, StoreAgrees(m),
         NEW ps \in Seq(Pool), Len(ps) > 0, NEW u \in Url, NEW v \in Visible,
         show(c, m, ps, u, v)
  PROVE  /\ mem' \in Memory /\ StoreAgrees(mem)' /\ shown' \in [Visible -> Display]
         /\ mViewMap' \in [Url -> View \cup {None}]
         /\ asked' \in [Visible -> Url \cup {None}]
         /\ pools' \in Seq(Pool) /\ Len(pools') > 0
  <1> DEFINE start == Draw(shown, v, Plain(IF c.beginImage THEN "begin" ELSE "blank"))
             opened == IF isExist(c.style, m, u) THEN {Lookup(c.style, m, u)}
                       ELSE openBitmap(u)
  <1>1. start \in [Visible -> Display]
    BY PlainOK, DrawOK DEF TypeOK
  <1>2. c.style \in Style
    BY DEF Config, HolderConfig, ListConfig, Style
  <1>3. opened \subseteq Pic \cup {None}
    <2>1. openBitmap(u) \subseteq Pic \cup {None}
      <3>1. file[u] \in FileState
        BY DEF TypeOK
      <3>2. CASE file[u] = "absent"
        BY <3>2 DEF openBitmap
      <3>3. CASE file[u] = "complete"
        BY <3>3 DEF openBitmap, Pic
      <3>4. CASE file[u] = "torn"
        BY <3>4 DEF openBitmap, Pic
      <3> QED BY <3>1, <3>2, <3>3, <3>4 DEF FileState
    <2>2. Lookup(c.style, m, u) \in Pic \cup {None}
      BY DEF Lookup, Memory
    <2> QED BY <2>1, <2>2
  <1>4. /\ mViewMap' = [mViewMap EXCEPT ![u] = v]
        /\ asked' = [asked EXCEPT ![v] = u]
    BY DEF show, Bind
  <1>5. /\ mViewMap' \in [Url -> View \cup {None}]
        /\ asked' \in [Visible -> Url \cup {None}]
    BY <1>4 DEF TypeOK, View
  <1>6. PICK pic \in opened :
          \/ /\ pic # None
             /\ Render(c.style, m, start, u, v, pic, isExist(c.style, m, u))
             /\ pools' = ps
          \/ /\ pic = None
             /\ pools' = [ps EXCEPT ![Len(ps)].queue = Append(@, u)]
             /\ mem' = m /\ shown' = start
    BY DEF show
  <1> HIDE DEF start, opened
  <1>7. CASE pic # None /\ Render(c.style, m, start, u, v, pic, isExist(c.style, m, u))
             /\ pools' = ps
    <2>1. pic \in Pic /\ isExist(c.style, m, u) \in BOOLEAN
      BY <1>3, <1>6, <1>7 DEF isExist
    <2>2. mem' \in Memory /\ StoreAgrees(mem)' /\ shown' \in [Visible -> Display]
      BY <1>1, <1>2, <1>7, <2>1, RenderOK
    <2> QED BY <1>5, <1>7, <2>2
  <1>8. CASE /\ pools' = [ps EXCEPT ![Len(ps)].queue = Append(@, u)]
             /\ mem' = m /\ shown' = start
    <2>1. pools' \in Seq(Pool) /\ Len(pools') > 0
      BY <1>8, SubmitOK
    <2> QED BY <1>1, <1>5, <1>8, <2>1 DEF StoreAgrees
  <1> QED BY <1>6, <1>7, <1>8

-----------------------------------------------------------------------------
(* The types and the agreement of the stores are inductive together with   *)
(* the pool that every click makes: the stores' operators need typed       *)
(* stores, render's isExist test is what keeps an address from entering an *)
(* order twice, and getView submits to a pool that is there.               *)

HasPool == mode # "none" => Len(pools) > 0

IInv == TypeOK /\ MemoryAgrees /\ HasPool

LEMMA InitOK == Init => IInv
  <1> SUFFICES ASSUME Init PROVE IInv
    OBVIOUS
  <1>1. mem \in Memory /\ MemoryAgrees
    BY EmptyMemoryOK DEF Init, MemoryAgrees, StoreAgrees
  <1>2. mViewMap \in [Url -> View \cup {None}]
    BY DEF Init, NoView
  <1>3. shown \in [Visible -> Display] /\ asked \in [Visible -> Url \cup {None}]
    BY PlainOK DEF Init
  <1>4. pools \in Seq(Pool) /\ looper \in Seq(Result) /\ file \in [Url -> FileState]
    BY DEF Init, FileState
  <1> QED BY <1>1, <1>2, <1>3, <1>4 DEF Init, IInv, TypeOK, HasPool

LEMMA AppendPoolOK ==
  ASSUME TypeOK
  PROVE  Append(pools, NewPool) \in Seq(Pool) /\ Len(Append(pools, NewPool)) > 0
  <1>1. pools \in Seq(Pool)
    BY DEF TypeOK
  <1> QED BY <1>1, NewPoolOK

LEMMA UserStepOK ==
  ASSUME IInv,
         \/ \E u \in PlaceImg : HolderClick(u)
         \/ ListClick
         \/ \E u \in ListImg, v \in RowView : GetView(u, v)
  PROVE  IInv'
  <1> USE DEF IInv
  <1>c. HolderConfig \in Config /\ ListConfig \in Config /\ {"LRU", "FIFO"} \subseteq Style
    BY DEF Config, Style
  <1>m. mem \in Memory /\ StoreAgrees(mem)
    BY DEF TypeOK, MemoryAgrees
  <1>1. ASSUME NEW u \in PlaceImg, HolderClick(u) PROVE IInv'
    <2> DEFINE m == Configured("LRU", mem)
               ps == Append(pools, NewPool)
    <2>1. m \in Memory /\ StoreAgrees(m) /\ u \in Url /\ HolderView \in Visible
      BY <1>c, <1>m, ConfiguredOK, CacheAssumption DEF Visible
    <2>2. show(HolderConfig, m, ps, u, HolderView)
      BY <1>1 DEF HolderClick
    <2>p. ps \in Seq(Pool) /\ Len(ps) > 0
      BY AppendPoolOK
    <2> HIDE DEF m, ps
    <2>3. /\ mem' \in Memory /\ StoreAgrees(mem)' /\ shown' \in [Visible -> Display]
          /\ mViewMap' \in [Url -> View \cup {None}]
          /\ asked' \in [Visible -> Url \cup {None}]
          /\ pools' \in Seq(Pool) /\ Len(pools') > 0
      BY <2>1, <2>2, <2>p, <1>c, showOK
    <2>4. /\ mode' = "holder" /\ mConfig' = HolderConfig /\ handlerAct' = "current"
          /\ UNCHANGED <<activity, adapterStale, inst, looper, file, crashed, cleared>>
      BY <1>1 DEF HolderClick, initConfig
    <2> QED BY <1>c, <2>3, <2>4 DEF TypeOK, MemoryAgrees, HasPool
  <1>2. ASSUME ListClick PROVE IInv'
    <2>1. mem' \in Memory /\ StoreAgrees(mem)'
      <3>1. mem' = Configured("FIFO", mem)
        BY <1>2 DEF ListClick
      <3> QED BY <1>c, <1>m, <3>1, ConfiguredOK DEF StoreAgrees
    <2>2. pools' \in Seq(Pool) /\ Len(pools') > 0
      BY <1>2, AppendPoolOK DEF ListClick
    <2>3. mViewMap' \in [Url -> View \cup {None}]
      BY <1>2 DEF ListClick, TypeOK, View
    <2>4. shown' \in [Visible -> Display]
      BY <1>2, PlainOK DEF ListClick, TypeOK
    <2>5. asked' \in [Visible -> Url \cup {None}]
      BY <1>2 DEF ListClick, TypeOK
    <2>6. /\ mode' = "list" /\ mConfig' = ListConfig /\ handlerAct' = "current"
          /\ adapterStale' = FALSE
          /\ UNCHANGED <<activity, inst, looper, file, crashed, cleared>>
      BY <1>2 DEF ListClick, initConfig
    <2> QED BY <1>c, <2>1, <2>2, <2>3, <2>4, <2>5, <2>6 DEF TypeOK, MemoryAgrees, HasPool
  <1>3. ASSUME NEW u \in ListImg, NEW v \in RowView, GetView(u, v) PROVE IInv'
    <2>1. u \in Url /\ v \in Visible /\ pools \in Seq(Pool)
      BY CacheAssumption DEF Visible, TypeOK
    <2>2. show(ListConfig, mem, pools, u, v)
      BY <1>3 DEF GetView
    <2>3. Len(pools) > 0
      BY <1>3 DEF GetView, HasPool
    <2>4. /\ mem' \in Memory /\ StoreAgrees(mem)' /\ shown' \in [Visible -> Display]
          /\ mViewMap' \in [Url -> View \cup {None}]
          /\ asked' \in [Visible -> Url \cup {None}]
          /\ pools' \in Seq(Pool) /\ Len(pools') > 0
      BY <2>1, <2>2, <2>3, <1>c, <1>m, showOK
    <2>5. UNCHANGED <<ui, inst, mConfig, handlerAct, looper, file, crashed, cleared>>
      BY <1>3 DEF GetView
    <2> QED BY <2>4, <2>5 DEF TypeOK, MemoryAgrees, HasPool, ui
  <1> QED BY <1>1, <1>2, <1>3

LEMMA LifecycleStepOK ==
  ASSUME IInv,
         \/ StaleGetView \/ \E v \in Visible : Redraw(v)
         \/ Launch \/ Restart \/ Stop \/ Destroy \/ Collect \/ Kill
  PROVE  IInv'
  <1> USE DEF IInv
  <1>e. /\ EmptyMemory \in Memory /\ StoreAgrees(EmptyMemory)
        /\ NoView \in [Url -> View \cup {None}]
    BY EmptyMemoryOK DEF NoView
  <1>b. /\ [v \in Visible |-> Plain("blank")] \in [Visible -> Display]
        /\ [v \in Visible |-> None] \in [Visible -> Url \cup {None}]
    BY PlainOK
  <1>1. CASE StaleGetView
    BY <1>1 DEF StaleGetView, TypeOK, MemoryAgrees, HasPool, ui, cache, screen
  <1>2. CASE \E v \in Visible : Redraw(v)
    BY <1>2 DEF Redraw, TypeOK, MemoryAgrees, HasPool, ui, cache, screen
  <1>3. CASE Launch
    BY <1>3, <1>b DEF Launch, TypeOK, MemoryAgrees, HasPool
  <1>4. CASE Restart
    BY <1>4 DEF Restart, TypeOK, MemoryAgrees, HasPool, screen
  <1>5. CASE Stop
    <2>1. mem' \in Memory /\ StoreAgrees(mem)' /\ mViewMap' \in [Url -> View \cup {None}]
      BY <1>5, <1>e DEF Stop, clear, StoreAgrees
    <2>2. shown' \in [Visible -> Display]
      BY <1>5, PlainOK DEF Stop, clear, TypeOK
    <2>3. /\ activity' = "stopped" /\ adapterStale' = (mode = "list")
          /\ inst' = FALSE /\ mConfig' = None /\ cleared' = TRUE
          /\ UNCHANGED <<mode, handlerAct, asked, pools, looper, file, crashed>>
      BY <1>5 DEF Stop, clear
    <2>4. adapterStale' \in BOOLEAN
      BY <2>3
    <2> QED BY <2>1, <2>2, <2>3, <2>4 DEF TypeOK, MemoryAgrees, HasPool
  <1>6. CASE Destroy
    BY <1>6 DEF Destroy, TypeOK, MemoryAgrees, HasPool, cache, screen
  <1>7. CASE Collect
    BY <1>7 DEF Collect, TypeOK, MemoryAgrees, HasPool, ui, screen
  <1>8. CASE Kill
    <2>1. /\ mem' \in Memory /\ StoreAgrees(mem)' /\ mViewMap' \in [Url -> View \cup {None}]
      BY <1>8, <1>e DEF Kill, StoreAgrees
    <2>2. shown' \in [Visible -> Display] /\ asked' \in [Visible -> Url \cup {None}]
      BY <1>8, <1>b DEF Kill
    <2>3. pools' \in Seq(Pool) /\ looper' \in Seq(Result)
      BY <1>8 DEF Kill
    <2> QED BY <1>8, <2>1, <2>2, <2>3 DEF Kill, TypeOK, MemoryAgrees, HasPool
  <1> QED BY <1>1, <1>2, <1>3, <1>4, <1>5, <1>6, <1>7, <1>8

LEMMA PostOK ==
  ASSUME TypeOK, NEW u \in Url, NEW pic \in Pic \cup {None}, Post(u, pic)
  PROVE  looper' \in Seq(Result)
  <1>1. [url |-> u, pic |-> pic] \in Result /\ looper \in Seq(Result)
    BY DEF Result, TypeOK
  <1> QED BY <1>1 DEF Post

LEMMA LoadStepOK ==
  ASSUME IInv, NEW p, NEW t \in Thread, Load(p, t)
  PROVE  IInv'
  <1> USE DEF IInv
  <1>1. p \in 1..Len(pools) /\ pools \in Seq(Pool) /\ pools[p] \in Pool
    BY DEF Load, Take, FetchFail, FetchOk, FetchUnsaved, SaveEnds, Thr, TypeOK
  <1>2. Idle \in Job /\ pools[p].run[t] \in Job
    BY <1>1 DEF Job, Pool
  <1>3. pools[p].run[t].phase \in {"fetch", "save"} => pools[p].run[t].url \in Url
    BY <1>2 DEF Job, Idle
  <1>4. ASSUME Take(p, t) PROVE IInv'
    <2> DEFINE job == IF handlerAct = "collected" THEN Idle
                      ELSE [phase |-> "fetch", url |-> Head(pools[p].queue)]
               q == [pools[p] EXCEPT !.queue = Tail(pools[p].queue), !.run[t] = job]
    <2>1. pools[p].queue \in Seq(Url) /\ pools[p].queue # <<>>
      BY <1>1, <1>4 DEF Take, Pool
    <2>2. Tail(pools[p].queue) \in Seq(Url) /\ Head(pools[p].queue) \in Url
      BY <2>1
    <2>3. job \in Job
      BY <2>2, <1>2 DEF Job
    <2> HIDE DEF job
    <2>4. q \in Pool
      BY <1>1, <2>2, <2>3 DEF Pool
    <2>5. pools' = [pools EXCEPT ![p] = q]
      BY <1>1, <1>4 DEF Take, job
    <2> HIDE DEF q
    <2>6. pools' \in Seq(Pool) /\ Len(pools') = Len(pools)
      BY <1>1, <2>4, <2>5, ExceptSeq
    <2> QED BY <1>4, <2>6 DEF Take, TypeOK, MemoryAgrees, HasPool, ui, cache, screen
  <1>5. ASSUME FetchFail(p, t) PROVE IInv'
    <2>1. looper' \in Seq(Result)
      BY <1>3, <1>5, PostOK DEF FetchFail
    <2>2. pools' \in Seq(Pool) /\ Len(pools') = Len(pools)
      BY <1>1, <1>2, <1>5, RunOK DEF FetchFail, Job1
    <2> QED BY <1>5, <2>1, <2>2 DEF FetchFail, TypeOK, MemoryAgrees, HasPool, ui, cache, screen
  <1>6. ASSUME FetchOk(p, t) PROVE IInv'
    <2>1. [phase |-> "save", url |-> pools[p].run[t].url] \in Job
      BY <1>3, <1>6 DEF FetchOk, Job
    <2>2. pools' \in Seq(Pool) /\ Len(pools') = Len(pools)
      BY <1>1, <1>6, <2>1, RunOK DEF FetchOk, Job1
    <2>3. file' \in [Url -> FileState]
      BY <1>6 DEF FetchOk, TypeOK, FileState
    <2> QED BY <1>6, <2>2, <2>3 DEF FetchOk, TypeOK, MemoryAgrees, HasPool, ui, cache, screen
  <1>7. ASSUME FetchUnsaved(p, t) PROVE IInv'
    <2>1. looper' \in Seq(Result)
      BY <1>3, <1>7, PostOK DEF FetchUnsaved, Pic
    <2>2. pools' \in Seq(Pool) /\ Len(pools') = Len(pools)
      BY <1>1, <1>2, <1>7, RunOK DEF FetchUnsaved, Job1
    <2> QED BY <1>7, <2>1, <2>2 DEF FetchUnsaved, TypeOK, MemoryAgrees, HasPool, ui, cache, screen
  <1>8. ASSUME NEW ok \in BOOLEAN, SaveEnds(p, t, ok) PROVE IInv'
    <2>1. looper' \in Seq(Result)
      BY <1>3, <1>8, PostOK DEF SaveEnds, Pic
    <2>2. pools' \in Seq(Pool) /\ Len(pools') = Len(pools)
      BY <1>1, <1>2, <1>8, RunOK DEF SaveEnds, Job1
    <2>3. file' \in [Url -> FileState]
      BY <1>8 DEF SaveEnds, TypeOK, FileState
    <2> QED BY <1>8, <2>1, <2>2, <2>3 DEF SaveEnds, TypeOK, MemoryAgrees, HasPool, ui, cache, screen
  <1> QED BY <1>4, <1>5, <1>6, <1>7, <1>8 DEF Load

LEMMA MessageStepOK ==
  ASSUME IInv, HandleMessage
  PROVE  IInv'
  <1> USE DEF IInv
  <1>1. /\ looper \in Seq(Result) /\ looper # <<>> /\ looper' = Tail(looper)
        /\ UNCHANGED <<ui, inst, mConfig, handlerAct, mViewMap, asked, pools, file, cleared>>
    BY DEF HandleMessage, DropMessage, RenderMessage, showError, LateMessage, NextMessage, TypeOK
  <1>2. looper' \in Seq(Result) /\ Head(looper) \in Result
    BY <1>1
  <1>3. CASE DropMessage \/ LateMessage
    BY <1>1, <1>2, <1>3 DEF DropMessage, LateMessage, TypeOK, MemoryAgrees, HasPool, ui
  <1>4. CASE RenderMessage
    <2> DEFINE r == Head(looper)
    <2>1. /\ r.pic # None /\ ~Missing(r.url) /\ UNCHANGED crashed
          /\ Render(mConfig.style, mem, shown, r.url, mViewMap[r.url], r.pic, FALSE)
      BY <1>4 DEF RenderMessage
    <2>2. r.url \in Url /\ r.pic \in Pic
      BY <1>2, <2>1 DEF Result
    <2>3. mConfig.style \in Style
      BY <2>1 DEF Missing, TypeOK, Config, HolderConfig, ListConfig, Style
    <2>4. mem' \in Memory /\ StoreAgrees(mem)' /\ shown' \in [Visible -> Display]
      BY <2>1, <2>2, <2>3, RenderOK DEF TypeOK, MemoryAgrees
    <2> QED BY <1>1, <1>2, <2>1, <2>4 DEF TypeOK, MemoryAgrees, HasPool, ui
  <1>5. CASE showError
    <2>1. shown' \in [Visible -> Display]
      BY <1>5, PlainOK, DrawOK DEF showError, TypeOK
    <2>2. UNCHANGED <<mem, crashed>>
      BY <1>5 DEF showError
    <2> QED BY <1>1, <1>2, <2>1, <2>2 DEF TypeOK, MemoryAgrees, HasPool, ui
  <1> QED BY <1>3, <1>4, <1>5 DEF HandleMessage

LEMMA NextOK == IInv /\ [Next]_vars => IInv'
  <1> SUFFICES ASSUME IInv, [Next]_vars PROVE IInv'
    OBVIOUS
  <1>1. CASE UNCHANGED vars
    BY <1>1 DEF vars, ui, cache, screen, IInv, TypeOK, MemoryAgrees, StoreAgrees, HasPool
  <1>2. CASE Next
    BY <1>2, UserStepOK, LifecycleStepOK, LoadStepOK, MessageStepOK DEF Next
  <1> QED BY <1>1, <1>2

\* The variables keep their types, for any number of addresses, views, pools
\* and threads.
THEOREM TypeCorrect == SafetySpec => []TypeOK
  <1>1. IInv => TypeOK
    BY DEF IInv
  <1> QED BY <1>1, InitOK, NextOK, PTL DEF SafetySpec

\* In every reachable state each store's order lists exactly the stored
\* addresses, once each, and there are at most mMemoryFileCount: whatever the
\* pools, repeated results, changes of style, clear() and restarts do.
THEOREM MemoryAlwaysAgrees == SafetySpec => []MemoryAgrees
  <1>1. IInv => MemoryAgrees
    BY DEF IInv
  <1> QED BY <1>1, InitOK, NextOK, PTL DEF SafetySpec

-----------------------------------------------------------------------------
(* After clear().                                                            *)

(* Every address in a queue, in a thread or in a result is bound to a view. *)
PoolBound(q, bound) ==
  /\ \A i \in 1 .. Len(q.queue) : bound[q.queue[i]] # None
  /\ \A t \in Thread : q.run[t] # Idle => bound[q.run[t].url] # None
PoolsBound(ps, bound) == \A p \in 1 .. Len(ps) : PoolBound(ps[p], bound)
ResultsBound(rs, bound) == \A i \in 1 .. Len(rs) : bound[rs[i].url] # None

Bound ==
  ~cleared => PoolsBound(pools, mViewMap) /\ ResultsBound(looper, mViewMap)

Running ==
  ~cleared =>
    /\ crashed = "no" /\ ~adapterStale /\ activity # "stopped"
    /\ activity = "gone" => pools = <<>> /\ looper = <<>>
    /\ activity = "started" => inst
    /\ pools # <<>> => mConfig # None
    /\ looper # <<>> => pools # <<>>
    /\ \A v \in Visible : shown[v].kind # "recycled"

Dangling ==
  /\ DanglesUntilClick
  /\ activity # "started" => mConfig = None

CInv == IInv /\ Bound /\ Running /\ Dangling

-----------------------------------------------------------------------------
(* What is drawn. *)
LEMMA RenderShows ==
  ASSUME NEW style \in Style, NEW m \in Memory,
         NEW s \in [Visible -> Display], NEW u \in Url, NEW v, NEW pic \in Pic,
         NEW fromMemory \in BOOLEAN, Render(style, m, s, u, v, pic, fromMemory)
  PROVE  \A w \in Visible : IF w = v THEN shown'[w].kind = "picture"
                            ELSE shown'[w].kind = s[w].kind
  <1> DEFINE stored == ~isExist(style, m, u)
             n == IF stored THEN refreshList(style, m, u, pic) ELSE Touch(style, m, u)
             gone == Evicted(m, n)
             x == style = "FIFO" /\ (stored \/ fromMemory)
             d == [kind |-> "picture", pic |-> pic, mapped |-> x]
  <1>1. shown' = Draw(Unmap(s, gone), v, d)
    BY DEF Render
  <1>2. d.kind = "picture"
    OBVIOUS
  <1> HIDE DEF gone, d
  <1>3. ASSUME NEW w \in Visible PROVE Unmap(s, gone)[w].kind = s[w].kind
    <2>1. CASE s[w].mapped
      <3>1. s[w] \in [kind : {"picture"}, pic : Pic, mapped : BOOLEAN]
        BY <2>1 DEF Display, Plain
      <3>2. [s[w] EXCEPT !.mapped = FALSE].kind = s[w].kind
        BY <3>1
      <3> QED BY <3>2 DEF Unmap
    <2>2. CASE ~s[w].mapped
      BY <2>2 DEF Unmap
    <2> QED BY <2>1, <2>2
  <1> QED BY <1>1, <1>2, <1>3 DEF Draw

LEMMA showShows ==
  ASSUME TypeOK, NEW c \in Config, NEW m \in Memory, StoreAgrees(m),
         NEW ps \in Seq(Pool), Len(ps) > 0, NEW u \in Url, NEW v \in Visible,
         show(c, m, ps, u, v)
  PROVE  /\ mViewMap' = [mViewMap EXCEPT ![u] = v]
         /\ shown'[v].kind # "recycled"
         /\ \A w \in Visible \ {v} : shown'[w].kind = shown[w].kind
         /\ \/ pools' = ps
            \/ pools' = [ps EXCEPT ![Len(ps)].queue = Append(@, u)]
  <1> DEFINE start == Draw(shown, v, Plain(IF c.beginImage THEN "begin" ELSE "blank"))
             opened == IF isExist(c.style, m, u) THEN {Lookup(c.style, m, u)}
                       ELSE openBitmap(u)
  <1>1. start \in [Visible -> Display]
    BY PlainOK, DrawOK DEF TypeOK
  <1>2. c.style \in Style
    BY DEF Config, HolderConfig, ListConfig, Style
  <1>3. opened \subseteq Pic \cup {None}
    <2>1. openBitmap(u) \subseteq Pic \cup {None}
      <3>1. file[u] \in FileState
        BY DEF TypeOK
      <3>2. CASE file[u] = "absent"
        BY <3>2 DEF openBitmap
      <3>3. CASE file[u] = "complete"
        BY <3>3 DEF openBitmap, Pic
      <3>4. CASE file[u] = "torn"
        BY <3>4 DEF openBitmap, Pic
      <3> QED BY <3>1, <3>2, <3>3, <3>4 DEF FileState
    <2>2. Lookup(c.style, m, u) \in Pic \cup {None}
      BY DEF Lookup, Memory
    <2> QED BY <2>1, <2>2
  <1>4. start[v].kind # "recycled" /\ \A w \in Visible \ {v} : start[w].kind = shown[w].kind
    BY DEF Draw, Plain
  <1>5. PICK pic \in opened :
          \/ /\ pic # None
             /\ Render(c.style, m, start, u, v, pic, isExist(c.style, m, u))
             /\ pools' = ps
          \/ /\ pic = None
             /\ pools' = [ps EXCEPT ![Len(ps)].queue = Append(@, u)]
             /\ mem' = m /\ shown' = start
    BY DEF show
  <1>6. mViewMap' = [mViewMap EXCEPT ![u] = v]
    BY DEF show, Bind
  <1> HIDE DEF start, opened
  <1>7. CASE pic # None /\ Render(c.style, m, start, u, v, pic, isExist(c.style, m, u))
             /\ pools' = ps
    <2>1. pic \in Pic /\ isExist(c.style, m, u) \in BOOLEAN
      BY <1>3, <1>5, <1>7 DEF isExist
    <2>2. \A w \in Visible : IF w = v THEN shown'[w].kind = "picture"
                             ELSE shown'[w].kind = start[w].kind
      BY <1>1, <1>2, <1>7, <2>1, RenderShows
    <2> QED BY <1>4, <1>6, <1>7, <2>2
  <1>8. CASE shown' = start /\ pools' = [ps EXCEPT ![Len(ps)].queue = Append(@, u)]
    BY <1>4, <1>6, <1>8
  <1> QED BY <1>5, <1>7, <1>8

-----------------------------------------------------------------------------
(* Which addresses are bound. *)
LEMMA MoreBound ==
  ASSUME NEW ps \in Seq(Pool), NEW rs \in Seq(Result), NEW b, NEW d,
         \A u \in Url : b[u] # None => d[u] # None
  PROVE  /\ PoolsBound(ps, b) => PoolsBound(ps, d)
         /\ ResultsBound(rs, b) => ResultsBound(rs, d)
  <1>1. ASSUME PoolsBound(ps, b), NEW p \in 1 .. Len(ps) PROVE PoolBound(ps[p], d)
    <2>1. ps[p] \in Pool /\ PoolBound(ps[p], b)
      BY <1>1 DEF PoolsBound
    <2>2. ps[p].queue \in Seq(Url) /\ \A t \in Thread : ps[p].run[t] \in Job
      BY <2>1 DEF Pool
    <2>3. \A t \in Thread : ps[p].run[t] # Idle => ps[p].run[t].url \in Url
      BY <2>2 DEF Job
    <2>4. \A i \in 1 .. Len(ps[p].queue) : ps[p].queue[i] \in Url
      BY <2>2
    <2> QED BY <2>1, <2>3, <2>4 DEF PoolBound
  <1>2. \A i \in 1 .. Len(rs) : rs[i].url \in Url
    <2>1. \A i \in 1 .. Len(rs) : rs[i] \in Result
      BY ElementOfSeq
    <2> QED BY <2>1 DEF Result
  <1> QED BY <1>1, <1>2 DEF PoolsBound, ResultsBound

LEMMA NewPoolBound ==
  ASSUME NEW ps \in Seq(Pool), NEW b, PoolsBound(ps, b)
  PROVE  PoolsBound(Append(ps, NewPool), b)
  <1> DEFINE qs == Append(ps, NewPool)
  <1>1. /\ Len(qs) = Len(ps) + 1 /\ Len(ps) \in Nat /\ qs[Len(ps) + 1] = NewPool
        /\ \A i \in 1 .. Len(ps) : qs[i] = ps[i]
    BY NewPoolOK, AppendProperties, LenProperties
  <1>2. PoolBound(NewPool, b)
    <2>1. Len(NewPool.queue) = 0 /\ \A t \in Thread : NewPool.run[t] = Idle
      BY DEF NewPool
    <2> QED BY <2>1 DEF PoolBound
  <1>3. \A i \in 1 .. Len(qs) : i \in 1 .. Len(ps) \/ i = Len(ps) + 1
    BY <1>1
  <1> HIDE DEF qs
  <1>4. PoolsBound(qs, b)
    BY <1>1, <1>2, <1>3 DEF PoolsBound
  <1> QED BY <1>4 DEF qs

(* One pool is replaced by another whose addresses are bound. *)
LEMMA ChangedPoolBound ==
  ASSUME NEW ps \in Seq(Pool), NEW b, PoolsBound(ps, b), NEW p \in 1 .. Len(ps),
         NEW q \in Pool, PoolBound(q, b)
  PROVE  PoolsBound([ps EXCEPT ![p] = q], b)
  <1>1. /\ Len([ps EXCEPT ![p] = q]) = Len(ps)
        /\ \A i \in 1 .. Len(ps) : [ps EXCEPT ![p] = q][i] = IF i = p THEN q ELSE ps[i]
    BY ExceptSeq
  <1> QED BY <1>1 DEF PoolsBound

LEMMA SubmitBound ==
  ASSUME NEW ps \in Seq(Pool), Len(ps) > 0, NEW u \in Url, NEW b, PoolsBound(ps, b),
         b[u] # None
  PROVE  PoolsBound([ps EXCEPT ![Len(ps)].queue = Append(@, u)], b)
  <1> DEFINE n == Len(ps)
             more == Append(ps[n].queue, u)
             q == [ps[n] EXCEPT !.queue = more]
  <1>1. n \in 1 .. Len(ps) /\ ps[n] \in Pool /\ PoolBound(ps[n], b)
    BY DEF PoolsBound
  <1>2. ps[n].queue \in Seq(Url) /\ ps[n].run \in [Thread -> Job]
    BY <1>1 DEF Pool
  <1>3. /\ more \in Seq(Url) /\ Len(more) = Len(ps[n].queue) + 1 /\ Len(ps[n].queue) \in Nat
        /\ \A i \in 1 .. Len(ps[n].queue) : more[i] = ps[n].queue[i]
        /\ more[Len(ps[n].queue) + 1] = u
    BY <1>2, AppendProperties, LenProperties
  <1>4. \A i \in 1 .. Len(more) : i \in 1 .. Len(ps[n].queue) \/ i = Len(ps[n].queue) + 1
    BY <1>3
  <1>5. [ps EXCEPT ![Len(ps)].queue = Append(@, u)] = [ps EXCEPT ![n] = q]
    BY <1>1
  <1> HIDE DEF more, n
  <1>6. q \in Pool /\ q.queue = more /\ q.run = ps[n].run
    BY <1>1, <1>2, <1>3 DEF Pool
  <1> HIDE DEF q
  <1>7. PoolBound(q, b)
    BY <1>1, <1>3, <1>4, <1>6 DEF PoolBound
  <1>8. PoolsBound([ps EXCEPT ![n] = q], b)
    BY <1>1, <1>6, <1>7, ChangedPoolBound
  <1> QED BY <1>5, <1>8

LEMMA RunBound ==
  ASSUME NEW ps \in Seq(Pool), NEW p \in 1 .. Len(ps), NEW t \in Thread, NEW job \in Job,
         NEW b, PoolsBound(ps, b), job # Idle => b[job.url] # None
  PROVE  PoolsBound([ps EXCEPT ![p].run[t] = job], b)
  <1> DEFINE r == [ps[p].run EXCEPT ![t] = job]
             q == [ps[p] EXCEPT !.run = r]
  <1>1. ps[p] \in Pool /\ PoolBound(ps[p], b)
    BY DEF PoolsBound
  <1>2. ps[p].queue \in Seq(Url) /\ ps[p].run \in [Thread -> Job]
    BY <1>1 DEF Pool
  <1>3. r \in [Thread -> Job] /\ \A s \in Thread : r[s] = IF s = t THEN job ELSE ps[p].run[s]
    BY <1>2
  <1>4. [ps EXCEPT ![p].run[t] = job] = [ps EXCEPT ![p] = q]
    OBVIOUS
  <1> HIDE DEF r
  <1>5. q \in Pool /\ q.queue = ps[p].queue /\ q.run = r
    BY <1>1, <1>2, <1>3 DEF Pool
  <1> HIDE DEF q
  <1>6. PoolBound(q, b)
    BY <1>1, <1>3, <1>5 DEF PoolBound
  <1>7. PoolsBound([ps EXCEPT ![p] = q], b)
    BY <1>5, <1>6, ChangedPoolBound
  <1> QED BY <1>4, <1>7

LEMMA PostBound ==
  ASSUME NEW rs \in Seq(Result), NEW b, ResultsBound(rs, b), NEW r \in Result,
         b[r.url] # None
  PROVE  ResultsBound(Append(rs, r), b)
  <1> DEFINE qs == Append(rs, r)
  <1>1. /\ Len(qs) = Len(rs) + 1 /\ Len(rs) \in Nat /\ qs[Len(rs) + 1] = r
        /\ \A i \in 1 .. Len(rs) : qs[i] = rs[i]
    BY AppendProperties, LenProperties
  <1>2. \A i \in 1 .. Len(qs) : i \in 1 .. Len(rs) \/ i = Len(rs) + 1
    BY <1>1
  <1> HIDE DEF qs
  <1>3. ResultsBound(qs, b)
    BY <1>1, <1>2 DEF ResultsBound
  <1> QED BY <1>3 DEF qs
-----------------------------------------------------------------------------
(* The user's clicks and the rows of the list. *)
LEMMA InitCrash == Init => CInv
  <1> SUFFICES ASSUME Init PROVE CInv
    OBVIOUS
  <1>1. pools = <<>> /\ looper = <<>> /\ Len(pools) = 0 /\ Len(looper) = 0
    BY DEF Init
  <1>2. \A v \in Visible : shown[v].kind = "blank"
    BY DEF Init, Plain
  <1>3. Bound
    BY <1>1 DEF Bound, PoolsBound, ResultsBound
  <1>4. Running /\ Dangling
    BY <1>1, <1>2 DEF Init, Running, Dangling, DanglesUntilClick
  <1> QED BY <1>3, <1>4, InitOK DEF CInv

(* show, on the pools there are or on those and a new one. *)
LEMMA showBound ==
  ASSUME CInv, ~cleared, NEW c \in Config, NEW m \in Memory, StoreAgrees(m),
         NEW ps \in Seq(Pool), Len(ps) > 0, PoolsBound(ps, mViewMap),
         NEW u \in Url, NEW v \in Visible, show(c, m, ps, u, v), looper' = looper
  PROVE  PoolsBound(pools, mViewMap)' /\ ResultsBound(looper, mViewMap)'
  <1>1. /\ mViewMap' = [mViewMap EXCEPT ![u] = v]
        /\ \/ pools' = ps
           \/ pools' = [ps EXCEPT ![Len(ps)].queue = Append(@, u)]
    BY showShows DEF CInv, IInv
  <1>2. v # None /\ mViewMap \in [Url -> View \cup {None}]
    BY CacheAssumption DEF View, CInv, IInv, TypeOK
  <1>3. mViewMap'[u] # None /\ \A w \in Url : mViewMap[w] # None => mViewMap'[w] # None
    BY <1>1, <1>2
  <1>4. looper \in Seq(Result) /\ ResultsBound(looper, mViewMap)
    BY DEF CInv, IInv, TypeOK, Bound
  <1>5. PoolsBound(ps, mViewMap') /\ ResultsBound(looper, mViewMap')
    BY <1>3, <1>4, MoreBound
  <1>6. PoolsBound([ps EXCEPT ![Len(ps)].queue = Append(@, u)], mViewMap')
    BY <1>3, <1>5, SubmitBound
  <1> QED BY <1>1, <1>5, <1>6

LEMMA HolderClickCrash ==
  ASSUME CInv, NEW u \in PlaceImg, HolderClick(u)
  PROVE  Bound' /\ Running' /\ Dangling'
  <1> DEFINE m == Configured("LRU", mem)
             ps == Append(pools, NewPool)
  <1>1. m \in Memory /\ StoreAgrees(m) /\ u \in Url /\ HolderView \in Visible
    BY ConfiguredOK, CacheAssumption DEF Visible, CInv, IInv, TypeOK, MemoryAgrees, Style
  <1>2. show(HolderConfig, m, ps, u, HolderView)
    BY DEF HolderClick
  <1>3. ps \in Seq(Pool) /\ Len(ps) > 0
    BY AppendPoolOK DEF CInv, IInv
  <1>4. ~cleared => PoolsBound(ps, mViewMap)
    BY NewPoolBound DEF CInv, IInv, TypeOK, Bound
  <1>5. /\ activity = "started" /\ mode' = "holder" /\ mConfig' = HolderConfig
        /\ UNCHANGED <<activity, adapterStale, inst, looper, file, crashed, cleared>>
    BY DEF HolderClick, initConfig
  <1>c. HolderConfig \in Config
    BY DEF Config
  <1> HIDE DEF m, ps
  <1>6. pools' \in Seq(Pool) /\ Len(pools') > 0
    BY <1>1, <1>2, <1>3, <1>c, showOK DEF CInv, IInv
  <1>7. /\ shown'[HolderView].kind # "recycled"
        /\ \A w \in Visible \ {HolderView} : shown'[w].kind = shown[w].kind
    BY <1>1, <1>2, <1>3, <1>c, showShows DEF CInv, IInv
  <1>8. Bound'
    BY <1>1, <1>2, <1>3, <1>4, <1>5, <1>c, showBound DEF Bound
  <1>9. pools' # <<>> /\ mConfig' # None
    BY <1>5, <1>6, <1>c, ConfigAssumption
  <1>10. Running'
    BY <1>5, <1>7, <1>9 DEF Running, CInv
  <1>11. Dangling'
    BY <1>5, <1>7 DEF Dangling, DanglesUntilClick
  <1> QED BY <1>8, <1>10, <1>11

LEMMA ListClickCrash ==
  ASSUME CInv, ListClick
  PROVE  Bound' /\ Running' /\ Dangling'
  <1>1. /\ activity = "started" /\ mode' = "list" /\ mConfig' = ListConfig
        /\ adapterStale' = FALSE /\ pools' = Append(pools, NewPool)
        /\ UNCHANGED <<activity, inst, looper, file, crashed, cleared>>
    BY DEF ListClick, initConfig
  <1>2. \A v \in Visible : IF v \in RowView THEN shown'[v].kind = "blank"
                           ELSE shown'[v].kind = shown[v].kind
    BY DEF ListClick, Plain
  <1>3. /\ pools \in Seq(Pool) /\ looper \in Seq(Result)
        /\ pools' \in Seq(Pool) /\ Len(pools') > 0
    BY <1>1, AppendPoolOK DEF CInv, IInv, TypeOK
  <1>4. \A u \in Url : mViewMap[u] # None => mViewMap'[u] # None
    BY CacheAssumption DEF ListClick, View
  <1>5. Bound'
    <2> SUFFICES ASSUME ~cleared
                 PROVE  PoolsBound(pools', mViewMap') /\ ResultsBound(looper', mViewMap')
      BY <1>1 DEF Bound
    <2>1. PoolsBound(pools, mViewMap) /\ ResultsBound(looper, mViewMap)
      BY DEF CInv, Bound
    <2>2. PoolsBound(pools, mViewMap') /\ ResultsBound(looper, mViewMap')
      BY <1>3, <1>4, <2>1, MoreBound
    <2> QED BY <1>1, <1>3, <2>2, NewPoolBound
  <1>6. pools' # <<>> /\ mConfig' # None
    BY <1>1, <1>3, ConfigAssumption DEF Config
  <1>7. Running'
    BY <1>1, <1>2, <1>6 DEF Running, CInv
  <1>8. HolderView \notin RowView /\ \A v \in Visible : v \in RowView \/ v = HolderView
    BY CacheAssumption DEF Visible
  <1>9. Dangling'
    BY <1>1, <1>2, <1>8 DEF Dangling, DanglesUntilClick
  <1> QED BY <1>5, <1>7, <1>9

LEMMA GetViewCrash ==
  ASSUME CInv, NEW u \in ListImg, NEW v \in RowView, GetView(u, v)
  PROVE  Bound' /\ Running' /\ Dangling'
  <1>1. /\ u \in Url /\ v \in Visible /\ mem \in Memory /\ StoreAgrees(mem)
        /\ pools \in Seq(Pool)
    BY CacheAssumption DEF Visible, CInv, IInv, TypeOK, MemoryAgrees
  <1>2. /\ show(ListConfig, mem, pools, u, v) /\ activity = "started" /\ mode = "list"
        /\ UNCHANGED <<ui, inst, mConfig, handlerAct, looper, file, crashed, cleared>>
    BY DEF GetView
  <1>3. Len(pools) > 0 /\ pools # <<>>
    BY <1>1, <1>2 DEF CInv, IInv, HasPool
  <1>c. ListConfig \in Config
    BY DEF Config
  <1>4. pools' \in Seq(Pool) /\ Len(pools') > 0
    BY <1>1, <1>2, <1>3, <1>c, showOK DEF CInv, IInv
  <1>5. /\ shown'[v].kind # "recycled"
        /\ \A w \in Visible \ {v} : shown'[w].kind = shown[w].kind
    BY <1>1, <1>2, <1>3, <1>c, showShows DEF CInv, IInv
  <1>6. Bound'
    BY <1>1, <1>2, <1>3, <1>c, showBound DEF Bound, CInv
  <1>7. Running'
    BY <1>2, <1>3, <1>4, <1>5 DEF Running, CInv, ui
  <1>8. Dangling'
    BY <1>2, <1>5 DEF Dangling, DanglesUntilClick, CInv, ui
  <1> QED BY <1>6, <1>7, <1>8

-----------------------------------------------------------------------------
(* The life of the activity. *)
LEMMA LifecycleCrash ==
  ASSUME CInv,
         \/ StaleGetView \/ \E v \in Visible : Redraw(v)
         \/ Launch \/ Restart \/ Stop \/ Destroy \/ Collect \/ Kill
  PROVE  Bound' /\ Running' /\ Dangling'
  <1>1. CASE StaleGetView
    <2>1. cleared
      BY <1>1 DEF StaleGetView, CInv, Running
    <2>2. UNCHANGED <<ui, cache, screen, pools, looper, cleared>>
      BY <1>1 DEF StaleGetView
    <2> QED BY <2>1, <2>2 DEF Bound, Running, Dangling, DanglesUntilClick, CInv, ui, cache, screen
  <1>2. CASE \E v \in Visible : Redraw(v)
    <2>1. cleared
      BY <1>2 DEF Redraw, CInv, Running
    <2>2. UNCHANGED <<ui, cache, screen, pools, looper, cleared>>
      BY <1>2 DEF Redraw
    <2> QED BY <2>1, <2>2 DEF Bound, Running, Dangling, DanglesUntilClick, CInv, ui, cache, screen
  <1>3. CASE Launch
    <2>1. /\ activity = "gone" /\ activity' = "started" /\ mode' = "none"
          /\ adapterStale' = FALSE /\ inst' = TRUE
          /\ UNCHANGED <<mConfig, mViewMap, pools, looper, crashed, cleared>>
      BY <1>3 DEF Launch
    <2>2. \A v \in Visible : shown'[v].kind = "blank"
      BY <1>3 DEF Launch, Plain
    <2>3. Bound'
      BY <2>1 DEF Bound, CInv
    <2>4. Running' /\ Dangling'
      BY <2>1, <2>2 DEF Running, Dangling, DanglesUntilClick, CInv
    <2> QED BY <2>3, <2>4
  <1>4. CASE Restart
    <2>1. cleared /\ mConfig = None
      BY <1>4 DEF Restart, CInv, Running, Dangling
    <2>2. UNCHANGED <<mConfig, cleared>>
      BY <1>4 DEF Restart
    <2> QED BY <2>1, <2>2 DEF Bound, Running, Dangling, DanglesUntilClick
  <1>5. CASE Stop
    BY <1>5 DEF Stop, clear, Bound, Running, Dangling, DanglesUntilClick
  <1>6. CASE Destroy
    <2>1. cleared /\ mConfig = None
      BY <1>6 DEF Destroy, CInv, Running, Dangling
    <2>2. UNCHANGED <<mConfig, cleared>>
      BY <1>6 DEF Destroy, cache
    <2> QED BY <2>1, <2>2 DEF Bound, Running, Dangling, DanglesUntilClick
  <1>7. CASE Collect
    <2>1. UNCHANGED <<ui, inst, mConfig, mViewMap, screen, pools, looper, crashed, cleared>>
      BY <1>7 DEF Collect
    <2> QED BY <2>1 DEF Bound, Running, Dangling, DanglesUntilClick, CInv, ui, screen
  <1>8. CASE Kill
    <2>1. /\ activity' = "gone" /\ adapterStale' = FALSE /\ mConfig' = None
          /\ pools' = <<>> /\ looper' = <<>> /\ crashed' = "no"
      BY <1>8 DEF Kill
    <2>2. \A v \in Visible : shown'[v].kind = "blank"
      BY <1>8 DEF Kill, Plain
    <2>3. Len(pools') = 0 /\ Len(looper') = 0
      BY <2>1
    <2>4. Bound'
      BY <2>3 DEF Bound, PoolsBound, ResultsBound
    <2>5. Running' /\ Dangling'
      BY <2>1, <2>2 DEF Running, Dangling, DanglesUntilClick
    <2> QED BY <2>4, <2>5
  <1> QED BY <1>1, <1>2, <1>3, <1>4, <1>5, <1>6, <1>7, <1>8
-----------------------------------------------------------------------------
(* The pools' threads: a load goes from the queue to the thread and into a  *)
(* result, always of the same address.                                      *)
LEMMA LoadCrash ==
  ASSUME CInv, NEW p, NEW t \in Thread, Load(p, t)
  PROVE  Bound' /\ Running' /\ Dangling'
  <1>1. /\ p \in 1 .. Len(pools) /\ pools \in Seq(Pool) /\ pools[p] \in Pool
        /\ looper \in Seq(Result)
        /\ UNCHANGED <<ui, cache, screen, crashed, cleared>>
    BY DEF Load, Take, FetchFail, FetchOk, FetchUnsaved, SaveEnds, Thr, CInv, IInv, TypeOK
  <1>2. Idle \in Job /\ pools[p].run[t] \in Job
    BY <1>1 DEF Job, Pool
  <1>3. pools' # <<>> /\ pools # <<>>
    <2>1. \E q : pools' = [pools EXCEPT ![p] = q]
      <3>1. CASE Take(p, t)
        BY <3>1 DEF Take
      <3>2. CASE FetchFail(p, t) \/ FetchOk(p, t) \/ FetchUnsaved(p, t)
        BY <3>2 DEF FetchFail, FetchOk, FetchUnsaved, Job1
      <3>3. CASE \E ok \in BOOLEAN : SaveEnds(p, t, ok)
        BY <3>3 DEF SaveEnds, Job1
      <3> QED BY <3>1, <3>2, <3>3 DEF Load
    <2>2. DOMAIN pools' = DOMAIN pools /\ p \in DOMAIN pools
      BY <1>1, <2>1
    <2>3. DOMAIN <<>> = {}
      OBVIOUS
    <2> QED BY <2>2, <2>3
  <1>4. ASSUME ~cleared
        PROVE  PoolsBound(pools', mViewMap) /\ ResultsBound(looper', mViewMap)
    <2>1. /\ PoolsBound(pools, mViewMap) /\ ResultsBound(looper, mViewMap)
          /\ PoolBound(pools[p], mViewMap)
      BY <1>1, <1>4 DEF CInv, Bound, PoolsBound
    <2>2. CASE Take(p, t)
      <3> DEFINE job == IF handlerAct = "collected" THEN Idle
                        ELSE [phase |-> "fetch", url |-> Head(pools[p].queue)]
                 rest == Tail(pools[p].queue)
                 r == [pools[p].run EXCEPT ![t] = job]
                 q == [pools[p] EXCEPT !.queue = rest, !.run = r]
      <3>1. pools[p].queue \in Seq(Url) /\ pools[p].queue # <<>>
            /\ pools[p].run \in [Thread -> Job]
        BY <1>1, <2>2 DEF Take, Pool
      <3>2. /\ rest \in Seq(Url) /\ Head(pools[p].queue) = pools[p].queue[1]
            /\ 1 \in 1 .. Len(pools[p].queue) /\ Head(pools[p].queue) \in Url
            /\ \A i \in 1 .. Len(rest) : rest[i] = pools[p].queue[i + 1]
                                       /\ i + 1 \in 1 .. Len(pools[p].queue)
        BY <3>1, HeadTailProperties, LenProperties, EmptySeq
      <3>3. mViewMap[Head(pools[p].queue)] # None
        BY <2>1, <3>2 DEF PoolBound
      <3>4. job \in Job /\ (job # Idle => mViewMap[job.url] # None)
        BY <1>2, <3>2, <3>3 DEF Job
      <3> HIDE DEF job, rest
      <3>5. r \in [Thread -> Job] /\ \A w \in Thread : r[w] = IF w = t THEN job ELSE pools[p].run[w]
        BY <3>1, <3>4
      <3>6. pools' = [pools EXCEPT ![p] = q] /\ looper' = looper
        BY <1>1, <2>2 DEF Take, job, rest
      <3> HIDE DEF r
      <3>7. q \in Pool /\ q.queue = rest /\ q.run = r
        BY <1>1, <3>2, <3>5 DEF Pool
      <3> HIDE DEF q
      <3>8. \A i \in 1 .. Len(q.queue) : mViewMap[q.queue[i]] # None
        BY <2>1, <3>2, <3>7 DEF PoolBound
      <3>9. \A w \in Thread : q.run[w] # Idle => mViewMap[q.run[w].url] # None
        BY <2>1, <3>4, <3>5, <3>7 DEF PoolBound
      <3>10. PoolsBound([pools EXCEPT ![p] = q], mViewMap)
        BY <1>1, <2>1, <3>7, <3>8, <3>9, ChangedPoolBound DEF PoolBound
      <3> QED BY <2>1, <3>6, <3>10
    <2>3. CASE ~Take(p, t)
      <3> DEFINE u == pools[p].run[t].url
      <3>1. pools[p].run[t].phase \in {"fetch", "save"}
        BY <2>3 DEF Load, FetchFail, FetchOk, FetchUnsaved, SaveEnds
      <3>2. u \in Url /\ pools[p].run[t] # Idle
        BY <1>2, <3>1 DEF Job, Idle
      <3>3. mViewMap[u] # None
        BY <2>1, <3>2 DEF PoolBound
      <3>4. PICK job \in {Idle, [phase |-> "save", url |-> u]} : pools' = [pools EXCEPT ![p].run[t] = job]
        BY <2>3 DEF Load, FetchFail, FetchOk, FetchUnsaved, SaveEnds, Job1
      <3>5. \/ looper' = looper
            \/ \E pic \in Pic \cup {None} : looper' = Append(looper, [url |-> u, pic |-> pic])
        BY <2>3, <3>2 DEF Load, FetchFail, FetchOk, FetchUnsaved, SaveEnds, Post, Pic
      <3> HIDE DEF u
      <3>6. job \in Job /\ (job # Idle => mViewMap[job.url] # None)
        BY <1>2, <3>2, <3>3, <3>4 DEF Job
      <3>7. PoolsBound(pools', mViewMap)
        BY <1>1, <2>1, <3>4, <3>6, RunBound
      <3>8. ResultsBound(looper', mViewMap)
        <4>1. ASSUME NEW pic \in Pic \cup {None}, looper' = Append(looper, [url |-> u, pic |-> pic])
              PROVE  ResultsBound(looper', mViewMap)
          <5>1. [url |-> u, pic |-> pic] \in Result
            BY <3>2 DEF Result
          <5> QED BY <1>1, <2>1, <3>3, <4>1, <5>1, PostBound
        <4> QED BY <2>1, <3>5, <4>1
      <3> QED BY <3>7, <3>8
    <2> QED BY <2>2, <2>3
  <1>5. Bound'
    BY <1>1, <1>4 DEF Bound, cache
  <1>6. Running' /\ Dangling'
    <2>1. activity # "gone" \/ cleared
      BY <1>3 DEF CInv, Running
    <2> QED BY <1>1, <1>3, <2>1
            DEF Running, Dangling, DanglesUntilClick, CInv, ui, cache, screen
  <1> QED BY <1>5, <1>6

-----------------------------------------------------------------------------
(* The handler's messages. *)
LEMMA MessageCrash ==
  ASSUME CInv, HandleMessage
  PROVE  Bound' /\ Running' /\ Dangling'
  <1> DEFINE r == Head(looper)
  <1>1. /\ looper \in Seq(Result) /\ looper # <<>> /\ looper' = Tail(looper)
        /\ UNCHANGED <<ui, inst, mConfig, handlerAct, mViewMap, asked, pools, file, cleared>>
    BY DEF HandleMessage, DropMessage, RenderMessage, showError, LateMessage, NextMessage,
           CInv, IInv, TypeOK
  <1>2. /\ r \in Result /\ r = looper[1] /\ 1 \in 1 .. Len(looper)
        /\ \A i \in 1 .. Len(looper') : looper'[i] = looper[i + 1]
                                     /\ i + 1 \in 1 .. Len(looper)
    BY <1>1, HeadTailProperties, LenProperties, EmptySeq
  <1>3. Bound'
    BY <1>1, <1>2 DEF CInv, Bound, ResultsBound
  <1>4. ~cleared => inst /\ mConfig # None /\ mViewMap[r.url] # None /\ activity # "gone"
    BY <1>1, <1>2, SMTT(30) DEF CInv, Bound, ResultsBound, Running, IInv, TypeOK
  <1>5. ~cleared => crashed' = crashed
    BY <1>1, <1>4 DEF HandleMessage, DropMessage, RenderMessage, showError, LateMessage, Missing
  <1>6. \A w \in Visible : shown'[w].kind = "recycled" => shown[w].kind = "recycled"
    <2>1. CASE DropMessage \/ LateMessage
      BY <2>1 DEF DropMessage, LateMessage
    <2>2. CASE RenderMessage
      <3>1. /\ r.pic # None /\ ~Missing(r.url)
            /\ Render(mConfig.style, mem, shown, r.url, mViewMap[r.url], r.pic, FALSE)
        BY <2>2 DEF RenderMessage
      <3>2. r.url \in Url /\ r.pic \in Pic
        BY <1>2, <3>1 DEF Result
      <3>3. mConfig.style \in Style
        BY <3>1 DEF Missing, CInv, IInv, TypeOK, Config, HolderConfig, ListConfig, Style
      <3>4. mem \in Memory /\ shown \in [Visible -> Display]
        BY DEF CInv, IInv, TypeOK
      <3>5. \A w \in Visible : IF w = mViewMap[r.url] THEN shown'[w].kind = "picture"
                               ELSE shown'[w].kind = shown[w].kind
        <4>1. PICK stored \in BOOLEAN :
                Render(mConfig.style, mem, shown, r.url, mViewMap[r.url], r.pic, stored)
          BY <3>1
        <4> HIDE DEF r
        <4> QED BY <3>2, <3>3, <3>4, <4>1, RenderShows
      <3> QED BY <3>5
    <2>3. CASE showError
      BY <2>3 DEF showError, Draw, Plain
    <2> QED BY <2>1, <2>2, <2>3 DEF HandleMessage
  <1>7. pools # <<>> \/ cleared
    BY <1>1 DEF CInv, Running
  <1>8. Running'
    BY <1>1, <1>4, <1>5, <1>6, <1>7 DEF Running, CInv, ui
  <1>9. Dangling'
    BY <1>1, <1>6 DEF Dangling, DanglesUntilClick, CInv, ui
  <1> QED BY <1>3, <1>8, <1>9

LEMMA NextCrash == CInv /\ [Next]_vars => CInv'
  <1> SUFFICES ASSUME CInv, [Next]_vars PROVE CInv'
    OBVIOUS
  <1>1. IInv'
    BY NextOK DEF CInv
  <1>2. CASE UNCHANGED vars
    BY <1>1, <1>2 DEF vars, ui, cache, screen, CInv, Bound, Running, Dangling, DanglesUntilClick
  <1>3. CASE Next
    BY <1>1, <1>3, HolderClickCrash, ListClickCrash, GetViewCrash, LifecycleCrash, LoadCrash,
       MessageCrash DEF Next, CInv
  <1> QED BY <1>2, <1>3

-----------------------------------------------------------------------------
\* Only clear() can make the main thread throw: until onStop has called it, a
\* result always finds its view, its configuration and the instance, and no
\* adapter or bitmap dangles, however many pools and loads there are
\* (ImageCache 148, 187-200, 228-247).
THEOREM OnlyClearCrashes == SafetySpec => []CrashNeedsClear
  <1>1. CInv => CrashNeedsClear
    BY DEF CInv, Running, CrashNeedsClear
  <1> QED BY <1>1, InitCrash, NextCrash, PTL DEF SafetySpec

\* A recycled bitmap or an adapter of a cleared instance is out of sight as
\* soon as the new instance has a configuration.
THEOREM ClickEndsDangling == SafetySpec => []DanglesUntilClick
  <1>1. CInv => DanglesUntilClick
    BY DEF CInv, Dangling
  <1> QED BY <1>1, InitCrash, NextCrash, PTL DEF SafetySpec
=============================================================================
