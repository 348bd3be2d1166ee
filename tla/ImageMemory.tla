----------------------------- MODULE ImageMemory -----------------------------
(***************************************************************************)
(* The two in-memory picture stores of performance/cache/ImageCache.java   *)
(* as pure operators: a HashMap guarded by a LinkedList of addresses       *)
(* (first in, first out) and an android.util.LruCache (least recently      *)
(* used).  A store is a record; each operator returns the next store.      *)
(***************************************************************************)
EXTENDS Integers, Sequences

CONSTANTS Url,              \* picture addresses
          MemoryFileCount,  \* mMemoryFileCount: pictures kept in memory
          None              \* Java's null

ASSUME MemoryAssumption == /\ MemoryFileCount \in Nat \ {0}
                           /\ None \notin Url
                           /\ None \notin [url : Url, whole : BOOLEAN]

\* A decoded bitmap: which picture it is and whether all of it was decoded.
Pic == [url : Url, whole : BOOLEAN]

Style == {"FIFO", "LRU"}

Memory == [imageMap  : [Url -> Pic \cup {None}],   \* mImageMap
           fifoList  : Seq(Url),                   \* mFifoList
           lruMap    : [Url -> Pic \cup {None}],   \* mImageLru: entries ...
           lruOrder  : Seq(Url)]                   \* ... and recency, eldest first

Nothing == [u \in Url |-> None]

EmptyMemory == [imageMap |-> Nothing, fifoList |-> <<>>,
                lruMap |-> Nothing, lruOrder |-> <<>>]

\* initConfig with the LRU style replaces the LruCache object by an empty one;
\* the FIFO store of the instance is left as it is.
Configured(style, m) ==
    IF style = "LRU" THEN [m EXCEPT !.lruMap = Nothing, !.lruOrder = <<>>] ELSE m

Lookup(style, m, u) == IF style = "LRU" THEN m.lruMap[u] ELSE m.imageMap[u]

isExist(style, m, u) == Lookup(style, m, u) # None

\* Moves the element at position k to the end.
MoveToEnd(s, k) ==
    [i \in 1..Len(s) |-> IF i < k THEN s[i]
                         ELSE IF i < Len(s) THEN s[i + 1] ELSE s[k]]

\* isExist and getBitmap call LruCache.get, which makes a present entry the
\* most recent one.
Touch(style, m, u) ==
    IF style = "LRU" /\ \E k \in 1..Len(m.lruOrder) : m.lruOrder[k] = u
    THEN [m EXCEPT !.lruOrder =
             MoveToEnd(@, CHOOSE k \in 1..Len(m.lruOrder) : m.lruOrder[k] = u)]
    ELSE m

\* Mutant: the limit is tested one too late.
EvictAbove(m) ==
    IF Len(m.fifoList) > MemoryFileCount
    THEN [m EXCEPT !.imageMap[Head(m.fifoList)] = None, !.fifoList = Tail(@)]
    ELSE m

\* mFifoList.pollFirst and mImageMap.remove when the list is at its limit.
EvictFirst(m) ==
    IF Len(m.fifoList) >= MemoryFileCount
    THEN [m EXCEPT !.imageMap[Head(m.fifoList)] = None, !.fifoList = Tail(@)]
    ELSE m

\* mImageMap.put and mFifoList.addLast.
PutLast(m, u, pic) ==
    [m EXCEPT !.imageMap[u] = pic, !.fifoList = Append(@, u)]

\* LruCache.put of an address that is not in the cache (render tests isExist
\* first): the entry becomes the most recent, then trimToSize drops the eldest.
LruPut(m, u, pic) ==
    IF Len(m.lruOrder) >= MemoryFileCount
    THEN [m EXCEPT !.lruMap = [@ EXCEPT ![Head(m.lruOrder)] = None, ![u] = pic],
                   !.lruOrder = Append(Tail(@), u)]
    ELSE [m EXCEPT !.lruMap[u] = pic, !.lruOrder = Append(@, u)]

refreshList(style, m, u, pic) ==
    IF style = "LRU" THEN LruPut(m, u, pic) ELSE PutLast(EvictFirst(m), u, pic)

-----------------------------------------------------------------------------
\* An order and a map agree when the order lists each stored address once,
\* lists nothing else, and is within the limit.
Agrees(order, map) ==
    /\ Len(order) <= MemoryFileCount
    /\ \A i, j \in 1..Len(order) : order[i] = order[j] => i = j
    /\ \A i \in 1..Len(order) : map[order[i]] # None
    /\ \A u \in Url : map[u] # None => \E i \in 1..Len(order) : order[i] = u

StoreAgrees(m) == Agrees(m.fifoList, m.imageMap) /\ Agrees(m.lruOrder, m.lruMap)
=============================================================================
