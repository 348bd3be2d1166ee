-------------------------- MODULE ScanCaptureProofs --------------------------
(***************************************************************************)
(* Theorems about the code scanner, for every number of pages and handlers. *)
(*                                                                         *)
(* TInv types the state; in it, whoever is written to was made.  Base says  *)
(* which handlers a page holds (Owned), which one is quitting (Leaving),    *)
(* and that nothing is owed to the others (Quiet): it is inductive whenever *)
(* autoFocus does not throw, whatever else the camera does, and also when a *)
(* surface comes early.  Strict counts the one frame of the page's handler  *)
(* as it moves from the camera to the inbox, the thread and the queue; it   *)
(* needs besides that no surface comes early, which leaves a handler behind *)
(* that no page quits.                                                      *)
(***************************************************************************)
EXTENDS ScanCapture, SequenceTheorems, FiniteSetTheorems, WellFoundedInduction, TLAPS

(* A set of numbers has a least one, which stands for induction: a statement *)
(* holds of all numbers when none can be the least it fails of.              *)
LEMMA LeastNumber ==
  ASSUME NEW T, T \subseteq Nat, T # {}
  PROVE  \E x \in T : \A y \in T : x <= y
<1> DEFINE R == {ss \in Nat \X Nat : ss[1] < ss[2]}
<1>1. IsWellFoundedOn(R, Nat)
  BY NatLessThanWellFounded DEF OpToRel
<1>2. \A x, y \in Nat : y < x => <<y, x>> \in R
  OBVIOUS
<1> HIDE DEF R
<1>3. PICK x \in T : \A y \in T : <<y, x>> \notin R
  BY <1>1, WFMin
<1>4. \A y \in T : ~(y < x)
  BY <1>2, <1>3
<1> QED
  BY <1>3, <1>4

(* What removeMessages leaves: the recursion of Without has a solution, and  *)
(* every message of it was there before and is not of those removed.         *)
Cut(p, q, V, n) ==
  IF n = 0 THEN <<>> ELSE IF q[n] \in V THEN p[n - 1] ELSE Append(p[n - 1], q[n])

LEMMA CutExists ==
  ASSUME NEW S, NEW q \in Seq(S), NEW V
  PROVE  \E p : p = [n \in 0 .. Len(q) |-> Cut(p, q, V, n)]
<1> DEFINE Has(n) == \E p : p = [k \in 0 .. n |-> Cut(p, q, V, k)]
           Bad == {n \in Nat : ~Has(n)}
<1>1. Len(q) \in Nat
  BY LenProperties
<1>2. Bad = {}
  <2> SUFFICES ASSUME Bad # {} PROVE FALSE
    OBVIOUS
  <2>1. PICK n \in Bad : \A m \in Bad : n <= m
    <3>1. Bad \subseteq Nat
      OBVIOUS
    <3> HIDE DEF Bad
    <3> QED
      BY <3>1, LeastNumber
  <2>2. n # 0
    <3> DEFINE z == [k \in 0 .. 0 |-> <<>>]
    <3>1. z = [k \in 0 .. 0 |-> Cut(z, q, V, k)]
      BY DEF Cut
    <3>2. Has(0)
      BY <3>1
    <3> HIDE DEF Has
    <3> QED
      BY <2>1, <3>2
  <2>3. n \in Nat /\ n - 1 \in Nat /\ ~Has(n) /\ Has(n - 1)
    <3> HIDE DEF Has
    <3> QED
      BY <2>1, <2>2
  <2>4. PICK p : p = [k \in 0 .. n - 1 |-> Cut(p, q, V, k)]
    BY <2>3
  <2> DEFINE h == [k \in 0 .. n |-> IF k = n THEN Cut(p, q, V, n) ELSE p[k]]
  <2>5. \A k \in 0 .. n : h[k] = Cut(h, q, V, k)
    <3> SUFFICES ASSUME NEW k \in 0 .. n PROVE h[k] = Cut(h, q, V, k)
      OBVIOUS
    <3>1. k # 0 => h[k - 1] = p[k - 1]
      BY <2>3
    <3>2. h[k] = Cut(p, q, V, k)
      <4>1. CASE k = n
        BY <4>1
      <4>2. CASE k # n
        <5>1. k \in 0 .. n - 1
          BY <2>3, <4>2
        <5>2. p[k] = Cut(p, q, V, k)
          BY <2>4, <5>1
        <5> QED
          BY <4>2, <5>2
      <4> QED
        BY <4>1, <4>2
    <3> HIDE DEF h
    <3> QED
      BY <3>1, <3>2 DEF Cut
  <2>6. h = [k \in 0 .. n |-> h[k]]
    OBVIOUS
  <2>7. h = [k \in 0 .. n |-> Cut(h, q, V, k)]
    <3> HIDE DEF h
    <3> QED
      BY <2>5, <2>6
  <2>8. Has(n)
    <3> HIDE DEF h
    <3> QED
      BY <2>7
  <2> HIDE DEF Has
  <2> QED
    BY <2>3, <2>8
<1>3. Has(Len(q))
  <2> HIDE DEF Has
  <2> QED
    BY <1>1, <1>2
<1> QED
  BY <1>3

LEMMA WithoutType ==
  ASSUME NEW S, NEW q \in Seq(S), NEW V
  PROVE  Without(q, V) \in Seq(S \ V)
<1> DEFINE p == CHOOSE p : p = [n \in 0 .. Len(q) |-> Cut(p, q, V, n)]
           Bad == {n \in 0 .. Len(q) : p[n] \notin Seq(S \ V)}
<1>1. Without(q, V) = p[Len(q)]
  BY DEF Without, Cut
<1>2. p = [n \in 0 .. Len(q) |-> Cut(p, q, V, n)]
  BY CutExists
<1> HIDE DEF p
<1>3. Len(q) \in Nat /\ \A i \in 1 .. Len(q) : q[i] \in S
  BY LenProperties, ElementOfSeq
<1>4. Bad = {}
  <2> SUFFICES ASSUME Bad # {} PROVE FALSE
    OBVIOUS
  <2>1. PICK n \in Bad : \A m \in Bad : n <= m
    <3>1. Bad \subseteq Nat
      BY <1>3
    <3> HIDE DEF Bad
    <3> QED
      BY <3>1, LeastNumber
  <2>2. n \in 0 .. Len(q) /\ p[n] = Cut(p, q, V, n)
    BY <1>2, <2>1
  <2>3. <<>> \in Seq(S \ V)
    BY EmptySeq
  <2>4. n # 0
    BY <2>1, <2>2, <2>3 DEF Cut
  <2>5. n - 1 \in 0 .. Len(q) /\ n \in 1 .. Len(q)
    BY <1>3, <2>2, <2>4
  <2>6. p[n - 1] \in Seq(S \ V)
    BY <1>3, <2>1, <2>2, <2>5
  <2>7. CASE q[n] \in V
    BY <2>1, <2>2, <2>4, <2>6, <2>7 DEF Cut
  <2>8. CASE q[n] \notin V
    <3>1. q[n] \in S \ V
      BY <1>3, <2>5, <2>8
    <3>2. Append(p[n - 1], q[n]) \in Seq(S \ V)
      BY <2>6, <3>1, AppendProperties
    <3> QED
      BY <2>1, <2>2, <2>4, <2>8, <3>2 DEF Cut
  <2> QED
    BY <2>7, <2>8
<1>5. Len(q) \in 0 .. Len(q)
  BY <1>3
<1> QED
  BY <1>1, <1>4, <1>5
-----------------------------------------------------------------------------
(* How often a value of V occurs in a sequence.                              *)
Bit(b) == IF b THEN 1 ELSE 0
Places(s, V) == {i \in DOMAIN s : s[i] \in V}

LEMMA OccursType ==
  ASSUME NEW S, NEW s \in Seq(S), NEW V
  PROVE  /\ IsFiniteSet(Places(s, V)) /\ Cardinality(Places(s, V)) = Occurs(s, V)
         /\ Occurs(s, V) \in Nat
         /\ Occurs(s, V) = 0 <=> \A i \in 1 .. Len(s) : s[i] \notin V
<1> DEFINE I == {i \in DOMAIN s : s[i] \in V}
<1>1. DOMAIN s = 1 .. Len(s) /\ Len(s) \in Nat
  BY LenProperties
<1>2. IsFiniteSet(1 .. Len(s))
  BY <1>1, FS_Interval
<1>3. I \in SUBSET (1 .. Len(s))
  BY <1>1
<1>4. IsFiniteSet(I)
  BY <1>2, <1>3, FS_Subset
<1>5. Cardinality(I) \in Nat /\ (Cardinality(I) = 0 <=> I = {})
  <2> HIDE DEF I
  <2> QED
    BY <1>4, FS_CardinalityType, FS_EmptySet
<1> QED
  BY <1>1, <1>4, <1>5 DEF Occurs, Places

LEMMA OccursNone ==
  ASSUME NEW S, NEW V, NEW s \in Seq(S \ V)
  PROVE  Occurs(s, V) = 0
<1>1. \A i \in 1 .. Len(s) : s[i] \in S \ V
  BY ElementOfSeq
<1> QED
  BY <1>1, OccursType

LEMMA OccursNil == \A V : Occurs(<<>>, V) = 0
<1> SUFFICES ASSUME NEW V PROVE Occurs(<<>>, V) = 0
  OBVIOUS
<1>1. <<>> \in Seq({} \ V)
  BY EmptySeq
<1> QED
  BY <1>1, OccursNone

LEMMA OccursAppend ==
  ASSUME NEW S, NEW s \in Seq(S), NEW V, NEW e
  PROVE  Occurs(Append(s, e), V) = Occurs(s, V) + Bit(e \in V)
<1> DEFINE n == Len(s)
           t == Append(s, e)
           I == Places(s, V)
           J == Places(t, V)
<1>0. s \in Seq(S \cup {e}) /\ e \in S \cup {e}
  BY SeqMonotonic
<1>1. /\ n \in Nat /\ DOMAIN s = 1 .. n /\ DOMAIN t = 1 .. n + 1
      /\ \A i \in 1 .. n : t[i] = s[i]
      /\ t[n + 1] = e
  <2>1. t \in Seq(S \cup {e}) /\ Len(t) = n + 1
    BY <1>0, AppendProperties
  <2>2. DOMAIN t = 1 .. n + 1
    BY <2>1, LenProperties
  <2> QED
    BY <1>0, <2>2, AppendProperties, LenProperties
<1> HIDE DEF n, t
<1>2. IsFiniteSet(I) /\ Cardinality(I) = Occurs(s, V) /\ Occurs(s, V) \in Nat
  BY OccursType
<1>9. n + 1 \notin I /\ Occurs(t, V) = Cardinality(J)
  BY <1>1 DEF Places, Occurs
<1>3. CASE e \in V
  <2>1. J = I \cup {n + 1}
    BY <1>1, <1>3 DEF Places
  <2> HIDE DEF I, J
  <2>2. Cardinality(J) = Cardinality(I) + 1
    BY <1>2, <1>9, <2>1, FS_AddElement
  <2> QED
    BY <1>2, <1>3, <1>9, <2>2 DEF Bit, t
<1>4. CASE e \notin V
  <2>1. J = I
    BY <1>1, <1>4 DEF Places
  <2> HIDE DEF I, J
  <2> QED
    BY <1>2, <1>4, <1>9, <2>1 DEF Bit, t
<1> QED
  BY <1>3, <1>4

LEMMA OccursTail ==
  ASSUME NEW S, NEW s \in Seq(S), NEW V, s # <<>>
  PROVE  Occurs(s, V) = Bit(Head(s) \in V) + Occurs(Tail(s), V)
<1> DEFINE n == Len(s)
           t == Tail(s)
           I == Places(s, V)
           J == Places(t, V)
           K == {i \in I : i > 1}
<1>1. /\ n \in Nat /\ n >= 1 /\ DOMAIN s = 1 .. n /\ DOMAIN t = 1 .. n - 1
      /\ \A i \in 1 .. n - 1 : t[i] = s[i + 1]
      /\ s[1] = Head(s)
  <2>1. t \in Seq(S) /\ Len(t) = n - 1 /\ \A i \in 1 .. Len(t) : t[i] = s[i + 1]
    BY HeadTailProperties
  <2>2. DOMAIN t = 1 .. n - 1
    BY <2>1, LenProperties
  <2>3. n \in Nat /\ n >= 1 /\ DOMAIN s = 1 .. n
    BY EmptySeq, LenProperties
  <2> QED
    BY <2>1, <2>2, <2>3, HeadTailProperties
<1>2. t \in Seq(S)
  BY HeadTailProperties
<1>3. /\ IsFiniteSet(I) /\ IsFiniteSet(J)
      /\ Occurs(s, V) = Cardinality(I) /\ Occurs(t, V) = Cardinality(J)
  BY <1>2, OccursType
<1> HIDE DEF n, t
<1>4. K \in SUBSET I
  OBVIOUS
<1>5. IsFiniteSet(K) /\ Cardinality(K) \in Nat
  <2> HIDE DEF I, K
  <2> QED
    BY <1>3, <1>4, FS_Subset, FS_CardinalityType
<1>6. Cardinality(J) = Cardinality(K)
  <2> DEFINE f == [i \in K |-> i - 1]
  <2>1. f \in Bijection(K, J)
    <3>1. f \in [K -> J]
      BY <1>1 DEF Places
    <3>2. \A a, b \in K : f[a] = f[b] => a = b
      BY <1>1 DEF Places
    <3>3. \A j \in J : \E i \in K : f[i] = j
      <4> SUFFICES ASSUME NEW j \in J PROVE \E i \in K : f[i] = j
        OBVIOUS
      <4>1. j \in 1 .. n - 1 /\ t[j] \in V
        BY <1>1 DEF Places
      <4>2. j + 1 \in 1 .. n /\ s[j + 1] \in V /\ j + 1 > 1
        BY <1>1, <4>1
      <4>3. j + 1 \in K
        BY <1>1, <4>2 DEF Places
      <4> QED
        BY <4>1, <4>3
    <3> HIDE DEF f, K, J
    <3> QED
      BY <3>1, <3>2, <3>3 DEF Bijection, Injection, Surjection, IsInjective
  <2> HIDE DEF f, K, J
  <2>2. ExistsBijection(K, J)
    BY <2>1 DEF ExistsBijection
  <2> QED
    BY <1>5, <2>2, FS_Bijection
<1>7. Cardinality(I) = Bit(Head(s) \in V) + Cardinality(K)
  <2>1. CASE Head(s) \in V
    <3>1. I = K \cup {1} /\ 1 \notin K
      BY <1>1, <2>1 DEF Places
    <3> HIDE DEF I, K
    <3>2. Cardinality(I) = Cardinality(K) + 1
      BY <1>5, <3>1, FS_AddElement
    <3> QED
      BY <1>5, <2>1, <3>2 DEF Bit
  <2>2. CASE Head(s) \notin V
    <3>1. I = K
      BY <1>1, <2>2 DEF Places
    <3> HIDE DEF I, K
    <3> QED
      BY <1>5, <2>2, <3>1 DEF Bit
  <2> QED
    BY <2>1, <2>2
<1> HIDE DEF I, J, K
<1> QED
  BY <1>3, <1>6, <1>7 DEF t
-----------------------------------------------------------------------------
(* The types, with what they rest on: whoever is written to was made.        *)
Made ==
  [page : 1 .. Pages, state : {"PREVIEW", "SUCCESS", "DONE"},
   thread : {"idle", "decoding", "sending", "ended"},
   inbox : Seq({"decode", "quit"}), to : 0 .. Handlers]
Camera ==
  [open : BOOLEAN, previewing : BOOLEAN, drawing : BOOLEAN, oneShot : BOOLEAN,
   focusing : BOOLEAN, frameTo : 0 .. Handlers, focusTo : 0 .. Handlers]
Born(h) == h \in Ids /\ handler[h] \in Made
Letter == {m \in Message : m.what \in Results => Born(m.to)}

Types ==
  /\ life \in {"created", "resumed", "paused", "stopped", "destroyed"}
  /\ page \in 1 .. Pages /\ hasSurface \in BOOLEAN /\ finishing \in BOOLEAN
  /\ opened \in 0 .. 2 /\ timer \in {"armed", "fired", "shut"}
  /\ mHandler \in [1 .. Pages -> 0 .. Handlers]
  /\ handler \in [Ids -> Made \cup {Unborn}]
  /\ cam \in Camera
  /\ later \in Seq(Ids) /\ joining \in 0 .. Handlers
  /\ crashed \in {"no", "no handler", "rejected", "autofocus"}

References ==
  /\ \A p \in 1 .. Pages : mHandler[p] # 0 => Born(mHandler[p])
  /\ cam.frameTo # 0 => Born(cam.frameTo)
  /\ \A h, t \in Ids : handler[h].to = t => handler[t] \in Made
  /\ queue \in Seq(Letter)

TInv == Types /\ References

LEMMA Unmade ==
  /\ Unborn \notin Made
  /\ Unborn.page = 0 /\ Unborn.state = "unborn" /\ Unborn.thread = "none"
  /\ Unborn.inbox = <<>> /\ Unborn.to = 0
BY DEF Unborn, Made

LEMMA IdsType == \A h : h \in 0 .. Handlers /\ h # 0 <=> h \in Ids
BY ScanAssumption DEF Ids

(* The camera calls, field by field.                                         *)
LEMMA OpenFields ==
  ASSUME NEW c \in Camera, NEW d, d = openDriver(c)
  PROVE  /\ d \in Camera /\ d.open /\ d.previewing = c.previewing /\ d.drawing = c.drawing
         /\ d.oneShot = c.oneShot /\ d.focusing = c.focusing
         /\ d.frameTo = c.frameTo /\ d.focusTo = c.focusTo
BY DEF openDriver, Camera

LEMMA CloseFields ==
  ASSUME NEW c \in Camera, NEW d, d = closeDriver(c)
  PROVE  /\ d \in Camera /\ ~d.open /\ d.previewing = c.previewing
         /\ d.frameTo = c.frameTo /\ d.focusTo = c.focusTo
BY DEF closeDriver, Camera

LEMMA StartFields ==
  ASSUME NEW c \in Camera, NEW d, d = startPreview(c)
  PROVE  /\ d \in Camera /\ d.open = c.open
         /\ c.open => d.previewing
         /\ d.drawing = (IF c.open /\ ~c.previewing THEN TRUE ELSE c.drawing)
         /\ d.frameTo = c.frameTo /\ d.focusTo = c.focusTo
BY DEF startPreview, Camera

LEMMA StopFields ==
  ASSUME NEW c \in Camera, NEW d, d = stopPreview(c)
  PROVE  /\ d \in Camera
         /\ c.open /\ c.previewing => ~d.previewing /\ d.frameTo = 0 /\ d.focusTo = 0
         /\ ~(c.open /\ c.previewing) => d = c
<1>1. CASE c.open /\ c.previewing
  <2>1. c = [open |-> c.open, previewing |-> c.previewing, drawing |-> c.drawing,
             oneShot |-> c.oneShot, focusing |-> c.focusing,
             frameTo |-> c.frameTo, focusTo |-> c.focusTo]
    BY DEF Camera
  <2>2. d = [open |-> c.open, previewing |-> FALSE, drawing |-> FALSE,
             oneShot |-> c.oneShot, focusing |-> FALSE, frameTo |-> 0, focusTo |-> 0]
    BY <1>1, <2>1 DEF stopPreview
  <2>3. c.open \in BOOLEAN /\ c.oneShot \in BOOLEAN /\ 0 \in 0 .. Handlers
    BY ScanAssumption DEF Camera
  <2>4. d \in Camera
    BY <2>2, <2>3 DEF Camera
  <2> QED
    BY <1>1, <2>2, <2>4
<1>2. CASE ~(c.open /\ c.previewing)
  BY <1>2 DEF stopPreview
<1> QED
  BY <1>1, <1>2

LEMMA FrameFields ==
  ASSUME NEW c \in Camera, NEW h \in Ids, NEW d, d = requestPreviewFrame(c, h)
  PROVE  /\ d \in Camera /\ d.open = c.open /\ d.previewing = c.previewing
         /\ d.drawing = c.drawing /\ d.focusing = c.focusing /\ d.focusTo = c.focusTo
         /\ c.open /\ c.previewing => d.frameTo = h /\ d.oneShot
         /\ ~(c.open /\ c.previewing) => d = c
BY IdsType DEF requestPreviewFrame, Camera

LEMMA FocusFields ==
  ASSUME NEW c \in Camera, NEW h \in Ids, NEW d,
         d = requestAutoFocus(c, h, TRUE) \/ d = requestAutoFocus(c, h, FALSE)
  PROVE  /\ d \in Camera /\ d.open = c.open /\ d.previewing = c.previewing
         /\ d.drawing = c.drawing /\ d.oneShot = c.oneShot /\ d.frameTo = c.frameTo
         /\ d.focusTo \in {c.focusTo, h}
BY IdsType DEF requestAutoFocus, Camera

LEMMA StartedFields ==
  ASSUME NEW c \in Camera, c.open, NEW h \in Ids, NEW d,
         d = Started(c, h, TRUE) \/ d = Started(c, h, FALSE)
  PROVE  /\ d \in Camera /\ d.open /\ d.previewing
         /\ d.drawing = (IF ~c.previewing THEN TRUE ELSE c.drawing)
         /\ d.oneShot /\ d.frameTo = h /\ d.focusTo \in {c.focusTo, h}
<1>1. PICK s : s = startPreview(c)
  OBVIOUS
<1>2. PICK f : f = requestPreviewFrame(s, h)
  OBVIOUS
<1>3. d = requestAutoFocus(f, h, TRUE) \/ d = requestAutoFocus(f, h, FALSE)
  BY <1>1, <1>2 DEF Started
<1>4. s \in Camera /\ s.open /\ s.previewing
  BY <1>1, StartFields
<1>5. /\ f \in Camera /\ f.open /\ f.previewing
      /\ f.drawing = s.drawing /\ f.oneShot /\ f.frameTo = h /\ f.focusTo = s.focusTo
  BY <1>2, <1>4, FrameFields
<1>6. f \in Camera
  BY <1>5
<1>7. /\ d \in Camera /\ d.open = f.open /\ d.previewing = f.previewing
      /\ d.drawing = f.drawing /\ d.oneShot = f.oneShot /\ d.frameTo = f.frameTo
      /\ d.focusTo \in {f.focusTo, h}
  BY <1>3, <1>6, FocusFields
<1>8. s.drawing = (IF ~c.previewing THEN TRUE ELSE c.drawing) /\ s.focusTo = c.focusTo
  BY <1>1, StartFields
<1> QED
  BY <1>5, <1>7, <1>8

(* One handler changes: whoever was made stays made.                         *)
Grows ==
  /\ handler' \in [Ids -> Made \cup {Unborn}]
  /\ \A k : Born(k) => Born(k)'
  /\ \A k, t \in Ids : handler'[k].to = t => handler'[t] \in Made
  /\ Letter \subseteq Letter'

LEMMA SameHandlers ==
  ASSUME TInv, UNCHANGED handler
  PROVE  Grows
<1>1. \A k : Born(k) <=> Born(k)'
  BY DEF Born, Ids, Made
<1>2. Letter' = Letter
  BY <1>1 DEF Letter, Message
<1>3. handler \in [Ids -> Made \cup {Unborn}]
  BY DEF TInv, Types
<1>4. \A k, t \in Ids : handler[k].to = t => handler[t] \in Made
  BY IdsType DEF TInv, References, Born
<1> QED
  BY <1>1, <1>2, <1>3, <1>4 DEF Grows

LEMMA OneHandler ==
  ASSUME TInv, NEW h \in Ids, NEW r \in Made, handler' = [handler EXCEPT ![h] = r],
         r.to # 0 => Born(r.to)
  PROVE  Grows /\ Born(h)' /\ handler'[h] = r /\ \A k \in Ids \ {h} : handler'[k] = handler[k]
<1>1. handler \in [Ids -> Made \cup {Unborn}]
  BY DEF TInv, Types
<1>2. handler'[h] = r /\ \A k \in Ids \ {h} : handler'[k] = handler[k]
  BY <1>1
<1>3. handler' \in [Ids -> Made \cup {Unborn}]
  BY <1>1
<1>4. \A k : Born(k) => Born(k)'
  BY <1>2 DEF Born, Ids
<1>5. \A k, t \in Ids : handler[k].to = t => handler[t] \in Made
  BY IdsType DEF TInv, References, Born
<1>6. \A k, t \in Ids : handler'[k].to = t => handler'[t] \in Made
  BY <1>2, <1>5, IdsType DEF Born
<1>7. Letter \subseteq Letter'
  BY <1>4 DEF Letter, Message, Results
<1>8. Born(h)'
  BY <1>2 DEF Born, Ids
<1> QED
  BY <1>2, <1>3, <1>4, <1>6, <1>7, <1>8 DEF Grows

(* The queue after a step.                                                   *)
LEMMA QueueType ==
  ASSUME TInv, Grows
  PROVE  /\ queue \in Seq(Letter')
         /\ queue # <<>> => Tail(queue) \in Seq(Letter') /\ Head(queue) \in Letter
         /\ \A m \in Letter' : Append(queue, m) \in Seq(Letter')
         /\ \A h : Purged(queue, h) \in Seq(Letter')
<1>1. queue \in Seq(Letter) /\ queue \in Seq(Letter')
  BY SeqMonotonic DEF TInv, References, Grows
<1>2. ASSUME NEW h
      PROVE  Purged(queue, h) \in Seq(Letter')
  <2> DEFINE L == Letter'
             V == ResultsOf(h)
  <2>1. queue \in Seq(L)
    BY <1>1
  <2> HIDE DEF L, V
  <2>2. Without(queue, V) \in Seq(L \ V)
    BY <2>1, WithoutType
  <2>3. Without(queue, V) \in Seq(L)
    BY <2>2, SeqMonotonic
  <2> QED
    BY <2>3 DEF Purged, L, V
<1> QED
  BY <1>1, <1>2, HeadTailProperties, AppendProperties
-----------------------------------------------------------------------------
(* What each step does to the handlers.                                      *)
NewOne(h, state) ==
  [page |-> page, state |-> state, thread |-> "idle", inbox |-> <<>>, to |-> 0]

LEMMA NewMade ==
  ASSUME TInv, NEW h \in Ids, NEW state \in {"PREVIEW", "SUCCESS"}, New(h, state)
  PROVE  /\ NewOne(h, state) \in Made /\ handler' = [handler EXCEPT ![h] = NewOne(h, state)]
         /\ Grows /\ Born(h)' /\ handler'[h] = NewOne(h, state)
         /\ \A k \in Ids \ {h} : handler'[k] = handler[k]
<1>1. page \in 1 .. Pages
  BY DEF TInv, Types
<1>5. 0 \in 0 .. Handlers
  BY ScanAssumption
<1>4. <<>> \in Seq({"decode", "quit"})
  BY EmptySeq
<1>2. NewOne(h, state) \in Made /\ NewOne(h, state).to = 0
  BY <1>1, <1>4, <1>5 DEF NewOne, Made
<1>3. handler' = [handler EXCEPT ![h] = NewOne(h, state)]
  BY DEF New, NewOne
<1> QED
  BY <1>2, <1>3, OneHandler

(* initCamera either makes no handler, or the first that was not made yet.   *)
LEMMA InitCameraSteps ==
  ASSUME TInv, initCamera
  PROVE  \/ /\ UNCHANGED <<handler, mHandler>>
            /\ cam' = cam \/ cam' = openDriver(cam)
            /\ mHandler[page] # 0 => cam' = openDriver(cam) \/ ~cam.open
         \/ \E h \in Ids :
              /\ mHandler[page] = 0 /\ handler[h].state = "unborn" /\ handler[h] = Unborn
              /\ NewHandler(openDriver(cam), h)
<1>1. CASE ~cam.open /\ "open" \in Faults /\ UNCHANGED <<cam, handler, mHandler>>
  BY <1>1
<1>2. CASE ~cam.open /\ "display" \in Faults /\ cam' = openDriver(cam) /\ UNCHANGED <<handler, mHandler>>
  BY <1>2
<1>3. CASE mHandler[page] # 0 /\ cam' = openDriver(cam) /\ UNCHANGED <<handler, mHandler>>
  BY <1>3
<1>4. CASE /\ mHandler[page] = 0
           /\ \E h \in Ids : /\ \A k \in Ids : handler[k].state = "unborn" <=> k >= h
                             /\ NewHandler(openDriver(cam), h)
  <2>1. PICK h \in Ids : /\ \A k \in Ids : handler[k].state = "unborn" <=> k >= h
                         /\ NewHandler(openDriver(cam), h)
    BY <1>4
  <2>2. handler[h].state = "unborn"
    BY <2>1 DEF Ids
  <2>3. handler[h] = Unborn
    BY <2>2 DEF TInv, Types, Made
  <2> QED
    BY <1>4, <2>1, <2>2, <2>3
<1> QED
  BY <1>1, <1>2, <1>3, <1>4 DEF initCamera

LEMMA OneField ==
  ASSUME TInv, NEW h, Born(h)
  PROVE  /\ handler[h].page \in 1 .. Pages /\ handler[h].state \in {"PREVIEW", "SUCCESS", "DONE"}
         /\ handler[h].thread \in {"idle", "decoding", "sending", "ended"}
         /\ handler[h].inbox \in Seq({"decode", "quit"}) /\ handler[h].to \in 0 .. Handlers
         /\ h \in Ids /\ handler[h] \in Made
BY DEF Born, Made

LEMMA Alive ==
  ASSUME TInv, NEW h \in Ids,
         handler[h].thread # "none" \/ handler[h].state # "unborn" \/ handler[h].inbox # <<>>
           \/ handler[h].to # 0 \/ handler[h].page # 0
  PROVE  Born(h)
BY Unmade DEF TInv, Types, Born

(* An update of some fields of a made handler.                               *)
Rewritten(h, state, thread, inbox, to) ==
  /\ Born(h) /\ Grows /\ Born(h)' /\ \A k \in Ids \ {h} : handler'[k] = handler[k]
  /\ handler'[h].page = handler[h].page /\ handler'[h].state = state
  /\ handler'[h].thread = thread /\ handler'[h].inbox = inbox /\ handler'[h].to = to

LEMMA Update ==
  ASSUME TInv, NEW h, Born(h), NEW r \in Made, handler' = [handler EXCEPT ![h] = r],
         r.page = handler[h].page, r.to = 0 \/ Born(r.to),
         NEW state, r.state = state, NEW thread, r.thread = thread,
         NEW inbox, r.inbox = inbox, NEW to, r.to = to
  PROVE  Rewritten(h, state, thread, inbox, to)
<1>1. h \in Ids
  BY DEF Born
<1>2. Grows /\ Born(h)' /\ handler'[h] = r /\ \A k \in Ids \ {h} : handler'[k] = handler[k]
  BY <1>1, OneHandler
<1> QED
  BY <1>2 DEF Rewritten

LEMMA ToType ==
  ASSUME TInv, NEW h, Born(h)
  PROVE  handler[h].to = 0 \/ Born(handler[h].to)
BY OneField, IdsType DEF TInv, References, Born

LEMMA TakeStep ==
  ASSUME TInv, NEW h \in Ids, Take(h)
  PROVE  /\ handler[h].thread = "idle" /\ handler[h].inbox # <<>>
         /\ Rewritten(h, handler[h].state,
                      IF Head(handler[h].inbox) = "quit" THEN "ended" ELSE "decoding",
                      Tail(handler[h].inbox), handler[h].to)
<1>1. /\ handler[h].thread = "idle" /\ handler[h].inbox # <<>>
      /\ handler' = [handler EXCEPT
           ![h].thread = IF Head(handler[h].inbox) = "quit" THEN "ended" ELSE "decoding",
           ![h].inbox = Tail(@)]
  BY DEF Take
<1>2. Born(h)
  BY <1>1, Alive
<1>3. PICK r : r = [handler[h] EXCEPT
                      !.thread = IF Head(handler[h].inbox) = "quit" THEN "ended" ELSE "decoding",
                      !.inbox = Tail(@)]
  OBVIOUS
<1>4. handler' = [handler EXCEPT ![h] = r]
  BY <1>1, <1>3 DEF TInv, Types
<1>5. Tail(handler[h].inbox) \in Seq({"decode", "quit"})
  BY <1>1, <1>2, OneField, HeadTailProperties
<1>6. /\ r \in Made /\ r.page = handler[h].page /\ r.state = handler[h].state
      /\ r.thread = (IF Head(handler[h].inbox) = "quit" THEN "ended" ELSE "decoding")
      /\ r.inbox = Tail(handler[h].inbox) /\ r.to = handler[h].to
  BY <1>2, <1>3, <1>5 DEF Made, Born
<1> QED
  BY <1>1, <1>2, <1>4, <1>6, ToType, Update

LEMMA DecodeStep ==
  ASSUME TInv, NEW h \in Ids, decode(h)
  PROVE  /\ handler[h].thread = "decoding"
         /\ Rewritten(h, handler[h].state, "sending", handler[h].inbox,
                      mHandler[handler[h].page])
<1>1. /\ handler[h].thread = "decoding"
      /\ handler' = [handler EXCEPT ![h].thread = "sending",
                                    ![h].to = mHandler[handler[h].page]]
  BY DEF decode
<1>2. Born(h)
  BY <1>1, Alive
<1>3. PICK r : r = [handler[h] EXCEPT !.thread = "sending", !.to = mHandler[handler[h].page]]
  OBVIOUS
<1>4. handler' = [handler EXCEPT ![h] = r]
  BY <1>1, <1>3 DEF TInv, Types
<1>5. /\ mHandler[handler[h].page] \in 0 .. Handlers
      /\ mHandler[handler[h].page] = 0 \/ Born(mHandler[handler[h].page])
  BY <1>2, OneField DEF TInv, Types, References
<1>6. /\ r \in Made /\ r.page = handler[h].page /\ r.state = handler[h].state
      /\ r.thread = "sending"
      /\ r.inbox = handler[h].inbox /\ r.to = mHandler[handler[h].page]
  BY <1>2, <1>3, <1>5 DEF Made, Born
<1> QED
  BY <1>1, <1>2, <1>4, <1>5, <1>6, Update

LEMMA SendStep ==
  ASSUME TInv, NEW h \in Ids, NEW result, sendToTarget(h, result)
  PROVE  /\ handler[h].thread = "sending"
         /\ Rewritten(h, handler[h].state, "idle", handler[h].inbox, 0)
<1>1. /\ handler[h].thread = "sending"
      /\ handler' = [handler EXCEPT ![h].thread = "idle", ![h].to = 0]
  BY DEF sendToTarget
<1>2. Born(h)
  BY <1>1, Alive
<1>3. PICK r : r = [handler[h] EXCEPT !.thread = "idle", !.to = 0]
  OBVIOUS
<1>4. handler' = [handler EXCEPT ![h] = r]
  BY <1>1, <1>3 DEF TInv, Types
<1>5. 0 \in 0 .. Handlers
  BY ScanAssumption
<1>6. /\ r \in Made /\ r.page = handler[h].page /\ r.state = handler[h].state
      /\ r.thread = "idle" /\ r.inbox = handler[h].inbox /\ r.to = 0
  BY <1>2, <1>3, <1>5 DEF Made, Born
<1> QED
  BY <1>1, <1>2, <1>4, <1>6, Update

LEMMA InboxStep ==
  ASSUME TInv, NEW h, Born(h), handler' = [handler EXCEPT ![h].inbox = Append(@, "decode")]
  PROVE  Rewritten(h, handler[h].state, handler[h].thread,
                   Append(handler[h].inbox, "decode"), handler[h].to)
<1>3. PICK r : r = [handler[h] EXCEPT !.inbox = Append(@, "decode")]
  OBVIOUS
<1>4. handler' = [handler EXCEPT ![h] = r]
  BY <1>3 DEF TInv, Types
<1>5. Append(handler[h].inbox, "decode") \in Seq({"decode", "quit"})
  BY OneField, AppendProperties
<1>6. /\ r \in Made /\ r.page = handler[h].page /\ r.state = handler[h].state
      /\ r.thread = handler[h].thread
      /\ r.inbox = Append(handler[h].inbox, "decode") /\ r.to = handler[h].to
  BY <1>3, <1>5 DEF Made, Born
<1> QED
  BY <1>4, <1>6, ToType, Update

LEMMA StateStep ==
  ASSUME TInv, NEW h, Born(h), NEW state \in {"PREVIEW", "SUCCESS"},
         handler' = [handler EXCEPT ![h].state = state]
  PROVE  Rewritten(h, state, handler[h].thread, handler[h].inbox, handler[h].to)
<1>3. PICK r : r = [handler[h] EXCEPT !.state = state]
  OBVIOUS
<1>4. handler' = [handler EXCEPT ![h] = r]
  BY <1>3 DEF TInv, Types
<1>6. /\ r \in Made /\ r.page = handler[h].page /\ r.state = state
      /\ r.thread = handler[h].thread /\ r.inbox = handler[h].inbox /\ r.to = handler[h].to
  BY <1>3 DEF Made, Born
<1> QED
  BY <1>4, <1>6, ToType, Update

LEMMA QuitStep ==
  ASSUME TInv, NEW h, Born(h), Quit(h)
  PROVE  Rewritten(h, "DONE", handler[h].thread, Append(handler[h].inbox, "quit"),
                   handler[h].to)
<1>3. PICK r : r = [handler[h] EXCEPT !.state = "DONE", !.inbox = Append(@, "quit")]
  OBVIOUS
<1>4. handler' = [handler EXCEPT ![h] = r]
  BY <1>3 DEF TInv, Types, Quit
<1>5. Append(handler[h].inbox, "quit") \in Seq({"decode", "quit"})
  BY OneField, AppendProperties
<1>6. /\ r \in Made /\ r.page = handler[h].page /\ r.state = "DONE"
      /\ r.thread = handler[h].thread
      /\ r.inbox = Append(handler[h].inbox, "quit") /\ r.to = handler[h].to
  BY <1>3, <1>5 DEF Made, Born
<1> QED
  BY <1>4, <1>6, ToType, Update
-----------------------------------------------------------------------------
(* The types hold: one step per action.                                      *)
Scalars ==
  /\ life \in {"created", "resumed", "paused", "stopped", "destroyed"}
  /\ page \in 1 .. Pages /\ hasSurface \in BOOLEAN /\ finishing \in BOOLEAN
  /\ opened \in 0 .. 2 /\ timer \in {"armed", "fired", "shut"}
  /\ later \in Seq(Ids) /\ joining \in 0 .. Handlers
  /\ crashed \in {"no", "no handler", "rejected", "autofocus"}

LEMMA Assemble ==
  ASSUME TInv, Grows, Scalars',
         \/ UNCHANGED mHandler
         \/ \E p \in 1 .. Pages : \E h : /\ h = 0 \/ Born(h)'
                                         /\ mHandler' = [mHandler EXCEPT ![p] = h],
         UNCHANGED cam \/ (cam' \in Camera /\ (cam'.frameTo \in {0, cam.frameTo}
                                               \/ \E k : cam'.frameTo = k /\ Born(k)')),
         UNCHANGED queue \/ queue' \in Seq(Letter')
  PROVE  TInv'
<1>1. mHandler \in [1 .. Pages -> 0 .. Handlers] /\ \A p \in 1 .. Pages : mHandler[p] # 0 => Born(mHandler[p])
  BY DEF TInv, Types, References
<1>2. \A k : Born(k) => Born(k)'
  BY DEF Grows
<1>3. mHandler' \in [1 .. Pages -> 0 .. Handlers] /\ \A p \in 1 .. Pages : \A k : mHandler'[p] = k => k = 0 \/ Born(k)'
  <2>1. CASE UNCHANGED mHandler
    BY <1>1, <1>2, <2>1
  <2>2. ASSUME NEW p \in 1 .. Pages, NEW h, h = 0 \/ Born(h)', mHandler' = [mHandler EXCEPT ![p] = h]
        PROVE  /\ mHandler' \in [1 .. Pages -> 0 .. Handlers]
               /\ \A q \in 1 .. Pages : \A k : mHandler'[q] = k => k = 0 \/ Born(k)'
    <3>1. h \in 0 .. Handlers
      BY <2>2, ScanAssumption DEF Born, Ids
    <3>2. mHandler' \in [1 .. Pages -> 0 .. Handlers]
      BY <1>1, <2>2, <3>1
    <3>3. \A q \in 1 .. Pages : mHandler'[q] = IF q = p THEN h ELSE mHandler[q]
      BY <1>1, <2>2
    <3> QED
      BY <1>1, <1>2, <2>2, <3>2, <3>3
  <2> QED
    BY <2>1, <2>2
<1>4. cam' \in Camera /\ \A k : cam'.frameTo = k => k = 0 \/ Born(k)'
  <2>1. cam \in Camera /\ (cam.frameTo = 0 \/ Born(cam.frameTo))
    BY DEF TInv, Types, References
  <2> QED
    BY <1>2, <2>1
<1>5. queue' \in Seq(Letter')
  BY QueueType
<1>6. \A k, t \in Ids : handler'[k].to = t => handler'[t] \in Made
  BY DEF Grows
<1>7. References'
  <2>1. (\A p \in 1 .. Pages : mHandler[p] # 0 => Born(mHandler[p]))'
    BY <1>3
  <2>2. (cam.frameTo # 0 => Born(cam.frameTo))'
    BY <1>4
  <2> QED
    BY <1>5, <1>6, <2>1, <2>2 DEF References, Made
<1>8. Types'
  BY <1>3, <1>4 DEF Scalars, Types, Grows, Made, Camera, Ids, Unborn
<1> QED
  BY <1>7, <1>8 DEF TInv

LEMMA TInvScalars ==
  ASSUME TInv PROVE Scalars /\ cam \in Camera /\ page \in 1 .. Pages /\ mHandler \in [1 .. Pages -> 0 .. Handlers]
                    /\ mHandler[page] \in 0 .. Handlers
BY DEF TInv, Types, Scalars

LEMMA InitCameraTyped ==
  ASSUME TInv, initCamera, Scalars', UNCHANGED <<queue, page>>
  PROVE  TInv'
<1>1. cam \in Camera /\ page \in 1 .. Pages
  BY TInvScalars
<1>2. PICK d : d = openDriver(cam)
  OBVIOUS
<1>3. d \in Camera /\ d.open /\ d.frameTo = cam.frameTo
  BY <1>1, <1>2, OpenFields
<1>4. CASE UNCHANGED <<handler, mHandler>> /\ (cam' = cam \/ cam' = openDriver(cam))
  <2>1. Grows
    BY <1>4, SameHandlers
  <2> QED
    BY <1>2, <1>3, <1>4, <2>1, Assemble
<1>5. ASSUME NEW h \in Ids, NewHandler(openDriver(cam), h)
      PROVE  TInv'
  <2>0. "PREVIEW" \in {"PREVIEW", "SUCCESS"} /\ "SUCCESS" \in {"PREVIEW", "SUCCESS"}
    OBVIOUS
  <2>1. CASE New(h, "PREVIEW") /\ cam' = Started(d, h, TRUE) /\ mHandler' = [mHandler EXCEPT ![page] = h]
    <3>1. Grows /\ Born(h)'
      BY <2>0, <2>1, NewMade
    <3>2. cam' \in Camera /\ cam'.frameTo = h
      <4>1. PICK e : e = Started(d, h, TRUE)
        OBVIOUS
      <4>5. e = Started(d, h, TRUE) \/ e = Started(d, h, FALSE)
        BY <4>1
      <4>2. cam' = e
        BY <2>1, <4>1
      <4>3. d \in Camera /\ d.open
        BY <1>3
      <4>4. e \in Camera /\ e.frameTo = h
        <5> HIDE <4>1
        <5>1. /\ e \in Camera /\ e.open /\ e.previewing
              /\ e.drawing = (IF ~d.previewing THEN TRUE ELSE d.drawing)
              /\ e.oneShot /\ e.frameTo = h /\ e.focusTo \in {d.focusTo, h}
          BY <4>5, <4>3, StartedFields
        <5> QED
          BY <5>1
      <4> QED
        BY <4>2, <4>4
    <3> QED
      BY <1>1, <2>1, <3>1, <3>2, Assemble
  <2>2. CASE New(h, "SUCCESS") /\ cam' = d /\ UNCHANGED mHandler
    <3>1. Grows /\ Born(h)'
      BY <2>0, <2>2, NewMade
    <3> QED
      BY <1>3, <2>2, <3>1, Assemble
  <2>3. CASE New(h, "PREVIEW") /\ cam' = Started(d, h, FALSE) /\ UNCHANGED mHandler
    <3>1. Grows /\ Born(h)'
      BY <2>0, <2>3, NewMade
    <3>2. cam' \in Camera /\ cam'.frameTo = h
      <4>1. PICK e : e = Started(d, h, FALSE)
        OBVIOUS
      <4>5. e = Started(d, h, TRUE) \/ e = Started(d, h, FALSE)
        BY <4>1
      <4>2. cam' = e
        BY <2>3, <4>1
      <4>3. d \in Camera /\ d.open
        BY <1>3
      <4>4. e \in Camera /\ e.frameTo = h
        <5> HIDE <4>1
        <5>1. /\ e \in Camera /\ e.open /\ e.previewing
              /\ e.drawing = (IF ~d.previewing THEN TRUE ELSE d.drawing)
              /\ e.oneShot /\ e.frameTo = h /\ e.focusTo \in {d.focusTo, h}
          BY <4>5, <4>3, StartedFields
        <5> QED
          BY <5>1
      <4> QED
        BY <4>2, <4>4
    <3> QED
      BY <2>3, <3>1, <3>2, Assemble
  <2> QED
    BY <1>2, <1>5, <2>1, <2>2, <2>3 DEF NewHandler
<1> QED
  BY <1>4, <1>5, InitCameraSteps

LEMMA TypedPage ==
  ASSUME TInv, PageStep
  PROVE  TInv'
<1>0. Scalars /\ cam \in Camera /\ page \in 1 .. Pages /\ mHandler[page] \in 0 .. Handlers
  BY TInvScalars
<1>1. CASE Resume
  <2>0. opened' \in 0 .. 2
    BY <1>1 DEF Resume
  <2>1. Scalars' /\ UNCHANGED <<page, queue>>
    BY <1>0, <1>1, <2>0 DEF Resume, Scalars, Ids
  <2>2. CASE initCamera
    BY <2>1, <2>2, InitCameraTyped
  <2>3. CASE UNCHANGED <<cam, handler, mHandler>>
    <3>1. Grows
      BY <2>3, SameHandlers
    <3> QED
      BY <2>1, <2>3, <3>1, Assemble
  <2> QED
    BY <1>1, <2>2, <2>3 DEF Resume
<1>2. CASE surfaceCreated
  <2>1. Scalars' /\ UNCHANGED <<page, queue>> /\ initCamera
    BY <1>0, <1>2 DEF surfaceCreated, Scalars, Ids
  <2> QED
    BY <2>1, InitCameraTyped
<1>3. CASE Pause
  <2>1. UNCHANGED <<page, queue, mHandler>>
    BY <1>3 DEF Pause
  <2>2. CASE mHandler[page] # 0 /\ Quit(mHandler[page])
    <3>1. Born(mHandler[page])
      BY <1>0, <2>2 DEF TInv, References
    <3>2. Grows
      BY <2>2, <3>1, QuitStep DEF Rewritten
    <3>3. Scalars'
      BY <1>0, <1>3, <2>2 DEF Pause, Quit, Scalars, Ids
    <3>4. cam' \in Camera /\ (cam'.frameTo = 0 \/ cam'.frameTo = cam.frameTo)
      <4>1. cam' = stopPreview(cam)
        BY <2>2 DEF Quit
      <4> QED
        BY <1>0, <4>1, StopFields
    <3> QED
      BY <2>1, <3>2, <3>3, <3>4, Assemble
  <2>3. CASE cam' = closeDriver(cam) /\ UNCHANGED <<handler, joining>>
    <3>1. Grows
      BY <2>3, SameHandlers
    <3>2. Scalars'
      BY <1>0, <1>3, <2>3 DEF Pause, Scalars, Ids
    <3>3. cam' \in Camera /\ cam'.frameTo = cam.frameTo
      BY <1>0, <2>3, CloseFields
    <3> QED
      BY <2>1, <3>1, <3>2, <3>3, Assemble
  <2> QED
    BY <1>3, <2>2, <2>3 DEF Pause
<1>4. CASE surfaceDestroyed \/ Stop \/ Destroy \/ Back \/ Launch \/ TimerFires
  <2>1. UNCHANGED <<cam, handler, mHandler, queue>>
    BY <1>4 DEF surfaceDestroyed, Stop, Destroy, Back, Launch, TimerFires
  <2>2. Scalars'
    <3>1. CASE Launch
      <4>1. page' \in 1 .. Pages
        BY <1>0, <3>1, ScanAssumption DEF Launch
      <4>2. opened' \in 0 .. 2
        BY <3>1 DEF Launch
      <4> QED
        BY <1>0, <3>1, <4>1, <4>2 DEF Launch, Scalars, Ids
    <3>2. CASE surfaceDestroyed \/ Stop \/ Destroy \/ Back \/ TimerFires
      BY <1>0, <3>2 DEF surfaceDestroyed, Stop, Destroy, Back, TimerFires, Scalars, Ids
    <3> QED
      BY <1>4, <3>1, <3>2
  <2>3. Grows
    BY <2>1, SameHandlers
  <2> QED
    BY <2>1, <2>2, <2>3, Assemble
<1> QED
  BY <1>1, <1>2, <1>3, <1>4 DEF PageStep

LEMMA TypedOther ==
  ASSUME TInv, Joined \/ CameraStep
  PROVE  TInv'
<1>0. Scalars /\ cam \in Camera /\ page \in 1 .. Pages
  BY TInvScalars
<1>g. UNCHANGED handler
  BY DEF Joined, CameraStep, CameraFrame, CameraFocus
<1>1. Grows
  BY <1>g, SameHandlers
<1>2. CASE Joined
  <2>1. Scalars'
    BY <1>0, <1>2, ScanAssumption DEF Joined, Scalars, Ids, page_vars
  <2>2. cam' \in Camera /\ cam'.frameTo = cam.frameTo
    BY <1>0, <1>2, CloseFields DEF Joined
  <2>3. queue' \in Seq(Letter')
    <3>1. queue' = Purged(queue, joining)
      BY <1>2 DEF Joined
    <3> QED
      BY <1>1, <3>1, QueueType
  <2>4. mHandler' = [mHandler EXCEPT ![page] = 0]
    BY <1>2 DEF Joined
  <2> QED
    BY <1>0, <1>1, <2>1, <2>2, <2>3, <2>4, Assemble
<1>3. CASE CameraStep
  <2>1. Scalars' /\ UNCHANGED mHandler
    BY <1>0, <1>3 DEF CameraStep, CameraFrame, CameraFocus, Scalars, Ids, page_vars
  <2>2. cam' \in Camera /\ cam'.frameTo = cam.frameTo
    BY <1>0, <1>3 DEF CameraStep, CameraFrame, CameraFocus, Camera
  <2>3. PICK m : m \in {[what |-> "frame", to |-> 0], [what |-> "focus", to |-> 0]} /\ queue' = Append(queue, m)
    BY <1>3 DEF CameraStep, CameraFrame, CameraFocus
  <2>4. m \in Letter'
    BY <2>3, ScanAssumption DEF Letter, Message, Results
  <2>5. queue' \in Seq(Letter')
    BY <1>1, <2>3, <2>4, QueueType
  <2> QED
    BY <1>1, <2>1, <2>2, <2>5, Assemble
<1> QED
  BY <1>2, <1>3

LEMMA TypedThread ==
  ASSUME TInv, NEW h \in Ids, ThreadStep(h)
  PROVE  TInv'
<1>0. Scalars
  BY TInvScalars
<1>1. CASE Take(h)
  <2>1. Grows
    BY <1>1, TakeStep DEF Rewritten
  <2>2. Scalars' /\ UNCHANGED <<mHandler, cam, queue>>
    BY <1>0, <1>1 DEF Take, Scalars, Ids, page_vars
  <2> QED
    BY <2>1, <2>2, Assemble
<1>2. CASE decode(h)
  <2>1. Grows
    BY <1>2, DecodeStep DEF Rewritten
  <2>2. Scalars' /\ UNCHANGED <<mHandler, cam, queue>>
    BY <1>0, <1>2 DEF decode, Scalars, Ids, page_vars
  <2> QED
    BY <2>1, <2>2, Assemble
<1>3. ASSUME NEW result \in Results, sendToTarget(h, result)
      PROVE  TInv'
  <2>1. Grows
    BY <1>3, SendStep DEF Rewritten
  <2>2. Scalars' /\ UNCHANGED <<mHandler, cam>>
    BY <1>0, <1>3 DEF sendToTarget, Scalars, Ids, page_vars
  <2>3. UNCHANGED queue \/ queue' \in Seq(Letter')
    <3>1. CASE handler[h].to # 0 /\ queue' = Append(queue, [what |-> result, to |-> handler[h].to])
      <4>1. handler[h].thread = "sending"
        BY <1>3 DEF sendToTarget
      <4>2. Born(h)
        BY <4>1, Alive
      <4>3. Born(handler[h].to) /\ handler[h].to \in 0 .. Handlers
        BY <3>1, <4>2, ToType, OneField
      <4>4. [what |-> result, to |-> handler[h].to] \in Letter
        BY <1>3, <4>3 DEF Letter, Message
      <4> QED
        BY <2>1, <3>1, <4>4, QueueType DEF Grows
    <3> QED
      BY <1>3, <3>1 DEF sendToTarget
  <2> QED
    BY <2>1, <2>2, <2>3, Assemble
<1> QED
  BY <1>1, <1>2, <1>3 DEF ThreadStep

LEMMA TypedMessage ==
  ASSUME TInv, MessageStep
  PROVE  TInv'
<1>0. Scalars /\ cam \in Camera
  BY TInvScalars
<1>1. CASE onPreviewFrame
  <2>1. Scalars' /\ UNCHANGED mHandler /\ queue' = Tail(queue) /\ queue # <<>>
    BY <1>0, <1>1 DEF onPreviewFrame, Due, Scalars, Ids, page_vars
  <2>2. CASE UNCHANGED <<handler, cam>>
    <3>1. Grows
      BY <2>2, SameHandlers
    <3>2. queue' \in Seq(Letter')
      BY <2>1, <3>1, QueueType
    <3> QED
      BY <2>1, <2>2, <3>1, <3>2, Assemble
  <2>3. CASE /\ cam.frameTo # 0
             /\ handler' = [handler EXCEPT ![cam.frameTo].inbox = Append(@, "decode")]
             /\ cam' = [cam EXCEPT !.frameTo = 0]
    <3>1. Born(cam.frameTo)
      BY <2>3 DEF TInv, References
    <3>2. Grows
      BY <2>3, <3>1, InboxStep DEF Rewritten
    <3>3. queue' \in Seq(Letter')
      BY <2>1, <3>2, QueueType
    <3>4. cam' \in Camera /\ cam'.frameTo = 0
      BY <1>0, <2>3, ScanAssumption DEF Camera
    <3> QED
      BY <2>1, <3>2, <3>3, <3>4, Assemble
  <2> QED
    BY <1>1, <2>2, <2>3 DEF onPreviewFrame
<1>2. CASE onAutoFocus
  <2>1. UNCHANGED <<mHandler, handler>> /\ queue' = Tail(queue) /\ queue # <<>>
    BY <1>2 DEF onAutoFocus, Due, page_vars
  <2>2. Grows
    BY <2>1, SameHandlers
  <2>3. queue' \in Seq(Letter')
    BY <2>1, <2>2, QueueType
  <2>4. CASE UNCHANGED <<later, cam>>
    <3>1. Scalars'
      BY <1>0, <1>2, <2>4 DEF onAutoFocus, Scalars, Ids, page_vars
    <3> QED
      BY <2>1, <2>2, <2>3, <2>4, <3>1, Assemble
  <2>5. CASE cam.focusTo # 0 /\ later' = Append(later, cam.focusTo) /\ cam' = [cam EXCEPT !.focusTo = 0]
    <3>1. cam.focusTo \in Ids
      BY <1>0, <2>5, IdsType DEF Camera
    <3>2. later' \in Seq(Ids)
      BY <1>0, <2>5, <3>1, AppendProperties DEF Scalars
    <3>3. Scalars'
      BY <1>0, <1>2, <3>2 DEF onAutoFocus, Scalars, Ids, page_vars
    <3>4. cam' \in Camera /\ cam'.frameTo = cam.frameTo
      BY <1>0, <2>5, ScanAssumption DEF Camera
    <3> QED
      BY <2>1, <2>2, <2>3, <3>3, <3>4, Assemble
  <2> QED
    BY <1>2, <2>4, <2>5 DEF onAutoFocus
<1>3. CASE Refocus
  <2>1. UNCHANGED <<mHandler, handler, queue>> /\ later # <<>>
    BY <1>3 DEF Refocus, page_vars
  <2>2. Grows
    BY <2>1, SameHandlers
  <2>3. Head(later) \in Ids /\ Tail(later) \in Seq(Ids)
    BY <1>0, <2>1, HeadTailProperties DEF Scalars
  <2>4. Scalars'
    BY <1>0, <1>3, <2>3 DEF Refocus, Scalars, Ids, page_vars
  <2>5. UNCHANGED cam \/ (cam' \in Camera /\ cam'.frameTo = cam.frameTo)
    <3>1. CASE cam' = requestAutoFocus(cam, Head(later), TRUE)
      BY <1>0, <2>3, <3>1, FocusFields
    <3> QED
      BY <1>3, <3>1 DEF Refocus
  <2> QED
    BY <2>1, <2>2, <2>4, <2>5, Assemble
<1>4. CASE DecodeFailed
  <2>1. Scalars' /\ UNCHANGED mHandler /\ queue' = Tail(queue) /\ queue # <<>>
    BY <1>0, <1>4 DEF DecodeFailed, Due, Scalars, Ids, page_vars
  <2>2. /\ Head(queue).what = "decode_failed"
        /\ handler' = [handler EXCEPT ![Addressee].state = "PREVIEW"]
        /\ cam' = requestPreviewFrame(cam, Addressee)
    BY <1>4 DEF DecodeFailed, Due
  <2>3. Born(Addressee) /\ Addressee \in Ids
    <3>1. Head(queue) \in Letter
      BY <2>1, SameHandlers, HeadTailProperties DEF TInv, References
    <3> QED
      BY <2>2, <3>1 DEF Letter, Results, Addressee, Born
  <2>4. Grows
    BY <2>2, <2>3, StateStep DEF Rewritten
  <2>5. queue' \in Seq(Letter')
    BY <2>1, <2>4, QueueType
  <2>6. cam' \in Camera /\ (cam'.frameTo = cam.frameTo \/ cam'.frameTo = Addressee)
    BY <1>0, <2>2, <2>3, FrameFields
  <2>7. cam'.frameTo = cam.frameTo \/ \E k : cam'.frameTo = k /\ Born(k)'
    BY <2>3, <2>4, <2>6 DEF Grows
  <2> QED
    BY <2>1, <2>4, <2>5, <2>6, <2>7, Assemble
<1>5. CASE DecodeSucceeded
  <2>1. UNCHANGED <<mHandler, cam>> /\ queue' = Tail(queue) /\ queue # <<>>
    BY <1>5 DEF DecodeSucceeded, Due
  <2>2. /\ Head(queue).what = "decode_succeeded"
        /\ handler' = [handler EXCEPT ![Addressee].state = "SUCCESS"]
    BY <1>5 DEF DecodeSucceeded, Due
  <2>3. Born(Addressee)
    <3>1. Head(queue) \in Letter
      BY <2>1, HeadTailProperties DEF TInv, References
    <3> QED
      BY <2>2, <3>1 DEF Letter, Results, Addressee
  <2>4. Grows
    BY <2>2, <2>3, StateStep DEF Rewritten
  <2>5. queue' \in Seq(Letter')
    BY <2>1, <2>4, QueueType
  <2>6. Scalars'
    <3>1. opened \in 0 .. 2 /\ (opened' = opened \/ (opened # 2 /\ opened' = opened + 1))
      BY <1>0, <1>5 DEF DecodeSucceeded, Scalars
    <3>2. opened' \in 0 .. 2
      BY <3>1
    <3> QED
      BY <1>0, <1>5, <3>2 DEF DecodeSucceeded, Scalars, Ids
  <2> QED
    BY <2>1, <2>4, <2>5, <2>6, Assemble
<1> QED
  BY <1>1, <1>2, <1>3, <1>4, <1>5 DEF MessageStep

LEMMA TInvInit == Init => TInv
<1> SUFFICES ASSUME Init PROVE TInv
  OBVIOUS
<1>1. <<>> \in Seq(Letter) /\ <<>> \in Seq(Ids)
  BY EmptySeq
<1>2. \A h \in Ids : handler[h] = Unborn
  BY DEF Init
<1>3. handler \in [Ids -> Made \cup {Unborn}]
  BY DEF Init
<1>4. cam \in Camera /\ cam.frameTo = 0
  BY ScanAssumption DEF Init, Camera
<1>5. mHandler \in [1 .. Pages -> 0 .. Handlers] /\ \A p \in 1 .. Pages : mHandler[p] = 0
  BY ScanAssumption DEF Init
<1>6. \A h, t \in Ids : handler[h].to # t
  BY <1>2, Unmade, IdsType
<1>7. Types
  <2>1. page \in 1 .. Pages /\ opened \in 0 .. 2 /\ joining \in 0 .. Handlers
    BY ScanAssumption DEF Init
  <2> QED
    BY <1>1, <1>3, <1>4, <1>5, <2>1 DEF Init, Types
<1>8. References
  BY <1>1, <1>4, <1>5, <1>6 DEF Init, References
<1> QED
  BY <1>7, <1>8 DEF TInv

LEMMA TInvNext == TInv /\ [Next]_vars => TInv'
<1> SUFFICES ASSUME TInv, [Next]_vars PROVE TInv'
  OBVIOUS
<1>1. CASE Next
  BY <1>1, TypedPage, TypedOther, TypedThread, TypedMessage DEF Next
<1>2. CASE UNCHANGED vars
  <2>1. Grows
    BY <1>2, SameHandlers DEF vars
  <2>2. Scalars'
    BY <1>2, TInvScalars DEF vars, page_vars, Scalars, Ids
  <2> QED
    BY <1>2, <2>1, <2>2, Assemble DEF vars
<1> QED
  BY <1>1, <1>2

(* The variables have their types in every state, whatever the camera        *)
(* throws: no handler is written to before it is made, and every message     *)
(* is for one that was.                                                      *)
THEOREM ScanType == SafetySpec => []TypeOK
<1>1. TInv => TypeOK
  <2> SUFFICES ASSUME TInv PROVE TypeOK
    OBVIOUS
  <2>1. \A h \in Ids : handler[h] = Unborn \/ handler[h] \in Made
    BY DEF TInv, Types
  <2>2. queue \in Seq(Message)
    <3>1. Letter \subseteq Message
      BY DEF Letter
    <3> QED
      BY <3>1, SeqMonotonic DEF TInv, References
  <2> QED
    BY <2>1, <2>2 DEF TInv, Types, TypeOK, Made, Camera
<1> QED
  BY <1>1, TInvInit, TInvNext, PTL DEF SafetySpec
-----------------------------------------------------------------------------
(* The handlers a page holds, those that are quitting, and the others: what  *)
(* each may still be owed.                                                   *)
Owned(h) == \E p \in 1 .. Pages : mHandler[p] = h
Ends(s) == s # <<>> /\ \A i \in 1 .. Len(s) : s[i] = "quit" <=> i = Len(s)

Owners ==
  \A p \in 1 .. Pages : mHandler[p] # 0 => handler[mHandler[p]].page = p /\ p <= page

Working(h) ==
  /\ handler[h].state \in {"PREVIEW", "SUCCESS"} /\ handler[h].thread # "ended"
  /\ handler[h].inbox \in Seq({"decode"})

Leaving(h) ==
  /\ handler[h].state = "DONE"
  /\ IF handler[h].thread = "ended" THEN handler[h].inbox = <<>> ELSE Ends(handler[h].inbox)
  /\ cam.frameTo # h /\ cam.focusTo # h

Quiet(h) ==
  /\ handler[h].state \in {"unborn", "SUCCESS", "DONE"}
  /\ handler[h].thread \notin {"decoding", "sending"}
  /\ handler[h].state = "DONE" => handler[h].thread = "ended"
  /\ handler[h].inbox = <<>> /\ Occurs(queue, ResultsOf(h)) = 0
  /\ cam.frameTo # h /\ cam.focusTo # h

Status(h) ==
  /\ Owned(h) /\ h # joining => Working(h)
  /\ ~Owned(h) => Quiet(h)
  /\ handler[h].thread = "sending" => handler[h].to = h

Ending == joining # 0 => joining = mHandler[page] /\ Leaving(joining)
Ready == joining = 0 /\ mHandler[page] # 0 => cam.open /\ cam.previewing
Base == Owners /\ (\A h \in Ids : Status(h)) /\ Ending /\ Ready

LEMMA OwnedBorn ==
  ASSUME TInv, NEW h, h # 0, Owned(h)
  PROVE  Born(h) /\ h \in Ids
BY DEF TInv, References, Owned, Born

LEMMA OwnedPage ==
  ASSUME TInv, Owners, NEW h, h # 0, Owned(h)
  PROVE  mHandler[handler[h].page] = h /\ handler[h].page \in 1 .. Pages /\ handler[h].page <= page
BY DEF Owners, Owned

(* The page's own handler, when the main thread quits it.                    *)
LEMMA OwnOfPage ==
  ASSUME TInv, mHandler[page] # 0
  PROVE  Owned(mHandler[page]) /\ mHandler[page] \in Ids /\ Born(mHandler[page])
<1>1. page \in 1 .. Pages
  BY TInvScalars
<1> QED
  BY <1>1 DEF TInv, References, Owned, Born

(* Results addressed to a handler in the queue.                              *)
LEMMA ResultsMember ==
  ASSUME NEW m \in Message, NEW h
  PROVE  m \in ResultsOf(h) <=> m.what \in Results /\ m.to = h
BY DEF Message, ResultsOf

LEMMA QueueOccurs ==
  ASSUME TInv, NEW h
  PROVE  /\ Occurs(queue, ResultsOf(h)) \in Nat
         /\ \A m \in Message : Occurs(Append(queue, m), ResultsOf(h))
                                = Occurs(queue, ResultsOf(h)) + Bit(m.what \in Results /\ m.to = h)
         /\ queue # <<>> =>
              /\ Head(queue) \in Message
              /\ Occurs(Tail(queue), ResultsOf(h)) \in Nat
              /\ Occurs(queue, ResultsOf(h))
                   = Bit(Head(queue).what \in Results /\ Head(queue).to = h)
                     + Occurs(Tail(queue), ResultsOf(h))
<1> DEFINE V == ResultsOf(h)
<1>1. queue \in Seq(Message)
  <2>1. Letter \subseteq Message
    BY DEF Letter
  <2> QED
    BY <2>1, SeqMonotonic DEF TInv, References
<1>2. \A m \in Message : Bit(m \in V) = Bit(m.what \in Results /\ m.to = h)
  BY ResultsMember DEF Bit
<1> HIDE DEF V
<1>3. Occurs(queue, V) \in Nat
  BY <1>1, OccursType
<1>4. \A m \in Message : Occurs(Append(queue, m), V) = Occurs(queue, V) + Bit(m \in V)
  BY <1>1, OccursAppend
<1>5. ASSUME queue # <<>>
      PROVE  /\ Head(queue) \in Message /\ Occurs(Tail(queue), V) \in Nat
             /\ Occurs(queue, V) = Bit(Head(queue) \in V) + Occurs(Tail(queue), V)
  <2>1. Head(queue) \in Message /\ Tail(queue) \in Seq(Message)
    BY <1>1, <1>5, HeadTailProperties
  <2>2. Occurs(Tail(queue), V) \in Nat
    BY <2>1, OccursType
  <2>3. Occurs(queue, V) = Bit(Head(queue) \in V) + Occurs(Tail(queue), V)
    BY <1>1, <1>5, OccursTail
  <2> QED
    BY <2>1, <2>2, <2>3
<1>6. \A m \in Message : Occurs(Append(queue, m), V) = Occurs(queue, V) + Bit(m.what \in Results /\ m.to = h)
  BY <1>2, <1>4
<1>7. queue # <<>> => Occurs(queue, V) = Bit(Head(queue).what \in Results /\ Head(queue).to = h)
                     + Occurs(Tail(queue), V)
  BY <1>2, <1>5
<1> QED
  BY <1>3, <1>5, <1>6, <1>7 DEF V

LEMMA PurgedOccurs ==
  ASSUME TInv, NEW h, NEW k
  PROVE  /\ Occurs(Purged(queue, h), ResultsOf(h)) = 0
         /\ Occurs(queue, ResultsOf(k)) = 0 => Occurs(Purged(queue, h), ResultsOf(k)) = 0
<1> DEFINE V == ResultsOf(h)
           W == ResultsOf(k)
<1>1. queue \in Seq(Message)
  <2>1. Letter \subseteq Message
    BY DEF Letter
  <2> QED
    BY <2>1, SeqMonotonic DEF TInv, References
<1> HIDE DEF V, W
<1>2. Occurs(Without(queue, V), V) = 0
  BY <1>1, WithoutType, OccursNone
<1>3. ASSUME Occurs(queue, W) = 0
      PROVE  Occurs(Without(queue, V), W) = 0
  <2>1. Len(queue) \in Nat /\ \A i \in 1 .. Len(queue) : queue[i] \in Message \ W
    BY <1>1, <1>3, OccursType, ElementOfSeq, LenProperties
  <2>2. queue \in Seq(Message \ W)
    <3>1. queue = [i \in 1 .. Len(queue) |-> queue[i]]
      BY <1>1, SeqDef
    <3> QED
      BY <2>1, <3>1, IsASeq
  <2>3. Without(queue, V) \in Seq((Message \ W) \ V)
    BY <2>2, WithoutType
  <2>4. (Message \ W) \ V = (Message \ V) \ W
    OBVIOUS
  <2> QED
    BY <2>3, <2>4, OccursNone
<1> QED
  BY <1>2, <1>3 DEF Purged, V, W
-----------------------------------------------------------------------------
(* What a step leaves as it was.                                             *)
LEMMA StatusKept ==
  ASSUME NEW k \in Ids, Status(k), handler'[k] = handler[k], Owned(k)' <=> Owned(k),
         k = joining' <=> k = joining,
         Owned(k) \/ (cam'.frameTo # k \/ cam'.frameTo = cam.frameTo),
         Owned(k) \/ (cam'.focusTo # k \/ cam'.focusTo = cam.focusTo),
         Owned(k) \/ Occurs(queue, ResultsOf(k)) # 0 \/ Occurs(queue', ResultsOf(k)) = 0
  PROVE  Status(k)'
<1>1. Working(k) => Working(k)'
  BY DEF Working
<1>2. ~Owned(k) /\ Quiet(k) => Quiet(k)'
  BY DEF Quiet, ResultsOf, Results
<1>3. (handler[k].thread = "sending" => handler[k].to = k)'
  BY DEF Status
<1> QED
  BY <1>1, <1>2, <1>3 DEF Status

LEMMA OwnersKept ==
  ASSUME TInv, Owners, UNCHANGED mHandler, page' \in Nat, page <= page',
         \A k \in Ids : Born(k) => handler'[k].page = handler[k].page
  PROVE  Owners' /\ \A k : Owned(k)' <=> Owned(k)
<1>1. \A k : Owned(k)' <=> Owned(k)
  BY DEF Owned
<1>2. ASSUME NEW p \in 1 .. Pages, mHandler'[p] # 0
      PROVE  handler'[mHandler'[p]].page = p /\ p <= page'
  <2>1. mHandler[p] # 0 /\ Born(mHandler[p]) /\ mHandler[p] \in Ids
    BY <1>2 DEF TInv, References, Born
  <2>2. handler[mHandler[p]].page = p /\ p <= page
    BY <2>1 DEF Owners
  <2>3. page \in Nat /\ p \in Nat
    BY TInvScalars, ScanAssumption
  <2> QED
    BY <2>1, <2>2, <2>3
<1> QED
  BY <1>1, <1>2 DEF Owners

(* Same handlers, same owners, and the camera's targets not set anew.        *)
LEMMA BaseSame ==
  ASSUME TInv, Base, UNCHANGED <<handler, mHandler, joining>>,
         page' \in Nat, page <= page', page' # page => joining = 0 /\ page' \in 1 .. Pages,
         cam'.frameTo \in {cam.frameTo, 0},
         cam'.focusTo = 0 \/ cam'.focusTo = cam.focusTo \/ (Owned(cam'.focusTo) /\ joining = 0),
         joining = 0 /\ mHandler[page'] # 0 => cam'.open /\ cam'.previewing,
         \A k \in Ids : Occurs(queue', ResultsOf(k)) = 0 \/ Occurs(queue, ResultsOf(k)) # 0 \/ Owned(k)
  PROVE  Base'
<1>1. Owners' /\ \A k : Owned(k)' <=> Owned(k)
  BY OwnersKept DEF Base
<1>2. \A k \in Ids : k # 0
  BY IdsType
<1>3. ASSUME NEW k \in Ids PROVE Status(k)'
  <2>1. Status(k)
    BY DEF Base
  <2>2. Owned(k)' <=> Owned(k)
    BY <1>1
  <2>3. Owned(k) \/ (cam'.frameTo # k \/ cam'.frameTo = cam.frameTo)
    BY <1>2
  <2>4. Owned(k) \/ (cam'.focusTo # k \/ cam'.focusTo = cam.focusTo)
    BY <1>2
  <2> QED
    BY <2>1, <2>2, <2>3, <2>4, StatusKept
<1>4. Ending'
  <2> SUFFICES ASSUME joining' # 0 PROVE (joining = mHandler[page] /\ Leaving(joining))'
    BY DEF Ending
  <2>1. joining # 0 /\ page' = page /\ joining = mHandler[page] /\ Leaving(joining)
    BY DEF Base, Ending
  <2>2. cam'.frameTo # joining /\ cam'.focusTo # joining
    BY <2>1 DEF Leaving
  <2> QED
    BY <2>1, <2>2 DEF Leaving
<1>5. Ready'
  BY DEF Ready
<1> QED
  BY <1>1, <1>3, <1>4, <1>5 DEF Base
-----------------------------------------------------------------------------
(* The page's steps keep Base, as long as autoFocus does not throw.          *)
LEMMA BaseInitCamera ==
  ASSUME TInv, Base, "focus" \notin Faults, joining = 0, initCamera,
         UNCHANGED <<queue, page, joining>>
  PROVE  Base'
<1>1. cam \in Camera /\ page \in 1 .. Pages /\ mHandler[page] \in 0 .. Handlers
      /\ mHandler \in [1 .. Pages -> 0 .. Handlers]
  BY TInvScalars
<1>2. PICK d : d = openDriver(cam)
  OBVIOUS
<1>3. d \in Camera /\ d.open /\ d.frameTo = cam.frameTo /\ d.focusTo = cam.focusTo
      /\ d.previewing = cam.previewing
  BY <1>1, <1>2, OpenFields
<1>4. page \in Nat
  BY <1>1, ScanAssumption
<1>p. \A k \in Ids : k # 0
  BY IdsType
<1>5. CASE UNCHANGED <<handler, mHandler>> /\ (cam' = cam \/ cam' = d)
  <2>1. cam'.frameTo = cam.frameTo /\ cam'.focusTo = cam.focusTo
    BY <1>3, <1>5
  <2>2. mHandler[page'] # 0 => cam'.open /\ cam'.previewing
    <3> SUFFICES ASSUME mHandler[page] # 0 PROVE cam'.open /\ cam'.previewing
      OBVIOUS
    <3>1. cam.open /\ cam.previewing
      BY DEF Base, Ready
    <3>2. CASE cam' = cam
      BY <3>1, <3>2
    <3>3. CASE cam' = d
      BY <1>3, <3>1, <3>3
    <3> QED
      BY <1>5, <3>2, <3>3
  <2>3. page' = page /\ page' \in Nat /\ page <= page'
    BY <1>4
  <2>4. \A k \in Ids : Occurs(queue', ResultsOf(k)) = 0 \/ Occurs(queue, ResultsOf(k)) # 0 \/ Owned(k)
    OBVIOUS
  <2> QED
    BY <1>5, <2>1, <2>2, <2>3, <2>4, BaseSame
<1>6. ASSUME NEW h \in Ids, mHandler[page] = 0, handler[h] = Unborn, NewHandler(openDriver(cam), h)
      PROVE  Base'
  <2>1. ~Born(h) /\ ~Owned(h) /\ h # 0
    BY <1>6, <1>p, Unmade, OwnedBorn DEF Born
  <2>2. Quiet(h)
    BY <2>1 DEF Base, Status
  <2>0. "PREVIEW" \in {"PREVIEW", "SUCCESS"} /\ "SUCCESS" \in {"PREVIEW", "SUCCESS"}
    OBVIOUS
  <2>3. CASE New(h, "PREVIEW") /\ cam' = Started(d, h, TRUE) /\ mHandler' = [mHandler EXCEPT ![page] = h]
    <3>1. handler'[h] = NewOne(h, "PREVIEW") /\ \A k \in Ids \ {h} : handler'[k] = handler[k]
      BY <2>0, <2>3, NewMade
    <3>2. cam'.open /\ cam'.previewing /\ cam'.frameTo = h /\ cam'.focusTo \in {cam.focusTo, h}
      <4>1. PICK e : e = Started(d, h, TRUE)
        OBVIOUS
      <4>5. e = Started(d, h, TRUE) \/ e = Started(d, h, FALSE)
        BY <4>1
      <4>2. cam' = e
        BY <2>3, <4>1
      <4>3. d \in Camera /\ d.open
        BY <1>3
      <4>4. /\ e \in Camera /\ e.open /\ e.previewing
            /\ e.drawing = (IF ~d.previewing THEN TRUE ELSE d.drawing)
            /\ e.oneShot /\ e.frameTo = h /\ e.focusTo \in {d.focusTo, h}
        <5> HIDE <4>1
        <5> QED
          BY <4>5, <4>3, StartedFields
      <4> QED
        BY <1>3, <4>2, <4>4
    <3>3. \A p \in 1 .. Pages : mHandler'[p] = IF p = page THEN h ELSE mHandler[p]
      BY <1>1, <2>3
    <3>4. \A k \in Ids \ {h} : Owned(k)' <=> Owned(k)
      BY <1>p, <1>6, <3>3 DEF Owned
    <3>5. Owned(h)'
      BY <1>1, <3>3 DEF Owned
    <3>6. Owners'
      <4>1. ASSUME NEW p \in 1 .. Pages, mHandler'[p] # 0
            PROVE  handler'[mHandler'[p]].page = p /\ p <= page'
        <5>1. CASE p = page
          BY <1>4, <3>1, <3>3, <5>1 DEF NewOne
        <5>2. CASE p # page
          <6>1. mHandler'[p] = mHandler[p] /\ mHandler[p] # 0 /\ Owned(mHandler[p])
            BY <3>3, <4>1, <5>2 DEF Owned
          <6>2. mHandler[p] \in Ids \ {h}
            BY <2>1, <6>1, OwnedBorn
          <6> QED
            BY <3>1, <6>1, <6>2 DEF Base, Owners
        <5> QED
          BY <5>1, <5>2
      <4> QED
        BY <4>1 DEF Owners
    <3>7. Status(h)'
      <4>1. <<>> \in Seq({"decode"})
        BY EmptySeq
      <4>2. Working(h)' /\ handler'[h].thread = "idle"
        BY <3>1, <4>1 DEF Working, NewOne
      <4> QED
        BY <3>5, <4>2 DEF Status
    <3>8. ASSUME NEW k \in Ids \ {h} PROVE Status(k)'
      <4>1. Status(k) /\ handler'[k] = handler[k] /\ (Owned(k)' <=> Owned(k))
        BY <3>1, <3>4 DEF Base
      <4>2. cam'.frameTo # k /\ (cam'.focusTo # k \/ cam'.focusTo = cam.focusTo)
        BY <3>2
      <4> QED
        BY <4>1, <4>2, StatusKept
    <3>9. Ending' /\ Ready'
      BY <3>2 DEF Ending, Ready
    <3> QED
      BY <3>6, <3>7, <3>8, <3>9 DEF Base
  <2>4. CASE New(h, "SUCCESS") /\ cam' = d /\ UNCHANGED mHandler
    <3>1. handler'[h] = NewOne(h, "SUCCESS") /\ \A k \in Ids \ {h} : handler'[k] = handler[k]
      BY <2>0, <2>4, NewMade
    <3>2. \A k \in Ids : Born(k) => handler'[k].page = handler[k].page
      BY <2>1, <3>1
    <3>3. Owners' /\ \A k : Owned(k)' <=> Owned(k)
      BY <1>4, <2>4, <3>2, OwnersKept DEF Base
    <3>4. Status(h)'
      <4>1. handler'[h].thread = "idle" /\ handler'[h].state = "SUCCESS" /\ handler'[h].inbox = <<>>
        BY <3>1 DEF NewOne
      <4>2. cam'.frameTo # h /\ cam'.focusTo # h /\ Occurs(queue', ResultsOf(h)) = 0
        BY <1>3, <2>2, <2>4 DEF Quiet
      <4>3. Quiet(h)'
        BY <4>1, <4>2 DEF Quiet, ResultsOf, Results
      <4> QED
        BY <2>1, <3>3, <4>1, <4>3 DEF Status
    <3>5. ASSUME NEW k \in Ids \ {h} PROVE Status(k)'
      <4>1. Status(k) /\ handler'[k] = handler[k] /\ (Owned(k)' <=> Owned(k))
        BY <3>1, <3>3 DEF Base
      <4>2. cam'.frameTo = cam.frameTo /\ cam'.focusTo = cam.focusTo
        BY <1>3, <2>4
      <4> QED
        BY <4>1, <4>2, StatusKept
    <3>6. Ending' /\ Ready'
      BY <1>6, <2>4 DEF Ending, Ready
    <3> QED
      BY <3>3, <3>4, <3>5, <3>6 DEF Base
  <2> QED
    BY <1>2, <1>6, <2>3, <2>4 DEF NewHandler
<1> QED
  BY <1>2, <1>5, <1>6, InitCameraSteps

LEMMA BasePause ==
  ASSUME TInv, Base, Pause
  PROVE  Base'
<1>1. cam \in Camera /\ page \in 1 .. Pages /\ page \in Nat
  BY TInvScalars, ScanAssumption
<1>2. UNCHANGED <<page, queue, mHandler>> /\ joining = 0
  BY DEF Pause, Main
<1>p. \A k \in Ids : k # 0
  BY IdsType
<1>3. CASE mHandler[page] # 0 /\ Quit(mHandler[page])
  <2>1. PICK h : h = mHandler[page]
    OBVIOUS
  <2>2. Owned(h) /\ h \in Ids /\ Born(h) /\ h # 0 /\ Quit(h)
    BY <1>3, <2>1, OwnOfPage
  <2>3. Rewritten(h, "DONE", handler[h].thread, Append(handler[h].inbox, "quit"), handler[h].to)
    BY <2>2, QuitStep
  <2>4. joining' = h /\ cam' = stopPreview(cam)
    BY <2>2 DEF Quit
  <2>5. cam.open /\ cam.previewing
    BY <1>2, <1>3 DEF Base, Ready
  <2>6. cam'.frameTo = 0 /\ cam'.focusTo = 0
    BY <1>1, <2>4, <2>5, StopFields
  <2>7. Owners' /\ \A k : Owned(k)' <=> Owned(k)
    <3>1. \A k \in Ids : Born(k) => handler'[k].page = handler[k].page
      BY <2>2, <2>3 DEF Rewritten
    <3> QED
      BY <1>1, <1>2, <3>1, OwnersKept DEF Base
  <2>8. Working(h) /\ (handler[h].thread = "sending" => handler[h].to = h)
    BY <1>2, <2>2 DEF Base, Status
  <2>9. ASSUME NEW k \in Ids PROVE Status(k)'
    <3>1. CASE k = h
      <4>1. (handler[h].thread = "sending" => handler[h].to = h)'
        BY <2>3, <2>8 DEF Rewritten
      <4> QED
        BY <2>2, <2>4, <2>7, <3>1, <4>1 DEF Status
    <3>2. CASE k # h
      <4>1. Status(k) /\ handler'[k] = handler[k] /\ (Owned(k)' <=> Owned(k))
        BY <2>3, <2>7, <3>2 DEF Base, Rewritten
      <4>2. cam'.frameTo # k /\ cam'.focusTo # k /\ (k = joining' <=> k = joining)
        BY <1>p, <1>2, <2>4, <2>6, <3>2
      <4>3. queue' = queue
        BY <1>2
      <4> QED
        BY <4>1, <4>2, <4>3, StatusKept
    <3> QED
      BY <3>1, <3>2
  <2>10. Leaving(h)'
    <3>1. handler[h].thread # "ended" /\ handler[h].inbox \in Seq({"decode"})
      BY <2>8 DEF Working
    <3>2. Ends(Append(handler[h].inbox, "quit"))
      <4>1. PICK s : s = handler[h].inbox
        OBVIOUS
      <4>2. s \in Seq({"decode"}) /\ Len(s) \in Nat /\ \A i \in 1 .. Len(s) : s[i] = "decode"
        BY <3>1, <4>1, ElementOfSeq, LenProperties
      <4>3. PICK t : t = Append(s, "quit")
        OBVIOUS
      <4>4. /\ Len(t) = Len(s) + 1
            /\ \A i \in 1 .. Len(s) : t[i] = s[i]
            /\ t[Len(s) + 1] = "quit"
        <5>1. s \in Seq({"decode", "quit"}) /\ "quit" \in {"decode", "quit"}
          BY <4>2, SeqMonotonic
        <5> QED
          BY <4>3, <5>1, AppendProperties
      <4>5. t # <<>>
        <5>1. Len(t) # 0
          BY <4>2, <4>4
        <5> QED
          BY <5>1, EmptySeq
      <4>6. \A i \in 1 .. Len(t) : t[i] = "quit" <=> i = Len(t)
        BY <4>2, <4>4
      <4> QED
        BY <4>1, <4>3, <4>5, <4>6 DEF Ends
    <3> QED
      BY <2>2, <1>p, <2>3, <2>6, <3>1, <3>2 DEF Leaving, Rewritten
  <2>11. Ending' /\ Ready'
    BY <1>2, <2>1, <2>2, <2>4, <2>10 DEF Ending, Ready
  <2> QED
    BY <2>7, <2>9, <2>11 DEF Base
<1>4. CASE mHandler[page] = 0 /\ cam' = closeDriver(cam) /\ UNCHANGED <<handler, joining>>
  <2>1. cam'.frameTo = cam.frameTo /\ cam'.focusTo = cam.focusTo
    BY <1>1, <1>4, CloseFields
  <2>2. page' = page /\ page' \in Nat /\ page <= page' /\ mHandler[page'] = 0
    BY <1>1, <1>2, <1>4
  <2>3. \A k \in Ids : Occurs(queue', ResultsOf(k)) = 0 \/ Occurs(queue, ResultsOf(k)) # 0 \/ Owned(k)
    BY <1>2
  <2> QED
    BY <1>2, <1>4, <2>1, <2>2, <2>3, BaseSame
<1> QED
  BY <1>3, <1>4 DEF Pause
-----------------------------------------------------------------------------
(* The other steps keep Base.                                                *)
LEMMA BaseOtherPage ==
  ASSUME TInv, Base, surfaceDestroyed \/ Stop \/ Destroy \/ Back \/ Launch \/ TimerFires
  PROVE  Base'
<1>1. UNCHANGED <<handler, mHandler, joining, cam, queue>>
  BY DEF surfaceDestroyed, Stop, Destroy, Back, Launch, TimerFires
<1>2. page \in 1 .. Pages /\ page \in Nat
  BY TInvScalars, ScanAssumption
<1>3. \A k \in Ids : Occurs(queue', ResultsOf(k)) = 0 \/ Occurs(queue, ResultsOf(k)) # 0 \/ Owned(k)
  BY <1>1
<1>4. CASE page' = page
  <2>1. page' \in Nat /\ page <= page'
    BY <1>2, <1>4
  <2>2. joining = 0 /\ mHandler[page'] # 0 => cam'.open /\ cam'.previewing
    BY <1>1, <1>4 DEF Base, Ready
  <2> QED
    BY <1>1, <1>3, <1>4, <2>1, <2>2, BaseSame
<1>5. CASE Launch
  <2>1. joining = 0 /\ page' = page + 1 /\ page < Pages
    BY <1>5 DEF Launch, Main
  <2>2. page' \in 1 .. Pages /\ page' \in Nat /\ page <= page' /\ ~(page' <= page)
    BY <1>2, <2>1, ScanAssumption
  <2>3. mHandler[page'] = 0
    BY <2>2 DEF Base, Owners
  <2> QED
    BY <1>1, <1>3, <2>1, <2>2, <2>3, BaseSame
<1> QED
  BY <1>4, <1>5 DEF surfaceDestroyed, Stop, Destroy, Back, Launch, TimerFires

LEMMA BaseJoined ==
  ASSUME TInv, Base, Joined
  PROVE  Base'
<1>1. cam \in Camera /\ page \in 1 .. Pages /\ mHandler \in [1 .. Pages -> 0 .. Handlers]
  BY TInvScalars
<1>2. /\ joining # 0 /\ handler[joining].thread = "ended"
      /\ queue' = Purged(queue, joining)
      /\ mHandler' = [mHandler EXCEPT ![page] = 0]
      /\ cam' = closeDriver(cam) /\ joining' = 0
      /\ UNCHANGED <<page, handler>>
  BY DEF Joined, page_vars
<1>3. PICK h : h = joining
  OBVIOUS
<1>4. h # 0 /\ h = mHandler[page] /\ Leaving(h) /\ h \in Ids /\ Owned(h)
  BY <1>2, <1>3, OwnOfPage DEF Base, Ending
<1>5. cam'.frameTo = cam.frameTo /\ cam'.focusTo = cam.focusTo
  BY <1>1, <1>2, CloseFields
<1>6. \A p \in 1 .. Pages : mHandler'[p] = IF p = page THEN 0 ELSE mHandler[p]
  BY <1>1, <1>2
<1>p. \A k \in Ids : k # 0
  BY IdsType
<1>7. \A k \in Ids \ {h} : Owned(k)' <=> Owned(k)
  BY <1>p, <1>4, <1>6 DEF Owned
<1>8. ~Owned(h)'
  <2> SUFFICES ASSUME NEW p \in 1 .. Pages, mHandler'[p] = h PROVE FALSE
    BY DEF Owned
  <2>1. p # page /\ mHandler[p] = h
    BY <1>4, <1>6
  <2>2. handler[h].page = p
    BY <1>4, <2>1 DEF Base, Owners
  <2>3. handler[h].page = page
    BY <1>1, <1>4 DEF Base, Owners
  <2> QED
    BY <2>1, <2>2, <2>3
<1>9. Owners'
  BY <1>2, <1>6 DEF Base, Owners
<1>10. Status(h)'
  <2>1. Occurs(queue', ResultsOf(h)) = 0
    BY <1>2, <1>3, PurgedOccurs
  <2>2. /\ handler[h].state = "DONE" /\ handler[h].thread = "ended" /\ handler[h].inbox = <<>>
        /\ cam.frameTo # h /\ cam.focusTo # h
    BY <1>2, <1>3, <1>4 DEF Leaving
  <2>3. Quiet(h)'
    BY <1>2, <1>5, <2>1, <2>2 DEF Quiet, ResultsOf, Results
  <2> QED
    BY <1>2, <1>8, <2>2, <2>3 DEF Status
<1>11. ASSUME NEW k \in Ids \ {h} PROVE Status(k)'
  <2>1. Status(k) /\ handler'[k] = handler[k] /\ (Owned(k)' <=> Owned(k))
    BY <1>2, <1>7 DEF Base
  <2>2. k = joining' <=> k = joining
    BY <1>p, <1>2, <1>3
  <2>3. Occurs(queue, ResultsOf(k)) # 0 \/ Occurs(queue', ResultsOf(k)) = 0
    BY <1>2, PurgedOccurs
  <2> QED
    BY <1>5, <2>1, <2>2, <2>3, StatusKept
<1>12. Ending' /\ Ready'
  BY <1>1, <1>2, <1>6 DEF Ending, Ready
<1> QED
  BY <1>9, <1>10, <1>11, <1>12 DEF Base

LEMMA BaseCamera ==
  ASSUME TInv, Base, CameraStep
  PROVE  Base'
<1>1. cam \in Camera /\ page \in 1 .. Pages /\ page \in Nat
  BY TInvScalars, ScanAssumption
<1>2. UNCHANGED <<handler, mHandler, joining, page>>
  BY DEF CameraStep, CameraFrame, CameraFocus, page_vars
<1>3. cam'.frameTo = cam.frameTo /\ cam'.focusTo = cam.focusTo
      /\ cam'.open = cam.open /\ cam'.previewing = cam.previewing
  BY <1>1 DEF CameraStep, CameraFrame, CameraFocus, Camera
<1>4. PICK m : m \in {[what |-> "frame", to |-> 0], [what |-> "focus", to |-> 0]} /\ queue' = Append(queue, m)
  BY DEF CameraStep, CameraFrame, CameraFocus
<1>5. m \in Message /\ m.what \notin Results
  BY <1>4, ScanAssumption DEF Message, Results
<1>6. ASSUME NEW k \in Ids
      PROVE  Occurs(queue', ResultsOf(k)) = 0 \/ Occurs(queue, ResultsOf(k)) # 0
  <2>1. Occurs(queue', ResultsOf(k)) = Occurs(queue, ResultsOf(k)) + Bit(m.what \in Results /\ m.to = k)
    BY <1>4, <1>5, QueueOccurs
  <2>2. Bit(m.what \in Results /\ m.to = k) = 0
    BY <1>5 DEF Bit
  <2> QED
    BY <2>1, <2>2
<1>7. page' \in Nat /\ page <= page' /\ page' = page
  BY <1>1, <1>2
<1>8. joining = 0 /\ mHandler[page'] # 0 => cam'.open /\ cam'.previewing
  BY <1>2, <1>3 DEF Base, Ready
<1> QED
  BY <1>2, <1>3, <1>6, <1>7, <1>8, BaseSame

(* One owned handler changes.                                                *)
LEMMA OneChanges ==
  ASSUME TInv, Base, UNCHANGED <<mHandler, page, joining>>, NEW h \in Ids, Owned(h),
         NEW state, NEW thread, NEW inbox, NEW to, Rewritten(h, state, thread, inbox, to),
         h # joining => Working(h)', h = joining => Leaving(h)', thread = "sending" => to = h,
         cam'.open = cam.open, cam'.previewing = cam.previewing,
         cam'.frameTo \in {0, cam.frameTo, h}, cam'.focusTo \in {0, cam.focusTo},
         joining # 0 => UNCHANGED cam,
         \A k \in Ids \ {h} : Occurs(queue', ResultsOf(k)) = 0 \/ Occurs(queue, ResultsOf(k)) # 0
  PROVE  Base'
<1>1. page \in 1 .. Pages /\ page \in Nat
  BY TInvScalars, ScanAssumption
<1>p. \A k \in Ids : k # 0
  BY IdsType
<1>2. /\ Born(h) /\ \A k \in Ids \ {h} : handler'[k] = handler[k]
      /\ handler'[h].page = handler[h].page /\ handler'[h].thread = thread /\ handler'[h].to = to
  BY DEF Rewritten
<1>3. Owners' /\ \A k : Owned(k)' <=> Owned(k)
  <2>1. \A k \in Ids : Born(k) => handler'[k].page = handler[k].page
    BY <1>2
  <2> QED
    BY <1>1, <2>1, OwnersKept DEF Base
<1>4. Status(h)'
  BY <1>2, <1>3 DEF Status
<1>5. ASSUME NEW k \in Ids \ {h} PROVE Status(k)'
  <2>1. Status(k) /\ handler'[k] = handler[k] /\ (Owned(k)' <=> Owned(k))
    BY <1>2, <1>3 DEF Base
  <2>2. cam'.frameTo # k \/ cam'.frameTo = cam.frameTo
    BY <1>p
  <2>3. cam'.focusTo # k \/ cam'.focusTo = cam.focusTo
    BY <1>p
  <2> QED
    BY <2>1, <2>2, <2>3, StatusKept
<1>6. Ending'
  <2> SUFFICES ASSUME joining' # 0 PROVE (joining = mHandler[page] /\ Leaving(joining))'
    BY DEF Ending
  <2>1. joining # 0 /\ joining = mHandler[page] /\ Leaving(joining)
    BY DEF Base, Ending
  <2>2. CASE joining = h
    BY <2>1, <2>2 DEF Leaving
  <2>3. CASE joining # h
    <3>1. joining \in Ids
      BY <2>1, OwnOfPage
    <3>2. handler'[joining] = handler[joining]
      BY <1>2, <2>3, <3>1
    <3> QED
      BY <2>1, <3>2 DEF Leaving
  <2> QED
    BY <2>2, <2>3
<1>7. Ready'
  BY DEF Base, Ready
<1> QED
  BY <1>3, <1>4, <1>5, <1>6, <1>7 DEF Base

LEMMA BaseTake ==
  ASSUME TInv, Base, NEW h \in Ids, Take(h)
  PROVE  Base'
<1>1. handler[h].thread = "idle" /\ handler[h].inbox # <<>>
  BY TakeStep
<1>2. PICK thread : thread = IF Head(handler[h].inbox) = "quit" THEN "ended" ELSE "decoding"
  OBVIOUS
<1>3. Rewritten(h, handler[h].state, thread, Tail(handler[h].inbox), handler[h].to)
  BY <1>2, TakeStep
<1>4. UNCHANGED <<mHandler, page, joining, cam, queue>>
  BY DEF Take, page_vars
<1>5. Owned(h)
  BY <1>1 DEF Base, Status, Quiet
<1>6. PICK s : s = handler[h].inbox
  OBVIOUS
<1>7. s \in Seq({"decode", "quit"}) /\ s # <<>>
  BY <1>1, <1>6, OneField, Alive
<1>8. /\ handler'[h].state = handler[h].state /\ handler'[h].thread = thread
      /\ handler'[h].inbox = Tail(s) /\ handler'[h].to = handler[h].to
  BY <1>3, <1>6 DEF Rewritten
<1>9. thread = IF Head(s) = "quit" THEN "ended" ELSE "decoding"
  BY <1>2, <1>6
<1>10. ASSUME h # joining PROVE Working(h)'
  <2>1. Working(h)
    BY <1>5, <1>10 DEF Base, Status
  <2>2. s \in Seq({"decode"})
    BY <1>6, <2>1 DEF Working
  <2>3. Head(s) \in {"decode"} /\ Tail(s) \in Seq({"decode"})
    BY <1>7, <2>2, HeadTailProperties
  <2>4. thread = "decoding"
    BY <1>9, <2>3
  <2> QED
    BY <1>8, <2>1, <2>3, <2>4 DEF Working
<1>11. ASSUME h = joining PROVE Leaving(h)'
  <2>1. Leaving(h) /\ Ends(s)
    <3>1. h # 0
      BY IdsType
    <3> QED
      BY <1>1, <1>6, <1>11, <3>1 DEF Base, Ending, Leaving
  <2>2. /\ Len(s) \in Nat /\ Len(s) >= 1 /\ Head(s) = s[1]
        /\ Len(Tail(s)) = Len(s) - 1 /\ \A i \in 1 .. Len(s) - 1 : Tail(s)[i] = s[i + 1]
    <3>1. Len(s) \in Nat /\ Len(s) >= 1
      BY <1>7, EmptySeq, LenProperties
    <3> QED
      BY <1>7, <3>1, HeadTailProperties
  <2>3. \A i \in 1 .. Len(s) : s[i] = "quit" <=> i = Len(s)
    BY <2>1 DEF Ends
  <2>4. CASE Len(s) = 1
    <3>1. Head(s) = "quit" /\ Len(Tail(s)) = 0
      BY <2>2, <2>3, <2>4
    <3>2. Tail(s) = <<>>
      BY <1>7, <3>1, HeadTailProperties, EmptySeq
    <3>3. thread = "ended"
      BY <1>9, <3>1
    <3> QED
      BY <1>4, <1>8, <2>1, <3>2, <3>3 DEF Leaving
  <2>5. CASE Len(s) # 1
    <3>0. 1 \in 1 .. Len(s) /\ 1 # Len(s)
      BY <2>2, <2>5
    <3>1. Head(s) # "quit"
      BY <2>2, <2>3, <3>0
    <3>2. thread = "decoding"
      BY <1>9, <3>1
    <3>3. \A i \in 1 .. Len(Tail(s)) : Tail(s)[i] = "quit" <=> i = Len(Tail(s))
      <4> SUFFICES ASSUME NEW i \in 1 .. Len(Tail(s)) PROVE Tail(s)[i] = "quit" <=> i = Len(Tail(s))
        OBVIOUS
      <4>1. Tail(s)[i] = s[i + 1] /\ i + 1 \in 1 .. Len(s)
        BY <2>2
      <4> QED
        BY <2>2, <2>3, <4>1
    <3>4. Tail(s) # <<>>
      <4>1. Len(Tail(s)) # 0
        BY <2>2, <2>5
      <4> QED
        BY <4>1, EmptySeq
    <3>5. Ends(Tail(s))
      BY <3>3, <3>4 DEF Ends
    <3> QED
      BY <1>4, <1>8, <2>1, <3>2, <3>5 DEF Leaving
  <2> QED
    BY <2>4, <2>5
<1>12. thread # "sending"
  BY <1>2
<1> QED
  BY <1>3, <1>4, <1>5, <1>10, <1>11, <1>12, OneChanges

(* A step of a thread that is at work: it works for an owned handler.        *)
LEMMA BusyOwned ==
  ASSUME TInv, Base, NEW h \in Ids, handler[h].thread \in {"decoding", "sending"}
  PROVE  Owned(h) /\ h # 0 /\ Born(h) /\ mHandler[handler[h].page] = h
<1>1. Owned(h)
  BY DEF Base, Status, Quiet
<1>2. h # 0
  BY IdsType
<1> QED
  BY <1>1, <1>2, OwnedPage, OwnedBorn DEF Base

LEMMA BaseDecode ==
  ASSUME TInv, Base, NEW h \in Ids, decode(h)
  PROVE  Base'
<1>1. handler[h].thread = "decoding"
  BY DecodeStep
<1>2. Owned(h) /\ mHandler[handler[h].page] = h
  BY <1>1, BusyOwned
<1>3. Rewritten(h, handler[h].state, "sending", handler[h].inbox, h)
  BY <1>2, DecodeStep
<1>4. UNCHANGED <<mHandler, page, joining, cam, queue>>
  BY DEF decode, page_vars
<1>5. h # joining => Working(h)'
  BY <1>2, <1>3 DEF Base, Status, Working, Rewritten
<1>6. ASSUME h = joining PROVE Leaving(h)'
  <2>1. Leaving(h)
    BY <1>6, IdsType DEF Base, Ending
  <2> QED
    BY <1>1, <1>3, <1>4, <2>1 DEF Leaving, Rewritten
<1> QED
  BY <1>2, <1>3, <1>4, <1>5, <1>6, OneChanges

LEMMA SendsResult ==
  ASSUME TInv, Base, NEW h \in Ids, NEW result \in Results, sendToTarget(h, result)
  PROVE  /\ Owned(h) /\ handler[h].thread = "sending"
         /\ Rewritten(h, handler[h].state, "idle", handler[h].inbox, 0)
         /\ UNCHANGED <<mHandler, page_vars, joining, cam, crashed, later>>
         /\ queue' = Append(queue, [what |-> result, to |-> h])
         /\ [what |-> result, to |-> h] \in Message
         /\ Occurs(queue', ResultsOf(h)) = Occurs(queue, ResultsOf(h)) + 1
         /\ \A k \in Ids \ {h} : Occurs(queue', ResultsOf(k)) = Occurs(queue, ResultsOf(k))
<1>1. handler[h].thread = "sending" /\ Rewritten(h, handler[h].state, "idle", handler[h].inbox, 0)
  BY SendStep
<1>2. Owned(h) /\ h # 0
  BY <1>1, BusyOwned
<1>3. handler[h].to = h
  BY <1>1 DEF Base, Status
<1>4. UNCHANGED <<mHandler, page_vars, joining, cam, crashed, later>>
      /\ queue' = Append(queue, [what |-> result, to |-> h])
  BY <1>2, <1>3 DEF sendToTarget
<1>5. PICK m : m = [what |-> result, to |-> h]
  OBVIOUS
<1>6. m \in Message /\ m.what \in Results /\ m.to = h
  BY <1>5, IdsType DEF Message
<1>7. ASSUME NEW k \in Ids
      PROVE  Occurs(queue', ResultsOf(k)) = Occurs(queue, ResultsOf(k)) + (IF k = h THEN 1 ELSE 0)
  <2>1. Occurs(queue', ResultsOf(k)) = Occurs(queue, ResultsOf(k)) + Bit(m.what \in Results /\ m.to = k)
    BY <1>4, <1>5, <1>6, QueueOccurs
  <2>2. Bit(m.what \in Results /\ m.to = k) = IF k = h THEN 1 ELSE 0
    BY <1>6 DEF Bit
  <2> QED
    BY <2>1, <2>2
<1>8. \A k \in Ids : Occurs(queue, ResultsOf(k)) \in Nat
  BY QueueOccurs
<1> QED
  BY <1>1, <1>2, <1>4, <1>5, <1>6, <1>7, <1>8

LEMMA BaseSend ==
  ASSUME TInv, Base, NEW h \in Ids, NEW result \in Results, sendToTarget(h, result)
  PROVE  Base'
<1>1. /\ Owned(h) /\ handler[h].thread = "sending"
      /\ Rewritten(h, handler[h].state, "idle", handler[h].inbox, 0)
      /\ UNCHANGED <<mHandler, page, joining, cam>>
      /\ \A k \in Ids \ {h} : Occurs(queue', ResultsOf(k)) = Occurs(queue, ResultsOf(k))
  BY SendsResult DEF page_vars
<1>2. h # joining => Working(h)'
  BY <1>1 DEF Base, Status, Working, Rewritten
<1>3. ASSUME h = joining PROVE Leaving(h)'
  <2>1. Leaving(h)
    BY <1>3, IdsType DEF Base, Ending
  <2> QED
    BY <1>1, <2>1 DEF Leaving, Rewritten
<1>4. \A k \in Ids \ {h} : Occurs(queue', ResultsOf(k)) = 0 \/ Occurs(queue, ResultsOf(k)) # 0
  BY <1>1
<1> QED
  BY <1>1, <1>2, <1>3, <1>4, OneChanges
-----------------------------------------------------------------------------
(* Messages of the main looper.                                              *)
LEMMA TailOccurs ==
  ASSUME TInv, queue # <<>>, queue' = Tail(queue), NEW k
  PROVE  /\ Occurs(queue', ResultsOf(k)) = 0 \/ Occurs(queue, ResultsOf(k)) # 0
         /\ Head(queue).what \notin Results =>
              Occurs(queue', ResultsOf(k)) = Occurs(queue, ResultsOf(k))
<1> DEFINE b == Bit(Head(queue).what \in Results /\ Head(queue).to = k)
<1>1. /\ Occurs(queue, ResultsOf(k)) \in Nat /\ Occurs(queue', ResultsOf(k)) \in Nat
      /\ Occurs(queue, ResultsOf(k)) = b + Occurs(queue', ResultsOf(k))
  BY QueueOccurs
<1>2. b \in {0, 1} /\ (Head(queue).what \notin Results => b = 0)
  BY DEF Bit
<1> QED
  BY <1>1, <1>2

(* A result at the head of the queue is the owned handler's it is for.       *)
LEMMA HeadResult ==
  ASSUME TInv, Base, queue # <<>>, Head(queue).what \in Results, queue' = Tail(queue), joining = 0
  PROVE  /\ Addressee \in Ids /\ Addressee # 0 /\ Born(Addressee)
         /\ Owned(Addressee) /\ Working(Addressee)
         /\ Occurs(queue, ResultsOf(Addressee)) = 1 + Occurs(queue', ResultsOf(Addressee))
         /\ \A k \in Ids \ {Addressee} : Occurs(queue', ResultsOf(k)) = Occurs(queue, ResultsOf(k))
<1>1. Head(queue) \in Letter
  BY HeadTailProperties DEF TInv, References
<1>2. Born(Addressee) /\ Addressee \in Ids
  BY <1>1 DEF Letter, Addressee, Born
<1>3. ASSUME NEW k
      PROVE  /\ Occurs(queue, ResultsOf(k)) = (IF k = Addressee THEN 1 ELSE 0) + Occurs(queue', ResultsOf(k))
             /\ Occurs(queue', ResultsOf(k)) \in Nat
  <2> DEFINE b == Bit(Head(queue).what \in Results /\ Head(queue).to = k)
  <2>1. Occurs(queue', ResultsOf(k)) \in Nat /\ Occurs(queue, ResultsOf(k)) = b + Occurs(queue', ResultsOf(k))
    BY QueueOccurs
  <2>2. b = IF k = Addressee THEN 1 ELSE 0
    BY DEF Bit, Addressee
  <2> HIDE DEF b
  <2> QED
    BY <2>1, <2>2
<1>4. Occurs(queue, ResultsOf(Addressee)) # 0
  BY <1>3
<1>5. Owned(Addressee)
  BY <1>2, <1>4 DEF Base, Status, Quiet
<1>6. Addressee # 0
  BY <1>2, IdsType
<1>7. Working(Addressee)
  BY <1>2, <1>5, <1>6 DEF Base, Status
<1> QED
  BY <1>2, <1>3, <1>5, <1>6, <1>7

(* Whom the camera's callbacks hold.                                         *)
LEMMA TargetOwned ==
  ASSUME TInv, Base, NEW h \in Ids, cam.frameTo = h \/ cam.focusTo = h
  PROVE  Owned(h) /\ h # 0 /\ Born(h)
<1>1. Owned(h)
  BY DEF Base, Status, Quiet
<1>2. h # 0
  BY IdsType
<1> QED
  BY <1>1, <1>2, OwnedBorn

LEMMA BaseFrameMessage ==
  ASSUME TInv, Base, onPreviewFrame
  PROVE  Base'
<1>1. /\ joining = 0 /\ queue # <<>> /\ queue' = Tail(queue)
      /\ UNCHANGED <<mHandler, page, joining>>
  BY DEF onPreviewFrame, Due, Main, page_vars
<1>2. cam \in Camera /\ page \in 1 .. Pages /\ page \in Nat
  BY TInvScalars, ScanAssumption
<1>3. \A k \in Ids : Occurs(queue', ResultsOf(k)) = 0 \/ Occurs(queue, ResultsOf(k)) # 0
  BY <1>1, TailOccurs
<1>4. CASE UNCHANGED <<handler, cam>>
  <2>1. page' = page /\ page' \in Nat /\ page <= page'
    BY <1>1, <1>2
  <2>2. joining = 0 /\ mHandler[page'] # 0 => cam'.open /\ cam'.previewing
    BY <1>4, <2>1 DEF Base, Ready
  <2> QED
    BY <1>1, <1>3, <1>4, <2>1, <2>2, BaseSame
<1>5. CASE /\ cam.frameTo # 0
           /\ handler' = [handler EXCEPT ![cam.frameTo].inbox = Append(@, "decode")]
           /\ cam' = [cam EXCEPT !.frameTo = 0]
  <2>1. PICK h : h = cam.frameTo
    OBVIOUS
  <2>2. h \in Ids
    BY <1>2, <1>5, <2>1, IdsType DEF Camera
  <2>3. Owned(h) /\ h # 0 /\ Born(h)
    BY <2>1, <2>2, TargetOwned
  <2>4. Rewritten(h, handler[h].state, handler[h].thread, Append(handler[h].inbox, "decode"), handler[h].to)
    BY <1>5, <2>1, <2>3, InboxStep
  <2>5. Working(h) /\ (handler[h].thread = "sending" => handler[h].to = h)
    BY <1>1, <2>2, <2>3 DEF Base, Status
  <2>6. Append(handler[h].inbox, "decode") \in Seq({"decode"})
    BY <2>5, AppendProperties DEF Working
  <2>7. Working(h)'
    BY <2>4, <2>5, <2>6 DEF Working, Rewritten
  <2>8. cam'.open = cam.open /\ cam'.previewing = cam.previewing
        /\ cam'.frameTo = 0 /\ cam'.focusTo = cam.focusTo
    BY <1>2, <1>5 DEF Camera
  <2> QED
    BY <1>1, <1>3, <2>2, <2>3, <2>4, <2>5, <2>7, <2>8, OneChanges
<1> QED
  BY <1>4, <1>5 DEF onPreviewFrame

LEMMA BaseFocusMessage ==
  ASSUME TInv, Base, onAutoFocus
  PROVE  Base'
<1>1. /\ joining = 0 /\ queue # <<>> /\ queue' = Tail(queue)
      /\ UNCHANGED <<mHandler, page, joining, handler>>
  BY DEF onAutoFocus, Due, Main, page_vars
<1>2. cam \in Camera /\ page \in 1 .. Pages /\ page \in Nat
  BY TInvScalars, ScanAssumption
<1>3. \A k \in Ids : Occurs(queue', ResultsOf(k)) = 0 \/ Occurs(queue, ResultsOf(k)) # 0
  BY <1>1, TailOccurs
<1>4. cam'.open = cam.open /\ cam'.previewing = cam.previewing
      /\ cam'.frameTo = cam.frameTo /\ (cam'.focusTo = cam.focusTo \/ cam'.focusTo = 0)
  BY <1>2 DEF onAutoFocus, Camera
<1>5. page' = page /\ page' \in Nat /\ page <= page'
  BY <1>1, <1>2
<1>6. joining = 0 /\ mHandler[page'] # 0 => cam'.open /\ cam'.previewing
  BY <1>4, <1>5 DEF Base, Ready
<1> QED
  BY <1>1, <1>3, <1>4, <1>5, <1>6, BaseSame

LEMMA BaseRefocus ==
  ASSUME TInv, Base, Refocus, "focus" \notin Faults
  PROVE  Base' /\ UNCHANGED crashed
<1>1. joining = 0 /\ later # <<>> /\ UNCHANGED <<mHandler, page, joining, handler, queue>>
  BY DEF Refocus, Main, page_vars
<1>2. cam \in Camera /\ page \in 1 .. Pages /\ page \in Nat
  BY TInvScalars, ScanAssumption
<1>3. page' = page /\ page' \in Nat /\ page <= page'
  BY <1>1, <1>2
<1>4. \A k \in Ids : Occurs(queue', ResultsOf(k)) = 0 \/ Occurs(queue, ResultsOf(k)) # 0
  BY <1>1
<1>5. PICK h : h = Head(later)
  OBVIOUS
<1>6. h \in Ids
  BY <1>1, <1>5, TInvScalars, HeadTailProperties DEF Scalars
<1>7. CASE UNCHANGED <<cam, crashed>>
  <2>1. joining = 0 /\ mHandler[page'] # 0 => cam'.open /\ cam'.previewing
    BY <1>3, <1>7 DEF Base, Ready
  <2> QED
    BY <1>1, <1>3, <1>4, <1>7, <2>1, BaseSame
<1>8. CASE handler[h].state = "PREVIEW" /\ cam' = requestAutoFocus(cam, h, TRUE) /\ UNCHANGED crashed
  <2>1. Owned(h)
    BY <1>6, <1>8 DEF Base, Status, Quiet
  <2>2. PICK e : e = requestAutoFocus(cam, h, TRUE)
    OBVIOUS
  <2>5. e = requestAutoFocus(cam, h, TRUE) \/ e = requestAutoFocus(cam, h, FALSE)
    BY <2>2
  <2>3. /\ e \in Camera /\ e.open = cam.open /\ e.previewing = cam.previewing
        /\ e.drawing = cam.drawing /\ e.oneShot = cam.oneShot /\ e.frameTo = cam.frameTo
        /\ e.focusTo \in {cam.focusTo, h}
    <3> HIDE <2>2
    <3> QED
      BY <1>2, <1>6, <2>5, FocusFields
  <2>4. cam' = e
    BY <1>8, <2>2
  <2>6. /\ cam'.open = cam.open /\ cam'.previewing = cam.previewing /\ cam'.frameTo = cam.frameTo
        /\ cam'.focusTo = cam.focusTo \/ Owned(cam'.focusTo)
    <3> HIDE <2>2
    <3> QED
      BY <2>1, <2>3, <2>4
  <2>7. joining = 0 /\ mHandler[page'] # 0 => cam'.open /\ cam'.previewing
    BY <1>3, <2>6 DEF Base, Ready
  <2>8. Base'
    BY <1>1, <1>3, <1>4, <2>6, <2>7, BaseSame
  <2> QED
    BY <1>8, <2>8
<1> QED
  BY <1>5, <1>7, <1>8 DEF Refocus

(* The message of a failed or a successful decode.                           *)
LEMMA ResultMessage ==
  ASSUME TInv, Base, DecodeFailed \/ DecodeSucceeded
  PROVE  /\ joining = 0 /\ queue # <<>> /\ queue' = Tail(queue) /\ UNCHANGED <<mHandler, page, joining>>
         /\ Addressee \in Ids /\ Addressee # 0 /\ Owned(Addressee) /\ Working(Addressee)
         /\ Born(Addressee) /\ Head(queue).what \in Results
         /\ Rewritten(Addressee, IF DecodeFailed THEN "PREVIEW" ELSE "SUCCESS",
                      handler[Addressee].thread, handler[Addressee].inbox, handler[Addressee].to)
<1>1. /\ joining = 0 /\ queue # <<>> /\ queue' = Tail(queue) /\ UNCHANGED <<mHandler, page, joining>>
      /\ Head(queue).what \in Results /\ crashed = "no"
  BY DEF DecodeFailed, DecodeSucceeded, Due, Main, page_vars, Results
<1>2. /\ Addressee \in Ids /\ Addressee # 0 /\ Owned(Addressee) /\ Working(Addressee)
      /\ Born(Addressee)
  BY <1>1, HeadResult
<1>3. CASE DecodeFailed
  <2>1. handler' = [handler EXCEPT ![Addressee].state = "PREVIEW"]
    BY <1>3 DEF DecodeFailed
  <2>2. Rewritten(Addressee, "PREVIEW", handler[Addressee].thread, handler[Addressee].inbox, handler[Addressee].to)
    BY <1>2, <2>1, StateStep
  <2> QED
    BY <1>1, <1>2, <1>3, <2>2
<1>4. CASE DecodeSucceeded
  <2>1. handler' = [handler EXCEPT ![Addressee].state = "SUCCESS"]
    BY <1>4 DEF DecodeSucceeded
  <2>2. Rewritten(Addressee, "SUCCESS", handler[Addressee].thread, handler[Addressee].inbox, handler[Addressee].to)
    BY <1>2, <2>1, StateStep
  <2>3. ~DecodeFailed
    BY <1>4 DEF DecodeFailed, DecodeSucceeded, Due
  <2> QED
    BY <1>1, <1>2, <2>2, <2>3
<1> QED
  BY <1>3, <1>4

LEMMA BaseResultMessage ==
  ASSUME TInv, Base, DecodeFailed \/ DecodeSucceeded
  PROVE  Base'
<1>1. PICK h : h = Addressee
  OBVIOUS
<1>2. PICK state : state = IF DecodeFailed THEN "PREVIEW" ELSE "SUCCESS"
  OBVIOUS
<1>3. /\ joining = 0 /\ queue # <<>> /\ queue' = Tail(queue) /\ UNCHANGED <<mHandler, page, joining>>
      /\ h \in Ids /\ h # 0 /\ Owned(h) /\ Working(h)
      /\ Rewritten(h, state, handler[h].thread, handler[h].inbox, handler[h].to)
  BY <1>1, <1>2, ResultMessage
<1>4. state \in {"PREVIEW", "SUCCESS"}
  BY <1>2
<1>5. Working(h)'
  BY <1>3, <1>4 DEF Working, Rewritten
<1>6. cam \in Camera
  BY TInvScalars
<1>7. cam'.open = cam.open /\ cam'.previewing = cam.previewing
      /\ cam'.frameTo \in {cam.frameTo, h} /\ cam'.focusTo = cam.focusTo
  <2>1. CASE cam' = requestPreviewFrame(cam, h)
    BY <1>3, <1>6, <2>1, FrameFields
  <2>2. CASE cam' = cam
    BY <2>2
  <2> QED
    BY <1>1, <2>1, <2>2 DEF DecodeFailed, DecodeSucceeded
<1>8. \A k \in Ids \ {h} : Occurs(queue', ResultsOf(k)) = 0 \/ Occurs(queue, ResultsOf(k)) # 0
  BY <1>3, TailOccurs
<1>9. handler[h].thread = "sending" => handler[h].to = h
  BY <1>3 DEF Base, Status
<1> QED
  BY <1>3, <1>5, <1>7, <1>8, <1>9, OneChanges

LEMMA BaseInit == Init => TInv /\ Base
<1> SUFFICES ASSUME Init PROVE TInv /\ Base
  OBVIOUS
<1>1. TInv
  BY TInvInit
<1>2. \A p \in 1 .. Pages : mHandler[p] = 0
  BY DEF Init
<1>3. /\ queue = <<>> /\ joining = 0 /\ cam.frameTo = 0 /\ cam.focusTo = 0
      /\ \A h \in Ids : handler[h] = Unborn
      /\ page \in 1 .. Pages
  BY ScanAssumption DEF Init
<1>4. ASSUME NEW h \in Ids PROVE Status(h)
  <2>1. h # 0
    BY IdsType
  <2>2. ~Owned(h)
    BY <1>2, <2>1 DEF Owned
  <2>3. Occurs(queue, ResultsOf(h)) = 0
    BY <1>3, OccursNil
  <2>4. Quiet(h)
    BY <1>3, <2>1, <2>3, Unmade DEF Quiet
  <2>5. handler[h].thread # "sending"
    BY <1>3, Unmade
  <2> QED
    BY <2>2, <2>4, <2>5 DEF Status
<1>5. Owners /\ Ending /\ Ready
  BY <1>2, <1>3 DEF Owners, Ending, Ready
<1> QED
  BY <1>1, <1>4, <1>5 DEF Base

LEMMA BaseStutter ==
  ASSUME TInv, Base, UNCHANGED vars
  PROVE  Base'
<1>1. UNCHANGED <<handler, mHandler, joining, page, queue, cam>>
  BY DEF vars, page_vars
<1>2. page' \in Nat /\ page <= page'
  BY <1>1, TInvScalars, ScanAssumption
<1>3. joining = 0 /\ mHandler[page'] # 0 => cam'.open /\ cam'.previewing
  BY <1>1 DEF Base, Ready
<1> QED
  BY <1>1, <1>2, <1>3, BaseSame

LEMMA BaseNext ==
  ASSUME TInv, Base, "focus" \notin Faults, [Next]_vars
  PROVE  TInv' /\ Base'
<1>1. SUFFICES Base'
  BY TInvNext
<1>2. CASE PageStep
  <2>1. CASE Resume
    <3>1. joining = 0 /\ UNCHANGED <<queue, page, joining>>
      BY <2>1 DEF Resume, Main
    <3>2. CASE initCamera
      BY <3>1, <3>2, BaseInitCamera
    <3>3. CASE UNCHANGED <<cam, handler, mHandler>>
      <4>1. page' \in Nat /\ page <= page'
        BY <3>1, TInvScalars, ScanAssumption
      <4>2. joining = 0 /\ mHandler[page'] # 0 => cam'.open /\ cam'.previewing
        BY <3>1, <3>3 DEF Base, Ready
      <4> QED
        BY <3>1, <3>3, <4>1, <4>2, BaseSame
    <3> QED
      BY <2>1, <3>2, <3>3 DEF Resume
  <2>2. CASE surfaceCreated
    <3>1. joining = 0 /\ UNCHANGED <<queue, page, joining>> /\ initCamera
      BY <2>2 DEF surfaceCreated, Main
    <3> QED
      BY <3>1, BaseInitCamera
  <2> QED
    BY <1>2, <2>1, <2>2, BasePause, BaseOtherPage DEF PageStep
<1>3. CASE MessageStep
  BY <1>3, BaseFrameMessage, BaseFocusMessage, BaseRefocus, BaseResultMessage DEF MessageStep
<1>4. ASSUME NEW h \in Ids, ThreadStep(h)
      PROVE  Base'
  BY <1>4, BaseTake, BaseDecode, BaseSend DEF ThreadStep
<1> QED
  BY <1>2, <1>3, <1>4, BaseJoined, BaseCamera, BaseStutter DEF Next

(* The frames handler h has out, as a sum.                                   *)
Aimed(c, h) == Cardinality({x \in {c} : x.frameTo = h})
AtWork(u) == Cardinality({t \in {u} : t \in {"decoding", "sending"}})

LEMMA FrameCount ==
  ASSUME NEW c, NEW u, NEW inbox \in Seq({"decode", "quit"}), NEW q \in Seq(Message), NEW h
  PROVE  /\ Aimed(c, h) = Bit(c.frameTo = h)
         /\ AtWork(u) = Bit(u \in {"decoding", "sending"})
         /\ Occurs(inbox, {"decode"}) \in Nat /\ Occurs(q, ResultsOf(h)) \in Nat
<1>1. Cardinality({x \in {c} : x.frameTo = h}) = Bit(c.frameTo = h)
  <2>1. CASE c.frameTo = h
    <3>1. {x \in {c} : x.frameTo = h} = {c}
      BY <2>1
    <3> QED
      BY <2>1, <3>1, FS_Singleton DEF Bit
  <2>2. CASE c.frameTo # h
    <3>1. {x \in {c} : x.frameTo = h} = {}
      BY <2>2
    <3> QED
      BY <2>2, <3>1, FS_EmptySet DEF Bit
  <2> QED
    BY <2>1, <2>2
<1>3. Cardinality({t \in {u} : t \in {"decoding", "sending"}}) = Bit(u \in {"decoding", "sending"})
  <2>1. CASE u \in {"decoding", "sending"}
    <3>1. {t \in {u} : t \in {"decoding", "sending"}} = {u}
      BY <2>1
    <3> QED
      BY <2>1, <3>1, FS_Singleton DEF Bit
  <2>2. CASE u \notin {"decoding", "sending"}
    <3>1. {t \in {u} : t \in {"decoding", "sending"}} = {}
      BY <2>2
    <3> QED
      BY <2>2, <3>1, FS_EmptySet DEF Bit
  <2> QED
    BY <2>1, <2>2
<1> QED
  BY <1>1, <1>3, OccursType DEF Aimed, AtWork

LEMMA InboxType ==
  ASSUME TInv
  PROVE  /\ \A h \in Ids : handler[h].inbox \in Seq({"decode", "quit"})
         /\ queue \in Seq(Message)
<1>1. \A h \in Ids : handler[h] = Unborn \/ handler[h] \in Made
  BY DEF TInv, Types
<1>2. Letter \subseteq Message
  BY DEF Letter
<1>3. queue \in Seq(Message)
  BY <1>2, SeqMonotonic DEF TInv, References
<1> QED
  BY <1>1, <1>3, Unmade, EmptySeq DEF Made

LEMMA FramesIs ==
  ASSUME TInv, NEW h \in Ids
  PROVE  /\ Frames(h) = Bit(cam.frameTo = h) + Occurs(handler[h].inbox, {"decode"})
                        + Bit(handler[h].thread \in {"decoding", "sending"})
                        + Occurs(queue, ResultsOf(h))
         /\ Occurs(handler[h].inbox, {"decode"}) \in Nat /\ Occurs(queue, ResultsOf(h)) \in Nat
<1>1. Frames(h) = Aimed(cam, h) + Occurs(handler[h].inbox, {"decode"})
                  + AtWork(handler[h].thread) + Occurs(queue, ResultsOf(h))
  BY DEF Frames, Aimed, AtWork
<1> QED
  BY <1>1, InboxType, FrameCount

LEMMA FramesNext ==
  ASSUME TInv', NEW h \in Ids
  PROVE  /\ Frames(h)' = Bit(cam'.frameTo = h) + Occurs(handler'[h].inbox, {"decode"})
                         + Bit(handler'[h].thread \in {"decoding", "sending"})
                         + Occurs(queue', ResultsOf(h))
         /\ Occurs(handler'[h].inbox, {"decode"}) \in Nat /\ Occurs(queue', ResultsOf(h)) \in Nat
<1>1. \A k \in Ids : handler'[k] = Unborn \/ handler'[k] \in Made
  BY DEF TInv, Types, Made, Ids, Unborn
<1>2. Letter' \subseteq Message
  BY DEF Letter, Message, Results
<1>3. queue' \in Seq(Message)
  <2>1. queue' \in Seq(Letter')
    BY DEF TInv, References
  <2> QED
    BY <1>2, <2>1, SeqMonotonic
<1>4. handler'[h].inbox \in Seq({"decode", "quit"})
  BY <1>1, Unmade, EmptySeq DEF Made
<1> QED
  <2>1. Frames(h)' = Aimed(cam', h) + Occurs(handler'[h].inbox, {"decode"})
                     + AtWork(handler'[h].thread) + Occurs(queue', ResultsOf(h))
    BY DEF Frames, Aimed, AtWork, ResultsOf, Results
  <2> QED
    BY <1>3, <1>4, <2>1, FrameCount

LEMMA QuietFrames ==
  ASSUME TInv, NEW h \in Ids, Quiet(h)
  PROVE  Frames(h) = 0
<1>1. /\ Bit(cam.frameTo = h) = 0 /\ Bit(handler[h].thread \in {"decoding", "sending"}) = 0
      /\ Occurs(queue, ResultsOf(h)) = 0
  BY DEF Quiet, Bit
<1>2. Occurs(handler[h].inbox, {"decode"}) = 0
  BY OccursNil DEF Quiet
<1> QED
  BY <1>1, <1>2, FramesIs

(* Once quitSynchronously has returned, the thread is over, none of its      *)
(* results is queued and the camera will not call the handler                *)
(* (CaptureActivityHandler 110-123), as long as autoFocus does not throw.    *)
THEOREM QuitIsFinal == "focus" \notin Faults /\ SafetySpec => []QuitLeavesNothing
<1>1. ASSUME TInv, Base
      PROVE  QuitLeavesNothing
  <2> SUFFICES ASSUME NEW h \in Ids, handler[h].state = "DONE", joining # h
               PROVE  handler[h].thread = "ended" /\ Frames(h) = 0 /\ cam.focusTo # h
    BY DEF QuitLeavesNothing
  <2>1. ~Owned(h)
    BY <1>1 DEF Base, Status, Working
  <2>2. Quiet(h)
    BY <1>1, <2>1 DEF Base, Status
  <2> QED
    BY <1>1, <2>2, QuietFrames DEF Quiet
<1>2. ASSUME "focus" \notin Faults
      PROVE  SafetySpec => []QuitLeavesNothing
  <2>1. (TInv /\ Base) /\ [Next]_vars => (TInv /\ Base)'
    BY <1>2, BaseNext
  <2> QED
    BY <1>1, <2>1, BaseInit, PTL DEF SafetySpec
<1> QED
  BY <1>2
-----------------------------------------------------------------------------
(* One page at a time, while no surface comes early.                         *)
Own == mHandler[page]
Active == joining = 0 /\ Own # 0
Taken == Own # 0 /\ handler[Own].state = "SUCCESS"
Alone == \A p \in 1 .. Pages : mHandler[p] # 0 => p = page
Stage ==
  /\ Active => life = "resumed" /\ hasSurface
  /\ joining # 0 => life = "paused"
  /\ timer = "shut" => life = "destroyed"
Draws == IF Active THEN cam.drawing ELSE ~cam.previewing
Once == opened <= 1 /\ (life = "resumed" /\ ~Taken => opened = 0)
Count(h) ==
  /\ Frames(h) <= 1
  /\ handler[h].state = "PREVIEW" => Frames(h) = 1
  /\ handler[h].state = "SUCCESS" => Frames(h) = 0
HasFrame(q) == \E i \in DOMAIN q : q[i].what = "frame"
Owes == Active /\ cam.frameTo = Own => cam.oneShot \/ HasFrame(queue)

Strict == /\ Alone /\ Stage /\ crashed = "no" /\ Draws /\ Once
          /\ (Own # 0 => Count(Own)) /\ Owes

LEMMA OwnType ==
  ASSUME TInv
  PROVE  Own = 0 \/ (Own \in Ids /\ Own # 0 /\ Born(Own) /\ Owned(Own))
BY OwnOfPage DEF Own

LEMMA OwnedIsOwn ==
  ASSUME Alone, NEW h, h # 0, Owned(h)
  PROVE  h = Own
BY DEF Alone, Owned, Own

LEMMA FrameKept ==
  ASSUME NEW q \in Seq(Message), NEW m \in Message
  PROVE  /\ HasFrame(q) => HasFrame(Append(q, m))
         /\ m.what = "frame" => HasFrame(Append(q, m))
         /\ q # <<>> /\ Head(q).what # "frame" /\ HasFrame(q) => HasFrame(Tail(q))
<1>1. /\ Len(q) \in Nat /\ DOMAIN q = 1 .. Len(q) /\ DOMAIN Append(q, m) = 1 .. Len(q) + 1
      /\ \A i \in 1 .. Len(q) : Append(q, m)[i] = q[i]
      /\ Append(q, m)[Len(q) + 1] = m
  <2>1. Append(q, m) \in Seq(Message) /\ Len(Append(q, m)) = Len(q) + 1
    BY AppendProperties
  <2>2. DOMAIN Append(q, m) = 1 .. Len(q) + 1
    BY <2>1, LenProperties
  <2> QED
    BY <2>2, AppendProperties, LenProperties
<1>2. HasFrame(q) => HasFrame(Append(q, m))
  BY <1>1 DEF HasFrame
<1>3. m.what = "frame" => HasFrame(Append(q, m))
  BY <1>1 DEF HasFrame
<1>4. ASSUME q # <<>>, Head(q).what # "frame", HasFrame(q)
      PROVE  HasFrame(Tail(q))
  <2>1. /\ Tail(q) \in Seq(Message) /\ Len(Tail(q)) = Len(q) - 1 /\ Head(q) = q[1]
        /\ \A i \in 1 .. Len(Tail(q)) : Tail(q)[i] = q[i + 1]
    BY <1>4, HeadTailProperties
  <2>2. DOMAIN Tail(q) = 1 .. Len(q) - 1
    BY <2>1, LenProperties
  <2>3. PICK i \in 1 .. Len(q) : q[i].what = "frame"
    BY <1>1, <1>4 DEF HasFrame
  <2>4. i # 1
    BY <1>4, <2>1, <2>3
  <2>5. i - 1 \in 1 .. Len(q) - 1
    BY <1>1, <2>4
  <2>6. Tail(q)[i - 1] = q[(i - 1) + 1]
    BY <2>1, <2>5
  <2>7. Tail(q)[i - 1] = q[i]
    <3>1. (i - 1) + 1 = i
      BY <1>1
    <3> QED
      BY <2>6, <3>1
  <2> QED
    BY <2>2, <2>3, <2>5, <2>7 DEF HasFrame
<1> QED
  BY <1>2, <1>3, <1>4

LEMMA InboxOccurs ==
  ASSUME NEW s \in Seq({"decode", "quit"})
  PROVE  /\ Occurs(s, {"decode"}) \in Nat
         /\ Occurs(Append(s, "decode"), {"decode"}) = Occurs(s, {"decode"}) + 1
         /\ Occurs(Append(s, "quit"), {"decode"}) = Occurs(s, {"decode"})
         /\ s # <<>> => /\ Occurs(Tail(s), {"decode"}) \in Nat
                        /\ Head(s) = "quit" => Occurs(s, {"decode"}) = Occurs(Tail(s), {"decode"})
                        /\ Head(s) # "quit" => Occurs(s, {"decode"}) = 1 + Occurs(Tail(s), {"decode"})
<1>1. Occurs(s, {"decode"}) \in Nat
  BY OccursType
<1>2. Bit("decode" \in {"decode"}) = 1 /\ Bit("quit" \in {"decode"}) = 0
  BY DEF Bit
<1>3. Occurs(Append(s, "decode"), {"decode"}) = Occurs(s, {"decode"}) + Bit("decode" \in {"decode"})
  BY OccursAppend
<1>4. Occurs(Append(s, "quit"), {"decode"}) = Occurs(s, {"decode"}) + Bit("quit" \in {"decode"})
  BY OccursAppend
<1>5. ASSUME s # <<>>
      PROVE  /\ Occurs(Tail(s), {"decode"}) \in Nat
             /\ Head(s) = "quit" => Occurs(s, {"decode"}) = Occurs(Tail(s), {"decode"})
             /\ Head(s) # "quit" => Occurs(s, {"decode"}) = 1 + Occurs(Tail(s), {"decode"})
  <2>1. Head(s) \in {"decode", "quit"} /\ Tail(s) \in Seq({"decode", "quit"})
    BY <1>5, HeadTailProperties
  <2>2. Occurs(Tail(s), {"decode"}) \in Nat
    BY <2>1, OccursType
  <2>3. Occurs(s, {"decode"}) = Bit(Head(s) \in {"decode"}) + Occurs(Tail(s), {"decode"})
    BY <1>5, OccursTail
  <2>4. /\ Head(s) = "quit" => Bit(Head(s) \in {"decode"}) = 0
        /\ Head(s) # "quit" => Bit(Head(s) \in {"decode"}) = 1
    BY <2>1 DEF Bit
  <2> QED
    BY <2>2, <2>3, <2>4
<1> QED
  BY <1>1, <1>2, <1>3, <1>4, <1>5
-----------------------------------------------------------------------------
(* The steps that move the page.                                             *)
LEMMA StrictIdle ==
  ASSUME Strict, ~Active, joining = 0, UNCHANGED <<mHandler, joining, crashed>>,
         page' = page \/ page' \in 1 .. Pages, cam'.previewing = cam.previewing,
         opened' = opened \/ opened' = 0, life' = "resumed" => opened' = 0,
         timer' = "shut" => life' = "destroyed", page \in 1 .. Pages
  PROVE  Strict'
<1>1. \A p \in 1 .. Pages : mHandler[p] = 0
  BY DEF Strict, Alone, Active, Own
<1>2. Own' = 0 /\ ~Active'
  BY <1>1 DEF Own, Active
<1>3. Alone' /\ Stage' /\ Draws' /\ Owes'
  BY <1>1, <1>2 DEF Strict, Alone, Stage, Draws, Owes
<1>4. Once'
  BY <1>2 DEF Strict, Once
<1> QED
  BY <1>2, <1>3, <1>4 DEF Strict

(* The main thread's work on the page it shows.                              *)
LEMMA StrictWork ==
  ASSUME Strict, UNCHANGED <<life, page, hasSurface, mHandler, joining>>, crashed' = "no",
         cam'.drawing = cam.drawing, cam'.previewing = cam.previewing,
         timer' = "shut" => timer = "shut", NEW a, Own = a, a # 0 => Count(a)', Owes', Once'
  PROVE  Strict'
<1>1. Own' = Own /\ (Active' <=> Active)
  BY DEF Own, Active
<1>2. Alone' /\ Stage'
  BY <1>1 DEF Strict, Alone, Stage
<1>3. Draws'
  BY <1>1 DEF Strict, Draws
<1>4. (Own # 0 => Count(Own))'
  BY <1>1
<1> QED
  BY <1>1, <1>2, <1>3, <1>4 DEF Strict

LEMMA StrictInitCamera ==
  ASSUME TInv, Base, Strict, "focus" \notin Faults, initCamera, joining = 0, ~Active,
         UNCHANGED <<queue, page, joining, crashed>>, TInv',
         life' = "resumed", hasSurface', opened' = 0, timer' # "shut"
  PROVE  Strict'
<1>1. cam \in Camera /\ page \in 1 .. Pages /\ mHandler \in [1 .. Pages -> 0 .. Handlers]
  BY TInvScalars
<1>2. PICK d : d = openDriver(cam)
  OBVIOUS
<1>3. d \in Camera /\ d.open /\ d.frameTo = cam.frameTo /\ d.focusTo = cam.focusTo
      /\ d.previewing = cam.previewing
  BY <1>1, <1>2, OpenFields
<1>4. mHandler[page] = 0 /\ \A p \in 1 .. Pages : mHandler[p] = 0
  BY <1>1 DEF Strict, Alone, Active, Own
<1>5. ~cam.previewing
  BY DEF Strict, Draws
<1>p. \A k \in Ids : k # 0
  BY IdsType
<1>6. CASE UNCHANGED mHandler /\ (cam' = cam \/ cam' = d)
  <2>1. cam'.previewing = cam.previewing
    BY <1>3, <1>6
  <2> QED
    BY <1>1, <1>6, <2>1, StrictIdle
<1>7. ASSUME NEW h \in Ids, handler[h] = Unborn, NewHandler(openDriver(cam), h)
      PROVE  Strict'
  <2>1. ~Owned(h)
    BY <1>4, <1>p DEF Owned
  <2>2. Quiet(h)
    BY <2>1 DEF Base, Status
  <2>3. CASE New(h, "PREVIEW") /\ cam' = Started(d, h, TRUE) /\ mHandler' = [mHandler EXCEPT ![page] = h]
    <3>1. handler'[h] = NewOne(h, "PREVIEW")
      <4>1. "PREVIEW" \in {"PREVIEW", "SUCCESS"}
        OBVIOUS
      <4> QED
        BY <2>3, <4>1, NewMade
    <3>2. cam'.drawing /\ cam'.oneShot /\ cam'.frameTo = h
      <4>1. PICK e : e = Started(d, h, TRUE)
        OBVIOUS
      <4>5. e = Started(d, h, TRUE) \/ e = Started(d, h, FALSE)
        BY <4>1
      <4>2. cam' = e
        BY <2>3, <4>1
      <4>3. d \in Camera /\ d.open
        BY <1>3
      <4>4. /\ e \in Camera /\ e.open /\ e.previewing
            /\ e.drawing = (IF ~d.previewing THEN TRUE ELSE d.drawing)
            /\ e.oneShot /\ e.frameTo = h /\ e.focusTo \in {d.focusTo, h}
        <5> HIDE <4>1
        <5> QED
          BY <4>5, <4>3, StartedFields
      <4>6. ~d.previewing
        BY <1>3, <1>5
      <4> QED
        BY <4>2, <4>4, <4>6
    <3>3. \A p \in 1 .. Pages : mHandler'[p] = IF p = page THEN h ELSE 0
      BY <1>1, <1>4, <2>3
    <3>4. Own' = h /\ Active'
      BY <1>1, <1>p, <3>3 DEF Own, Active
    <3>5. Alone' /\ Stage'
      BY <3>3 DEF Alone, Stage, Strict
    <3>6. Draws' /\ Owes'
      BY <3>2, <3>4 DEF Draws, Owes
    <3>7. Once'
      BY DEF Once
    <3>8. Count(h)'
      <4>1. handler'[h].inbox = <<>> /\ handler'[h].thread = "idle" /\ handler'[h].state = "PREVIEW"
        BY <3>1 DEF NewOne
      <4>2. /\ Bit(cam'.frameTo = h) = 1 /\ Bit(handler'[h].thread \in {"decoding", "sending"}) = 0
        BY <3>2, <4>1 DEF Bit
      <4>3. Occurs(handler'[h].inbox, {"decode"}) = 0
        BY <4>1, OccursNil
      <4>4. Occurs(queue', ResultsOf(h)) = 0
        BY <2>2 DEF Quiet
      <4>5. Frames(h)' = 1
        BY <4>2, <4>3, <4>4, FramesNext
      <4> QED
        BY <4>1, <4>5 DEF Count
    <3>9. (Own # 0 => Count(Own))'
      BY <3>4, <3>8 DEF Count
    <3> QED
      BY <3>5, <3>6, <3>7, <3>9 DEF Strict
  <2>4. CASE cam' = d /\ UNCHANGED mHandler
    BY <1>6, <2>4
  <2> QED
    BY <1>2, <1>7, <2>3, <2>4 DEF NewHandler
<1> QED
  BY <1>2, <1>6, <1>7, InitCameraSteps

LEMMA StrictPause ==
  ASSUME TInv, Base, Strict, Pause, TInv'
  PROVE  Strict'
<1>1. cam \in Camera /\ page \in 1 .. Pages
  BY TInvScalars
<1>2. /\ UNCHANGED <<page, queue, mHandler, hasSurface, opened, timer, crashed>>
      /\ joining = 0 /\ life = "resumed" /\ life' = "paused" /\ Own' = Own
  BY DEF Pause, Main, Own
<1>3. CASE Own # 0 /\ Quit(Own)
  <2>1. PICK h : h = Own
    OBVIOUS
  <2>2. Owned(h) /\ h \in Ids /\ Born(h) /\ h # 0 /\ Quit(h)
    BY <1>3, <2>1, OwnType
  <2>3. Rewritten(h, "DONE", handler[h].thread, Append(handler[h].inbox, "quit"), handler[h].to)
    BY <2>2, QuitStep
  <2>4. joining' = h /\ cam' = stopPreview(cam)
    BY <2>2 DEF Quit
  <2>5. cam.open /\ cam.previewing
    BY <1>2, <1>3 DEF Base, Ready, Own
  <2>6. ~cam'.previewing /\ cam'.frameTo = 0
    BY <1>1, <2>4, <2>5, StopFields
  <2>7. Count(h)'
    <3>1. Frames(h) <= 1
      BY <1>3, <2>1 DEF Strict, Count
    <3>2. handler[h].inbox \in Seq({"decode", "quit"})
      BY <2>2, InboxType
    <3>3. Occurs(handler'[h].inbox, {"decode"}) = Occurs(handler[h].inbox, {"decode"})
      BY <2>3, <3>2, InboxOccurs DEF Rewritten
    <3>4. handler'[h].thread = handler[h].thread /\ handler'[h].state = "DONE" /\ queue' = queue
      BY <1>2, <2>3 DEF Rewritten
    <3>5. Bit(cam'.frameTo = h) = 0 /\ Bit(cam.frameTo = h) \in {0, 1}
          /\ Bit(handler[h].thread \in {"decoding", "sending"}) \in {0, 1}
      BY <2>2, <2>6 DEF Bit
    <3>6. Frames(h)' <= 1
      BY <2>2, <3>1, <3>3, <3>4, <3>5, FramesIs, FramesNext
    <3> QED
      BY <3>4, <3>6 DEF Count
  <2>8. ~Active' /\ Own' = h
    BY <1>2, <2>1, <2>2, <2>4 DEF Active
  <2>9. Alone' /\ Stage'
    BY <1>2, <2>8 DEF Strict, Alone, Stage
  <2>10. Draws' /\ Owes' /\ Once'
    BY <1>2, <2>6, <2>8 DEF Draws, Owes, Once, Strict
  <2>11. (Own # 0 => Count(Own))'
    BY <2>7, <2>8 DEF Count
  <2> QED
    BY <1>2, <2>9, <2>10, <2>11 DEF Strict
<1>4. CASE Own = 0 /\ cam' = closeDriver(cam) /\ UNCHANGED <<handler, joining>>
  <2>1. cam'.previewing = cam.previewing
    BY <1>1, <1>4, CloseFields
  <2>2. ~Active /\ timer # "shut"
    BY <1>2, <1>4 DEF Active, Strict, Stage
  <2> QED
    BY <1>1, <1>2, <1>4, <2>1, <2>2, StrictIdle
<1> QED
  BY <1>3, <1>4 DEF Pause, Own

LEMMA StrictJoined ==
  ASSUME TInv, Base, Strict, Joined
  PROVE  Strict'
<1>1. cam \in Camera /\ page \in 1 .. Pages /\ mHandler \in [1 .. Pages -> 0 .. Handlers]
  BY TInvScalars
<1>2. /\ joining # 0 /\ mHandler' = [mHandler EXCEPT ![page] = 0]
      /\ cam' = closeDriver(cam) /\ joining' = 0
      /\ UNCHANGED <<page_vars, crashed>>
  BY DEF Joined
<1>3. \A p \in 1 .. Pages : mHandler'[p] = 0
  BY <1>1, <1>2 DEF Strict, Alone
<1>4. Own' = 0 /\ ~Active'
  BY <1>1, <1>2, <1>3 DEF Own, Active, page_vars
<1>5. ~cam'.previewing
  <2>1. ~cam.previewing
    BY <1>2 DEF Strict, Draws, Active
  <2> QED
    BY <1>1, <1>2, <2>1, CloseFields
<1>6. life = "paused" /\ UNCHANGED <<life, timer, opened, page>>
  BY <1>2 DEF Strict, Stage, page_vars
<1>7. Alone' /\ Stage' /\ Draws' /\ Owes' /\ Once'
  BY <1>2, <1>3, <1>4, <1>5, <1>6 DEF Strict, Alone, Stage, Draws, Owes, Once
<1> QED
  BY <1>2, <1>4, <1>7 DEF Strict

LEMMA StrictPage ==
  ASSUME TInv, Base, Strict, PageStep, "focus" \notin Faults, ~EarlySurface, TInv'
  PROVE  Strict'
<1>1. page \in 1 .. Pages
  BY TInvScalars
<1>2. CASE Resume
  <2>1. /\ joining = 0 /\ life \in {"created", "paused", "stopped"} /\ life' = "resumed" /\ opened' = 0
        /\ UNCHANGED <<page, queue, joining, crashed, timer, hasSurface>>
    BY <1>2 DEF Resume, Main
  <2>2. ~Active /\ timer' # "shut"
    BY <2>1 DEF Strict, Stage
  <2>3. CASE hasSurface /\ initCamera
    BY <2>1, <2>2, <2>3, StrictInitCamera
  <2>4. CASE UNCHANGED <<cam, handler, mHandler>>
    BY <1>1, <2>1, <2>2, <2>4, StrictIdle
  <2> QED
    BY <1>2, <2>3, <2>4 DEF Resume
<1>3. CASE surfaceCreated
  <2>1. /\ joining = 0 /\ life = "resumed" /\ life' = "resumed" /\ opened' = opened /\ ~hasSurface /\ hasSurface'
        /\ initCamera /\ UNCHANGED <<page, queue, joining, crashed, timer>>
    BY <1>3 DEF surfaceCreated, Main
  <2>2. ~Active /\ timer' # "shut"
    BY <2>1 DEF Strict, Stage
  <2>3. opened' = 0
    BY <2>1, <2>2 DEF Strict, Once, Taken, Active
  <2> QED
    BY <2>1, <2>2, <2>3, StrictInitCamera
<1>4. CASE surfaceDestroyed \/ Stop \/ Destroy \/ Launch
  <2>1. joining = 0 /\ life # "resumed" /\ UNCHANGED <<cam, handler, mHandler, joining, crashed>>
    BY <1>4 DEF surfaceDestroyed, Stop, Destroy, Launch, Main
  <2>2. ~Active
    BY <2>1 DEF Strict, Stage
  <2>3. page' = page \/ page' \in 1 .. Pages
    BY <1>1, <1>4, ScanAssumption DEF surfaceDestroyed, Stop, Destroy, Launch
  <2>4. timer' = "shut" => life' = "destroyed"
    BY <1>4 DEF surfaceDestroyed, Stop, Destroy, Launch, Strict, Stage
  <2>5. (opened' = opened \/ opened' = 0) /\ life' # "resumed"
    BY <1>4 DEF surfaceDestroyed, Stop, Destroy, Launch
  <2> QED
    BY <1>1, <2>1, <2>2, <2>3, <2>4, <2>5, StrictIdle
<1>5. CASE Back \/ TimerFires
  <2>1. UNCHANGED <<life, page, hasSurface, mHandler, handler, joining, cam, queue, opened, crashed>>
        /\ timer' \in {timer, "fired"}
    BY <1>5 DEF Back, TimerFires
  <2>2. Own' = Own /\ (Active' <=> Active) /\ (Taken' <=> Taken)
    BY <2>1 DEF Own, Active, Taken
  <2>3. Once' /\ Owes'
    BY <2>1, <2>2 DEF Strict, Once, Owes
  <2>4. \A h : Count(h)' <=> Count(h)
    BY <2>1 DEF Count, Frames, ResultsOf, Results, Occurs
  <2>5. Own # 0 => Count(Own)
    BY DEF Strict
  <2>6. PICK a : a = Own
    OBVIOUS
  <2>7. a # 0 => Count(a)'
    BY <2>4, <2>5, <2>6
  <2>8. crashed' = "no"
    BY <2>1 DEF Strict
  <2> QED
    BY <2>1, <2>3, <2>6, <2>7, <2>8, StrictWork
<1> QED
  BY <1>2, <1>3, <1>4, <1>5, StrictPause DEF PageStep
-----------------------------------------------------------------------------
(* The frame of the page's handler, from thread to thread.                   *)
LEMMA StrictCamera ==
  ASSUME TInv, Base, Strict, CameraStep, TInv'
  PROVE  Strict'
<1>1. cam \in Camera /\ queue \in Seq(Message)
  BY TInvScalars, InboxType
<1>2. UNCHANGED <<page_vars, handler, mHandler, joining, crashed>>
  BY DEF CameraStep, CameraFrame, CameraFocus
<1>3. cam'.frameTo = cam.frameTo /\ cam'.drawing = cam.drawing /\ cam'.previewing = cam.previewing
  BY <1>1 DEF CameraStep, CameraFrame, CameraFocus, Camera
<1>4. PICK m : m \in {[what |-> "frame", to |-> 0], [what |-> "focus", to |-> 0]} /\ queue' = Append(queue, m)
               /\ (m.what = "focus" => cam'.oneShot = cam.oneShot)
  <2>1. CASE CameraFrame
    BY <2>1 DEF CameraFrame
  <2>2. CASE CameraFocus
    <3>1. cam'.oneShot = cam.oneShot
      BY <1>1, <2>2 DEF CameraFocus, Camera
    <3> QED
      BY <2>2, <3>1 DEF CameraFocus
  <2> QED
    BY <2>1, <2>2 DEF CameraStep
<1>5. m \in Message /\ m.what \notin Results
  BY <1>4, ScanAssumption DEF Message, Results
<1>6. Own' = Own /\ (Active' <=> Active) /\ (Taken' <=> Taken)
  BY <1>2 DEF Own, Active, Taken, page_vars
<1>7. Owes'
  <2>1. CASE m.what = "frame"
    <3>1. HasFrame(queue')
      BY <1>1, <1>4, <1>5, <2>1, FrameKept
    <3> QED
      BY <3>1 DEF Owes
  <2>2. CASE m.what = "focus"
    <3>1. HasFrame(queue) => HasFrame(queue')
      BY <1>1, <1>4, <1>5, FrameKept
    <3> QED
      BY <1>3, <1>4, <1>6, <2>2, <3>1 DEF Strict, Owes
  <2> QED
    BY <1>4, <2>1, <2>2
<1>8. Once'
  BY <1>2, <1>6 DEF Strict, Once, page_vars
<1>9. PICK a : a = Own
  OBVIOUS
<1>10. ASSUME a # 0 PROVE Count(a)'
  <2>1. a \in Ids /\ Count(a)
    BY <1>9, <1>10, OwnType DEF Strict
  <2>2. Occurs(queue', ResultsOf(a)) = Occurs(queue, ResultsOf(a)) + Bit(m.what \in Results /\ m.to = a)
    BY <1>4, <1>5, QueueOccurs
  <2>3. Bit(m.what \in Results /\ m.to = a) = 0
    BY <1>5 DEF Bit
  <2>4. Bit(cam'.frameTo = a) = Bit(cam.frameTo = a) /\ Bit(cam.frameTo = a) \in {0, 1}
        /\ Bit(handler[a].thread \in {"decoding", "sending"}) \in {0, 1}
    BY <1>3 DEF Bit
  <2>5. handler' = handler
    BY <1>2
  <2>6. Frames(a)' = Frames(a)
    BY <2>1, <2>2, <2>3, <2>4, <2>5, FramesIs, FramesNext
  <2> QED
    BY <2>1, <2>5, <2>6 DEF Count
<1>11. UNCHANGED <<life, page, hasSurface, timer>> /\ crashed' = "no"
  BY <1>2 DEF page_vars, Strict
<1> QED
  BY <1>2, <1>3, <1>7, <1>8, <1>9, <1>10, <1>11, StrictWork

(* A step of a decode thread moves its frame on.                             *)
LEMMA StrictThread ==
  ASSUME TInv, Base, Strict, NEW h \in Ids, ThreadStep(h), TInv'
  PROVE  Strict'
<1>1. UNCHANGED <<page_vars, mHandler, joining, cam>>
  BY SendsResult DEF ThreadStep, Take, decode
<1>2. Owned(h) /\ h # 0
  <2>1. CASE Take(h)
    <3>1. handler[h].inbox # <<>>
      BY <2>1, TakeStep
    <3> QED
      BY <3>1, IdsType DEF Base, Status, Quiet
  <2>2. CASE decode(h)
    BY <2>2, DecodeStep, BusyOwned
  <2>3. CASE \E result \in Results : sendToTarget(h, result)
    BY <2>3, SendsResult, IdsType
  <2> QED
    BY <2>1, <2>2, <2>3 DEF ThreadStep
<1>3. h = Own /\ Own' = Own
  BY <1>1, <1>2, OwnedIsOwn DEF Strict, Own, page_vars
<1>4. Count(h)
  BY <1>2, <1>3 DEF Strict
<1>5. crashed' = "no" /\ (HasFrame(queue) => HasFrame(queue'))
  <2>1. queue \in Seq(Message)
    BY InboxType
  <2>2. CASE Take(h) \/ decode(h)
    BY <2>2 DEF Take, decode, Strict
  <2>3. ASSUME NEW result \in Results, sendToTarget(h, result)
        PROVE  crashed' = "no" /\ (HasFrame(queue) => HasFrame(queue'))
    <3>1. UNCHANGED crashed /\ queue' = Append(queue, [what |-> result, to |-> h])
          /\ [what |-> result, to |-> h] \in Message
      BY <2>3, SendsResult
    <3> QED
      BY <2>1, <3>1, FrameKept DEF Strict
  <2> QED
    BY <2>2, <2>3 DEF ThreadStep
<1>6. handler'[h].state = handler[h].state /\ Frames(h)' = Frames(h)
  <2>1. PICK s : s = handler[h].inbox
    OBVIOUS
  <2>2. s \in Seq({"decode", "quit"})
    BY <2>1, InboxType
  <2>3. /\ Bit(cam'.frameTo = h) = Bit(cam.frameTo = h) /\ Bit(cam.frameTo = h) \in {0, 1}
    BY <1>1 DEF Bit
  <2>4. CASE Take(h)
    <3>1. handler[h].thread = "idle" /\ s # <<>> /\ queue' = queue
          /\ Rewritten(h, handler[h].state, IF Head(s) = "quit" THEN "ended" ELSE "decoding",
                       Tail(s), handler[h].to)
      BY <2>1, <2>4, TakeStep DEF Take
    <3>2. handler'[h].inbox = Tail(s) /\ handler'[h].state = handler[h].state
          /\ handler'[h].thread = IF Head(s) = "quit" THEN "ended" ELSE "decoding"
      BY <3>1 DEF Rewritten
    <3>3. /\ Bit(handler[h].thread \in {"decoding", "sending"}) = 0
          /\ Head(s) = "quit" => Bit(handler'[h].thread \in {"decoding", "sending"}) = 0
          /\ Head(s) # "quit" => Bit(handler'[h].thread \in {"decoding", "sending"}) = 1
      BY <3>1, <3>2 DEF Bit
    <3>4. /\ Occurs(Tail(s), {"decode"}) \in Nat
          /\ Head(s) = "quit" => Occurs(s, {"decode"}) = Occurs(Tail(s), {"decode"})
          /\ Head(s) # "quit" => Occurs(s, {"decode"}) = 1 + Occurs(Tail(s), {"decode"})
      BY <2>2, <3>1, InboxOccurs
    <3>5. /\ Frames(h) = Bit(cam.frameTo = h) + Occurs(s, {"decode"}) + 0 + Occurs(queue, ResultsOf(h))
          /\ Occurs(queue, ResultsOf(h)) \in Nat
      BY <2>1, <3>3, FramesIs
    <3>6. Frames(h)' = Bit(cam.frameTo = h) + Occurs(Tail(s), {"decode"})
                       + Bit(handler'[h].thread \in {"decoding", "sending"}) + Occurs(queue, ResultsOf(h))
      BY <2>3, <3>1, <3>2, FramesNext
    <3> QED
      BY <2>3, <3>2, <3>3, <3>4, <3>5, <3>6
  <2>5. CASE decode(h)
    <3>1. handler[h].thread = "decoding" /\ handler'[h].thread = "sending" /\ queue' = queue
          /\ handler'[h].inbox = s /\ handler'[h].state = handler[h].state
      BY <2>1, <2>5, DecodeStep DEF decode, Rewritten
    <3>2. Bit(handler[h].thread \in {"decoding", "sending"}) = 1
          /\ Bit(handler'[h].thread \in {"decoding", "sending"}) = 1
      BY <3>1 DEF Bit
    <3> QED
      BY <2>1, <2>3, <3>1, <3>2, FramesIs, FramesNext
  <2>6. ASSUME NEW result \in Results, sendToTarget(h, result)
        PROVE  handler'[h].state = handler[h].state /\ Frames(h)' = Frames(h)
    <3>1. handler[h].thread = "sending" /\ handler'[h].thread = "idle"
          /\ handler'[h].inbox = s /\ handler'[h].state = handler[h].state
          /\ Occurs(queue', ResultsOf(h)) = Occurs(queue, ResultsOf(h)) + 1
      BY <2>1, <2>6, SendsResult DEF Rewritten
    <3>2. Bit(handler[h].thread \in {"decoding", "sending"}) = 1
          /\ Bit(handler'[h].thread \in {"decoding", "sending"}) = 0
      BY <3>1 DEF Bit
    <3>3. /\ Frames(h) = Bit(cam.frameTo = h) + Occurs(s, {"decode"}) + 1 + Occurs(queue, ResultsOf(h))
          /\ Occurs(queue, ResultsOf(h)) \in Nat /\ Occurs(s, {"decode"}) \in Nat
      BY <2>1, <3>2, FramesIs
    <3>4. Frames(h)' = Bit(cam.frameTo = h) + Occurs(s, {"decode"}) + 0 + Occurs(queue', ResultsOf(h))
      BY <2>3, <3>1, <3>2, FramesNext
    <3> QED
      BY <2>3, <3>1, <3>3, <3>4
  <2> QED
    BY <2>4, <2>5, <2>6 DEF ThreadStep
<1>7. Count(h)'
  BY <1>4, <1>6 DEF Count
<1>8. (Active' <=> Active) /\ (Taken' <=> Taken)
  BY <1>1, <1>3, <1>6 DEF Active, Taken
<1>9. Owes' /\ Once'
  BY <1>1, <1>3, <1>5, <1>8 DEF Strict, Owes, Once, page_vars
<1>10. UNCHANGED <<life, page, hasSurface, timer>>
  BY <1>1 DEF page_vars
<1>11. cam'.drawing = cam.drawing /\ cam'.previewing = cam.previewing
  BY <1>1
<1> QED
  BY <1>1, <1>3, <1>5, <1>7, <1>9, <1>10, <1>11, StrictWork

LEMMA StrictFrameMessage ==
  ASSUME TInv, Base, Strict, onPreviewFrame, TInv'
  PROVE  Strict'
<1>1. /\ joining = 0 /\ queue # <<>> /\ queue' = Tail(queue) /\ Head(queue).what = "frame"
      /\ UNCHANGED <<mHandler, page_vars, joining, crashed>>
  BY DEF onPreviewFrame, Due, Main
<1>2. cam \in Camera
  BY TInvScalars
<1>3. Head(queue).what \notin Results
  BY <1>1 DEF Results
<1>4. Own' = Own /\ (Active' <=> Active)
  BY <1>1 DEF Own, Active, page_vars
<1>5. PICK a : a = Own
  OBVIOUS
<1>6. cam'.drawing = cam.drawing /\ cam'.previewing = cam.previewing /\ cam'.frameTo = 0
  BY <1>2 DEF onPreviewFrame, Camera
<1>7. Owes'
  BY <1>4, <1>6 DEF Owes, Active
<1>8. ASSUME a # 0
      PROVE  handler'[a].state = handler[a].state /\ Frames(a)' = Frames(a)
  <2>1. a \in Ids
    BY <1>5, <1>8, OwnType
  <2>2. Occurs(queue', ResultsOf(a)) = Occurs(queue, ResultsOf(a))
    BY <1>1, <1>3, TailOccurs
  <2>3. CASE cam.frameTo = 0 /\ UNCHANGED <<handler, cam>>
    <3>1. Bit(cam'.frameTo = a) = Bit(cam.frameTo = a)
      BY <2>3
    <3> QED
      BY <2>1, <2>2, <2>3, <3>1, FramesIs, FramesNext
  <2>4. CASE /\ cam.frameTo # 0
             /\ handler' = [handler EXCEPT ![cam.frameTo].inbox = Append(@, "decode")]
    <3>1. cam.frameTo \in Ids
      BY <1>2, <2>4, IdsType DEF Camera
    <3>2. Owned(cam.frameTo) /\ Born(cam.frameTo)
      BY <3>1, TargetOwned
    <3>3. cam.frameTo = a
      BY <1>5, <2>4, <3>2, OwnedIsOwn DEF Strict
    <3>4. Rewritten(a, handler[a].state, handler[a].thread, Append(handler[a].inbox, "decode"), handler[a].to)
      BY <2>4, <3>2, <3>3, InboxStep
    <3>5. /\ handler'[a].state = handler[a].state /\ handler'[a].thread = handler[a].thread
          /\ handler'[a].inbox = Append(handler[a].inbox, "decode")
      BY <3>4 DEF Rewritten
    <3>6. Bit(cam'.frameTo = a) = 0 /\ Bit(cam.frameTo = a) = 1
          /\ Bit(handler[a].thread \in {"decoding", "sending"}) \in {0, 1}
      BY <1>6, <1>8, <3>3 DEF Bit
    <3>7. Occurs(handler'[a].inbox, {"decode"}) = Occurs(handler[a].inbox, {"decode"}) + 1
      BY <2>1, <3>5, InboxType, InboxOccurs
    <3>8. /\ Frames(a) = 1 + Occurs(handler[a].inbox, {"decode"})
                         + Bit(handler[a].thread \in {"decoding", "sending"}) + Occurs(queue, ResultsOf(a))
          /\ Occurs(handler[a].inbox, {"decode"}) \in Nat /\ Occurs(queue, ResultsOf(a)) \in Nat
      BY <2>1, <3>6, FramesIs
    <3>9. Frames(a)' = 0 + (Occurs(handler[a].inbox, {"decode"}) + 1)
                       + Bit(handler[a].thread \in {"decoding", "sending"}) + Occurs(queue, ResultsOf(a))
      BY <2>1, <2>2, <3>5, <3>6, <3>7, FramesNext
    <3> QED
      BY <3>5, <3>6, <3>8, <3>9
  <2> QED
    BY <2>3, <2>4 DEF onPreviewFrame
<1>9. a # 0 => Count(a)'
  BY <1>5, <1>8 DEF Strict, Count
<1>10. Taken' <=> Taken
  BY <1>4, <1>5, <1>8 DEF Taken
<1>11. Once' /\ crashed' = "no" /\ UNCHANGED <<life, page, hasSurface, timer>>
  BY <1>1, <1>10 DEF Strict, Once, page_vars
<1> QED
  BY <1>1, <1>5, <1>6, <1>7, <1>9, <1>11, StrictWork

LEMMA StrictFocus ==
  ASSUME TInv, Base, Strict, onAutoFocus \/ Refocus, "focus" \notin Faults, TInv'
  PROVE  Strict'
<1>1. UNCHANGED <<mHandler, page_vars, joining, handler>> /\ crashed' = "no"
  BY BaseRefocus DEF onAutoFocus, Refocus, Strict
<1>2. cam \in Camera /\ queue \in Seq(Message)
  BY TInvScalars, InboxType
<1>3. cam'.drawing = cam.drawing /\ cam'.previewing = cam.previewing /\ cam'.frameTo = cam.frameTo
      /\ cam'.oneShot = cam.oneShot
  <2>1. CASE onAutoFocus
    BY <1>2, <2>1 DEF onAutoFocus, Camera
  <2>2. CASE Refocus /\ cam' = requestAutoFocus(cam, Head(later), TRUE)
    <3>1. Head(later) \in Ids
      BY <2>2, TInvScalars, HeadTailProperties DEF Refocus, Scalars
    <3>2. PICK e : e = requestAutoFocus(cam, Head(later), TRUE)
      OBVIOUS
    <3>3. e = requestAutoFocus(cam, Head(later), TRUE) \/ e = requestAutoFocus(cam, Head(later), FALSE)
      BY <3>2
    <3>4. /\ e \in Camera /\ e.open = cam.open /\ e.previewing = cam.previewing
          /\ e.drawing = cam.drawing /\ e.oneShot = cam.oneShot /\ e.frameTo = cam.frameTo
          /\ e.focusTo \in {cam.focusTo, Head(later)}
      <4> HIDE <3>2
      <4> QED
        BY <1>2, <3>1, <3>3, FocusFields
    <3>5. cam' = e
      BY <2>2, <3>2
    <3> QED
      <4> HIDE <3>2
      <4> QED
        BY <3>4, <3>5
  <2>3. CASE UNCHANGED cam
    BY <2>3
  <2> QED
    BY <2>1, <2>2, <2>3 DEF Refocus
<1>4. Own' = Own /\ (Active' <=> Active) /\ (Taken' <=> Taken)
  BY <1>1 DEF Own, Active, Taken, page_vars
<1>5. /\ HasFrame(queue) => HasFrame(queue')
      /\ \A k \in Ids : Occurs(queue', ResultsOf(k)) = Occurs(queue, ResultsOf(k))
  <2>1. CASE onAutoFocus
    <3>1. queue # <<>> /\ queue' = Tail(queue) /\ Head(queue).what = "focus"
      BY <2>1 DEF onAutoFocus, Due
    <3>2. Head(queue).what \notin Results /\ Head(queue).what # "frame"
      BY <3>1 DEF Results
    <3>3. Head(queue) \in Message
      BY <1>2, <3>1, HeadTailProperties
    <3>4. HasFrame(queue) => HasFrame(queue')
      BY <1>2, <3>1, <3>2, <3>3, FrameKept
    <3> QED
      BY <3>1, <3>2, <3>4, TailOccurs
  <2>2. CASE Refocus
    BY <2>2 DEF Refocus
  <2> QED
    BY <2>1, <2>2
<1>6. Owes' /\ Once'
  BY <1>1, <1>3, <1>4, <1>5 DEF Strict, Owes, Once, page_vars
<1>7. PICK a : a = Own
  OBVIOUS
<1>8. ASSUME a # 0 PROVE Count(a)'
  <2>1. a \in Ids /\ Count(a) /\ handler' = handler
    BY <1>1, <1>7, <1>8, OwnType DEF Strict
  <2>2. Bit(cam'.frameTo = a) = Bit(cam.frameTo = a)
    BY <1>3
  <2>3. Frames(a)' = Frames(a)
    BY <1>5, <2>1, <2>2, FramesIs, FramesNext
  <2> QED
    BY <2>1, <2>3 DEF Count
<1>9. UNCHANGED <<life, page, hasSurface, timer>>
  BY <1>1 DEF page_vars
<1> QED
  BY <1>1, <1>3, <1>6, <1>7, <1>8, <1>9, StrictWork

LEMMA StrictResult ==
  ASSUME TInv, Base, Strict, DecodeFailed \/ DecodeSucceeded, TInv'
  PROVE  Strict'
<1>1. PICK h : h = Addressee
  OBVIOUS
<1>2. /\ joining = 0 /\ queue # <<>> /\ queue' = Tail(queue) /\ UNCHANGED <<mHandler, page, joining>>
      /\ h \in Ids /\ h # 0 /\ Owned(h) /\ Working(h) /\ Head(queue).what \in Results
      /\ Rewritten(h, IF DecodeFailed THEN "PREVIEW" ELSE "SUCCESS",
                   handler[h].thread, handler[h].inbox, handler[h].to)
  BY <1>1, ResultMessage
<1>3. h = Own /\ Own' = Own /\ Active
  BY <1>2, OwnedIsOwn DEF Strict, Own, Active
<1>4. Occurs(queue, ResultsOf(h)) = 1 + Occurs(queue', ResultsOf(h))
  BY <1>1, <1>2, HeadResult
<1>5. cam \in Camera /\ queue \in Seq(Message)
  BY TInvScalars, InboxType
<1>6. PICK n : n = Occurs(handler[h].inbox, {"decode"})
  OBVIOUS
<1>7. PICK r : r = Occurs(queue', ResultsOf(h))
  OBVIOUS
<1>8. PICK f : f = Bit(cam.frameTo = h)
  OBVIOUS
<1>9. PICK t : t = Bit(handler[h].thread \in {"decoding", "sending"})
  OBVIOUS
<1>10. n \in Nat /\ r \in Nat /\ f \in {0, 1} /\ t \in {0, 1}
       /\ Frames(h) = f + n + t + (1 + r)
  <2>1. n \in Nat /\ Frames(h) = f + n + t + Occurs(queue, ResultsOf(h))
    BY <1>2, <1>6, <1>8, <1>9, FramesIs
  <2>2. r \in Nat
    BY <1>2, <1>7, FramesNext
  <2>3. f \in {0, 1} /\ t \in {0, 1}
    BY <1>8, <1>9 DEF Bit
  <2> QED
    BY <1>4, <1>7, <2>1, <2>2, <2>3
<1>11. Frames(h) <= 1 /\ (handler[h].state = "SUCCESS" => Frames(h) = 0)
  BY <1>2, <1>3 DEF Strict, Count
<1>12. n = 0 /\ r = 0 /\ f = 0 /\ t = 0 /\ handler[h].state = "PREVIEW"
  <2>1. n = 0 /\ r = 0 /\ f = 0 /\ t = 0 /\ Frames(h) = 1
    BY <1>10, <1>11
  <2>2. handler[h].state \in {"PREVIEW", "SUCCESS"}
    BY <1>2 DEF Working
  <2> QED
    BY <1>11, <2>1, <2>2
<1>13. /\ handler'[h].state = (IF DecodeFailed THEN "PREVIEW" ELSE "SUCCESS")
       /\ handler'[h].thread = handler[h].thread /\ handler'[h].inbox = handler[h].inbox
  BY <1>2 DEF Rewritten
<1>14. Frames(h)' = Bit(cam'.frameTo = h)
  <2>1. Frames(h)' = Bit(cam'.frameTo = h) + n + t + r
    BY <1>2, <1>6, <1>7, <1>9, <1>13, FramesNext
  <2>2. Bit(cam'.frameTo = h) \in {0, 1}
    BY DEF Bit
  <2> QED
    BY <1>12, <2>1, <2>2
<1>15. life = "resumed" /\ timer # "shut" /\ ~Taken /\ opened = 0 /\ cam.open /\ cam.previewing
  <2>1. life = "resumed" /\ timer # "shut"
    BY <1>3 DEF Strict, Stage
  <2>2. ~Taken
    BY <1>3, <1>12 DEF Taken
  <2>3. cam.open /\ cam.previewing
    BY <1>3 DEF Base, Ready, Active, Own
  <2> QED
    BY <2>1, <2>2, <2>3 DEF Strict, Once
<1>16. CASE DecodeFailed
  <2>1. cam' = requestPreviewFrame(cam, h) /\ UNCHANGED <<page_vars, crashed>>
    BY <1>1, <1>16 DEF DecodeFailed
  <2>2. cam'.drawing = cam.drawing /\ cam'.previewing = cam.previewing
        /\ cam'.frameTo = h /\ cam'.oneShot
    <3>1. PICK e : e = requestPreviewFrame(cam, h)
      OBVIOUS
    <3>2. e.drawing = cam.drawing /\ e.previewing = cam.previewing /\ e.frameTo = h /\ e.oneShot
      <4>1. cam.open /\ cam.previewing
        BY <1>15
      <4>2. cam \in Camera /\ e = [cam EXCEPT !.frameTo = h, !.oneShot = TRUE]
        BY <1>5, <3>1, <4>1 DEF requestPreviewFrame
      <4> QED
        BY <4>2 DEF Camera
    <3>3. cam' = e
      BY <2>1, <3>1
    <3> QED
      BY <3>2, <3>3
  <2>3. Count(h)'
    <3>1. Bit(cam'.frameTo = h) = 1 /\ handler'[h].state = "PREVIEW"
      BY <1>13, <1>16, <2>2 DEF Bit
    <3> QED
      BY <1>14, <3>1 DEF Count
  <2>4. Owes'
    BY <2>2 DEF Owes
  <2>5. Once' /\ crashed' = "no" /\ UNCHANGED <<life, page, hasSurface, timer>>
    BY <1>15, <2>1 DEF Once, Strict, page_vars
  <2> QED
    BY <1>2, <1>3, <2>2, <2>3, <2>4, <2>5, StrictWork
<1>17. CASE DecodeSucceeded
  <2>0. ~DecodeFailed
    BY <1>17 DEF DecodeSucceeded, DecodeFailed, Due
  <2>1. handler[h].page = page
    BY <1>2, <1>3, TInvScalars DEF Base, Owners, Own
  <2>2. crashed' = crashed /\ timer' = "armed" /\ opened' \in {opened, opened + 1}
        /\ UNCHANGED <<life, hasSurface, cam>>
    BY <1>1, <1>15, <1>17, <2>1 DEF DecodeSucceeded
  <2>3. Count(h)'
    <3>1. Bit(cam'.frameTo = h) = 0 /\ handler'[h].state = "SUCCESS"
      BY <1>8, <1>12, <1>13, <2>0, <2>2
    <3> QED
      BY <1>14, <3>1 DEF Count
  <2>4. Once'
    <3>1. Taken'
      BY <1>2, <1>3, <1>13, <2>0 DEF Taken
    <3>2. opened' <= 1
      BY <1>15, <2>2
    <3> QED
      BY <3>1, <3>2 DEF Once
  <2>5. Owes'
    <3>1. cam.frameTo # h
      BY <1>8, <1>12 DEF Bit
    <3> QED
      BY <1>3, <2>2, <3>1 DEF Owes
  <2>6. crashed' = "no" /\ cam'.drawing = cam.drawing /\ cam'.previewing = cam.previewing
    BY <2>2 DEF Strict
  <2> QED
    BY <1>2, <1>3, <2>2, <2>3, <2>4, <2>5, <2>6, StrictWork
<1> QED
  BY <1>16, <1>17
-----------------------------------------------------------------------------
(* Init and Next.                                                            *)
LEMMA StrictInit == Init => Strict
<1> SUFFICES ASSUME Init PROVE Strict
  OBVIOUS
<1>1. /\ \A p \in 1 .. Pages : mHandler[p] = 0
      /\ page \in 1 .. Pages /\ joining = 0 /\ crashed = "no" /\ life = "created"
      /\ opened = 0 /\ timer = "armed" /\ ~cam.previewing
  BY ScanAssumption DEF Init
<1>2. Own = 0 /\ ~Active
  BY <1>1 DEF Own, Active
<1> QED
  BY <1>1, <1>2 DEF Strict, Alone, Stage, Draws, Once, Owes

LEMMA StrictNext ==
  ASSUME TInv, Base, Strict, "focus" \notin Faults, ~EarlySurface, [Next]_vars
  PROVE  Strict'
<1>1. TInv'
  BY TInvNext
<1>2. CASE MessageStep
  BY <1>1, <1>2, StrictFrameMessage, StrictFocus, StrictResult DEF MessageStep
<1>3. CASE UNCHANGED vars
  <2>1. UNCHANGED <<life, page, hasSurface, mHandler, handler, joining, cam, queue, opened, crashed, timer>>
    BY <1>3 DEF vars, page_vars
  <2>2. Own' = Own /\ (Active' <=> Active) /\ (Taken' <=> Taken)
    BY <2>1 DEF Own, Active, Taken
  <2>3. Once' /\ Owes'
    BY <2>1, <2>2 DEF Strict, Once, Owes
  <2>4. \A h : Count(h)' <=> Count(h)
    BY <2>1 DEF Count, Frames, ResultsOf, Results, Occurs
  <2>5. PICK a : a = Own
    OBVIOUS
  <2>6. a # 0 => Count(a)'
    BY <2>4, <2>5 DEF Strict
  <2>7. crashed' = "no"
    BY <2>1 DEF Strict
  <2> QED
    BY <2>1, <2>3, <2>5, <2>6, <2>7, StrictWork
<1> QED
  BY <1>1, <1>2, <1>3, StrictPage, StrictJoined, StrictCamera, StrictThread DEF Next

LEMMA StrictAlways ==
  ASSUME "focus" \notin Faults, ~EarlySurface
  PROVE  SafetySpec => [](TInv /\ Base /\ Strict)
<1>1. Init => TInv /\ Base /\ Strict
  BY BaseInit, StrictInit
<1>2. (TInv /\ Base /\ Strict) /\ [Next]_vars => (TInv /\ Base /\ Strict)'
  <2> SUFFICES ASSUME TInv, Base, Strict, [Next]_vars PROVE (TInv /\ Base /\ Strict)'
    OBVIOUS
  <2>1. TInv' /\ Base'
    BY BaseNext
  <2>2. Strict'
    BY StrictNext
  <2> QED
    BY <2>1, <2>2
<1> QED
  BY <1>1, <1>2, PTL DEF SafetySpec

(* A handler that holds a page is counted by Count, the others by Quiet.     *)
LEMMA CountAll ==
  ASSUME TInv, Base, Strict, NEW h \in Ids
  PROVE  \/ h = Own /\ Own # 0 /\ Count(h)
         \/ Quiet(h) /\ Frames(h) = 0
<1>1. h # 0
  BY IdsType
<1>2. CASE Owned(h)
  BY <1>1, <1>2, OwnedIsOwn DEF Strict
<1>3. CASE ~Owned(h)
  BY <1>3, QuietFrames DEF Base, Status
<1> QED
  BY <1>2, <1>3

(* A handler has at most one frame out, and none once a result was taken     *)
(* (CameraManager 187-203, CaptureActivityHandler 81-94).                    *)
THEOREM OneFrame ==
  "focus" \notin Faults /\ ~EarlySurface /\ SafetySpec => []OneFrameAtATime
<1>1. ASSUME TInv, Base, Strict
      PROVE  OneFrameAtATime
  <2>1. opened <= 1
    BY <1>1 DEF Strict, Once
  <2>2. ASSUME NEW h \in Ids
        PROVE  Frames(h) <= IF handler[h].state = "SUCCESS" THEN 0 ELSE 1
    BY <1>1, CountAll DEF Count
  <2> QED
    BY <2>1, <2>2 DEF OneFrameAtATime
<1>2. ASSUME "focus" \notin Faults, ~EarlySurface
      PROVE  SafetySpec => []OneFrameAtATime
  <2>1. SafetySpec => [](TInv /\ Base /\ Strict)
    BY <1>2, StrictAlways
  <2> QED
    BY <1>1, <2>1, PTL
<1> QED
  BY <1>2

(* The handler of the page in front that searches has its one frame on the   *)
(* way, and when the camera has it the camera draws (CaptureActivityHandler  *)
(* 59-61, 89-93).                                                            *)
THEOREM SearchGoesOn ==
  "focus" \notin Faults /\ ~EarlySurface /\ SafetySpec => []SearchNeverStalls
<1>1. ASSUME TInv, Base, Strict
      PROVE  SearchNeverStalls
  <2> SUFFICES ASSUME NEW h \in Ids, joining = 0, mHandler[page] = h, handler[h].state = "PREVIEW"
               PROVE  /\ Frames(h) = 1
                      /\ cam.frameTo = h => \/ cam.drawing /\ cam.oneShot
                                            \/ \E i \in DOMAIN queue : queue[i].what = "frame"
    BY DEF SearchNeverStalls
  <2>1. Active /\ h = Own
    BY IdsType DEF Active, Own
  <2>2. Frames(h) = 1
    BY <1>1, <2>1 DEF Strict, Count, Active
  <2>3. cam.drawing /\ (cam.frameTo = h => cam.oneShot \/ HasFrame(queue))
    BY <1>1, <2>1 DEF Strict, Draws, Owes
  <2> QED
    BY <2>2, <2>3 DEF HasFrame
<1>2. ASSUME "focus" \notin Faults, ~EarlySurface
      PROVE  SafetySpec => []SearchNeverStalls
  <2>1. SafetySpec => [](TInv /\ Base /\ Strict)
    BY <1>2, StrictAlways
  <2> QED
    BY <1>1, <2>1, PTL
<1> QED
  BY <1>2

(* No exception ends the process: the decode thread finds the handler it     *)
(* reports to, and no result comes after the timer was shut down             *)
(* (DecodeHandler 102-112, InactivityTimer 44-61).                             *)
THEOREM NothingThrown ==
  "focus" \notin Faults /\ ~EarlySurface /\ SafetySpec => []NeverThrows
<1>1. Strict => NeverThrows
  BY DEF Strict, NeverThrows
<1>2. ASSUME "focus" \notin Faults, ~EarlySurface
      PROVE  SafetySpec => []NeverThrows
  <2>1. SafetySpec => [](TInv /\ Base /\ Strict)
    BY <1>2, StrictAlways
  <2> QED
    BY <1>1, <2>1, PTL
<1> QED
  BY <1>2
=============================================================================
