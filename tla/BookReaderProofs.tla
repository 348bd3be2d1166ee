--------------------------- MODULE BookReaderProofs ---------------------------
(***************************************************************************)
(* Theorems about the reader for any books, numbers of activities and      *)
(* deaths of the process: its types, which files are cut off, that a file  *)
(* shows its own page, that no page count runs beside rendering, and       *)
(* that nothing crashes, for any pool of two pages or more.                *)
(***************************************************************************)
EXTENDS BookReader, SequenceTheorems, TLAPS

(* The types of everything but the files, for n activities.                  *)
Activity == [book : Book, state : {"live", "finished", "destroyed"},
             mIndex : Nat, dialog : BOOLEAN, cur : Int]
Request(n) == [key : Book, page : Nat, by : 1 .. n, kind : {"book", "page"}]
RecycleTask == [kind |-> "recycle"]
Service(n) ==
  [keys : SUBSET Book, queue : Seq(Request(n) \cup {RecycleTask}), recycled : BOOLEAN,
   pages : SUBSET Nat, cleared : SUBSET Nat, evict : Seq(Nat),
   stage : {"idle", "opened", "rendered", "saving", "saved"},
   task : Request(n) \cup {<<>>}, closed : BOOLEAN]
Sound(s) == s.cleared \subseteq s.pages /\ (s.stage # "idle" => s.task # <<>>)
Note(n) == {"render", "show", "page"} \X (1 .. n)

Pages ==
  /\ act \in Seq(Activity) /\ Len(act) <= MaxActs
  /\ static \in 0 .. Len(act) /\ delayed \subseteq 1 .. Len(act)
  /\ uiQueue \in Seq(Note(Len(act)))
  /\ storage \in {"sound", "failing", "refused"} /\ kills \in Nat /\ crash \in {"none", "null", "closed"}
  /\ late \in BOOLEAN /\ torn \in BOOLEAN
Services ==
  /\ serv \in Seq(Service(Len(act))) /\ Len(serv) = Len(act)
  /\ \A s \in 1 .. Len(serv) : Sound(serv[s])
Files ==
  /\ file = [b \in Book |-> file[b]]
  /\ \A b \in Book : file[b] \in [Page(b) -> {NoFile, CutOff} \cup (Book \X Page(b))]
Types == Pages /\ Services /\ Files

(* While no activity was destroyed too early or too late, at most one thing  *)
(* is on its way in the whole process: a message, a request, or a task; and  *)
(* it belongs to the only live activity, which waits behind its dialog.      *)
Rests(s) == serv[s].stage = "idle" /\ serv[s].queue = <<>>
Quiet(s) == serv[s].stage = "idle" /\ serv[s].queue \in {<<>>, <<RecycleTask>>}
Own(t) == t.by = static /\ t.key = act[static].book
Delayed == delayed = {static} /\ uiQueue = <<>> /\ Rests(static)
Noted ==
  /\ delayed = {} /\ Rests(static)
  /\ \E w \in {"render", "show", "page"} : uiQueue = << <<w, static>> >>
Asked ==
  /\ delayed = {} /\ uiQueue = <<>> /\ serv[static].stage = "idle"
  /\ \E t \in Request(Len(act)) : Own(t) /\ serv[static].queue = <<t>>
Decoding ==
  /\ delayed = {} /\ uiQueue = <<>> /\ serv[static].queue = <<>>
  /\ serv[static].stage # "idle" /\ Own(serv[static].task)
AtRest == delayed = {} /\ uiQueue = <<>> /\ Rests(static)

Only == \A i \in 1 .. Len(act) : act[i].state = "live" => i = static
Others == \A s \in 1 .. Len(serv) : s # static => Quiet(s)
OneAtATime ==
  \/ AtRest
  \/ act[static].state = "live" /\ act[static].dialog /\ (Delayed \/ Noted \/ Asked \/ Decoding)
Calm == ~late /\ ~torn
Held ==
  /\ Only /\ Others
  /\ static = 0 => delayed = {} /\ uiQueue = <<>>
  /\ static # 0 => ~serv[static].recycled /\ OneAtATime
Token == Calm => Held

IInv == Types /\ PartialIsBeingWritten /\ Token /\ FilesTrueUnlessEarlyOrLate
-----------------------------------------------------------------------------
(* Sequences and services.                                                   *)
LEMMA WithoutType ==
  ASSUME NEW S, NEW q \in Seq(S), NEW I, I \subseteq DOMAIN q
  PROVE  Without(q, I) \in Seq(S)
<1>1. CASE I = {}
  BY <1>1 DEF Without
<1>2. CASE I # {}
  <2> DEFINE a == CHOOSE a \in I : TRUE
  <2>1. a \in 1 .. Len(q) /\ \A i \in 1 .. Len(q) : q[i] \in S
    BY <1>2, ElementOfSeq, LenProperties
  <2>2. Len(q) \in Nat
    BY LenProperties
  <2> HIDE DEF a
  <2>3. /\ a - 1 \in Int /\ a + 1 \in Int /\ Len(q) \in Int /\ 1 \in Int
        /\ \A i \in 1 .. a - 1 : q[i] \in S
        /\ \A i \in a + 1 .. Len(q) : q[i] \in S
    BY <2>1, <2>2
  <2>4. SubSeq(q, 1, a - 1) \in Seq(S) /\ SubSeq(q, a + 1, Len(q)) \in Seq(S)
    BY <2>3, SubSeqProperties, Zenon
  <2>5. RemoveAt(q, a) \in Seq(S)
    BY <2>4, ConcatProperties DEF RemoveAt
  <2>6. Without(q, I) = RemoveAt(q, a)
    BY <1>2 DEF Without, a
  <2> QED
    BY <2>5, <2>6
<1> QED
  BY <1>1, <1>2

LEMMA WiderService ==
  ASSUME NEW n \in Nat, NEW m \in Nat, n <= m
  PROVE  /\ Request(n) \subseteq Request(m)
         /\ \A s \in Service(n) : s \in Service(m)
         /\ \A s \in Seq(Service(n)) : s \in Seq(Service(m))
         /\ \A q \in Seq(Note(n)) : q \in Seq(Note(m))
<1>1. Request(n) \subseteq Request(m)
  BY DEF Request
<1>2. ASSUME NEW q \in Seq(Request(n) \cup {RecycleTask})
      PROVE  q \in Seq(Request(m) \cup {RecycleTask})
  BY <1>1, ElementOfSeq, SeqDef
<1>3. ASSUME NEW s \in Service(n) PROVE s \in Service(m)
  <2>1. s.queue \in Seq(Request(m) \cup {RecycleTask})
    BY <1>2 DEF Service
  <2>2. s.task \in Request(m) \cup {<<>>}
    BY <1>1 DEF Service
  <2> QED
    BY <2>1, <2>2 DEF Service
<1>4. ASSUME NEW s \in Seq(Service(n)) PROVE s \in Seq(Service(m))
  BY <1>3, SeqDef
<1>5. ASSUME NEW q \in Seq(Note(n)) PROVE q \in Seq(Note(m))
  <2>1. Note(n) \subseteq Note(m)
    BY DEF Note
  <2> QED
    BY <2>1, SeqDef
<1> QED
  BY <1>1, <1>3, <1>4, <1>5

LEMMA RequestedType ==
  ASSUME NEW n \in Nat, NEW s \in Service(n), Sound(s),
         NEW key \in Book, NEW p \in Nat, NEW i \in 1 .. n, NEW kind \in {"book", "page"}
  PROVE  /\ Requested(s, key, p, i, kind) \in Service(n)
         /\ Sound(Requested(s, key, p, i, kind))
         /\ Requested(s, key, p, i, kind).stage = s.stage
         /\ Requested(s, key, p, i, kind).task = s.task
<1> DEFINE t == [key |-> key, page |-> p, by |-> i, kind |-> kind]
           I == {a \in DOMAIN s.queue : s.queue[a].key = key}
           q == Append(Without(s.queue, I), t)
<1>1. t \in Request(n)
  BY DEF Request
<1>2. s.queue \in Seq(Request(n) \cup {RecycleTask})
  BY DEF Service
<1>3. Without(s.queue, I) \in Seq(Request(n) \cup {RecycleTask})
  BY <1>2, WithoutType
<1>4. q \in Seq(Request(n) \cup {RecycleTask})
  BY <1>1, <1>3, AppendProperties
<1>5. CASE s.recycled
  BY <1>5 DEF Requested
<1>6. CASE ~s.recycled
  <2>1. Requested(s, key, p, i, kind) = [s EXCEPT !.keys = s.keys \cup {key}, !.queue = q]
    BY <1>6 DEF Requested
  <2> HIDE DEF q
  <2>2. s.keys \cup {key} \in SUBSET Book
    BY DEF Service
  <2> DEFINE r == [s EXCEPT !.keys = s.keys \cup {key}, !.queue = q]
  <2>3. r \in Service(n)
    BY <1>4, <2>2 DEF Service
  <2>4. r.stage = s.stage /\ r.task = s.task /\ r.cleared = s.cleared /\ r.pages = s.pages
    BY DEF Service
  <2> QED
    BY <2>1, <2>3, <2>4 DEF Sound
<1> QED
  BY <1>5, <1>6

LEMMA RecycledType ==
  ASSUME NEW n \in Nat, NEW s \in Service(n), Sound(s)
  PROVE  /\ Recycled(s) \in Service(n) /\ Sound(Recycled(s))
         /\ Recycled(s).stage = s.stage /\ Recycled(s).task = s.task
         /\ Recycled(s).queue = <<RecycleTask>>
<1>1. <<RecycleTask>> \in Seq(Request(n) \cup {RecycleTask})
  OBVIOUS
<1> QED
  BY <1>1 DEF Recycled, Service, Sound, RecycleTask

LEMMA GotType ==
  ASSUME NEW n \in Nat, NEW s \in Service(n), Sound(s), NEW p \in Nat
  PROVE  /\ Got(s, p) \in Service(n) /\ Sound(Got(s, p))
         /\ Got(s, p).stage = s.stage /\ Got(s, p).task = s.task
         /\ Got(s, p).queue = s.queue /\ Got(s, p).recycled = s.recycled
         /\ Got(s, p).keys = s.keys
<1> DEFINE I == {a \in DOMAIN s.evict : s.evict[a] = p}
           q == Append(Without(s.evict, I), p)
           gone == IF Len(q) > PoolSize THEN {Head(q)} ELSE {}
           e == IF Len(q) > PoolSize THEN Tail(q) ELSE q
<1>1. s.evict \in Seq(Nat)
  BY DEF Service
<1>2. q \in Seq(Nat) /\ q # <<>>
  <2>1. I \subseteq DOMAIN s.evict
    OBVIOUS
  <2>2. Without(s.evict, I) \in Seq(Nat)
    BY <1>1, <2>1, WithoutType
  <2> QED
    BY <2>2, AppendProperties
<1>3. e \in Seq(Nat)
  BY <1>2, HeadTailProperties
<1>4. CASE p \in s.pages \ s.cleared
  BY <1>4 DEF Got
<1>5. CASE p \notin s.pages \ s.cleared
  <2>1. Got(s, p) = [s EXCEPT !.evict = e, !.pages = (s.pages \cup {p}) \ gone,
                              !.cleared = s.cleared \ ({p} \cup gone)]
    BY <1>5 DEF Got
  <2> HIDE DEF e, gone
  <2>2. (s.pages \cup {p}) \ gone \in SUBSET Nat /\ s.cleared \ ({p} \cup gone) \in SUBSET Nat
    BY DEF Service
  <2>3. s.cleared \ ({p} \cup gone) \subseteq (s.pages \cup {p}) \ gone
    BY DEF Sound
  <2> DEFINE r == [s EXCEPT !.evict = e, !.pages = (s.pages \cup {p}) \ gone,
                            !.cleared = s.cleared \ ({p} \cup gone)]
  <2>4. r \in Service(n)
    BY <1>3, <2>2 DEF Service
  <2>5. /\ r.stage = s.stage /\ r.task = s.task /\ r.queue = s.queue
        /\ r.recycled = s.recycled /\ r.keys = s.keys
        /\ r.pages = (s.pages \cup {p}) \ gone /\ r.cleared = s.cleared \ ({p} \cup gone)
    BY DEF Service
  <2> QED
    BY <2>1, <2>3, <2>4, <2>5 DEF Sound
<1> QED
  BY <1>4, <1>5

(* One service, or one activity, is changed.                                 *)
LEMMA SetService ==
  ASSUME NEW n \in Nat, NEW q \in Seq(Service(n)), \A a \in 1 .. Len(q) : Sound(q[a]),
         NEW s \in 1 .. Len(q), NEW r \in Service(n), Sound(r)
  PROVE  /\ [q EXCEPT ![s] = r] \in Seq(Service(n)) /\ Len([q EXCEPT ![s] = r]) = Len(q)
         /\ \A a \in 1 .. Len(q) : Sound([q EXCEPT ![s] = r][a])
         /\ [q EXCEPT ![s] = r][s] = r
         /\ \A a \in 1 .. Len(q) : a # s => [q EXCEPT ![s] = r][a] = q[a]
<1>1. /\ [q EXCEPT ![s] = r] \in Seq(Service(n)) /\ Len([q EXCEPT ![s] = r]) = Len(q)
      /\ \A a \in 1 .. Len(q) : [q EXCEPT ![s] = r][a] = IF a = s THEN r ELSE q[a]
  BY ExceptSeq
<1> QED
  BY <1>1

LEMMA SetActivity ==
  ASSUME NEW q \in Seq(Activity), NEW i \in 1 .. Len(q), NEW r \in Activity
  PROVE  /\ [q EXCEPT ![i] = r] \in Seq(Activity) /\ Len([q EXCEPT ![i] = r]) = Len(q)
         /\ [q EXCEPT ![i] = r][i] = r
         /\ \A a \in 1 .. Len(q) : a # i => [q EXCEPT ![i] = r][a] = q[a]
<1>1. /\ [q EXCEPT ![i] = r] \in Seq(Activity) /\ Len([q EXCEPT ![i] = r]) = Len(q)
      /\ \A a \in 1 .. Len(q) : [q EXCEPT ![i] = r][a] = IF a = i THEN r ELSE q[a]
  BY ExceptSeq
<1> QED
  BY <1>1

LEMMA ServiceTypes ==
  ASSUME Types, NEW s \in 1 .. Len(serv)
  PROVE  /\ Len(act) \in Nat /\ Len(serv) = Len(act) /\ s \in 1 .. Len(act)
         /\ DOMAIN serv = 1 .. Len(serv) /\ DOMAIN act = 1 .. Len(act)
         /\ serv[s] \in Service(Len(act)) /\ Sound(serv[s]) /\ act[s] \in Activity
<1>1. serv \in Seq(Service(Len(act))) /\ act \in Seq(Activity)
  BY DEF Types, Services, Pages
<1>2. serv[s] \in Service(Len(act))
  BY <1>1, ElementOfSeq
<1>3. Len(act) \in Nat /\ Len(serv) = Len(act) /\ Sound(serv[s])
  BY <1>1, LenProperties DEF Types, Services
<1>4. act[s] \in Activity
  BY <1>1, <1>3, ElementOfSeq
<1> QED
  BY <1>1, <1>2, <1>3, <1>4, LenProperties

(* The executor takes its next task.                                         *)
LEMMA TakenType ==
  ASSUME Types, NEW s \in 1 .. Len(serv), Waiting(s)
  PROVE  /\ Taken(s) \in Service(Len(act)) /\ Sound(Taken(s))
         /\ Taken(s).stage = "idle" /\ Taken(s).queue = Tail(serv[s].queue)
         /\ Taken(s).recycled = serv[s].recycled /\ Taken(s).keys = serv[s].keys
         /\ Head(serv[s].queue) \in Request(Len(act)) \cup {RecycleTask}
<1>1. serv[s] \in Service(Len(act)) /\ Sound(serv[s])
  BY ServiceTypes
<1>2. serv[s].queue \in Seq(Request(Len(act)) \cup {RecycleTask}) /\ serv[s].queue # <<>>
  BY <1>1 DEF Service, Waiting
<1>3. /\ Tail(serv[s].queue) \in Seq(Request(Len(act)) \cup {RecycleTask})
      /\ Head(serv[s].queue) \in Request(Len(act)) \cup {RecycleTask}
  BY <1>2, HeadTailProperties
<1>4. Taken(s) = [serv[s] EXCEPT !.queue = Tail(serv[s].queue)]
  BY DEF Taken
<1>5. Taken(s) \in Service(Len(act))
  BY <1>1, <1>3, <1>4 DEF Service
<1>6. /\ Taken(s).stage = serv[s].stage /\ Taken(s).queue = Tail(serv[s].queue)
      /\ Taken(s).recycled = serv[s].recycled /\ Taken(s).keys = serv[s].keys
      /\ Taken(s).pages = serv[s].pages /\ Taken(s).cleared = serv[s].cleared
  BY <1>1, <1>4 DEF Service
<1> QED
  BY <1>1, <1>3, <1>5, <1>6 DEF Sound, Waiting

LEMMA RestType ==
  ASSUME Types, NEW s \in 1 .. Len(serv)
  PROVE  /\ Rest(s) \in Service(Len(act)) /\ Sound(Rest(s))
         /\ Rest(s).stage = "idle" /\ Rest(s).queue = serv[s].queue
         /\ Rest(s).recycled = serv[s].recycled
         /\ Rest(s).evict = serv[s].evict /\ ~Rest(s).closed
<1>1. serv[s] \in Service(Len(act)) /\ Sound(serv[s])
  BY ServiceTypes
<1>2. Rest(s) \in Service(Len(act))
  BY <1>1 DEF Service, Rest
<1> QED
  BY <1>1, <1>2 DEF Service, Sound, Rest

LEMMA OpenedShape ==
  ASSUME NEW s, OpenPages(s), NEW t, Head(serv[s].queue) = t
  PROVE  LET one == Got(Taken(s), t.page)
             last == t.page + 1 >= Count(s)
             two == IF last THEN one ELSE Got(one, t.page + 1)
         IN  \/ serv' = [serv EXCEPT ![s] = Taken(s)]
             \/ serv' = [serv EXCEPT ![s] = one]
             \/ serv' = [serv EXCEPT ![s] =
                  [two EXCEPT !.stage = "opened", !.task = t, !.closed = t.page \notin two.pages]]
BY DEF OpenPages

(* What OpenPages makes of a service: the task is dropped or begun.          *)
LEMMA Opened ==
  ASSUME Types, NEW s \in 1 .. Len(serv), OpenPages(s)
  PROVE  \E r \in Service(Len(act)) :
           /\ serv' = [serv EXCEPT ![s] = r] /\ Sound(r)
           /\ r.queue = Tail(serv[s].queue) /\ r.recycled = serv[s].recycled
           /\ \/ r.stage = "idle"
              \/ r.stage = "opened" /\ r.task = Head(serv[s].queue)
<1> DEFINE n == Len(act)
           t == Head(serv[s].queue)
           one == Got(Taken(s), t.page)
           last == t.page + 1 >= Count(s)
           two == IF last THEN one ELSE Got(one, t.page + 1)
           fails == ~last /\ ~Opens(s, t.page + 1)
           r == IF fails THEN one
                ELSE [two EXCEPT !.stage = "opened", !.task = t,
                                 !.closed = t.page \notin two.pages]
<1>1. Waiting(s) /\ t.kind # "recycle"
  BY DEF OpenPages
<1>2. /\ Taken(s) \in Service(n) /\ Sound(Taken(s)) /\ Taken(s).stage = "idle"
      /\ Taken(s).queue = Tail(serv[s].queue) /\ Taken(s).recycled = serv[s].recycled
      /\ t \in Request(n) \cup {RecycleTask} /\ n \in Nat
  BY <1>1, TakenType, ServiceTypes
<1>3. t \in Request(n) /\ t.page \in Nat /\ t.page + 1 \in Nat
  BY <1>1, <1>2 DEF Request, RecycleTask
<1> HIDE DEF t, n
<1>4. /\ one \in Service(n) /\ Sound(one) /\ one.stage = "idle"
      /\ one.queue = Tail(serv[s].queue) /\ one.recycled = serv[s].recycled
  BY <1>2, <1>3, GotType
<1> HIDE DEF one
<1>5. /\ two \in Service(n) /\ Sound(two) /\ two.stage = "idle"
      /\ two.queue = Tail(serv[s].queue) /\ two.recycled = serv[s].recycled
  BY <1>2, <1>3, <1>4, GotType
<1>6. serv' = [serv EXCEPT ![s] = Taken(s)] \/ serv' = [serv EXCEPT ![s] = r]
  BY DEF OpenPages, t, one
<1> HIDE DEF two
<1>7. CASE serv' = [serv EXCEPT ![s] = Taken(s)]
  BY <1>2, <1>7 DEF n
<1>8. CASE serv' = [serv EXCEPT ![s] = r] /\ fails
  <2>1. r = one
    BY <1>8
  <2> QED
    BY <1>4, <1>8, <2>1 DEF n
<1>9. CASE serv' = [serv EXCEPT ![s] = r] /\ ~fails
  <2> DEFINE x == [two EXCEPT !.stage = "opened", !.task = t, !.closed = t.page \notin two.pages]
  <2>1. r = x
    BY <1>9
  <2>2. (t.page \notin two.pages) \in BOOLEAN
    OBVIOUS
  <2>3. x \in Service(n)
    BY <1>3, <1>5, <2>2 DEF Service
  <2>4. /\ x.stage = "opened" /\ x.task = t /\ x.queue = two.queue
        /\ x.recycled = two.recycled /\ x.pages = two.pages /\ x.cleared = two.cleared
    BY <1>5 DEF Service
  <2>5. t # <<>>
    BY <1>3 DEF Request
  <2>6. Sound(x)
    BY <1>5, <2>4, <2>5 DEF Sound
  <2> QED
    BY <1>5, <1>9, <2>1, <2>3, <2>4, <2>6 DEF n, t
<1> QED
  BY <1>6, <1>7, <1>8, <1>9
-----------------------------------------------------------------------------
(* The types are kept.                                                       *)
LEMMA ServiceStep ==
  ASSUME Types, NEW s \in 1 .. Len(serv), NEW r \in Service(Len(act)), Sound(r),
         serv' = [serv EXCEPT ![s] = r], Len(act') = Len(act)
  PROVE  Services'
<1>1. Len(act) \in Nat /\ serv \in Seq(Service(Len(act))) /\ Len(serv) = Len(act)
  BY LenProperties DEF Types, Services, Pages
<1>2. \A a \in 1 .. Len(serv) : Sound(serv[a])
  BY DEF Types, Services
<1> QED
  BY <1>1, <1>2, SetService DEF Services

LEMMA FileStep ==
  ASSUME Files, NEW b \in Book, NEW n \in Nat, NEW v,
         n \in Page(b) => v \in {NoFile, CutOff} \cup (Book \X Page(b)),
         file' = [file EXCEPT ![b][n] = v]
  PROVE  /\ Files'
         /\ \A c \in Book : \A m \in Page(c) :
              file'[c][m] = IF c = b /\ m = n THEN v ELSE file[c][m]
<1> DEFINE T(c) == [Page(c) -> {NoFile, CutOff} \cup (Book \X Page(c))]
<1>1. /\ file = [c \in Book |-> file[c]] /\ \A c \in Book : file[c] \in T(c)
  BY DEF Files
<1>2. file' = [c \in Book |-> IF c = b THEN [file[b] EXCEPT ![n] = v] ELSE file[c]]
  BY <1>1
<1>3. [file[b] EXCEPT ![n] = v] \in T(b)
  BY <1>1
<1>4. \A c \in Book : file'[c] \in T(c)
  BY <1>1, <1>2, <1>3
<1>5. file' = [c \in Book |-> file'[c]]
  BY <1>2
<1>6. ASSUME NEW c \in Book, NEW m \in Page(c)
      PROVE  file'[c][m] = IF c = b /\ m = n THEN v ELSE file[c][m]
  BY <1>1, <1>2
<1> QED
  BY <1>4, <1>5, <1>6 DEF Files

(* Nothing but one service is changed, and perhaps the process dies.         *)
LEMMA OnlyService ==
  ASSUME Types, NEW s \in 1 .. Len(serv), NEW r \in Service(Len(act)), Sound(r),
         serv' = [serv EXCEPT ![s] = r],
         UNCHANGED <<file, storage, act, static, uiQueue, delayed, kills, late, torn>>,
         crash' \in {"none", "null", "closed"}
  PROVE  Types'
<1>1. Services'
  BY ServiceStep
<1>2. Pages'
  BY DEF Types, Pages
<1>3. Files'
  BY DEF Types, Files
<1> QED
  BY <1>1, <1>2, <1>3 DEF Types

LEMMA FreeAllTypes ==
  ASSUME Types, NEW s \in 1 .. Len(serv), FreeAll(s) PROVE Types'
<1> DEFINE r == [Taken(s) EXCEPT !.pages = {}, !.cleared = {}, !.evict = <<>>]
<1>1. Taken(s) \in Service(Len(act)) /\ Sound(Taken(s))
  BY TakenType DEF FreeAll
<1>2. <<>> \in Seq(Nat)
  OBVIOUS
<1>3. r \in Service(Len(act))
  BY <1>1, <1>2 DEF Service
<1>4. Sound(r)
  BY <1>1 DEF Service, Sound
<1>5. /\ serv' = [serv EXCEPT ![s] = r] /\ crash' \in {"none", "null", "closed"}
      /\ UNCHANGED <<file, storage, act, static, uiQueue, delayed, kills, late, torn>>
  BY DEF FreeAll, Executor, Types, Pages
<1> QED
  BY <1>3, <1>4, <1>5, OnlyService

LEMMA OpenPagesTypes ==
  ASSUME Types, NEW s \in 1 .. Len(serv), OpenPages(s) PROVE Types'
<1>1. PICK r \in Service(Len(act)) : serv' = [serv EXCEPT ![s] = r] /\ Sound(r)
  BY Opened
<1>2. /\ crash' \in {"none", "null", "closed"}
      /\ UNCHANGED <<file, storage, act, static, uiQueue, delayed, kills, late, torn>>
  BY DEF OpenPages, Executor, Types, Pages
<1> QED
  BY <1>1, <1>2, OnlyService

(* A service goes on to its next stage.                                      *)
Staged(s, stage) == [serv[s] EXCEPT !.stage = stage]
LEMMA StagedType ==
  ASSUME Types, NEW s \in 1 .. Len(serv), serv[s].stage # "idle",
         NEW stage \in {"opened", "rendered", "saving", "saved"}
  PROVE  /\ Staged(s, stage) \in Service(Len(act)) /\ Sound(Staged(s, stage))
         /\ Staged(s, stage).stage = stage /\ Staged(s, stage).task = serv[s].task
         /\ Staged(s, stage).queue = serv[s].queue
         /\ Staged(s, stage).recycled = serv[s].recycled
         /\ Staged(s, stage).keys = serv[s].keys /\ Staged(s, stage).evict = serv[s].evict
         /\ Staged(s, stage).closed = serv[s].closed
<1>1. serv[s] \in Service(Len(act)) /\ Sound(serv[s])
  BY ServiceTypes
<1>2. Staged(s, stage) \in Service(Len(act))
  BY <1>1 DEF Service, Staged
<1> QED
  BY <1>1, <1>2 DEF Service, Sound, Staged

LEMMA Rendered ==
  ASSUME Types, NEW s \in 1 .. Len(serv), Render(s)
  PROVE  /\ serv[s].stage = "opened"
         /\ serv' \in {serv, [serv EXCEPT ![s] = Rest(s)], [serv EXCEPT ![s] = Staged(s, "rendered")]}
         /\ UNCHANGED <<file, storage, act, static, uiQueue, delayed, kills, late, torn>>
         /\ crash' \in {"none", "null", "closed"}
<1>1. [serv EXCEPT ![s].stage = "rendered"] = [serv EXCEPT ![s] = Staged(s, "rendered")]
  BY DEF Staged
<1> QED
  BY <1>1 DEF Render, Executor, Types, Pages

LEMMA RenderTypes ==
  ASSUME Types, NEW s \in 1 .. Len(serv), Render(s) PROVE Types'
<1>1. CASE serv' = serv
  BY <1>1, Rendered DEF Types, Pages, Services, Files
<1>2. CASE serv' = [serv EXCEPT ![s] = Rest(s)]
  BY <1>2, Rendered, RestType, OnlyService
<1>3. CASE serv' = [serv EXCEPT ![s] = Staged(s, "rendered")]
  BY <1>3, Rendered, StagedType, OnlyService
<1> QED
  BY <1>1, <1>2, <1>3, Rendered

LEMMA TaskType ==
  ASSUME Types, NEW s \in 1 .. Len(serv), serv[s].stage # "idle"
  PROVE  /\ serv[s].task \in Request(Len(act)) /\ serv[s].task.key \in Book
         /\ serv[s].task.page \in Nat /\ serv[s].task.by \in 1 .. Len(act)
<1>1. serv[s] \in Service(Len(act)) /\ Sound(serv[s])
  BY ServiceTypes
<1>2. serv[s].task \in Request(Len(act))
  BY <1>1 DEF Service, Sound
<1> QED
  BY <1>2 DEF Request

(* The file of a task under way is begun, or ended.                          *)
LEMMA SaveTypes ==
  ASSUME Types, NEW s \in 1 .. Len(serv), SaveBegins(s) \/ SaveEnds(s) PROVE Types'
<1> DEFINE b == serv[s].task.key
           p == serv[s].task.page
<1>1. /\ UNCHANGED <<act, static, uiQueue, delayed, kills, crash, late, torn>>
      /\ storage' \in {storage, "refused"} /\ serv[s].stage # "idle"
  BY DEF SaveBegins, SaveEnds, Executor
<1>2. b \in Book /\ p \in Nat /\ act[s].book \in Book
  BY <1>1, TaskType, ServiceTypes DEF Activity
<1>3. Pages'
  BY <1>1 DEF Types, Pages
<1>4. serv' \in {[serv EXCEPT ![s] = Rest(s)], [serv EXCEPT ![s] = Staged(s, "saving")],
                 [serv EXCEPT ![s] = Staged(s, "saved")]}
  BY DEF SaveBegins, SaveEnds, Staged
<1>5. Services'
  BY <1>1, <1>4, RestType, StagedType, ServiceStep
<1>6. file' \in {file, [file EXCEPT ![b][p] = CutOff],
                 [file EXCEPT ![b][p] = <<act[s].book, p>>]}
  BY DEF SaveBegins, SaveEnds, Written
<1> HIDE DEF b, p
<1>7. Files'
  <2>1. CASE file' = file
    BY <2>1 DEF Types, Files
  <2>2. CASE file' = [file EXCEPT ![b][p] = CutOff]
    BY <1>2, <2>2, FileStep DEF Types
  <2>3. CASE file' = [file EXCEPT ![b][p] = <<act[s].book, p>>]
    <3>1. p \in Page(b) => <<act[s].book, p>> \in Book \X Page(b)
      BY <1>2
    <3> QED
      BY <1>2, <2>3, <3>1, FileStep DEF Types
  <2> QED
    BY <1>6, <2>1, <2>2, <2>3
<1> QED
  BY <1>3, <1>5, <1>7 DEF Types

Collected(s, n) == [serv[s] EXCEPT !.cleared = @ \cup {n}]
LEMMA CollectedType ==
  ASSUME Types, NEW s \in 1 .. Len(serv), NEW n \in serv[s].pages
  PROVE  /\ Collected(s, n) \in Service(Len(act)) /\ Sound(Collected(s, n))
         /\ Collected(s, n).stage = serv[s].stage /\ Collected(s, n).task = serv[s].task
         /\ Collected(s, n).queue = serv[s].queue
         /\ Collected(s, n).recycled = serv[s].recycled
         /\ Collected(s, n).keys = serv[s].keys /\ Collected(s, n).evict = serv[s].evict
         /\ Collected(s, n).closed = serv[s].closed
<1>1. serv[s] \in Service(Len(act)) /\ Sound(serv[s])
  BY ServiceTypes
<1>2. Collected(s, n) \in Service(Len(act))
  BY <1>1 DEF Service, Collected
<1> QED
  BY <1>1, <1>2 DEF Service, Sound, Collected

LEMMA CollectTypes ==
  ASSUME Types, NEW s \in 1 .. Len(serv), NEW n, Collect(s, n) PROVE Types'
<1>1. n \in serv[s].pages
  BY DEF Collect, Cached
<1>2. /\ serv' = [serv EXCEPT ![s] = Collected(s, n)] /\ crash' \in {"none", "null", "closed"}
      /\ UNCHANGED <<file, storage, act, static, uiQueue, delayed, kills, late, torn>>
  BY DEF Collect, Collected, Executor, Types, Pages
<1> QED
  BY <1>1, <1>2, CollectedType, OnlyService

(* An activity counts on, and nothing else of it changes.                    *)
Counted(i) == [act EXCEPT ![i].mIndex = @ + 1]
LEMMA CountedType ==
  ASSUME Types, NEW i \in 1 .. Len(act)
  PROVE  /\ Counted(i) \in Seq(Activity) /\ Len(Counted(i)) = Len(act)
         /\ \A a \in 1 .. Len(act) :
              /\ Counted(i)[a].state = act[a].state /\ Counted(i)[a].dialog = act[a].dialog
              /\ Counted(i)[a].book = act[a].book /\ Counted(i)[a].cur = act[a].cur
         /\ Counted(i)[i].mIndex = act[i].mIndex + 1
<1> DEFINE r == [act[i] EXCEPT !.mIndex = act[i].mIndex + 1]
<1>1. act \in Seq(Activity) /\ act[i] \in Activity
  BY ElementOfSeq DEF Types, Pages
<1>2. r \in Activity
  <2>1. act[i].mIndex + 1 \in Nat
    BY <1>1 DEF Activity
  <2> QED
    BY <1>1, <2>1 DEF Activity
<1>3. /\ r.state = act[i].state /\ r.dialog = act[i].dialog /\ r.book = act[i].book
      /\ r.cur = act[i].cur /\ r.mIndex = act[i].mIndex + 1
  BY <1>1 DEF Activity
<1>4. Counted(i) = [act EXCEPT ![i] = r]
  BY DEF Counted
<1> HIDE DEF r
<1> QED
  BY <1>1, <1>2, <1>3, <1>4, SetActivity

(* What a message adds to the queue is about one activity.                   *)
LEMMA NoteType ==
  ASSUME NEW n \in Nat, NEW i \in 1 .. n
  PROVE  \A w \in {"render", "show", "page"} : <<w, i>> \in Note(n) /\ << <<w, i>> >> \in Seq(Note(n))
BY DEF Note

LEMMA PostedType ==
  ASSUME NEW n \in Nat, NEW i \in 1 .. n PROVE Posted(i) \in Seq(Note(n))
<1>1. Posted(i) \in {<< <<"render", i>> >>, << <<"show", i>> >>, <<>>}
  BY DEF Posted
<1>2. <<>> \in Seq(Note(n))
  OBVIOUS
<1>3. << <<"render", i>> >> \in Seq(Note(n)) /\ << <<"show", i>> >> \in Seq(Note(n))
  BY NoteType
<1> QED
  BY <1>1, <1>2, <1>3

LEMMA CallsBackTypes ==
  ASSUME Types, NEW s \in 1 .. Len(serv), CallsBack(s) PROVE Types'
<1> DEFINE i == serv[s].task.by
<1>1. /\ serv' = [serv EXCEPT ![s] = Rest(s)] /\ serv[s].stage # "idle"
      /\ UNCHANGED <<file, storage, static, delayed, kills, crash, late, torn>>
  BY DEF CallsBack
<1>2. i \in 1 .. Len(act) /\ Len(act) \in Nat
  BY <1>1, TaskType, ServiceTypes
<1> HIDE DEF i
<1>3. act' \in {act, Counted(i)} /\ uiQueue' \in {uiQueue} \cup
        {Append(uiQueue, <<w, i>>) : w \in {"render", "show", "page"}}
  BY DEF CallsBack, doNext, Counted, i
<1>4. act' \in Seq(Activity) /\ Len(act') = Len(act)
  BY <1>2, <1>3, CountedType DEF Types, Pages
<1>5. uiQueue' \in Seq(Note(Len(act)))
  <2>1. uiQueue \in Seq(Note(Len(act)))
    BY DEF Types, Pages
  <2>2. ASSUME NEW w \in {"render", "show", "page"}
        PROVE  Append(uiQueue, <<w, i>>) \in Seq(Note(Len(act)))
    <3>1. <<w, i>> \in Note(Len(act))
      BY <1>2 DEF Note
    <3> QED
      BY <2>1, <3>1, AppendProperties
  <2> QED
    BY <1>3, <2>1, <2>2
<1>6. Services'
  BY <1>1, <1>4, RestType, ServiceStep
<1>7. Pages'
  BY <1>1, <1>4, <1>5 DEF Types, Pages
<1>8. Files'
  BY <1>1 DEF Types, Files
<1> QED
  BY <1>6, <1>7, <1>8 DEF Types

(* mBookRender asks the service of the static field, or counts on.           *)
Asking(i, n, kind) == Requested(serv[static], act[i].book, n, i, kind)
LEMMA AskingType ==
  ASSUME Types, NEW i \in 1 .. Len(act), static # 0, NEW n \in Nat, NEW kind \in {"book", "page"}
  PROVE  /\ static \in 1 .. Len(serv) /\ Len(act) \in Nat
         /\ Asking(i, n, kind) \in Service(Len(act)) /\ Sound(Asking(i, n, kind))
         /\ Asking(i, n, kind).stage = serv[static].stage
         /\ Asking(i, n, kind).task = serv[static].task
<1>1. static \in 1 .. Len(serv) /\ Len(act) \in Nat
  BY LenProperties DEF Types, Pages, Services
<1>2. serv[static] \in Service(Len(act)) /\ Sound(serv[static])
  BY <1>1, ServiceTypes
<1>3. act[i].book \in Book
  <2>1. act[i] \in Activity
    BY ElementOfSeq DEF Types, Pages
  <2> QED
    BY <2>1 DEF Activity
<1> DEFINE x == Requested(serv[static], act[i].book, n, i, kind)
<1>4. /\ x \in Service(Len(act)) /\ Sound(x)
      /\ x.stage = serv[static].stage /\ x.task = serv[static].task
  <2> DEFINE one == serv[static]
             b == act[i].book
             m == Len(act)
  <2>1. m \in Nat /\ one \in Service(m) /\ Sound(one) /\ b \in Book /\ i \in 1 .. m
    BY <1>1, <1>2, <1>3
  <2>2. x = Requested(one, b, n, i, kind)
    OBVIOUS
  <2> HIDE DEF one, b, m, x
  <2>3. /\ x \in Service(m) /\ Sound(x) /\ x.stage = one.stage /\ x.task = one.task
    BY <2>1, <2>2, RequestedType
  <2> QED
    BY <2>3 DEF one, m
<1>5. Asking(i, n, kind) = x
  BY DEF Asking
<1> HIDE DEF x
<1> QED
  BY <1>1, <1>4, <1>5

LEMMA BookRenders ==
  ASSUME Types, NEW i \in 1 .. Len(act), BookRender(i)
  PROVE  /\ act[i].mIndex \in Nat
         /\ \/ act' \in {act, Counted(i)} /\ serv' = serv
            \/ /\ static # 0 /\ act' = act
               /\ serv' = [serv EXCEPT ![static] = Asking(i, act[i].mIndex, "book")]
         /\ crash' \in {crash, "null"}
<1>1. act[i].mIndex \in Nat
  <2>1. act[i] \in Activity
    BY ElementOfSeq DEF Types, Pages
  <2> QED
    BY <2>1 DEF Activity
<1>2. Counted(i) = [act EXCEPT ![i].mIndex = @ + 1]
  BY DEF Counted
<1>3. [serv EXCEPT ![static] = Requested(@, act[i].book, act[i].mIndex, i, "book")]
        = [serv EXCEPT ![static] = Asking(i, act[i].mIndex, "book")]
  BY DEF Asking
<1> QED
  BY <1>1, <1>2, <1>3 DEF BookRender

LEMMA BookRenderTypes ==
  ASSUME Types, NEW i \in 1 .. Len(act), BookRender(i),
         uiQueue' \in Seq(Note(Len(act))), delayed' \subseteq delayed,
         UNCHANGED <<file, storage, static, kills, late, torn>>
  PROVE  Types'
<1>1. act' \in {act, Counted(i)} /\ crash' \in {crash, "null"} /\ act[i].mIndex \in Nat
  BY BookRenders
<1>2. act' \in Seq(Activity) /\ Len(act') = Len(act)
  BY <1>1, CountedType DEF Types, Pages
<1>3. Pages'
  BY <1>1, <1>2 DEF Types, Pages
<1>4. Services'
  <2>1. CASE serv' = serv
    BY <1>2, <2>1 DEF Types, Services
  <2>2. CASE static # 0 /\ serv' = [serv EXCEPT ![static] = Asking(i, act[i].mIndex, "book")]
    BY <1>1, <1>2, <2>2, AskingType, ServiceStep
  <2> QED
    BY <2>1, <2>2, BookRenders
<1>5. Files'
  BY DEF Types, Files
<1> QED
  BY <1>3, <1>4, <1>5 DEF Types

LEMMA DeliverDelayedTypes ==
  ASSUME Types, NEW i \in delayed, DeliverDelayed(i) PROVE Types'
<1>1. i \in 1 .. Len(act) /\ Len(act) \in Nat
  BY LenProperties DEF Types, Pages
<1>2. uiQueue' \in Seq(Note(Len(act)))
  BY <1>1, PostedType, ConcatProperties DEF DeliverDelayed, Types, Pages
<1> QED
  BY <1>1, <1>2, BookRenderTypes DEF DeliverDelayed

(* An activity shows its pages, or the page it waited for.                   *)
LEMMA ShownType ==
  ASSUME Types, NEW i \in 1 .. Len(act), NEW c \in Int, NEW d \in BOOLEAN,
         NEW st \in {"live", "finished", "destroyed"},
         act' = [act EXCEPT ![i] = [act[i] EXCEPT !.dialog = d, !.cur = c, !.state = st]]
  PROVE  /\ act' \in Seq(Activity) /\ Len(act') = Len(act)
         /\ act'[i].state = st /\ act'[i].dialog = d /\ act'[i].cur = c
         /\ act'[i].book = act[i].book /\ act'[i].mIndex = act[i].mIndex
         /\ \A a \in 1 .. Len(act) : a # i => act'[a] = act[a]
<1> DEFINE r == [act[i] EXCEPT !.dialog = d, !.cur = c, !.state = st]
<1>1. act \in Seq(Activity) /\ act[i] \in Activity
  BY ElementOfSeq DEF Types, Pages
<1>2. /\ r \in Activity /\ r.state = st /\ r.dialog = d /\ r.cur = c
      /\ r.book = act[i].book /\ r.mIndex = act[i].mIndex
  BY <1>1 DEF Activity
<1> HIDE DEF r
<1> QED
  BY <1>1, <1>2, SetActivity DEF r

LEMMA HeadNote ==
  ASSUME Types, uiQueue # <<>>
  PROVE  /\ Head(uiQueue)[1] \in {"render", "show", "page"}
         /\ Head(uiQueue)[2] \in 1 .. Len(act) /\ Len(act) \in Nat
         /\ Tail(uiQueue) \in Seq(Note(Len(act)))
<1>1. Head(uiQueue) \in Note(Len(act)) /\ Tail(uiQueue) \in Seq(Note(Len(act)))
  BY HeadTailProperties DEF Types, Pages
<1> QED
  BY <1>1, LenProperties DEF Note, Types, Pages

LEMMA DeliverTypes ==
  ASSUME Types, Deliver PROVE Types'
<1> DEFINE w == Head(uiQueue)[1]
           i == Head(uiQueue)[2]
<1>1. i \in 1 .. Len(act) /\ Len(act) \in Nat /\ Tail(uiQueue) \in Seq(Note(Len(act)))
  BY HeadNote DEF Deliver
<1>2. UNCHANGED <<file, storage, static, delayed, kills, late, torn>>
  BY DEF Deliver
<1>3. CASE w = "render"
  <2>1. BookRender(i) /\ uiQueue' = Tail(uiQueue) \o Posted(i)
    BY <1>3 DEF Deliver
  <2>2. uiQueue' \in Seq(Note(Len(act)))
    BY <1>1, <2>1, PostedType, ConcatProperties
  <2> QED
    BY <1>1, <1>2, <2>1, <2>2, BookRenderTypes
<1>4. CASE w # "render"
  <2>1. act[i] \in Activity
    BY <1>1, ElementOfSeq DEF Types, Pages
  <2>2. /\ uiQueue' = Tail(uiQueue) /\ UNCHANGED <<serv, crash>>
        /\ \E c \in Int : act' = [act EXCEPT ![i] = [act[i] EXCEPT !.dialog = FALSE, !.cur = c]]
    <3>1. CASE w = "show"
      <4>1. act' = [act EXCEPT ![i].dialog = FALSE, ![i].cur = 0]
        BY <3>1 DEF Deliver
      <4>2. act' = [act EXCEPT ![i] = [act[i] EXCEPT !.dialog = FALSE, !.cur = 0]]
        BY <4>1
      <4>3. uiQueue' = Tail(uiQueue) /\ UNCHANGED <<serv, crash>> /\ 0 \in Int
        BY <3>1 DEF Deliver
      <4> QED
        BY <4>2, <4>3
    <3>2. CASE w = "page"
      <4>1. act[i] = [act[i] EXCEPT !.cur = act[i].cur] /\ act[i].cur \in Int
        BY <2>1 DEF Activity
      <4>2. [act[i] EXCEPT !.dialog = FALSE] = [act[i] EXCEPT !.dialog = FALSE, !.cur = act[i].cur]
        BY <2>1 DEF Activity
      <4>3. /\ uiQueue' = Tail(uiQueue) /\ UNCHANGED <<serv, crash>>
            /\ act' = [act EXCEPT ![i] = [act[i] EXCEPT !.dialog = FALSE]]
        BY <3>2 DEF Deliver
      <4> QED
        BY <4>1, <4>2, <4>3
    <3> QED
      BY <1>4, <3>1, <3>2 DEF Deliver
  <2>3. PICK c \in Int : act' = [act EXCEPT ![i] = [act[i] EXCEPT !.dialog = FALSE, !.cur = c]]
    BY <2>2
  <2>4. [act[i] EXCEPT !.dialog = FALSE, !.cur = c]
          = [act[i] EXCEPT !.dialog = FALSE, !.cur = c, !.state = act[i].state]
    BY <2>1 DEF Activity
  <2>5. act[i].state \in {"live", "finished", "destroyed"}
    BY <2>1 DEF Activity
  <2>6. act' \in Seq(Activity) /\ Len(act') = Len(act)
    BY <1>1, <2>3, <2>4, <2>5, ShownType
  <2>7. Pages'
    BY <1>1, <1>2, <2>2, <2>6 DEF Types, Pages
  <2>8. Services' /\ Files'
    BY <1>2, <2>2, <2>6 DEF Types, Services, Files
  <2> QED
    BY <2>7, <2>8 DEF Types
<1> QED
  BY <1>3, <1>4

LEMMA NewTypes ==
  ASSUME NEW n \in Nat, NEW b \in Book
  PROVE  NewActivity(b) \in Activity /\ NewService \in Service(n) /\ Sound(NewService)
<1>1. <<>> \in Seq(Request(n) \cup {RecycleTask}) /\ <<>> \in Seq(Nat) /\ -1 \in Int
  OBVIOUS
<1> QED
  BY <1>1 DEF NewActivity, Activity, NewService, Service, Sound

(* onCreate appends an activity and its service to given ones.               *)
LEMMA CreatedTypes ==
  ASSUME Types, NEW b \in Book,
         NEW acts \in Seq(Activity), Len(acts) = Len(act),
         NEW servs \in Seq(Service(Len(act))), Len(servs) = Len(act),
         \A a \in 1 .. Len(servs) : Sound(servs[a]),
         Created(b, acts, servs),
         UNCHANGED <<file, storage, uiQueue, kills, crash>>, late' \in BOOLEAN, torn' \in BOOLEAN
  PROVE  /\ Types' /\ Len(act') = Len(act) + 1
         /\ act'[Len(act')] = NewActivity(b) /\ serv'[Len(act')] = NewService
         /\ \A a \in 1 .. Len(act) : act'[a] = acts[a] /\ serv'[a] = servs[a]
         /\ static' = Len(act') /\ delayed' = delayed \cup {Len(act')}
<1> DEFINE n == Len(act)
<1>1. n \in Nat /\ n + 1 \in Nat /\ n < MaxActs
  <2>1. n \in Nat /\ kills \in Nat /\ n + kills < MaxActs
    BY LenProperties DEF Types, Pages, Created
  <2> QED
    BY <2>1, BoundAssumption
<1>2. servs \in Seq(Service(n + 1)) /\ uiQueue \in Seq(Note(n + 1))
  BY <1>1, WiderService DEF Types, Pages
<1>3. NewActivity(b) \in Activity /\ NewService \in Service(n + 1) /\ Sound(NewService)
  BY <1>1, NewTypes
<1>4. act' = Append(acts, NewActivity(b)) /\ serv' = Append(servs, NewService)
  BY DEF Created
<1>5. /\ act' \in Seq(Activity) /\ Len(act') = n + 1
      /\ \A a \in 1 .. n : act'[a] = acts[a]
      /\ act'[n + 1] = NewActivity(b)
  BY <1>3, <1>4, AppendProperties
<1>6. /\ serv' \in Seq(Service(n + 1)) /\ Len(serv') = n + 1
      /\ \A a \in 1 .. n : serv'[a] = servs[a]
      /\ serv'[n + 1] = NewService
  BY <1>2, <1>3, <1>4, AppendProperties
<1>7. static' = n + 1 /\ delayed' = delayed \cup {n + 1}
  BY DEF Created
<1>8. MaxActs \in Nat
  BY BoundAssumption
<1>9. Pages'
  <2>1. delayed \subseteq 1 .. n
    BY DEF Types, Pages
  <2>2. delayed' \subseteq 1 .. n + 1 /\ static' \in 0 .. n + 1 /\ n + 1 <= MaxActs
    <3> HIDE DEF n
    <3>1. n + 1 <= MaxActs
      BY <1>1, <1>8
    <3>2. static' \in 0 .. n + 1
      BY <1>1, <1>7
    <3>3. delayed' \subseteq 1 .. n + 1
      BY <1>1, <1>7, <2>1
    <3> QED
      BY <3>1, <3>2, <3>3
  <2>3. uiQueue' \in Seq(Note(n + 1))
    BY <1>2
  <2>4. /\ storage' \in {"sound", "failing", "refused"} /\ kills' \in Nat /\ crash' \in {"none", "null", "closed"}
        /\ late' \in BOOLEAN /\ torn' \in BOOLEAN
    BY DEF Types, Pages
  <2> HIDE DEF n
  <2> QED
    BY <1>5, <2>2, <2>3, <2>4 DEF Pages
<1>10. Services'
  BY <1>1, <1>3, <1>5, <1>6 DEF Services
<1>11. Files'
  BY DEF Types, Files
<1> QED
  BY <1>5, <1>6, <1>7, <1>9, <1>10, <1>11 DEF Types

LEMMA GoneType ==
  ASSUME Types, NEW i \in 1 .. Len(act)
  PROVE  /\ Gone(i) \in Seq(Activity) /\ Len(Gone(i)) = Len(act)
         /\ Gone(i)[i].state = "destroyed" /\ Gone(i)[i].mIndex = act[i].mIndex
         /\ \A a \in 1 .. Len(act) : a # i => Gone(i)[a] = act[a]
<1> DEFINE r == [act[i] EXCEPT !.state = "destroyed"]
<1>1. act \in Seq(Activity) /\ act[i] \in Activity
  BY ElementOfSeq DEF Types, Pages
<1>2. r \in Activity /\ r.state = "destroyed" /\ r.mIndex = act[i].mIndex
  BY <1>1 DEF Activity
<1>3. Gone(i) = [act EXCEPT ![i] = r]
  BY DEF Gone
<1> HIDE DEF r
<1> QED
  BY <1>1, <1>2, <1>3, SetActivity

(* The services after the one of the static field was recycled.              *)
Freed == IF static # 0 THEN [serv EXCEPT ![static] = Recycled(@)] ELSE serv
LEMMA FreedType ==
  ASSUME Types
  PROVE  /\ Freed \in Seq(Service(Len(act))) /\ Len(Freed) = Len(act)
         /\ \A a \in 1 .. Len(Freed) : Sound(Freed[a])
         /\ \A a \in 1 .. Len(act) :
              /\ Freed[a].stage = serv[a].stage /\ Freed[a].task = serv[a].task
              /\ a # static => Freed[a] = serv[a]
              /\ a = static => Freed[a].queue = <<RecycleTask>>
<1>1. /\ Len(act) \in Nat /\ serv \in Seq(Service(Len(act))) /\ Len(serv) = Len(act)
      /\ \A a \in 1 .. Len(serv) : Sound(serv[a])
  BY LenProperties DEF Types, Pages, Services
<1>2. CASE static = 0
  <2>1. \A a \in 1 .. Len(act) : a # static
    BY <1>2
  <2> QED
    BY <1>1, <1>2, <2>1 DEF Freed
<1>3. CASE static # 0
  <2>1. static \in 1 .. Len(serv)
    BY <1>1, <1>3 DEF Types, Pages
  <2>2. serv[static] \in Service(Len(act)) /\ Sound(serv[static])
    BY <1>1, <2>1, ServiceTypes
  <2> DEFINE r == Recycled(serv[static])
  <2>3. /\ r \in Service(Len(act)) /\ Sound(r) /\ r.stage = serv[static].stage
        /\ r.task = serv[static].task /\ r.queue = <<RecycleTask>>
    BY <1>1, <2>2, RecycledType
  <2>4. Freed = [serv EXCEPT ![static] = r]
    BY <1>3 DEF Freed
  <2> HIDE DEF r
  <2>5. /\ Freed \in Seq(Service(Len(act))) /\ Len(Freed) = Len(serv)
        /\ \A a \in 1 .. Len(serv) : Sound(Freed[a])
        /\ Freed[static] = r
        /\ \A a \in 1 .. Len(serv) : a # static => Freed[a] = serv[a]
    BY <1>1, <2>1, <2>3, <2>4, SetService
  <2> QED
    BY <1>1, <2>3, <2>5
<1> QED
  BY <1>2, <1>3

LEMMA Destroyed ==
  ASSUME Types, NEW i \in 1 .. Len(act), onDestroy(i), torn' \in BOOLEAN,
         UNCHANGED <<file, storage, uiQueue, delayed, kills>>
  PROVE  Types'
<1>1. act' = Gone(i) /\ serv' = Freed /\ static' = 0 /\ crash' \in {crash, "null"}
  BY DEF onDestroy, Freed
<1>2. act' \in Seq(Activity) /\ Len(act') = Len(act) /\ Len(act) \in Nat
  BY <1>1, GoneType, LenProperties DEF Types, Pages
<1>3. late' \in BOOLEAN
  BY DEF onDestroy, Types, Pages
<1>4. Pages'
  BY <1>1, <1>2, <1>3 DEF Types, Pages
<1>5. Services'
  BY <1>1, <1>2, FreedType DEF Services
<1>6. Files'
  BY DEF Types, Files
<1> QED
  BY <1>4, <1>5, <1>6 DEF Types

LEMMA OpenTypes ==
  ASSUME Types, NEW b \in Book, Open(b)
  PROVE  /\ Types' /\ Len(act') = Len(act) + 1
         /\ act'[Len(act')] = NewActivity(b) /\ serv'[Len(act')] = NewService
         /\ \A a \in 1 .. Len(act) : act'[a] = act[a] /\ serv'[a] = serv[a]
         /\ static' = Len(act') /\ delayed' = delayed \cup {Len(act')}
<1>1. /\ act \in Seq(Activity) /\ serv \in Seq(Service(Len(act))) /\ Len(serv) = Len(act)
      /\ \A a \in 1 .. Len(serv) : Sound(serv[a])
  BY DEF Types, Pages, Services
<1>2. late' \in BOOLEAN /\ torn' \in BOOLEAN /\ UNCHANGED <<file, storage, uiQueue, kills, crash>>
  BY DEF Open, Types, Pages
<1>3. Created(b, act, serv)
  BY DEF Open
<1> QED
  BY <1>1, <1>2, <1>3, CreatedTypes

LEMMA RelaunchTypes ==
  ASSUME Types, NEW i \in 1 .. Len(act), Relaunch(i)
  PROVE  /\ Types' /\ Len(act') = Len(act) + 1
         /\ act'[Len(act')] = NewActivity(act[i].book) /\ serv'[Len(act')] = NewService
         /\ \A a \in 1 .. Len(act) : act'[a] = Gone(i)[a] /\ serv'[a] = Freed[a]
         /\ static' = Len(act') /\ delayed' = delayed \cup {Len(act')}
<1>1. act[i].book \in Book
  <2>1. act[i] \in Activity
    BY ElementOfSeq DEF Types, Pages
  <2> QED
    BY <2>1 DEF Activity
<1>2. late' \in BOOLEAN /\ torn' \in BOOLEAN /\ UNCHANGED <<file, storage, uiQueue, kills, crash>>
  BY DEF Relaunch, Types, Pages
<1>3. Created(act[i].book, Gone(i), Freed)
  BY DEF Relaunch, Freed
<1> QED
  BY <1>1, <1>2, <1>3, GoneType, FreedType, CreatedTypes

LEMMA BackShape ==
  ASSUME Types, NEW i \in 1 .. Len(act), Back(i)
  PROVE  /\ Types' /\ Len(act') = Len(act)
         /\ act'[i].state = "finished" /\ act'[i].mIndex = act[i].mIndex
         /\ act'[i].book = act[i].book
         /\ \A a \in 1 .. Len(act) : a # i => act'[a] = act[a]
<1>1. act[i] \in Activity
  BY ElementOfSeq DEF Types, Pages
<1>2. /\ act' = [act EXCEPT ![i] = [act[i] EXCEPT !.state = "finished"]]
      /\ UNCHANGED <<file, storage, static, serv, uiQueue, delayed, kills, crash, late, torn>>
  BY DEF Back
<1>3. [act[i] EXCEPT !.state = "finished"]
        = [act[i] EXCEPT !.dialog = act[i].dialog, !.cur = act[i].cur, !.state = "finished"]
  BY <1>1 DEF Activity
<1>4. act[i].dialog \in BOOLEAN /\ act[i].cur \in Int
  BY <1>1 DEF Activity
<1>5. /\ act' \in Seq(Activity) /\ Len(act') = Len(act)
      /\ act'[i].state = "finished" /\ act'[i].mIndex = act[i].mIndex
      /\ act'[i].book = act[i].book
      /\ \A a \in 1 .. Len(act) : a # i => act'[a] = act[a]
  <2> DEFINE d == act[i].dialog
             c == act[i].cur
  <2>1. act' = [act EXCEPT ![i] = [act[i] EXCEPT !.dialog = d, !.cur = c, !.state = "finished"]]
    BY <1>2, <1>3
  <2>2. d \in BOOLEAN /\ c \in Int
    BY <1>4
  <2> HIDE DEF d, c
  <2> QED
    BY <2>1, <2>2, ShownType
<1>6. Types'
  BY <1>2, <1>5 DEF Types, Pages, Services, Files
<1> QED
  BY <1>5, <1>6

LEMMA SwipeShape ==
  ASSUME Types, NEW i \in 1 .. Len(act), Swipe(i)
  PROVE  /\ Types' /\ Len(act') = Len(act)
         /\ \A a \in 1 .. Len(act) :
              act'[a].state = act[a].state /\ act'[a].book = act[a].book
              /\ act'[a].mIndex = act[a].mIndex
         /\ act[i].state = "live" /\ ~act[i].dialog
         /\ UNCHANGED <<file, storage, static, uiQueue, delayed, kills, crash, late, torn>>
         /\ \E n \in Page(act[i].book) \cap {act[i].cur - 1, act[i].cur + 1} :
              /\ act'[i].cur = n
              /\ act'[i].dialog <=> ~Exists(act[i].book, n) /\ static # 0
              /\ IF act'[i].dialog THEN serv' = [serv EXCEPT ![static] = Asking(i, n, "page")]
                                  ELSE serv' = serv
         /\ \/ serv' = serv
            \/ /\ static # 0 /\ act'[i].dialog
               /\ \E n \in Nat : serv' = [serv EXCEPT ![static] = Asking(i, n, "page")]
<1>1. act[i] \in Activity /\ act[i].book \in Book
  <2>1. act[i] \in Activity
    BY ElementOfSeq DEF Types, Pages
  <2> QED
    BY <2>1 DEF Activity
<1>2. PICK n \in Page(act[i].book) \cap {act[i].cur - 1, act[i].cur + 1} :
        /\ act' = [act EXCEPT ![i].cur = n, ![i].dialog = ~Exists(act[i].book, n) /\ static # 0]
        /\ serv' = IF ~Exists(act[i].book, n) /\ static # 0
                   THEN [serv EXCEPT ![static] = Requested(@, act[i].book, n, i, "page")]
                   ELSE serv
  BY DEF Swipe
<1> DEFINE d == ~Exists(act[i].book, n) /\ static # 0
<1>3. n \in Nat /\ d \in BOOLEAN
  BY <1>1, BookAssumption DEF Page
<1> HIDE DEF d
<1>4. act' = [act EXCEPT ![i] = [act[i] EXCEPT !.dialog = d, !.cur = n, !.state = act[i].state]]
  <2>1. act' = [act EXCEPT ![i].cur = n, ![i].dialog = d]
    BY <1>2 DEF d
  <2>2. [act[i] EXCEPT !.cur = n, !.dialog = d]
          = [act[i] EXCEPT !.dialog = d, !.cur = n, !.state = act[i].state]
    BY <1>1 DEF Activity
  <2>3. act' = [act EXCEPT ![i] = [act[i] EXCEPT !.cur = n, !.dialog = d]]
    BY <2>1
  <2> QED
    BY <2>2, <2>3
<1>5. act[i].state \in {"live", "finished", "destroyed"} /\ n \in Int
  BY <1>1, <1>3 DEF Activity
<1>6. /\ act' \in Seq(Activity) /\ Len(act') = Len(act)
      /\ act'[i].state = act[i].state /\ act'[i].dialog = d /\ act'[i].cur = n
      /\ act'[i].book = act[i].book /\ act'[i].mIndex = act[i].mIndex
      /\ \A a \in 1 .. Len(act) : a # i => act'[a] = act[a]
  BY <1>3, <1>4, <1>5, ShownType
<1>7. UNCHANGED <<file, storage, static, uiQueue, delayed, kills, crash, late, torn>>
  BY DEF Swipe
<1>8. \/ serv' = serv
      \/ /\ static # 0 /\ d
         /\ serv' = [serv EXCEPT ![static] = Asking(i, n, "page")]
  BY <1>2 DEF d, Asking
<1>9. Services'
  <2>1. CASE serv' = serv
    BY <1>6, <2>1 DEF Types, Services
  <2>2. CASE static # 0 /\ serv' = [serv EXCEPT ![static] = Asking(i, n, "page")]
    BY <1>3, <1>6, <2>2, AskingType, ServiceStep
  <2> QED
    BY <1>8, <2>1, <2>2
<1>10. Pages' /\ Files'
  BY <1>6, <1>7 DEF Types, Pages, Files
<1>11. act[i].state = "live" /\ ~act[i].dialog
  BY DEF Swipe
<1>12. \E m \in Page(act[i].book) \cap {act[i].cur - 1, act[i].cur + 1} :
         /\ act'[i].cur = m
         /\ act'[i].dialog <=> ~Exists(act[i].book, m) /\ static # 0
         /\ IF act'[i].dialog THEN serv' = [serv EXCEPT ![static] = Asking(i, m, "page")]
                             ELSE serv' = serv
  <2>1. IF d THEN serv' = [serv EXCEPT ![static] = Asking(i, n, "page")] ELSE serv' = serv
    BY <1>2 DEF d, Asking
  <2> QED
    BY <1>2, <1>6, <2>1 DEF d
<1> QED
  BY <1>3, <1>6, <1>7, <1>8, <1>9, <1>10, <1>11, <1>12 DEF Types

LEMMA KillTypes == ASSUME Types, Kill PROVE Types'
<1>1. /\ act' = <<>> /\ serv' = <<>> /\ static' = 0 /\ uiQueue' = <<>> /\ delayed' = {}
      /\ kills' = kills + 1 /\ UNCHANGED <<file, storage, crash, late, torn>>
  BY DEF Kill
<1>2. <<>> \in Seq(Activity) /\ <<>> \in Seq(Service(0)) /\ <<>> \in Seq(Note(0)) /\ Len(<<>>) = 0
  OBVIOUS
<1>3. 0 <= MaxActs
  BY BoundAssumption
<1>4. Pages' /\ Services'
  BY <1>1, <1>2, <1>3 DEF Types, Pages, Services
<1>5. Files'
  BY <1>1 DEF Types, Files
<1> QED
  BY <1>4, <1>5 DEF Types
-----------------------------------------------------------------------------
(* Cut-off files: only the saving task makes one, and it ends it.            *)
SavingStays ==
  \A s \in 1 .. Len(serv) :
    serv[s].stage = "saving" =>
      /\ s \in 1 .. Len(serv') /\ serv'[s].stage = "saving"
      /\ serv'[s].task = serv[s].task

LEMMA PartialKept ==
  ASSUME Types, Types', PartialIsBeingWritten, SavingStays,
         UNCHANGED <<file, storage, kills>>
  PROVE  PartialIsBeingWritten'
<1>1. DOMAIN serv = 1 .. Len(serv) /\ DOMAIN serv' = 1 .. Len(serv')
  BY LenProperties DEF Types, Services
<1> SUFFICES ASSUME NEW b \in Book, NEW n \in DOMAIN file[b], file[b][n] = CutOff,
                    storage = "sound", ~(kills > 0)
             PROVE  \E s \in DOMAIN serv' :
                      /\ serv'[s].stage = "saving" /\ serv'[s].task.page = n
                      /\ serv'[s].task.key = b
  BY DEF PartialIsBeingWritten
<1>2. PICK s \in DOMAIN serv :
        serv[s].stage = "saving" /\ serv[s].task.page = n /\ serv[s].task.key = b
  BY DEF PartialIsBeingWritten
<1> QED
  BY <1>1, <1>2 DEF SavingStays

(* One service is changed, and it was not saving or goes on as it was.       *)
LEMMA OneServiceSaves ==
  ASSUME Types, NEW s \in 1 .. Len(serv), NEW r \in Service(Len(act)), Sound(r),
         serv' = [serv EXCEPT ![s] = r],
         serv[s].stage = "saving" => r.stage = "saving" /\ r.task = serv[s].task
  PROVE  SavingStays
<1>1. /\ Len(act) \in Nat /\ serv \in Seq(Service(Len(act)))
      /\ \A a \in 1 .. Len(serv) : Sound(serv[a])
  BY LenProperties DEF Types, Pages, Services
<1>2. /\ Len(serv') = Len(serv) /\ serv'[s] = r
      /\ \A a \in 1 .. Len(serv) : a # s => serv'[a] = serv[a]
  BY <1>1, SetService
<1> QED
  BY <1>2 DEF SavingStays

LEMMA SaveBeginsPartial ==
  ASSUME Types, NEW s \in 1 .. Len(serv), SaveBegins(s), PartialIsBeingWritten
  PROVE  PartialIsBeingWritten'
<1> DEFINE b == serv[s].task.key
           p == serv[s].task.page
<1>1. serv[s].stage = "rendered" /\ UNCHANGED kills /\ Types'
  BY SaveTypes DEF SaveBegins
<1>0. CASE storage' = "refused"
  BY <1>0 DEF PartialIsBeingWritten
<1>2. CASE Dead(s)
  <2>1. serv' = [serv EXCEPT ![s] = Rest(s)] /\ file' = file /\ storage' = storage
    BY <1>2 DEF SaveBegins
  <2>2. SavingStays
    BY <1>1, <2>1, RestType, OneServiceSaves
  <2> QED
    BY <1>1, <2>1, <2>2, PartialKept
<1>3. CASE ~Dead(s) /\ storage' # "refused"
  <2>1. serv' = [serv EXCEPT ![s] = Staged(s, "saving")] /\ storage' = storage
    BY <1>3 DEF SaveBegins, Staged
  <2>2. b \in Book /\ p \in Nat
    BY <1>1, TaskType
  <2>3. file' = [file EXCEPT ![b][p] = CutOff]
    BY <1>3 DEF SaveBegins
  <2>4. /\ Staged(s, "saving") \in Service(Len(act)) /\ Sound(Staged(s, "saving"))
        /\ Staged(s, "saving").stage = "saving" /\ Staged(s, "saving").task = serv[s].task
    BY <1>1, StagedType
  <2>5. SavingStays
    BY <1>1, <2>1, <2>4, OneServiceSaves
  <2>6. /\ DOMAIN serv = 1 .. Len(serv) /\ DOMAIN serv' = 1 .. Len(serv)
        /\ Len(serv') = Len(serv) /\ serv'[s] = Staged(s, "saving")
    BY <2>1, LenProperties DEF Types, Services
  <2> SUFFICES ASSUME NEW c \in Book, NEW n \in DOMAIN file'[c], file'[c][n] = CutOff,
                      storage = "sound", ~(kills > 0)
               PROVE  \E a \in DOMAIN serv' :
                        /\ serv'[a].stage = "saving" /\ serv'[a].task.page = n
                        /\ serv'[a].task.key = c
    BY <1>1, <2>1 DEF PartialIsBeingWritten
  <2>7. CASE c = b /\ n = p
    BY <2>4, <2>6, <2>7
  <2>8. CASE ~(c = b /\ n = p)
    <3>1. n \in Page(c) /\ n \in DOMAIN file[c]
      BY <1>1 DEF Types, Files
    <3> HIDE DEF b, p
    <3>2. file[c][n] = CutOff
      BY <2>2, <2>3, <2>8, <3>1, FileStep DEF Types
    <3>3. PICK a \in DOMAIN serv :
            serv[a].stage = "saving" /\ serv[a].task.page = n /\ serv[a].task.key = c
      BY <3>1, <3>2 DEF PartialIsBeingWritten
    <3> QED
      BY <2>5, <2>6, <3>3 DEF SavingStays
  <2> QED
    BY <2>7, <2>8
<1> QED
  BY <1>0, <1>2, <1>3

LEMMA SaveEndsPartial ==
  ASSUME Types, NEW s \in 1 .. Len(serv), SaveEnds(s), PartialIsBeingWritten
  PROVE  PartialIsBeingWritten'
<1> DEFINE b == serv[s].task.key
           p == serv[s].task.page
<1>1. serv[s].stage = "saving" /\ UNCHANGED <<storage, kills>> /\ Types'
  BY SaveTypes DEF SaveEnds, Executor
<1>2. serv' = [serv EXCEPT ![s] = Staged(s, "saved")]
  BY DEF SaveEnds, Staged
<1>3. CASE storage # "sound"
  BY <1>1, <1>3 DEF PartialIsBeingWritten
<1>4. CASE storage = "sound"
  <2>1. file' = [file EXCEPT ![b][p] = <<act[s].book, p>>]
    BY <1>4 DEF SaveEnds, Written
  <2>2. b \in Book /\ p \in Nat /\ act[s].book \in Book
    BY <1>1, TaskType, ServiceTypes DEF Activity
  <2>3. /\ DOMAIN serv = 1 .. Len(serv) /\ DOMAIN serv' = 1 .. Len(serv)
        /\ \A a \in 1 .. Len(serv) : a # s => serv'[a] = serv[a]
    BY <1>2, LenProperties DEF Types, Services
  <2>0. \A d \in Book : \A m \in Page(d) :
          file'[d][m] = IF d = b /\ m = p THEN <<act[s].book, p>> ELSE file[d][m]
    <3> HIDE DEF b, p
    <3> DEFINE v == <<act[s].book, p>>
    <3>1. p \in Page(b) => v \in Book \X Page(b)
      BY <2>2
    <3>2. file' = [file EXCEPT ![b][p] = v]
      BY <2>1
    <3>3. Files /\ b \in Book /\ p \in Nat
      BY <2>2 DEF Types
    <3> HIDE DEF v
    <3>4. p \in Page(b) => v \in {NoFile, CutOff} \cup (Book \X Page(b))
      BY <3>1
    <3>5. ASSUME NEW d \in Book, NEW m \in Page(d)
          PROVE  file'[d][m] = IF d = b /\ m = p THEN v ELSE file[d][m]
      <4>1. CASE d = b /\ m = p
        <5>1. file = [a \in Book |-> file[a]] /\ DOMAIN file[b] = Page(b)
          BY <3>3 DEF Files
        <5>2. b \in DOMAIN file /\ p \in DOMAIN file[b]
          BY <3>3, <4>1, <5>1
        <5>3. file'[b][p] = v
          BY <3>2, <5>2
        <5> QED
          BY <4>1, <5>3
      <4>2. CASE ~(d = b /\ m = p)
        BY <3>2, <3>3, <3>4, <4>2, FileStep
      <4> QED
        BY <4>1, <4>2
    <3> QED
      BY <3>5 DEF v
  <2> SUFFICES ASSUME NEW c \in Book, NEW n \in DOMAIN file'[c], file'[c][n] = CutOff,
                      ~(kills > 0)
               PROVE  \E a \in DOMAIN serv' :
                        /\ serv'[a].stage = "saving" /\ serv'[a].task.page = n
                        /\ serv'[a].task.key = c
    BY <1>1, <1>4 DEF PartialIsBeingWritten
  <2>4. n \in Page(c) /\ n \in DOMAIN file[c]
    BY <1>1 DEF Types, Files
  <2>5. file'[c][n] = IF c = b /\ n = p THEN <<act[s].book, p>> ELSE file[c][n]
    BY <2>4, <2>0
  <2>6. <<act[s].book, p>> # CutOff
    BY DEF CutOff
  <2>7. ~(c = b /\ n = p) /\ file[c][n] = CutOff
    BY <2>5, <2>6
  <2>8. PICK a \in DOMAIN serv :
          serv[a].stage = "saving" /\ serv[a].task.page = n /\ serv[a].task.key = c
    BY <1>4, <2>4, <2>7 DEF PartialIsBeingWritten
  <2>9. a # s
    BY <2>7, <2>8
  <2> QED
    BY <2>3, <2>8, <2>9
<1> QED
  BY <1>3, <1>4

LEMMA KillPartial ==
  ASSUME Types, Kill PROVE PartialIsBeingWritten'
<1>1. kills' > 0
  BY DEF Kill, Types, Pages
<1> QED
  BY <1>1 DEF PartialIsBeingWritten

LEMMA InitIInv == Init => IInv
<1> SUFFICES ASSUME Init PROVE IInv
  OBVIOUS
<1>1. /\ act = <<>> /\ serv = <<>> /\ static = 0 /\ uiQueue = <<>> /\ delayed = {}
      /\ file = [b \in Book |-> [n \in Page(b) |-> NoFile]] /\ storage \in {"sound", "failing", "refused"}
      /\ kills = 0 /\ crash = "none" /\ late = FALSE /\ torn = FALSE
  BY DEF Init
<1>2. <<>> \in Seq(Activity) /\ <<>> \in Seq(Service(0)) /\ <<>> \in Seq(Note(0)) /\ Len(<<>>) = 0
  OBVIOUS
<1>3. 0 <= MaxActs
  BY BoundAssumption
<1>4. Pages
  <2>1. Len(act) = 0 /\ act \in Seq(Activity) /\ uiQueue \in Seq(Note(Len(act)))
    BY <1>1, <1>2
  <2>2. late \in BOOLEAN /\ torn \in BOOLEAN
    BY <1>1
  <2> QED
    BY <1>1, <1>3, <2>1, <2>2 DEF Pages
<1>5. Services /\ Files
  BY <1>1, <1>2 DEF Services, Files
<1>6. \A b \in Book : \A n \in DOMAIN file[b] : file[b][n] = NoFile
  BY <1>1
<1>7. NoFile # CutOff
  BY DEF NoFile, CutOff
<1>8. PartialIsBeingWritten
  BY <1>6, <1>7 DEF PartialIsBeingWritten
<1>9. FilesTrueUnlessEarlyOrLate
  BY <1>6 DEF FilesTrueUnlessEarlyOrLate, FileHoldsItsPage
<1>10. Token
  BY <1>1, <1>2 DEF Token, Held, Only, Others
<1> QED
  BY <1>4, <1>5, <1>8, <1>9, <1>10 DEF IInv, Types

LEMMA StepTypes == Types /\ [Next]_vars => Types'
<1> SUFFICES ASSUME Types, [Next]_vars PROVE Types'
  OBVIOUS
<1>1. DOMAIN serv = 1 .. Len(serv) /\ DOMAIN act = 1 .. Len(act)
  BY LenProperties DEF Types, Pages, Services
<1>2. CASE ExecutorStep
  <2>1. PICK s \in 1 .. Len(serv) :
          FreeAll(s) \/ OpenPages(s) \/ Render(s) \/ SaveBegins(s) \/ SaveEnds(s) \/ CallsBack(s)
    BY <1>1, <1>2 DEF ExecutorStep
  <2> QED
    BY <2>1, FreeAllTypes, OpenPagesTypes, RenderTypes, SaveTypes, CallsBackTypes
<1>3. CASE UiStep
  BY <1>3, DeliverTypes, DeliverDelayedTypes DEF UiStep
<1>4. CASE UserStep
  <2>1. CASE \E b \in Book : Open(b)
    BY <2>1, OpenTypes
  <2>2. ASSUME NEW i \in 1 .. Len(act),
               Swipe(i) \/ Back(i) \/ Destroy(i) \/ DestroyUnseen(i) \/ Relaunch(i)
        PROVE  Types'
    <3>1. CASE Swipe(i)
      BY <3>1, SwipeShape
    <3>2. CASE Back(i)
      BY <3>2, BackShape
    <3>3. CASE Destroy(i) \/ DestroyUnseen(i)
      <4>1. onDestroy(i) /\ torn' \in BOOLEAN /\ UNCHANGED <<file, storage, uiQueue, delayed, kills>>
        BY <3>3 DEF Destroy, DestroyUnseen, Types, Pages
      <4> QED
        BY <4>1, Destroyed
    <3>4. CASE Relaunch(i)
      BY <3>4, RelaunchTypes
    <3> QED
      BY <2>2, <3>1, <3>2, <3>3, <3>4
  <2>3. CASE \E s \in DOMAIN serv : \E n \in serv[s].pages : Collect(s, n)
    BY <1>1, <2>3, CollectTypes
  <2>4. CASE Kill
    BY <2>4, KillTypes
  <2> QED
    BY <1>1, <1>4, <2>1, <2>2, <2>3, <2>4 DEF UserStep
<1>5. CASE UNCHANGED vars
  BY <1>5 DEF vars, Types, Pages, Services, Files
<1> QED
  BY <1>2, <1>3, <1>4, <1>5 DEF Next

LEMMA StepPartial == Types /\ PartialIsBeingWritten /\ [Next]_vars => PartialIsBeingWritten'
<1> SUFFICES ASSUME Types, PartialIsBeingWritten, [Next]_vars PROVE PartialIsBeingWritten'
  OBVIOUS
<1>1. /\ DOMAIN serv = 1 .. Len(serv) /\ DOMAIN act = 1 .. Len(act) /\ Types'
      /\ Len(act) \in Nat /\ Len(serv) = Len(act)
  BY StepTypes, LenProperties DEF Types, Pages, Services
<1>2. CASE ExecutorStep
  <2>1. PICK s \in 1 .. Len(serv) :
          FreeAll(s) \/ OpenPages(s) \/ Render(s) \/ SaveBegins(s) \/ SaveEnds(s) \/ CallsBack(s)
    BY <1>1, <1>2 DEF ExecutorStep
  <2>2. CASE FreeAll(s)
    <3> DEFINE r == [Taken(s) EXCEPT !.pages = {}, !.cleared = {}, !.evict = <<>>]
    <3>1. Taken(s) \in Service(Len(act)) /\ Sound(Taken(s)) /\ serv[s].stage = "idle"
      BY <2>2, TakenType DEF FreeAll, Waiting
    <3>2. <<>> \in Seq(Nat)
      OBVIOUS
    <3>3. r \in Service(Len(act)) /\ Sound(r)
      BY <3>1, <3>2 DEF Service, Sound
    <3>4. serv' = [serv EXCEPT ![s] = r] /\ UNCHANGED <<file, storage, kills>>
      BY <2>2 DEF FreeAll, Executor
    <3> HIDE DEF r
    <3> QED
      BY <1>1, <3>1, <3>3, <3>4, OneServiceSaves, PartialKept
  <2>3. CASE OpenPages(s)
    <3>1. PICK r \in Service(Len(act)) : serv' = [serv EXCEPT ![s] = r] /\ Sound(r)
      BY <2>3, Opened
    <3>2. serv[s].stage = "idle" /\ UNCHANGED <<file, storage, kills>>
      BY <2>3 DEF OpenPages, Waiting, Executor
    <3> QED
      BY <1>1, <3>1, <3>2, OneServiceSaves, PartialKept
  <2>4. CASE Render(s)
    <3>1. /\ serv[s].stage = "opened" /\ UNCHANGED <<file, storage, kills>>
          /\ serv' \in {serv, [serv EXCEPT ![s] = Rest(s)], [serv EXCEPT ![s] = Staged(s, "rendered")]}
      BY <2>4, Rendered
    <3>2. CASE serv' = serv
      BY <1>1, <3>1, <3>2, PartialKept DEF SavingStays
    <3>3. CASE serv' = [serv EXCEPT ![s] = Rest(s)]
      BY <1>1, <3>1, <3>3, RestType, OneServiceSaves, PartialKept
    <3>4. CASE serv' = [serv EXCEPT ![s] = Staged(s, "rendered")]
      BY <1>1, <3>1, <3>4, StagedType, OneServiceSaves, PartialKept
    <3> QED
      BY <3>1, <3>2, <3>3, <3>4
  <2>5. CASE SaveBegins(s)
    BY <2>5, SaveBeginsPartial
  <2>6. CASE SaveEnds(s)
    BY <2>6, SaveEndsPartial
  <2>7. CASE CallsBack(s)
    <3>1. /\ serv' = [serv EXCEPT ![s] = Rest(s)] /\ serv[s].stage = "saved"
          /\ UNCHANGED <<file, storage, kills>>
      BY <2>7 DEF CallsBack
    <3> QED
      BY <1>1, <3>1, RestType, OneServiceSaves, PartialKept
  <2> QED
    BY <2>1, <2>2, <2>3, <2>4, <2>5, <2>6, <2>7
<1>3. ASSUME NEW i \in 1 .. Len(act), NEW n \in Nat, NEW kind \in {"book", "page"}, static # 0,
             serv' = [serv EXCEPT ![static] = Asking(i, n, kind)]
      PROVE  SavingStays
  BY <1>3, AskingType, OneServiceSaves
<1>4. ASSUME NEW i \in 1 .. Len(act), BookRender(i) PROVE SavingStays
  <2>1. CASE serv' = serv
    BY <2>1 DEF SavingStays
  <2> QED
    BY <1>3, <1>4, <2>1, BookRenders
<1>5. CASE UiStep
  <2>1. CASE Deliver
    <3>1. Head(uiQueue)[2] \in 1 .. Len(act) /\ UNCHANGED <<file, storage, kills>>
      BY <2>1, HeadNote DEF Deliver
    <3>2. BookRender(Head(uiQueue)[2]) \/ serv' = serv
      BY <2>1 DEF Deliver
    <3>3. SavingStays
      BY <1>4, <3>1, <3>2 DEF SavingStays
    <3> QED
      BY <1>1, <3>1, <3>3, PartialKept
  <2>2. ASSUME NEW i \in delayed, DeliverDelayed(i) PROVE PartialIsBeingWritten'
    <3>1. i \in 1 .. Len(act) /\ BookRender(i) /\ UNCHANGED <<file, storage, kills>>
      BY <2>2 DEF DeliverDelayed, Types, Pages
    <3> QED
      BY <1>1, <1>4, <3>1, PartialKept
  <2> QED
    BY <1>5, <2>1, <2>2 DEF UiStep
<1>6. CASE UserStep
  <2>1. ASSUME NEW b \in Book, Open(b) PROVE PartialIsBeingWritten'
    <3>1. /\ Len(serv') = Len(act) + 1 /\ UNCHANGED <<file, storage, kills>>
          /\ \A a \in 1 .. Len(act) : serv'[a] = serv[a]
      BY <2>1, OpenTypes DEF Open, Types, Services
    <3>2. SavingStays
      BY <1>1, <3>1 DEF SavingStays
    <3> QED
      BY <1>1, <3>1, <3>2, PartialKept
  <2>2. ASSUME NEW i \in 1 .. Len(act),
               Swipe(i) \/ Back(i) \/ Destroy(i) \/ DestroyUnseen(i) \/ Relaunch(i)
        PROVE  PartialIsBeingWritten'
    <3>1. CASE Swipe(i)
      <4>1. UNCHANGED <<file, storage, kills>>
        BY <3>1, SwipeShape
      <4>2. CASE serv' = serv
        BY <1>1, <4>1, <4>2, PartialKept DEF SavingStays
      <4>3. CASE static # 0 /\ \E n \in Nat : serv' = [serv EXCEPT ![static] = Asking(i, n, "page")]
        BY <1>1, <1>3, <4>1, <4>3, PartialKept
      <4> QED
        BY <3>1, <4>2, <4>3, SwipeShape
    <3>2. CASE Back(i)
      BY <1>1, <3>2, PartialKept DEF Back, SavingStays
    <3>3. CASE Destroy(i) \/ DestroyUnseen(i)
      <4>1. serv' = Freed /\ UNCHANGED <<file, storage, kills>>
        BY <3>3 DEF Destroy, DestroyUnseen, onDestroy, Freed
      <4>2. SavingStays
        BY <1>1, <4>1, FreedType DEF SavingStays
      <4> QED
        BY <1>1, <4>1, <4>2, PartialKept
    <3>4. CASE Relaunch(i)
      <4>1. /\ Len(serv') = Len(act) + 1 /\ UNCHANGED <<file, storage, kills>>
            /\ \A a \in 1 .. Len(act) : serv'[a] = Freed[a]
        BY <3>4, RelaunchTypes DEF Relaunch, Types, Services
      <4>2. SavingStays
        BY <1>1, <4>1, FreedType DEF SavingStays
      <4> QED
        BY <1>1, <4>1, <4>2, PartialKept
    <3> QED
      BY <2>2, <3>1, <3>2, <3>3, <3>4
  <2>3. ASSUME NEW s \in 1 .. Len(serv), NEW n \in serv[s].pages, Collect(s, n)
        PROVE  PartialIsBeingWritten'
    <3>1. /\ serv' = [serv EXCEPT ![s] = Collected(s, n)] /\ UNCHANGED <<file, storage, kills>>
      BY <2>3 DEF Collect, Collected, Executor
    <3> QED
      BY <1>1, <2>3, <3>1, CollectedType, OneServiceSaves, PartialKept
  <2>4. CASE Kill
    BY <2>4, KillPartial
  <2> QED
    BY <1>1, <1>6, <2>1, <2>2, <2>3, <2>4 DEF UserStep
<1>7. CASE UNCHANGED vars
  BY <1>7 DEF vars, PartialIsBeingWritten
<1> QED
  BY <1>2, <1>5, <1>6, <1>7 DEF Next
-----------------------------------------------------------------------------
(* The only thing on its way.  A stage that is not idle is the static        *)
(* service's, and so is a request that waits.                                *)
LEMMA StaticType ==
  ASSUME Types, static # 0
  PROVE  /\ static \in 1 .. Len(serv) /\ static \in 1 .. Len(act)
         /\ DOMAIN serv = 1 .. Len(serv) /\ DOMAIN act = 1 .. Len(act)
         /\ Len(act) \in Nat /\ Len(serv) = Len(act)
BY LenProperties DEF Types, Pages, Services

LEMMA WhoRuns ==
  ASSUME Types, Held, NEW s \in 1 .. Len(serv), serv[s].stage # "idle"
  PROVE  /\ s = static /\ static # 0 /\ Decoding
         /\ act[static].state = "live" /\ act[static].dialog
<1>1. s = static /\ s # 0
  BY DEF Held, Others, Quiet
<1> QED
  BY <1>1 DEF Held, OneAtATime, AtRest, Delayed, Noted, Asked, Rests

LEMMA WhoWaits ==
  ASSUME Types, Held, NEW s \in 1 .. Len(serv), serv[s].stage = "idle", serv[s].queue # <<>>
  PROVE  \/ s # static /\ serv[s].queue = <<RecycleTask>>
         \/ /\ s = static /\ static # 0 /\ Asked
            /\ act[static].state = "live" /\ act[static].dialog
<1>1. CASE s # static
  BY <1>1 DEF Held, Others, Quiet
<1>2. CASE s = static
  <2>1. static # 0
    BY <1>2
  <2> QED
    BY <1>2, <2>1 DEF Held, OneAtATime, AtRest, Delayed, Noted, Decoding, Rests
<1> QED
  BY <1>1, <1>2

(* What a step of the static service, or of another one, leaves as it is.    *)
LEMMA StaticStep ==
  ASSUME Types, Held, static # 0, NEW r \in Service(Len(act)), Sound(r),
         serv' = [serv EXCEPT ![static] = r], ~r.recycled,
         static' = static, Len(act') = Len(act),
         \A a \in 1 .. Len(act) : act'[a].state = act[a].state,
         serv'[static] = r => OneAtATime'
  PROVE  Held'
<1>1. /\ serv \in Seq(Service(Len(act))) /\ Len(act) \in Nat /\ static \in 1 .. Len(serv)
      /\ \A a \in 1 .. Len(serv) : Sound(serv[a])
  BY StaticType DEF Types, Services
<1>2. /\ Len(serv') = Len(serv) /\ serv'[static] = r
      /\ \A a \in 1 .. Len(serv) : a # static => serv'[a] = serv[a]
  BY <1>1, SetService
<1>3. Only'
  BY DEF Held, Only
<1>4. Others'
  BY <1>2 DEF Held, Others, Quiet
<1> QED
  BY <1>2, <1>3, <1>4 DEF Held

LEMMA OtherStep ==
  ASSUME Types, Held, NEW s \in 1 .. Len(serv), s # static,
         NEW r \in Service(Len(act)), Sound(r), serv' = [serv EXCEPT ![s] = r],
         r.stage = "idle", r.queue \in {<<>>, <<RecycleTask>>},
         UNCHANGED <<act, static, uiQueue, delayed>>
  PROVE  Held'
<1>1. /\ serv \in Seq(Service(Len(act))) /\ Len(act) \in Nat
      /\ \A a \in 1 .. Len(serv) : Sound(serv[a])
  BY LenProperties DEF Types, Pages, Services
<1>2. /\ Len(serv') = Len(serv) /\ serv'[s] = r
      /\ \A a \in 1 .. Len(serv) : a # s => serv'[a] = serv[a]
  BY <1>1, SetService
<1>3. Only'
  BY DEF Held, Only
<1>4. Others'
  BY <1>2 DEF Held, Others, Quiet
<1>5. ASSUME static # 0 PROVE ~serv'[static].recycled /\ OneAtATime'
  <2>1. serv'[static] = serv[static]
    BY <1>2, <1>5, StaticType
  <2>2. ~serv[static].recycled /\ OneAtATime
    BY <1>5 DEF Held
  <2>3. OneAtATime'
    BY <2>1, <2>2 DEF OneAtATime, AtRest, Delayed, Noted, Asked, Decoding, Rests, Own
  <2> QED
    BY <2>1, <2>2, <2>3
<1> QED
  BY <1>3, <1>4, <1>5 DEF Held

LEMMA SameHeld ==
  ASSUME Held, UNCHANGED <<act, static, serv, uiQueue, delayed>> PROVE Held'
<1>1. Only' /\ Others'
  BY DEF Held, Only, Others, Quiet
<1>2. OneAtATime => OneAtATime'
  BY DEF OneAtATime, AtRest, Delayed, Noted, Asked, Decoding, Rests, Own
<1> QED
  BY <1>1, <1>2 DEF Held

LEMMA FreeAllHeld ==
  ASSUME Types, Held, NEW s \in 1 .. Len(serv), FreeAll(s) PROVE Held'
<1> DEFINE r == [Taken(s) EXCEPT !.pages = {}, !.cleared = {}, !.evict = <<>>]
<1>1. /\ Waiting(s) /\ Head(serv[s].queue).kind = "recycle"
      /\ serv' = [serv EXCEPT ![s] = r] /\ UNCHANGED <<act, static, uiQueue, delayed>>
  BY DEF FreeAll, Executor
<1>2. serv[s].stage = "idle" /\ serv[s].queue # <<>>
  BY <1>1 DEF Waiting
<1>3. ~Asked \/ s # static
  <2>1. ASSUME NEW t \in Request(Len(act)), serv[s].queue = <<t>> PROVE FALSE
    <3>1. Head(serv[s].queue) = t
      BY <2>1
    <3> QED
      BY <1>1, <3>1 DEF Request
  <2> QED
    BY <2>1 DEF Asked
<1>4. s # static /\ serv[s].queue = <<RecycleTask>>
  BY <1>2, <1>3, WhoWaits
<1>5. /\ Taken(s) \in Service(Len(act)) /\ Sound(Taken(s)) /\ Taken(s).stage = "idle"
      /\ Taken(s).queue = Tail(serv[s].queue)
  BY <1>1, TakenType
<1>6. Tail(<<RecycleTask>>) = <<>> /\ <<>> \in Seq(Nat)
  OBVIOUS
<1>7. r \in Service(Len(act)) /\ r.stage = "idle" /\ r.queue = <<>>
  BY <1>4, <1>5, <1>6 DEF Service
<1>8. Sound(r)
  BY <1>5 DEF Service, Sound
<1> HIDE DEF r
<1> QED
  BY <1>1, <1>4, <1>7, <1>8, OtherStep

LEMMA OpenPagesHeld ==
  ASSUME Types, Held, NEW s \in 1 .. Len(serv), OpenPages(s) PROVE Held'
<1>1. /\ Waiting(s) /\ Head(serv[s].queue).kind # "recycle"
      /\ UNCHANGED <<act, static, uiQueue, delayed>>
  BY DEF OpenPages, Executor
<1>2. serv[s].stage = "idle" /\ serv[s].queue # <<>>
  BY <1>1 DEF Waiting
<1>3. serv[s].queue # <<RecycleTask>>
  <2>1. Head(<<RecycleTask>>).kind = "recycle"
    BY DEF RecycleTask
  <2> QED
    BY <1>1, <2>1
<1>4. s = static /\ static # 0 /\ Asked /\ act[static].state = "live" /\ act[static].dialog
  BY <1>2, <1>3, WhoWaits
<1>5. PICK t \in Request(Len(act)) : Own(t) /\ serv[static].queue = <<t>>
  BY <1>4 DEF Asked
<1>6. PICK r \in Service(Len(act)) :
        /\ serv' = [serv EXCEPT ![static] = r] /\ Sound(r)
        /\ r.queue = Tail(serv[static].queue) /\ r.recycled = serv[static].recycled
        /\ \/ r.stage = "idle"
           \/ r.stage = "opened" /\ r.task = Head(serv[static].queue)
  BY <1>4, Opened
<1>7. r.queue = <<>> /\ Head(serv[static].queue) = t /\ ~r.recycled
  BY <1>4, <1>5, <1>6 DEF Held
<1>8. ASSUME serv'[static] = r PROVE OneAtATime'
  <2>1. CASE r.stage = "idle"
    BY <1>1, <1>4, <1>7, <1>8, <2>1 DEF OneAtATime, AtRest, Asked, Rests
  <2>2. CASE r.stage = "opened" /\ r.task = t
    BY <1>1, <1>4, <1>5, <1>7, <1>8, <2>2 DEF OneAtATime, Decoding, Asked, Own
  <2> QED
    BY <1>6, <1>7, <2>1, <2>2
<1> QED
  BY <1>1, <1>4, <1>6, <1>7, <1>8, StaticStep

(* A task goes on, or ends where it finds itself cancelled.                  *)
LEMMA GoesOn ==
  ASSUME Types, Held, NEW s \in 1 .. Len(serv), serv[s].stage # "idle",
         NEW stage \in {"opened", "rendered", "saving", "saved"},
         serv' \in {[serv EXCEPT ![s] = Rest(s)], [serv EXCEPT ![s] = Staged(s, stage)]},
         UNCHANGED <<act, static, uiQueue, delayed>>
  PROVE  Held'
<1>1. /\ s = static /\ static # 0 /\ Decoding
      /\ act[static].state = "live" /\ act[static].dialog /\ ~serv[static].recycled
  BY WhoRuns DEF Held
<1>2. /\ Rest(s) \in Service(Len(act)) /\ Sound(Rest(s))
      /\ Rest(s).stage = "idle" /\ Rest(s).queue = <<>> /\ ~Rest(s).recycled
  BY <1>1, RestType DEF Decoding
<1>3. /\ Staged(s, stage) \in Service(Len(act)) /\ Sound(Staged(s, stage))
      /\ Staged(s, stage).stage # "idle" /\ Staged(s, stage).task = serv[static].task
      /\ Staged(s, stage).queue = <<>> /\ ~Staged(s, stage).recycled
  BY <1>1, StagedType DEF Decoding
<1>4. CASE serv' = [serv EXCEPT ![s] = Rest(s)]
  <2>1. serv'[static] = Rest(s) => OneAtATime'
    BY <1>1, <1>2 DEF OneAtATime, AtRest, Decoding, Rests
  <2> QED
    BY <1>1, <1>2, <1>4, <2>1, StaticStep
<1>5. CASE serv' = [serv EXCEPT ![s] = Staged(s, stage)]
  <2>1. serv'[static] = Staged(s, stage) => OneAtATime'
    BY <1>1, <1>3 DEF OneAtATime, Decoding, Own
  <2> QED
    BY <1>1, <1>3, <1>5, <2>1, StaticStep
<1> QED
  BY <1>4, <1>5

LEMMA CallsBackHeld ==
  ASSUME Types, Held, NEW s \in 1 .. Len(serv), CallsBack(s) PROVE Held'
<1>1. /\ serv[s].stage # "idle" /\ serv' = [serv EXCEPT ![s] = Rest(s)]
      /\ UNCHANGED <<static, delayed>>
  BY DEF CallsBack
<1>2. /\ s = static /\ static # 0 /\ Decoding
      /\ act[static].state = "live" /\ act[static].dialog /\ ~serv[static].recycled
  BY <1>1, WhoRuns DEF Held
<1>3. /\ Rest(s) \in Service(Len(act)) /\ Sound(Rest(s))
      /\ Rest(s).stage = "idle" /\ Rest(s).queue = <<>> /\ ~Rest(s).recycled
  BY <1>2, RestType DEF Decoding
<1>4. serv[s].task.by = static /\ delayed = {} /\ uiQueue = <<>>
  BY <1>2 DEF Decoding, Own
<1>5. ~NoService(static)
  BY <1>2 DEF NoService
<1>6. /\ act' \in {act, Counted(static)}
      /\ \E w \in {"render", "show", "page"} : uiQueue' = Append(uiQueue, <<w, static>>)
  BY <1>2, <1>4, <1>5 DEF CallsBack, doNext, Counted
<1>7. PICK w \in {"render", "show", "page"} : uiQueue' = << <<w, static>> >>
  BY <1>4, <1>6
<1>8. /\ Len(act') = Len(act)
      /\ \A a \in 1 .. Len(act) :
           act'[a].state = act[a].state /\ act'[a].dialog = act[a].dialog
  BY <1>2, <1>6, StaticType, CountedType
<1>9. ASSUME serv'[static] = Rest(s) PROVE OneAtATime'
  <2>1. act'[static].state = "live" /\ act'[static].dialog
    BY <1>2, <1>8, StaticType
  <2>2. Noted'
    BY <1>1, <1>3, <1>4, <1>7, <1>9 DEF Noted, Rests
  <2> QED
    BY <1>1, <2>1, <2>2 DEF OneAtATime
<1> QED
  BY <1>1, <1>2, <1>3, <1>8, <1>9, StaticStep

LEMMA CollectHeld ==
  ASSUME Types, Held, NEW s \in 1 .. Len(serv), NEW n \in serv[s].pages, Collect(s, n)
  PROVE  Held'
<1> DEFINE r == Collected(s, n)
<1>1. serv' = [serv EXCEPT ![s] = r] /\ UNCHANGED <<act, static, uiQueue, delayed>>
  BY DEF Collect, Collected, Executor
<1>2. /\ r \in Service(Len(act)) /\ Sound(r) /\ r.stage = serv[s].stage
      /\ r.task = serv[s].task /\ r.queue = serv[s].queue /\ r.recycled = serv[s].recycled
  BY CollectedType
<1> HIDE DEF r
<1>3. CASE s # static
  <2>1. Quiet(s)
    BY <1>3 DEF Held, Others
  <2> QED
    BY <1>1, <1>2, <1>3, <2>1, OtherStep DEF Quiet
<1>4. CASE s = static
  <2>1. static # 0 /\ ~serv[static].recycled /\ OneAtATime
    BY <1>4 DEF Held
  <2>2. ASSUME serv'[static] = r PROVE OneAtATime'
    BY <1>1, <1>2, <1>4, <2>1, <2>2
       DEF OneAtATime, AtRest, Delayed, Noted, Asked, Decoding, Rests, Own
  <2> QED
    BY <1>1, <1>2, <1>4, <2>1, <2>2, StaticStep
<1> QED
  BY <1>3, <1>4

(* A request to a service without one is its only one.                       *)
LEMMA AskedQueue ==
  ASSUME Types, static # 0, ~serv[static].recycled, Rests(static),
         NEW n \in Nat, NEW kind \in {"book", "page"}
  PROVE  /\ ~Asking(static, n, kind).recycled
         /\ Asking(static, n, kind).stage = "idle"
         /\ \E t \in Request(Len(act)) : Own(t) /\ Asking(static, n, kind).queue = <<t>>
         /\ Asking(static, n, kind).queue =
              << [key |-> act[static].book, page |-> n, by |-> static, kind |-> kind] >>
         /\ act[static].book \in Asking(static, n, kind).keys
         /\ Asking(static, n, kind).evict = serv[static].evict
         /\ Asking(static, n, kind).closed = serv[static].closed
<1> DEFINE b == act[static].book
           t == [key |-> b, page |-> n, by |-> static, kind |-> kind]
           k == serv[static].keys \cup {b}
<1>1. /\ serv[static] \in Service(Len(act)) /\ static \in 1 .. Len(act) /\ b \in Book
      /\ serv[static].queue = <<>> /\ serv[static].stage = "idle"
  BY StaticType, ServiceTypes DEF Rests, Activity
<1>2. t \in Request(Len(act)) /\ Own(t)
  BY <1>1 DEF Request, Own
<1>3. {a \in DOMAIN serv[static].queue : serv[static].queue[a].key = b} = {}
  BY <1>1
<1>4. Append(Without(serv[static].queue,
                     {a \in DOMAIN serv[static].queue : serv[static].queue[a].key = b}), t) = <<t>>
  BY <1>1, <1>3 DEF Without
<1>5. Asking(static, n, kind) = [serv[static] EXCEPT !.keys = k, !.queue = <<t>>]
  BY <1>4 DEF Asking, Requested
<1>6. b \in k
  OBVIOUS
<1> HIDE DEF t, k
<1>7. /\ Asking(static, n, kind).queue = <<t>> /\ Asking(static, n, kind).keys = k
      /\ Asking(static, n, kind).evict = serv[static].evict
      /\ Asking(static, n, kind).closed = serv[static].closed
      /\ ~Asking(static, n, kind).recycled /\ Asking(static, n, kind).stage = "idle"
  BY <1>1, <1>5 DEF Service
<1> QED
  BY <1>2, <1>6, <1>7 DEF t

(* mBookRender, whether its message was posted or delayed.                   *)
LEMMA RenderHeld ==
  ASSUME Types, Held, static # 0, Rests(static),
         act[static].state = "live", act[static].dialog,
         BookRender(static), uiQueue' = Posted(static), delayed' = {}, static' = static
  PROVE  Held'
<1>1. static \in 1 .. Len(act) /\ Len(act) \in Nat /\ ~serv[static].recycled
  BY StaticType DEF Held
<1>2. ~NoService(static)
  BY DEF NoService
<1> DEFINE n == act[static].mIndex
<1>3. n \in Nat
  BY <1>1, BookRenders
<1>4. CASE Exists(act[static].book, n)
  <2>1. act' = Counted(static) /\ serv' = serv
    BY <1>2, <1>4 DEF BookRender, Counted
  <2>2. \E w \in {"render", "show", "page"} : uiQueue' = << <<w, static>> >>
    BY <1>2, <1>4 DEF Posted
  <2>3. /\ Len(act') = Len(act)
        /\ \A a \in 1 .. Len(act) :
             act'[a].state = act[a].state /\ act'[a].dialog = act[a].dialog
    BY <1>1, <2>1, CountedType
  <2>4. Noted'
    BY <2>1, <2>2 DEF Noted, Rests
  <2>5. OneAtATime'
    BY <1>1, <2>3, <2>4 DEF OneAtATime
  <2>6. Only' /\ Others'
    BY <2>1, <2>3 DEF Held, Only, Others, Quiet
  <2> QED
    BY <1>1, <2>1, <2>5, <2>6 DEF Held
<1>5. CASE ~Exists(act[static].book, n)
  <2> DEFINE r == Asking(static, n, "book")
  <2>1. act' = act /\ serv' = [serv EXCEPT ![static] = r]
    BY <1>2, <1>5 DEF BookRender, Asking
  <2>2. uiQueue' = <<>>
    BY <1>5 DEF Posted
  <2>3. r \in Service(Len(act)) /\ Sound(r)
    BY <1>1, <1>3, AskingType
  <2>4. /\ ~r.recycled /\ r.stage = "idle"
        /\ \E t \in Request(Len(act)) : Own(t) /\ r.queue = <<t>>
    BY <1>1, <1>3, AskedQueue
  <2> HIDE DEF r
  <2>5. ASSUME serv'[static] = r PROVE OneAtATime'
    BY <2>1, <2>2, <2>4, <2>5 DEF OneAtATime, Asked, Own
  <2> QED
    BY <2>1, <2>3, <2>4, <2>5, StaticStep
<1> QED
  BY <1>4, <1>5

LEMMA DeliverDelayedHeld ==
  ASSUME Types, Held, NEW i \in delayed, DeliverDelayed(i) PROVE Held'
<1>1. static # 0 /\ Delayed /\ act[static].state = "live" /\ act[static].dialog
  <2>1. static # 0
    BY DEF Held
  <2> QED
    BY <2>1 DEF Held, OneAtATime, AtRest, Noted, Asked, Decoding
<1>2. i = static /\ delayed \ {i} = {} /\ uiQueue = <<>> /\ Rests(static)
  BY <1>1 DEF Delayed
<1>3. Posted(static) \in Seq(Note(Len(act)))
  BY <1>1, StaticType, PostedType
<1>4. <<>> \o Posted(static) = Posted(static)
  BY <1>3
<1> QED
  BY <1>1, <1>2, <1>4, RenderHeld DEF DeliverDelayed

LEMMA DeliverHeld ==
  ASSUME Types, Held, Deliver PROVE Held'
<1>1. static # 0 /\ Noted /\ act[static].state = "live" /\ act[static].dialog
  <2>1. static # 0
    BY DEF Held, Deliver
  <2> QED
    BY <2>1 DEF Held, OneAtATime, AtRest, Delayed, Asked, Decoding, Deliver
<1>2. PICK w \in {"render", "show", "page"} : uiQueue = << <<w, static>> >>
  BY <1>1 DEF Noted
<1>3. Head(uiQueue)[1] = w /\ Head(uiQueue)[2] = static /\ Tail(uiQueue) = <<>>
  BY <1>2
<1>4. delayed = {} /\ Rests(static) /\ UNCHANGED <<delayed, static>>
  BY <1>1 DEF Noted, Deliver
<1>5. CASE w = "render"
  <2>1. BookRender(static) /\ uiQueue' = <<>> \o Posted(static)
    BY <1>3, <1>5 DEF Deliver
  <2>2. Posted(static) \in Seq(Note(Len(act)))
    BY <1>1, StaticType, PostedType
  <2>3. <<>> \o Posted(static) = Posted(static)
    BY <2>2
  <2> QED
    BY <1>1, <1>4, <2>1, <2>3, RenderHeld
<1>6. CASE w # "render"
  <2>1. serv' = serv /\ uiQueue' = <<>>
    BY <1>2, <1>3, <1>6 DEF Deliver
  <2>2. act' \in {[act EXCEPT ![static].dialog = FALSE, ![static].cur = 0],
                  [act EXCEPT ![static].dialog = FALSE]}
    BY <1>2, <1>3, <1>6 DEF Deliver
  <2>3. static \in 1 .. Len(act) /\ act \in Seq(Activity)
    BY <1>1, StaticType DEF Types, Pages
  <2>4. /\ Len(act') = Len(act)
        /\ \A a \in 1 .. Len(act) : act'[a].state = act[a].state
    <3> DEFINE one == [act[static] EXCEPT !.dialog = FALSE, !.cur = 0]
               two == [act[static] EXCEPT !.dialog = FALSE]
    <3>1. act[static] \in Activity
      BY <2>3, ElementOfSeq
    <3>2. one \in Activity /\ one.state = act[static].state
      <4>1. ASSUME NEW c \in Int
            PROVE  /\ [act[static] EXCEPT !.dialog = FALSE, !.cur = c] \in Activity
                   /\ [act[static] EXCEPT !.dialog = FALSE, !.cur = c].state = act[static].state
        BY <3>1 DEF Activity
      <4>2. 0 \in Int
        OBVIOUS
      <4>3. /\ [act[static] EXCEPT !.dialog = FALSE, !.cur = 0] \in Activity
            /\ [act[static] EXCEPT !.dialog = FALSE, !.cur = 0].state = act[static].state
        BY <4>1, <4>2, Zenon
      <4> QED
        BY <4>3, Zenon
    <3>3. two \in Activity /\ two.state = act[static].state
      BY <3>1 DEF Activity
    <3>4. act' \in {[act EXCEPT ![static] = one], [act EXCEPT ![static] = two]}
      BY <2>2
    <3> HIDE DEF one, two
    <3> QED
      BY <2>3, <3>2, <3>3, <3>4, SetActivity
  <2>5. AtRest'
    BY <1>4, <2>1 DEF AtRest, Rests
  <2>6. Only' /\ Others'
    BY <1>4, <2>1, <2>4 DEF Held, Only, Others, Quiet
  <2> QED
    BY <1>1, <1>4, <2>1, <2>5, <2>6 DEF Held, OneAtATime
<1> QED
  BY <1>5, <1>6
-----------------------------------------------------------------------------
(* The user and the system find everything at rest, or nothing is left.      *)
LEMMA SwipeHeld ==
  ASSUME Types, Held, NEW i \in 1 .. Len(act), Swipe(i) PROVE Held'
<1>1. act[i].state = "live" /\ ~act[i].dialog
  BY SwipeShape
<1>2. i = static /\ static # 0 /\ AtRest /\ ~serv[static].recycled
  <2>1. i = static /\ static # 0
    BY <1>1 DEF Held, Only
  <2> QED
    BY <1>1, <2>1 DEF Held, OneAtATime
<1>3. /\ Len(act') = Len(act) /\ UNCHANGED <<static, uiQueue, delayed>>
      /\ \A a \in 1 .. Len(act) : act'[a].state = act[a].state /\ act'[a].book = act[a].book
  BY SwipeShape
<1>4. CASE serv' = serv
  <2>1. AtRest' /\ Only' /\ Others'
    BY <1>2, <1>3, <1>4 DEF Held, AtRest, Only, Others, Quiet, Rests
  <2> QED
    BY <1>2, <1>3, <1>4, <2>1 DEF Held, OneAtATime
<1>5. CASE act'[i].dialog /\ \E n \in Nat : serv' = [serv EXCEPT ![static] = Asking(i, n, "page")]
  <2>1. PICK n \in Nat : serv' = [serv EXCEPT ![static] = Asking(static, n, "page")]
    BY <1>2, <1>5
  <2> DEFINE r == Asking(static, n, "page")
  <2>2. r \in Service(Len(act)) /\ Sound(r)
    BY <1>2, AskingType
  <2>3. /\ ~r.recycled /\ r.stage = "idle"
        /\ \E t \in Request(Len(act)) : Own(t) /\ r.queue = <<t>>
    BY <1>2, AskedQueue DEF AtRest
  <2> HIDE DEF r
  <2>4. ASSUME serv'[static] = r PROVE OneAtATime'
    <3>1. Asked'
      BY <1>2, <1>3, <2>3, <2>4 DEF AtRest, Asked, Own
    <3> QED
      BY <1>1, <1>2, <1>3, <1>5, <3>1 DEF OneAtATime
  <2>5. serv' = [serv EXCEPT ![static] = r]
    BY <2>1 DEF r
  <2> QED
    BY <1>2, <1>3, <2>2, <2>3, <2>4, <2>5, StaticStep
<1> QED
  BY <1>4, <1>5, SwipeShape

LEMMA BackHeld ==
  ASSUME Types, Held, NEW i \in 1 .. Len(act), Back(i) PROVE Held'
<1>1. /\ act[i].state = "live" /\ ~act[i].dialog /\ UNCHANGED <<static, serv, uiQueue, delayed>>
  BY DEF Back
<1>2. i = static /\ static # 0 /\ AtRest
  <2>1. i = static /\ static # 0
    BY <1>1 DEF Held, Only
  <2> QED
    BY <1>1, <2>1 DEF Held, OneAtATime
<1>3. AtRest'
  BY <1>1, <1>2 DEF AtRest, Rests
<1>4. Only' /\ Others'
  BY <1>1, BackShape DEF Held, Only, Others, Quiet
<1> QED
  BY <1>1, <1>2, <1>3, <1>4 DEF Held, OneAtATime

(* onDestroy of the activity whose service it is, with nothing on its way.   *)
LEMMA DestroyHeld ==
  ASSUME Types, Held, NEW i \in 1 .. Len(act), Destroy(i) \/ DestroyUnseen(i), Calm'
  PROVE  Held'
<1>1. /\ act' = Gone(i) /\ serv' = Freed /\ static' = 0 /\ UNCHANGED <<uiQueue, delayed>>
      /\ static = i
  BY DEF Destroy, DestroyUnseen, onDestroy, Freed, Calm
<1>2. act[i].state # "live" \/ ~act[i].dialog
  BY DEF Destroy, DestroyUnseen, Calm
<1>3. static # 0 /\ AtRest
  <2>1. static # 0
    BY <1>1
  <2> QED
    BY <1>1, <1>2, <2>1 DEF Held, OneAtATime
<1>4. Len(act') = Len(act) /\ Len(serv') = Len(act) /\ Len(serv) = Len(act)
  BY <1>1, <1>3, StaticType, GoneType, FreedType
<1>5. Only'
  BY <1>1, <1>4, GoneType DEF Held, Only
<1>6. Others'
  BY <1>1, <1>3, <1>4, FreedType DEF Held, Others, Quiet, AtRest, Rests
<1> QED
  BY <1>1, <1>3, <1>5, <1>6 DEF Held, AtRest

(* The new activity finds nothing on its way, and its message is delayed.    *)
LEMMA NewHeld ==
  ASSUME Types, NEW b \in Book, Len(act') = Len(act) + 1, Len(serv') = Len(act) + 1,
         act'[Len(act')] = NewActivity(b), serv'[Len(act')] = NewService,
         static' = Len(act'), delayed = {}, delayed' = delayed \cup {Len(act')},
         uiQueue' = <<>>,
         \A a \in 1 .. Len(act) : act'[a].state # "live",
         \A a \in 1 .. Len(act) :
           serv'[a].stage = "idle" /\ serv'[a].queue \in {<<>>, <<RecycleTask>>}
  PROVE  Held'
<1>1. Len(act) \in Nat
  BY LenProperties DEF Types, Pages
<1>2. Only'
  BY <1>1 DEF Only
<1>3. Others'
  BY <1>1 DEF Others, Quiet
<1>4. /\ act'[static'].state = "live" /\ act'[static'].dialog
      /\ serv'[static'].stage = "idle" /\ serv'[static'].queue = <<>>
      /\ ~serv'[static'].recycled
  BY DEF NewActivity, NewService
<1>5. Delayed'
  BY <1>4 DEF Delayed, Rests
<1> QED
  BY <1>1, <1>2, <1>3, <1>4, <1>5 DEF Held, OneAtATime

LEMMA OpenHeld ==
  ASSUME Types, Held, NEW b \in Book, Open(b) PROVE Held'
<1>1. /\ \A a \in 1 .. Len(act) : act[a].state # "live"
      /\ Len(act) \in Nat /\ Len(serv) = Len(act) /\ uiQueue' = uiQueue
  BY LenProperties DEF Open, NoneLive, Types, Pages, Services
<1>2. delayed = {} /\ uiQueue = <<>> /\ (static # 0 => Rests(static))
  <2>1. static # 0 => AtRest
    BY <1>1, StaticType DEF Held, OneAtATime
  <2> QED
    BY <2>1 DEF Held, AtRest
<1>3. \A a \in 1 .. Len(act) : Quiet(a)
  <2>1. ASSUME NEW a \in 1 .. Len(act), a = static PROVE Quiet(a)
    BY <1>2, <2>1 DEF Rests, Quiet
  <2> QED
    BY <1>1, <2>1 DEF Held, Others
<1>4. /\ Len(act') = Len(act) + 1 /\ Len(serv') = Len(act')
      /\ act'[Len(act')] = NewActivity(b) /\ serv'[Len(act')] = NewService
      /\ \A a \in 1 .. Len(act) : act'[a] = act[a] /\ serv'[a] = serv[a]
      /\ static' = Len(act') /\ delayed' = delayed \cup {Len(act')}
  BY OpenTypes DEF Types, Services
<1>5. \A a \in 1 .. Len(act) :
        /\ act'[a].state # "live"
        /\ serv'[a].stage = "idle" /\ serv'[a].queue \in {<<>>, <<RecycleTask>>}
  BY <1>1, <1>3, <1>4 DEF Quiet
<1> QED
  BY <1>1, <1>2, <1>4, <1>5, NewHeld

LEMMA RelaunchHeld ==
  ASSUME Types, Held, NEW i \in 1 .. Len(act), Relaunch(i), Calm' PROVE Held'
<1>1. /\ static = i /\ static # 0 /\ ~act[i].dialog /\ act[i].state = "live"
      /\ uiQueue' = uiQueue
  BY DEF Relaunch, Calm
<1>2. AtRest
  BY <1>1 DEF Held, OneAtATime
<1>3. /\ Len(act') = Len(act) + 1 /\ Len(serv') = Len(act')
      /\ act'[Len(act')] = NewActivity(act[i].book) /\ serv'[Len(act')] = NewService
      /\ \A a \in 1 .. Len(act) : act'[a] = Gone(i)[a] /\ serv'[a] = Freed[a]
      /\ static' = Len(act') /\ delayed' = delayed \cup {Len(act')}
  BY RelaunchTypes DEF Types, Services
<1>4. act[i].book \in Book
  BY <1>1, StaticType, ServiceTypes DEF Activity
<1>5. \A a \in 1 .. Len(act) : act'[a].state # "live"
  BY <1>1, <1>3, GoneType DEF Held, Only
<1>6. \A a \in 1 .. Len(act) :
        serv'[a].stage = "idle" /\ serv'[a].queue \in {<<>>, <<RecycleTask>>}
  <2>1. Len(serv) = Len(act)
    BY <1>1, StaticType
  <2> QED
    BY <1>2, <1>3, <2>1, FreedType DEF Held, Others, Quiet, AtRest, Rests
<1> QED
  BY <1>1, <1>2, <1>3, <1>4, <1>5, <1>6, NewHeld DEF AtRest

LEMMA KillHeld == ASSUME Types, Kill PROVE Held'
<1>1. act' = <<>> /\ serv' = <<>> /\ static' = 0 /\ uiQueue' = <<>> /\ delayed' = {}
  BY DEF Kill
<1>2. Len(<<>>) = 0
  OBVIOUS
<1> QED
  BY <1>1, <1>2 DEF Held, Only, Others

(* What was destroyed too early or too late stays so.                        *)
LEMMA StepCalm == Types /\ [Next]_vars /\ Calm' => Calm
<1> SUFFICES ASSUME Types, [Next]_vars, Calm' PROVE Calm
  OBVIOUS
<1>1. CASE ExecutorStep
  BY <1>1 DEF Calm, ExecutorStep, FreeAll, OpenPages, Render, SaveBegins, SaveEnds, CallsBack, Executor
<1>2. CASE UiStep
  <2>1. ASSUME Deliver PROVE UNCHANGED <<late, torn>>
    BY <2>1 DEF Deliver
  <2>2. ASSUME NEW i \in delayed, DeliverDelayed(i) PROVE UNCHANGED <<late, torn>>
    BY <2>2 DEF DeliverDelayed
  <2> QED
    BY <1>2, <2>1, <2>2 DEF Calm, UiStep
<1>3. CASE UserStep
  <2>1. ASSUME NEW b \in Book, Open(b) PROVE Calm
    BY <2>1 DEF Open, Calm
  <2>2. ASSUME NEW i \in DOMAIN act,
               Swipe(i) \/ Back(i) \/ Destroy(i) \/ DestroyUnseen(i) \/ Relaunch(i)
        PROVE  Calm
    <3>1. CASE Swipe(i) \/ Back(i)
      <4>1. UNCHANGED <<late, torn>>
        BY <3>1 DEF Swipe, Back
      <4> QED
        BY <4>1 DEF Calm
    <3>2. CASE Destroy(i)
      BY <3>2 DEF Destroy, onDestroy, Calm
    <3>3. CASE DestroyUnseen(i)
      BY <3>3 DEF DestroyUnseen, onDestroy, Calm
    <3>4. CASE Relaunch(i)
      BY <3>4 DEF Relaunch, Calm
    <3> QED
      BY <2>2, <3>1, <3>2, <3>3, <3>4
  <2>3. ASSUME NEW s \in DOMAIN serv, NEW n \in serv[s].pages, Collect(s, n) PROVE Calm
    BY <2>3 DEF Collect, Executor, Calm
  <2>4. CASE Kill
    BY <2>4 DEF Kill, Calm
  <2> QED
    BY <1>3, <2>1, <2>2, <2>3, <2>4 DEF UserStep
<1>4. CASE UNCHANGED vars
  BY <1>4 DEF vars, Calm
<1> QED
  BY <1>1, <1>2, <1>3, <1>4 DEF Next

LEMMA StepToken == Types /\ Token /\ [Next]_vars => Token'
<1> SUFFICES ASSUME Types, Token, [Next]_vars, Calm' PROVE Held'
  BY DEF Token
<1>1. DOMAIN serv = 1 .. Len(serv) /\ DOMAIN act = 1 .. Len(act)
  BY LenProperties DEF Types, Pages, Services
<1>2. Held
  BY StepCalm DEF Token
<1>3. CASE ExecutorStep
  <2>1. PICK s \in 1 .. Len(serv) :
          FreeAll(s) \/ OpenPages(s) \/ Render(s) \/ SaveBegins(s) \/ SaveEnds(s) \/ CallsBack(s)
    BY <1>1, <1>3 DEF ExecutorStep
  <2>2. CASE Render(s)
    <3>1. CASE serv' = serv
      BY <1>2, <2>2, <3>1, Rendered, SameHeld
    <3> QED
      BY <1>2, <2>2, <3>1, Rendered, GoesOn
  <2>3. CASE SaveBegins(s)
    <3>1. \/ serv' \in {[serv EXCEPT ![s] = Rest(s)], [serv EXCEPT ![s] = Staged(s, "saving")]}
          \/ serv' \in {[serv EXCEPT ![s] = Rest(s)], [serv EXCEPT ![s] = Staged(s, "saved")]}
      BY <2>3 DEF SaveBegins, Staged
    <3>2. serv[s].stage # "idle" /\ UNCHANGED <<act, static, uiQueue, delayed>>
      BY <2>3 DEF SaveBegins
    <3> QED
      BY <1>2, <3>1, <3>2, GoesOn
  <2>4. CASE SaveEnds(s)
    <3>1. serv' \in {[serv EXCEPT ![s] = Rest(s)], [serv EXCEPT ![s] = Staged(s, "saved")]}
      BY <2>4 DEF SaveEnds, Staged
    <3>2. serv[s].stage # "idle" /\ UNCHANGED <<act, static, uiQueue, delayed>>
      BY <2>4 DEF SaveEnds, Executor
    <3> QED
      BY <1>2, <3>1, <3>2, GoesOn
  <2> QED
    BY <1>2, <2>1, <2>2, <2>3, <2>4, FreeAllHeld, OpenPagesHeld, CallsBackHeld
<1>4. CASE UiStep
  BY <1>2, <1>4, DeliverHeld, DeliverDelayedHeld DEF UiStep
<1>5. CASE UserStep
  <2>1. CASE \E b \in Book : Open(b)
    BY <1>2, <2>1, OpenHeld
  <2>2. CASE \E i \in 1 .. Len(act) :
               Swipe(i) \/ Back(i) \/ Destroy(i) \/ DestroyUnseen(i) \/ Relaunch(i)
    BY <1>2, <2>2, SwipeHeld, BackHeld, DestroyHeld, RelaunchHeld
  <2>3. CASE \E s \in 1 .. Len(serv) : \E n \in serv[s].pages : Collect(s, n)
    BY <1>2, <2>3, CollectHeld
  <2>4. CASE Kill
    BY <2>4, KillHeld
  <2> QED
    BY <1>1, <1>5, <2>1, <2>2, <2>3, <2>4 DEF UserStep
<1>6. CASE UNCHANGED vars
  BY <1>2, <1>6, SameHeld DEF vars
<1> QED
  BY <1>3, <1>4, <1>5, <1>6 DEF Next

(* A saved file shows the page of the book the service was created for,      *)
(* which is the one the request named.                                       *)
LEMMA SaveEndsFiles ==
  ASSUME Types, Held, FileHoldsItsPage, NEW s \in 1 .. Len(serv), SaveEnds(s)
  PROVE  FileHoldsItsPage'
<1> DEFINE b == serv[s].task.key
           p == serv[s].task.page
<1>1. serv[s].stage # "idle" /\ Types'
  BY SaveTypes DEF SaveEnds
<1>2. b = act[s].book /\ b \in Book /\ p \in Nat
  BY <1>1, WhoRuns, TaskType DEF Decoding, Own
<1>3. file' \in {file, [file EXCEPT ![b][p] = <<b, p>>]}
  BY <1>2 DEF SaveEnds, Written
<1>4. Files
  BY DEF Types
<1> HIDE DEF b, p
<1> SUFFICES ASSUME NEW c \in Book, NEW n \in DOMAIN file'[c]
             PROVE  file'[c][n] \in {NoFile, CutOff, <<c, n>>}
  BY DEF FileHoldsItsPage
<1>5. n \in Page(c) /\ DOMAIN file[c] = Page(c)
  BY <1>1 DEF Types, Files
<1>6. CASE file' = file
  BY <1>5, <1>6 DEF FileHoldsItsPage
<1>7. CASE file' = [file EXCEPT ![b][p] = <<b, p>>] /\ c = b /\ n = p
  <2>1. file = [a \in Book |-> file[a]]
    BY <1>4 DEF Files
  <2>2. file'[c][n] = <<b, p>>
    BY <1>5, <1>7, <2>1
  <2> QED
    BY <1>7, <2>2
<1>8. CASE file' = [file EXCEPT ![b][p] = <<b, p>>] /\ ~(c = b /\ n = p)
  <2>1. file = [a \in Book |-> file[a]]
    BY <1>4 DEF Files
  <2>2. file'[c][n] = file[c][n]
    BY <1>2, <1>5, <1>8, <2>1
  <2> QED
    BY <1>5, <2>2 DEF FileHoldsItsPage
<1> QED
  BY <1>3, <1>6, <1>7, <1>8

LEMMA SaveBeginsFiles ==
  ASSUME Types, FileHoldsItsPage, NEW s \in 1 .. Len(serv), SaveBegins(s)
  PROVE  FileHoldsItsPage'
<1> DEFINE b == serv[s].task.key
           p == serv[s].task.page
<1>1. serv[s].stage # "idle" /\ Types'
  BY SaveTypes DEF SaveBegins
<1>2. b \in Book /\ p \in Nat
  BY <1>1, TaskType
<1>3. file' \in {file, [file EXCEPT ![b][p] = CutOff]}
  BY DEF SaveBegins
<1>4. file = [a \in Book |-> file[a]]
  BY DEF Types, Files
<1> HIDE DEF b, p
<1> SUFFICES ASSUME NEW c \in Book, NEW n \in DOMAIN file'[c]
             PROVE  file'[c][n] \in {NoFile, CutOff, <<c, n>>}
  BY DEF FileHoldsItsPage
<1>5. n \in Page(c) /\ DOMAIN file[c] = Page(c)
  BY <1>1 DEF Types, Files
<1>6. file'[c][n] \in {file[c][n], CutOff}
  BY <1>2, <1>3, <1>4, <1>5
<1> QED
  BY <1>5, <1>6 DEF FileHoldsItsPage

LEMMA StepFiles ==
  Types /\ Token /\ FilesTrueUnlessEarlyOrLate /\ [Next]_vars => FilesTrueUnlessEarlyOrLate'
<1> SUFFICES ASSUME Types, Token, FilesTrueUnlessEarlyOrLate, [Next]_vars, Calm'
             PROVE  FileHoldsItsPage'
  BY DEF FilesTrueUnlessEarlyOrLate, Calm
<1>1. Held /\ FileHoldsItsPage /\ DOMAIN serv = 1 .. Len(serv)
  BY StepCalm, LenProperties DEF Token, FilesTrueUnlessEarlyOrLate, Calm, Types, Services
<1>2. CASE \E s \in DOMAIN serv : SaveBegins(s) \/ SaveEnds(s)
  BY <1>1, <1>2, SaveBeginsFiles, SaveEndsFiles
<1>3. CASE file' = file
  BY <1>1, <1>3 DEF FileHoldsItsPage
<1>4. CASE ExecutorStep
  BY <1>2, <1>3, <1>4 DEF ExecutorStep, FreeAll, OpenPages, Render, CallsBack
<1>5. CASE UiStep
  BY <1>3, <1>5 DEF UiStep, Deliver, DeliverDelayed
<1>6. CASE UserStep
  BY <1>3, <1>6 DEF UserStep, Open, Swipe, Back, Destroy, DestroyUnseen, Relaunch, Collect, Kill
<1>7. CASE UNCHANGED vars
  BY <1>3, <1>7 DEF vars
<1> QED
  BY <1>4, <1>5, <1>6, <1>7 DEF Next

LEMMA Inductive == SafetySpec => []IInv
<1>1. IInv /\ [Next]_vars => IInv'
  BY StepTypes, StepPartial, StepToken, StepFiles DEF IInv
<1> QED
  BY InitIInv, <1>1, PTL DEF SafetySpec

(* While the static service renders, nobody counts the pages: the message    *)
(* queue is empty, and no other service runs a callback.                     *)
LEMMA AloneStep ==
  ASSUME Types, Token, Calm, Next, NEW i \in 1 .. Len(act), Asks(i),
         serv[static].stage = "opened"
  PROVE  FALSE
<1>1. /\ DOMAIN serv = 1 .. Len(serv) /\ DOMAIN act = 1 .. Len(act) /\ Held
      /\ static \in 1 .. Len(serv) /\ static \in 1 .. Len(act)
  BY StaticType DEF Asks, Token
<1>2. /\ delayed = {} /\ uiQueue = <<>> /\ act[static].state = "live" /\ act[static].dialog
  BY <1>1, WhoRuns DEF Decoding
<1>3. i \in DOMAIN act' /\ act'[i].mIndex # act[i].mIndex
  BY DEF Asks
<1>4. CASE ExecutorStep
  <2>1. PICK s \in 1 .. Len(serv) : CallsBack(s)
    BY <1>1, <1>3, <1>4
       DEF ExecutorStep, FreeAll, OpenPages, Render, SaveBegins, SaveEnds, Executor
  <2>2. serv[s].stage = "saved"
    BY <2>1 DEF CallsBack
  <2> QED
    BY <1>1, <2>2, WhoRuns
<1>5. CASE UiStep
  BY <1>2, <1>5 DEF UiStep, Deliver
<1>6. CASE UserStep
  <2>1. CASE \E b \in Book : Open(b)
    BY <1>3, <2>1, OpenTypes
  <2>2. ASSUME NEW j \in 1 .. Len(act),
               Swipe(j) \/ Back(j) \/ Destroy(j) \/ DestroyUnseen(j) \/ Relaunch(j)
        PROVE  FALSE
    <3>1. CASE Swipe(j)
      BY <1>3, <3>1, SwipeShape
    <3>2. CASE Back(j)
      BY <1>3, <3>2, BackShape
    <3>3. CASE Destroy(j) \/ DestroyUnseen(j)
      <4>1. act' = Gone(j)
        BY <3>3 DEF Destroy, DestroyUnseen, onDestroy
      <4> QED
        BY <1>3, <4>1, GoneType
    <3>4. CASE Relaunch(j)
      BY <1>3, <3>4, RelaunchTypes, GoneType
    <3> QED
      BY <2>2, <3>1, <3>2, <3>3, <3>4
  <2>3. CASE \E s \in DOMAIN serv : \E n \in serv[s].pages : Collect(s, n)
    BY <1>3, <2>3 DEF Collect, Executor
  <2>4. CASE Kill
    BY <1>3, <2>4 DEF Kill
  <2> QED
    BY <1>1, <1>6, <2>1, <2>2, <2>3, <2>4 DEF UserStep
<1> QED
  BY <1>4, <1>5, <1>6 DEF Next
-----------------------------------------------------------------------------
(* The order of the pages.  In calm times every book's files are its first   *)
(* pages, the page that is decoded is the first without a file, and so the   *)
(* queue of opened pages is in ascending order: what is opened next to the   *)
(* page about to be rendered never evicts it.                                *)
Before(b, n) == \A m \in Page(b) : m < n => Exists(b, m)
InOrder == \A b \in Book : \A n \in Page(b) : Exists(b, n) => Before(b, n)
Title == act[static].book
Grows(q) == \A x, y \in 1 .. Len(q) : x < y => q[x] < q[y]
Within(q, n) == \A x \in 1 .. Len(q) : q[x] <= n

Wanted(t) ==
  /\ t.page \in Page(Title) /\ Before(Title, t.page) /\ t.key \in serv[static].keys
  /\ t.kind = "book" => t.page = act[static].mIndex
  /\ t.kind = "page" => t.page = act[static].cur
Due == act[static].mIndex \in Page(Title) /\ Before(Title, act[static].mIndex)
Shows == act[static].cur \in Page(Title) /\ Exists(Title, act[static].cur)

(* A page that cannot be opened or rendered leaves the reader behind its     *)
(* dialog, and nothing on its way.                                           *)
Stuck == AtRest /\ act[static].dialog
Evicts ==
  /\ ~serv[static].closed /\ Grows(serv[static].evict)
  /\ serv[static].stage = "idle" /\ ~Stuck =>
       \A x \in 1 .. Len(serv[static].evict) : Before(Title, serv[static].evict[x])
  /\ serv[static].stage # "idle" => Within(serv[static].evict, serv[static].task.page + 1)
Tasks ==
  /\ \A t \in Request(Len(act)) :
       serv[static].queue = <<t>> => Wanted(t) /\ ~Exists(Title, t.page)
  /\ serv[static].stage # "idle" => Wanted(serv[static].task)
  /\ serv[static].stage \in {"saving", "saved"} => Exists(Title, serv[static].task.page)
Turn ==
  /\ delayed # {} => Due
  /\ uiQueue = << <<"render", static>> >> => Due
  /\ uiQueue = << <<"show", static>> >> => Exists(Title, 0)
  /\ uiQueue = << <<"page", static>> >> => Shows
  /\ act[static].state = "live" /\ ~act[static].dialog => Shows
Order == InOrder /\ crash = "none" /\ (static # 0 => Evicts /\ Tasks /\ Turn)

LEMMA SubSeqAll ==
  ASSUME NEW q \in Seq(Nat), NEW m \in 0 .. Len(q)
  PROVE  /\ SubSeq(q, 1, m) \in Seq(Nat) /\ Len(SubSeq(q, 1, m)) = m
         /\ \A x \in 1 .. m : SubSeq(q, 1, m)[x] = q[x]
<1>1. Len(q) \in Nat /\ m \in Nat /\ \A x \in 1 .. Len(q) : q[x] \in Nat
  BY LenProperties, ElementOfSeq
<1>2. \A x \in 1 .. m : q[x] \in Nat
  BY <1>1
<1>3. SubSeq(q, 1, m) \in Seq(Nat)
  BY <1>1, <1>2, SubSeqProperties
<1>4. Len(SubSeq(q, 1, m)) = m /\ \A x \in 1 .. m : SubSeq(q, 1, m)[x] = q[x]
  BY <1>1
<1> QED
  BY <1>3, <1>4

(* Without a page that none in a growing queue is above, all are below it.   *)
LEMMA WithoutLast ==
  ASSUME NEW q \in Seq(Nat), Grows(q), NEW p \in Nat, Within(q, p)
  PROVE  LET w == Without(q, {a \in DOMAIN q : q[a] = p}) IN
         /\ w \in Seq(Nat) /\ Grows(w) /\ \A x \in 1 .. Len(w) : w[x] < p
<1> DEFINE I == {a \in DOMAIN q : q[a] = p}
           w == Without(q, I)
<1>1. Len(q) \in Nat /\ DOMAIN q = 1 .. Len(q) /\ \A x \in 1 .. Len(q) : q[x] \in Nat
  BY LenProperties, ElementOfSeq
<1>2. CASE I = {}
  <2>1. w = q
    BY <1>2 DEF Without
  <2>2. \A x \in 1 .. Len(q) : q[x] < p
    BY <1>1, <1>2 DEF Within
  <2> QED
    BY <2>1, <2>2
<1>3. CASE I # {}
  <2> DEFINE a == CHOOSE a \in I : TRUE
  <2>1. a \in 1 .. Len(q) /\ q[a] = p
    BY <1>1, <1>3
  <2> HIDE DEF a
  <2>2. a = Len(q)
    <3> HIDE DEF I, w
    <3>1. a \in Nat /\ Len(q) \in Nat /\ a <= Len(q) /\ Len(q) \in 1 .. Len(q)
      BY <1>1, <2>1
    <3>2. a < Len(q) => q[a] < q[Len(q)] /\ q[Len(q)] <= p
      BY <2>1, <3>1 DEF Grows, Within
    <3>3. q[Len(q)] \in Nat
      BY <1>1, <3>1
    <3>4. ~(a < Len(q))
      BY <2>1, <3>2, <3>3
    <3> QED
      BY <3>1, <3>4
  <2> DEFINE h == SubSeq(q, 1, a - 1)
  <2>3. a - 1 \in 0 .. Len(q)
    BY <1>1, <2>1
  <2>4. h \in Seq(Nat) /\ Len(h) = a - 1 /\ \A x \in 1 .. a - 1 : h[x] = q[x]
    BY <2>3, SubSeqAll
  <2>5. w = h \o SubSeq(q, a + 1, Len(q))
    BY <1>3 DEF Without, RemoveAt, a
  <2>6. SubSeq(q, a + 1, Len(q)) = <<>>
    BY <1>1, <2>2
  <2> HIDE DEF h, w
  <2>7. w = h
    BY <2>4, <2>5, <2>6, ConcatEmptySeq
  <2>8. Grows(h)
    BY <1>1, <2>1, <2>4 DEF Grows
  <2>9. \A x \in 1 .. Len(h) : h[x] < p
    BY <1>1, <2>1, <2>2, <2>4 DEF Grows
  <2> QED
    BY <2>4, <2>7, <2>8, <2>9 DEF w
<1> QED
  BY <1>2, <1>3

(* A page that is opened after all in the queue: the queue still grows, and  *)
(* neither that page nor the last before it is evicted.                      *)
LEMMA GotOrder ==
  ASSUME NEW n \in Nat, NEW s \in Service(n), Sound(s), Grows(s.evict),
         NEW p \in Nat, Within(s.evict, p)
  PROVE  LET g == Got(s, p) IN
         /\ Grows(g.evict) /\ Within(g.evict, p) /\ g.closed = s.closed /\ p \in g.pages
         /\ \A m \in s.pages : p = m + 1 /\ Within(s.evict, m) => m \in g.pages
<1> DEFINE w == Without(s.evict, {a \in DOMAIN s.evict : s.evict[a] = p})
           q == Append(w, p)
           over == Len(q) > PoolSize
           gone == IF over THEN {Head(q)} ELSE {}
           e == IF over THEN Tail(q) ELSE q
           g == Got(s, p)
<1>1. s.evict \in Seq(Nat) /\ s.pages \in SUBSET Nat /\ s.cleared \in SUBSET Nat
  BY DEF Service
<1>2. w \in Seq(Nat) /\ Grows(w) /\ \A x \in 1 .. Len(w) : w[x] < p
  BY <1>1, WithoutLast
<1>3. CASE p \in s.pages \ s.cleared
  BY <1>3 DEF Got
<1>4. CASE p \notin s.pages \ s.cleared
  <2>1. g = [s EXCEPT !.evict = e, !.pages = (s.pages \cup {p}) \ gone,
                      !.cleared = s.cleared \ ({p} \cup gone)]
    BY <1>4 DEF Got
  <2>2. /\ Within(s.evict, p - 1) => w = s.evict
    <3>1. SUFFICES ASSUME Within(s.evict, p - 1)
                   PROVE  {a \in DOMAIN s.evict : s.evict[a] = p} = {}
      BY DEF Without
    <3>2. DOMAIN s.evict = 1 .. Len(s.evict) /\ \A x \in 1 .. Len(s.evict) : s.evict[x] \in Nat
      BY <1>1, LenProperties, ElementOfSeq
    <3> QED
      BY <3>1, <3>2 DEF Within
  <2> HIDE DEF w
  <2>3. /\ q \in Seq(Nat) /\ Len(q) = Len(w) + 1 /\ q[Len(w) + 1] = p
        /\ \A x \in 1 .. Len(w) : q[x] = w[x] /\ w[x] \in Nat
        /\ Len(w) \in Nat
    BY <1>2, AppendProperties, LenProperties, ElementOfSeq
  <2>4. Grows(q) /\ Within(q, p)
    <3> DEFINE k == Len(w)
    <3>1. /\ k \in Nat /\ q[k + 1] = p /\ Len(q) = k + 1
          /\ \A x \in 1 .. k : q[x] = w[x] /\ w[x] \in Nat /\ w[x] < p
          /\ \A x, y \in 1 .. k : x < y => w[x] < w[y]
      BY <1>2, <2>3 DEF Grows
    <3> HIDE DEF k
    <3>2. \A x, y \in 1 .. k + 1 : x < y => x \in 1 .. k /\ (y \in 1 .. k \/ y = k + 1)
      BY <3>1
    <3>3. \A x, y \in 1 .. k + 1 : x < y => q[x] < q[y]
      BY <3>1, <3>2
    <3>4. \A x \in 1 .. k + 1 : q[x] <= p
      BY <3>1
    <3> QED
      BY <3>1, <3>3, <3>4 DEF Grows, Within
  <2> HIDE DEF q
  <2>5. /\ q # <<>> /\ Head(q) = q[1] /\ Tail(q) \in Seq(Nat) /\ Len(Tail(q)) = Len(q) - 1
        /\ \A x \in 1 .. Len(Tail(q)) : Tail(q)[x] = q[x + 1]
    BY <2>3, HeadTailProperties
  <2>6. Grows(Tail(q)) /\ Within(Tail(q), p)
    BY <2>3, <2>4, <2>5 DEF Grows, Within
  <2>7. Grows(e) /\ Within(e, p)
    BY <2>4, <2>6
  <2>8. over => Len(w) >= 2
    BY <2>3, PoolAssumption
  <2>9. p \notin gone
    <3>1. SUFFICES ASSUME over PROVE q[1] # p
      BY <2>5
    <3> QED
      BY <1>2, <2>3, <2>8, <3>1
  <2>10. ASSUME NEW m \in s.pages, p = m + 1, Within(s.evict, m)
         PROVE  m \notin gone
    <3>1. SUFFICES ASSUME over PROVE q[1] # m
      BY <2>5
    <3>2. m \in Nat /\ m = p - 1
      BY <1>1, <2>10
    <3>3. w = s.evict
      BY <2>2, <2>10, <3>2
    <3>4. 1 \in 1 .. Len(w) /\ 2 \in 1 .. Len(w)
      BY <2>3, <2>8, <3>1
    <3>5. w[1] < w[2] /\ w[2] <= m
      BY <1>2, <2>10, <3>3, <3>4 DEF Grows, Within
    <3> QED
      BY <2>3, <3>2, <3>4, <3>5
  <2> HIDE DEF e, gone, over, g
  <2>11. g.evict = e /\ g.pages = (s.pages \cup {p}) \ gone /\ g.closed = s.closed
    BY <2>1 DEF Service
  <2> QED
    BY <2>7, <2>9, <2>10, <2>11 DEF g
<1> QED
  BY <1>3, <1>4

(* Files are only added in order, and one that exists stays.                 *)
LEMMA BeforeBelow ==
  ASSUME InOrder, NEW b \in Book, NEW n \in Page(b), Exists(b, n), NEW m \in Nat, m <= n + 1
  PROVE  Before(b, m)
<1>1. Before(b, n) /\ n \in Nat
  BY BookAssumption DEF InOrder, Page
<1>2. ASSUME NEW k \in Page(b), k < m PROVE Exists(b, k)
  <2>1. k \in Nat
    BY BookAssumption DEF Page
  <2>2. k < n \/ k = n
    BY <1>1, <1>2, <2>1
  <2> QED
    BY <1>1, <2>2 DEF Before
<1> QED
  BY <1>2 DEF Before

LEMMA FileAdded ==
  ASSUME Files, InOrder, NEW b \in Book, NEW n \in Page(b), Before(b, n), NEW v,
         v # NoFile, v \in {NoFile, CutOff} \cup (Book \X Page(b)),
         file' \in {file, [file EXCEPT ![b][n] = v]}, file' # file \/ Exists(b, n)
  PROVE  /\ InOrder' /\ Exists(b, n)'
         /\ \A c \in Book : \A m \in Int : Exists(c, m) => Exists(c, m)'
         /\ \A c \in Book : \A m \in Int : Before(c, m) => Before(c, m)'
<1>1. n \in Nat
  BY BookAssumption DEF Page
<1>0. file' = [file EXCEPT ![b][n] = v] =>
        \A c \in Book : \A m \in Page(c) :
          file'[c][m] = IF c = b /\ m = n THEN v ELSE file[c][m]
  <2> SUFFICES ASSUME file' = [file EXCEPT ![b][n] = v], NEW c \in Book, NEW m \in Page(c)
               PROVE  file'[c][m] = IF c = b /\ m = n THEN v ELSE file[c][m]
    OBVIOUS
  <2>1. file = [a \in Book |-> file[a]] /\ DOMAIN file[c] = Page(c) /\ DOMAIN file[b] = Page(b)
    BY DEF Files
  <2>2. file'[c] = IF c = b THEN [file[b] EXCEPT ![n] = v] ELSE file[c]
    BY <2>1
  <2> QED
    BY <2>1, <2>2
<1>2. \A c \in Book : \A m \in Page(c) :
        file'[c][m] \in {file[c][m]} \cup (IF c = b /\ m = n THEN {v} ELSE {})
  <2>1. CASE file' = file
    BY <2>1
  <2>2. CASE file' = [file EXCEPT ![b][n] = v]
    BY <2>2, <1>0
  <2> QED
    BY <2>1, <2>2
<1>3. Exists(b, n)'
  <2>1. CASE file' = file
    BY <2>1 DEF Exists
  <2>2. CASE file' = [file EXCEPT ![b][n] = v]
    <3>1. file'[b][n] = v
      BY <1>0, <2>2
    <3> QED
      BY <3>1 DEF Exists
  <2> QED
    BY <2>1, <2>2
<1>4. \A c \in Book : \A m \in Int : Exists(c, m) => Exists(c, m)'
  BY <1>2 DEF Exists
<1>5. \A c \in Book : \A m \in Int : Before(c, m) => Before(c, m)'
  <2>1. \A c \in Book : \A m \in Page(c) : m \in Int
    BY BookAssumption DEF Page
  <2> QED
    BY <1>4, <2>1 DEF Before
<1>6. ASSUME NEW c \in Book, NEW m \in Page(c), Exists(c, m)' PROVE Before(c, m)'
  <2>1. m \in Int /\ n \in Int
    BY <1>1, BookAssumption DEF Page
  <2>2. Exists(c, m) \/ (c = b /\ m = n)
    BY <1>2, <1>6 DEF Exists
  <2> QED
    BY <1>5, <2>1, <2>2 DEF InOrder
<1> QED
  BY <1>3, <1>4, <1>5, <1>6 DEF InOrder

(* What the static service and its activity are leaves the order as it was.  *)
LEMMA SameOrder ==
  ASSUME Types, Order, UNCHANGED <<file, static, delayed, uiQueue>>, Len(act') = Len(act),
         crash' = crash,
         static # 0 =>
           /\ act'[static].book = act[static].book /\ act'[static].mIndex = act[static].mIndex
           /\ act'[static].cur = act[static].cur
           /\ act'[static].state = "live" => act[static].state = "live"
           /\ act'[static].dialog = act[static].dialog
           /\ serv'[static].evict = serv[static].evict /\ serv'[static].keys = serv[static].keys
           /\ serv'[static].closed = serv[static].closed
           /\ serv'[static].stage = serv[static].stage /\ serv'[static].task = serv[static].task
           /\ serv'[static].queue = serv[static].queue
  PROVE  Order'
<1>1. \A b, n : Exists(b, n)' <=> Exists(b, n)
  BY DEF Exists
<1>2. \A b, n : Before(b, n)' <=> Before(b, n)
  BY <1>1 DEF Before
<1>3. InOrder'
  BY <1>1, <1>2 DEF InOrder, Order
<1>4. ASSUME static # 0 PROVE Evicts' /\ Tasks' /\ Turn'
  <2>1. Title' = Title
    BY <1>4 DEF Title
  <2>2. \A t : Wanted(t)' <=> Wanted(t)
    BY <1>2, <1>4, <2>1 DEF Wanted
  <2>3. Evicts'
    BY <1>2, <1>4, <2>1 DEF Evicts, Order, Grows, Within, Stuck, AtRest, Rests
  <2>4. Tasks'
    BY <1>1, <1>4, <2>1, <2>2 DEF Tasks, Order
  <2>5. (Due' <=> Due) /\ (Shows' <=> Shows)
    BY <1>1, <1>2, <1>4, <2>1 DEF Due, Shows
  <2>6. Turn'
    BY <1>1, <1>4, <2>1, <2>5 DEF Turn, Order
  <2> QED
    BY <2>3, <2>4, <2>6
<1> QED
  BY <1>3, <1>4 DEF Order

(* The executor: its steps are the static service's, but for the last task.  *)
LEMMA SetStatic ==
  ASSUME Types, static # 0, NEW r, serv' = [serv EXCEPT ![static] = r] PROVE serv'[static] = r
<1>1. static \in DOMAIN serv /\ serv = [s \in DOMAIN serv |-> serv[s]]
  BY StaticType DEF Types, Services
<1> QED
  BY <1>1

LEMMA NoTurn ==
  ASSUME UNCHANGED <<act, static, delayed, uiQueue>>, delayed = {}, uiQueue = <<>>,
         act[static].dialog
  PROVE  Turn'
BY DEF Turn

LEMMA FreeAllOrder ==
  ASSUME Types, Held, Order, NEW s \in 1 .. Len(serv), FreeAll(s) PROVE Order'
<1>1. /\ serv[s].stage = "idle" /\ serv[s].queue # <<>>
      /\ Head(serv[s].queue).kind = "recycle"
  BY DEF FreeAll, Waiting
<1>2. s # static
  <2>1. SUFFICES ASSUME Asked, s = static PROVE FALSE
    BY <1>1, WhoWaits
  <2>2. PICK t \in Request(Len(act)) : serv[s].queue = <<t>>
    BY <2>1 DEF Asked
  <2>3. t.kind # "recycle" /\ Head(<<t>>) = t
    BY DEF Request
  <2> QED
    BY <1>1, <2>2, <2>3
<1>3. static # 0 => serv'[static] = serv[static]
  BY <1>2, StaticType DEF FreeAll
<1>4. UNCHANGED <<file, act, static, delayed, uiQueue, crash>>
  BY DEF FreeAll, Executor
<1> QED
  BY <1>3, <1>4, SameOrder

(* The page asked for is the first without a file, and what was opened       *)
(* before is no later page.                                                  *)
LEMMA AskedFirst ==
  ASSUME Types, Order, static # 0, serv[static].stage = "idle",
         NEW t \in Request(Len(act)), serv[static].queue = <<t>>
  PROVE  Wanted(t) /\ t.page \in Nat /\ Within(serv[static].evict, t.page)
<1>1. Wanted(t) /\ ~Exists(Title, t.page)
  BY DEF Order, Tasks
<1>2. t.page \in Page(Title) /\ t.page \in Nat
  BY <1>1 DEF Wanted, Request
<1>3. serv[static].evict \in Seq(Nat)
  BY StaticType, ServiceTypes DEF Service
<1>4. ~Stuck
  BY DEF Stuck, AtRest, Rests
<1>5. ASSUME NEW x \in 1 .. Len(serv[static].evict) PROVE serv[static].evict[x] <= t.page
  <2>1. serv[static].evict[x] \in Nat /\ Before(Title, serv[static].evict[x])
    BY <1>3, <1>4, ElementOfSeq DEF Order, Evicts
  <2> QED
    BY <1>1, <1>2, <2>1 DEF Before
<1> QED
  BY <1>1, <1>2, <1>5 DEF Within

LEMMA OpenPagesOrder ==
  ASSUME Types, Held, Order, NEW s \in 1 .. Len(serv), OpenPages(s) PROVE Order'
<1>1. /\ Waiting(s) /\ Head(serv[s].queue).kind # "recycle"
      /\ UNCHANGED <<file, act, static, uiQueue, delayed, crash>>
  BY DEF OpenPages, Executor
<1>2. serv[s].stage = "idle" /\ serv[s].queue # <<>>
  BY <1>1 DEF Waiting
<1>3. serv[s].queue # <<RecycleTask>>
  <2>1. Head(<<RecycleTask>>).kind = "recycle"
    BY DEF RecycleTask
  <2> QED
    BY <1>1, <2>1
<1>4. s = static /\ static # 0 /\ Asked /\ act[static].state = "live" /\ act[static].dialog
  BY <1>2, <1>3, WhoWaits
<1>5. PICK t \in Request(Len(act)) : Own(t) /\ serv[static].queue = <<t>>
  BY <1>4 DEF Asked
<1> DEFINE n == Len(act)
           p == t.page
           k == Taken(static)
           one == Got(k, p)
           last == p + 1 >= Count(static)
           two == IF last THEN one ELSE Got(one, p + 1)
           x == [two EXCEPT !.stage = "opened", !.task = t, !.closed = p \notin two.pages]
<1>6. Head(serv[static].queue) = t /\ Tail(serv[static].queue) = <<>>
  BY <1>5
<1>7. serv' \in {[serv EXCEPT ![static] = r] : r \in {k, one, x}}
  <2>1. Head(serv[static].queue) = t /\ OpenPages(static)
    BY <1>4, <1>6
  <2>2. \/ serv' = [serv EXCEPT ![static] = k]
        \/ serv' = [serv EXCEPT ![static] = one]
        \/ serv' = [serv EXCEPT ![static] = x]
    BY <2>1, OpenedShape
  <2> HIDE DEF one, k, x
  <2> QED
    BY <2>2
<1>8. Wanted(t) /\ p \in Nat /\ p + 1 \in Nat /\ Within(serv[static].evict, p)
  BY <1>2, <1>4, <1>5, AskedFirst
<1>9. ~serv[static].closed /\ Grows(serv[static].evict) /\ Before(Title, p) /\ n \in Nat
  BY <1>4, <1>8, StaticType DEF Order, Evicts, Wanted
<1>10. /\ k \in Service(n) /\ Sound(k) /\ k.stage = "idle" /\ k.queue = <<>>
       /\ k.keys = serv[static].keys /\ k.evict = serv[static].evict /\ ~k.closed
  <2>1. /\ k \in Service(n) /\ Sound(k) /\ k.stage = "idle" /\ k.queue = <<>>
        /\ k.keys = serv[static].keys
    BY <1>1, <1>4, <1>6, TakenType
  <2>2. serv[static] \in Service(n)
    BY <1>4, ServiceTypes
  <2>3. k.evict = serv[static].evict /\ k.closed = serv[static].closed
    BY <2>2 DEF Taken, Service
  <2> QED
    BY <1>9, <2>1, <2>3
<1> HIDE DEF k, n, p
<1>11. /\ one \in Service(n) /\ Sound(one) /\ one.stage = "idle" /\ one.queue = <<>>
       /\ one.keys = serv[static].keys
  BY <1>8, <1>9, <1>10, GotType
<1>12. Grows(one.evict) /\ Within(one.evict, p) /\ ~one.closed /\ p \in one.pages
  <2>1. Grows(k.evict) /\ Within(k.evict, p)
    BY <1>8, <1>9, <1>10
  <2> QED
    BY <1>8, <1>9, <1>10, <2>1, GotOrder
<1> HIDE DEF one
<1>13. Within(one.evict, p + 1)
  <2>1. one.evict \in Seq(Nat)
    BY <1>11 DEF Service
  <2>2. \A y \in 1 .. Len(one.evict) : one.evict[y] \in Nat
    BY <2>1, ElementOfSeq
  <2> QED
    BY <1>8, <1>12, <2>2 DEF Within
<1>14. /\ two \in Service(n) /\ two.stage = "idle" /\ two.queue = <<>>
       /\ two.keys = serv[static].keys
  BY <1>8, <1>9, <1>11, GotType
<1>15. Grows(two.evict) /\ Within(two.evict, p + 1) /\ ~two.closed /\ p \in two.pages
  <2>1. CASE ~last
    <3> DEFINE g == Got(one, p + 1)
    <3>1. /\ Grows(g.evict) /\ Within(g.evict, p + 1) /\ g.closed = one.closed
          /\ \A m \in one.pages : p + 1 = m + 1 /\ Within(one.evict, m) => m \in g.pages
      BY <1>8, <1>9, <1>11, <1>12, <1>13, GotOrder
    <3> HIDE DEF g
    <3>2. p \in g.pages
      BY <1>12, <3>1
    <3>3. two = g
      BY <2>1 DEF g
    <3> QED
      BY <1>12, <3>1, <3>2, <3>3
  <2>2. CASE last
    BY <1>12, <1>13, <2>2
  <2> QED
    BY <2>1, <2>2
<1> HIDE DEF two
<1>16. /\ x.stage = "opened" /\ x.task = t /\ ~x.closed /\ x.evict = two.evict
       /\ x.queue = <<>> /\ x.keys = serv[static].keys
  BY <1>14, <1>15 DEF Service
<1>17. InOrder' /\ Title' = Title /\ \A b, m : Before(b, m)' <=> Before(b, m)
  BY <1>1 DEF Order, InOrder, Before, Exists, Title
<1> HIDE DEF x
<1>18. Turn'
  <2>1. delayed = {} /\ uiQueue = <<>>
    BY <1>4 DEF Asked
  <2> QED
    BY <1>1, <1>4, <2>1, NoTurn
<1>19. ASSUME NEW r, serv'[static] = r, r.queue = <<>>, r.stage = "idle", ~r.closed,
              Grows(r.evict), \A y \in 1 .. Len(r.evict) : Before(Title, r.evict[y])
       PROVE  Order'
  <2>1. Evicts'
    BY <1>1, <1>17, <1>19 DEF Evicts
  <2>2. Tasks'
    BY <1>1, <1>19 DEF Tasks
  <2> QED
    BY <1>1, <1>17, <1>18, <2>1, <2>2 DEF Order
<1>20. CASE serv' = [serv EXCEPT ![static] = k]
  <2>1. serv'[static] = k
    BY <1>4, <1>20, SetStatic
  <2>2. \A y \in 1 .. Len(k.evict) : Before(Title, k.evict[y])
    BY <1>2, <1>4, <1>10 DEF Order, Evicts, Stuck, AtRest, Rests
  <2> QED
    BY <1>9, <1>10, <1>19, <2>1, <2>2
<1>21. CASE serv' = [serv EXCEPT ![static] = one]
  <2>1. serv'[static] = one
    BY <1>4, <1>21, SetStatic
  <2>2. ASSUME NEW y \in 1 .. Len(one.evict) PROVE Before(Title, one.evict[y])
    <3>1. one.evict[y] <= p /\ one.evict[y] \in Nat
      <4>1. one.evict \in Seq(Nat)
        BY <1>11 DEF Service
      <4> QED
        BY <1>12, <4>1, ElementOfSeq DEF Within
    <3>2. act[static].book \in Book
      BY <1>4, StaticType, ServiceTypes DEF Activity
    <3>3. \A m \in Page(Title) : m \in Int
      BY <3>2, BookAssumption DEF Page, Title
    <3> QED
      BY <1>8, <1>9, <3>1, <3>3 DEF Before
  <2> QED
    BY <1>11, <1>12, <1>19, <2>1, <2>2
<1>22. CASE serv' = [serv EXCEPT ![static] = x]
  <2>1. serv'[static] = x
    BY <1>4, <1>22, SetStatic
  <2>2. Evicts'
    BY <1>1, <1>15, <1>16, <1>17, <2>1 DEF Evicts, p
  <2>3. Wanted(t)'
    BY <1>1, <1>8, <1>16, <1>17, <2>1 DEF Wanted
  <2>4. Tasks'
    BY <1>1, <1>16, <2>1, <2>3 DEF Tasks, Wanted
  <2> QED
    BY <1>1, <1>17, <1>18, <2>2, <2>4 DEF Order
<1> QED
  BY <1>7, <1>20, <1>21, <1>22

(* A task that is decoded is alive, and it goes on to its next stage.        *)
LEMMA Decodes ==
  ASSUME Types, Held, Order, NEW s \in 1 .. Len(serv), serv[s].stage # "idle"
  PROVE  /\ s = static /\ static # 0 /\ ~Dead(s) /\ ~serv[s].closed
         /\ Title \in Book /\ serv[s].task.key = Title /\ serv[s].task.by = static
         /\ Wanted(serv[s].task) /\ serv[s].task.page \in Nat
         /\ delayed = {} /\ uiQueue = <<>> /\ serv[s].queue = <<>>
         /\ act[static].dialog /\ act[static].state = "live"
<1>1. /\ s = static /\ static # 0 /\ Decoding
      /\ act[static].state = "live" /\ act[static].dialog
  BY WhoRuns
<1>2. Wanted(serv[s].task) /\ ~serv[s].closed
  BY <1>1 DEF Order, Tasks, Evicts
<1>3. act[static].book \in Book
  BY <1>1, StaticType, ServiceTypes DEF Activity
<1>4. ~Dead(s)
  BY <1>1, <1>2 DEF Dead, Wanted
<1> QED
  BY <1>1, <1>2, <1>3, <1>4, TaskType DEF Decoding, Own, Title

LEMMA StagedOrder ==
  ASSUME Types, Held, Order, static # 0, serv[static].stage # "idle",
         NEW stage \in {"opened", "rendered", "saving", "saved"},
         serv' = [serv EXCEPT ![static] = Staged(static, stage)],
         UNCHANGED <<act, static, uiQueue, delayed, crash>>, InOrder',
         \A m \in Int : Before(Title, m) => Before(Title, m)',
         stage \in {"saving", "saved"} => Exists(Title, serv[static].task.page)'
  PROVE  Order'
<1> DEFINE r == Staged(static, stage)
<1>1. /\ delayed = {} /\ uiQueue = <<>> /\ serv[static].queue = <<>> /\ act[static].dialog
      /\ Wanted(serv[static].task) /\ serv[static].task.page \in Nat
  BY StaticType, Decodes
<1>2. /\ r.stage = stage /\ r.task = serv[static].task /\ r.queue = <<>>
      /\ r.keys = serv[static].keys /\ r.evict = serv[static].evict
      /\ r.closed = serv[static].closed
  BY <1>1, StaticType, StagedType
<1>3. serv'[static] = r
  BY SetStatic
<1> HIDE DEF r
<1>4. Turn'
  BY <1>1, NoTurn
<1>5. Title' = Title
  BY DEF Title
<1>6. Evicts'
  BY <1>2, <1>3, <1>5 DEF Evicts, Order, Grows, Within
<1>7. Wanted(serv[static].task)'
  BY <1>1, <1>2, <1>3, <1>5 DEF Wanted
<1>8. Tasks'
  <2>1. serv'[static'].queue = <<>> /\ serv'[static'].stage = stage
    BY <1>2, <1>3
  <2>2. \A t : serv'[static'].queue # <<t>>
    BY <2>1
  <2>3. serv'[static'].stage \in {"saving", "saved"} => Exists(Title, serv[static].task.page)'
    BY <2>1
  <2> QED
    BY <1>7, <2>2, <2>3 DEF Tasks
<1>9. crash' = "none"
  BY DEF Order
<1> QED
  BY <1>4, <1>6, <1>8, <1>9 DEF Order

LEMMA RenderOrder ==
  ASSUME Types, Held, Order, NEW s \in 1 .. Len(serv), Render(s) PROVE Order'
<1>1. serv[s].stage = "opened"
  BY DEF Render
<1>2. s = static /\ static # 0 /\ ~Dead(s) /\ ~serv[s].closed
  BY <1>1, Decodes
<1>3. serv' \in {[serv EXCEPT ![static] = Rest(static)],
                 [serv EXCEPT ![static] = Staged(static, "rendered")]}
  BY <1>2 DEF Render, Staged
<1>4. UNCHANGED <<file, act, static, uiQueue, delayed, crash>>
  BY <1>2 DEF Render, Executor
<1>5. InOrder' /\ \A m \in Int : Before(Title, m) => Before(Title, m)'
  BY <1>4 DEF Order, InOrder, Before, Exists, Title
<1>6. CASE serv' = [serv EXCEPT ![static] = Rest(static)]
  <2>1. /\ delayed = {} /\ uiQueue = <<>> /\ serv[static].queue = <<>>
        /\ act[static].dialog
    BY <1>1, <1>2, Decodes
  <2>2. /\ serv'[static] = Rest(static) /\ Rest(static).stage = "idle"
        /\ Rest(static).queue = <<>> /\ ~Rest(static).closed
        /\ Rest(static).evict = serv[static].evict
    BY <1>2, <1>6, <2>1, SetStatic, RestType
  <2>3. Stuck'
    BY <1>4, <2>1, <2>2 DEF Stuck, AtRest, Rests
  <2>7. static' = static /\ ~serv'[static].closed /\ serv'[static].stage = "idle"
    BY <1>4, <2>2
  <2>8. Grows(serv'[static].evict)
    BY <1>2, <2>2 DEF Order, Evicts
  <2>4. Evicts'
    BY <2>3, <2>7, <2>8 DEF Evicts, Grows
  <2>5. Tasks'
    BY <1>4, <2>2 DEF Tasks
  <2>6. Turn'
    BY <1>4, <2>1, NoTurn
  <2> QED
    BY <1>4, <1>5, <2>4, <2>5, <2>6 DEF Order
<1>7. CASE serv' = [serv EXCEPT ![static] = Staged(static, "rendered")]
  BY <1>1, <1>2, <1>4, <1>5, <1>7, StagedOrder
<1> QED
  BY <1>3, <1>6, <1>7

LEMMA SaveOrder ==
  ASSUME Types, Held, Order, NEW s \in 1 .. Len(serv), SaveBegins(s) \/ SaveEnds(s),
         storage' # "refused"
  PROVE  Order'
<1> DEFINE b == serv[s].task.key
           p == serv[s].task.page
           v == IF SaveBegins(s) THEN CutOff ELSE <<act[s].book, p>>
           stage == IF SaveBegins(s) THEN "saving" ELSE "saved"
<1>1. /\ serv[s].stage = IF SaveBegins(s) THEN "rendered" ELSE "saving"
      /\ UNCHANGED <<act, static, uiQueue, delayed, crash>>
  BY DEF SaveBegins, SaveEnds, Executor
<1>2. /\ s = static /\ static # 0 /\ ~Dead(s) /\ Wanted(serv[s].task)
      /\ Title \in Book /\ b = Title /\ p \in Nat
  BY <1>1, Decodes
<1>3. serv' = [serv EXCEPT ![static] = Staged(static, stage)]
  BY <1>1, <1>2 DEF SaveBegins, SaveEnds, Staged
<1>4. /\ file' \in {file, [file EXCEPT ![b][p] = v]}
      /\ SaveBegins(s) => file' = [file EXCEPT ![b][p] = v]
  BY <1>1, <1>2 DEF SaveBegins, SaveEnds, Written
<1>5. p \in Page(Title) /\ Before(Title, p)
  BY <1>2 DEF Wanted
<1>6. v # NoFile /\ v \in {NoFile, CutOff} \cup (Book \X Page(Title))
  BY <1>2, <1>5 DEF NoFile, CutOff, Title
<1>7. ~SaveBegins(s) => Exists(Title, p)
  BY <1>1, <1>2 DEF Order, Tasks
<1> HIDE DEF b, p, v, stage
<1>8. Files /\ InOrder
  BY DEF Types, Order
<1>9. file' # file \/ Exists(Title, p)
  <2>1. SUFFICES ASSUME SaveBegins(s), file' = file PROVE Exists(Title, p)
    BY <1>7
  <2>2. file' = [file EXCEPT ![Title][p] = v]
    BY <1>2, <1>4, <2>1
  <2>3. file = [c \in Book |-> file[c]] /\ DOMAIN file[Title] = Page(Title)
    BY <1>2, <1>8 DEF Files
  <2>4. file'[Title] = [file[Title] EXCEPT ![p] = v]
    BY <1>2, <2>2, <2>3
  <2>5. file'[Title][p] = v
    BY <1>5, <2>3, <2>4
  <2> QED
    BY <1>5, <1>6, <2>1, <2>5 DEF Exists
<1>10. PICK c \in Book, q \in Nat : c = Title /\ q = p
  BY <1>2
<1>11. /\ InOrder' /\ Exists(c, q)'
       /\ \A m \in Int : Before(c, m) => Before(c, m)'
  BY <1>2, <1>4, <1>5, <1>6, <1>8, <1>9, <1>10, FileAdded
<1>12. Title' = c
  BY <1>1, <1>10 DEF Title
<1>13. \A m \in Int : Before(Title, m) => Before(Title, m)'
  BY <1>10, <1>11, <1>12
<1>14. Exists(Title, serv[static].task.page)'
  <2>1. serv'[static'].task.page = q
    <3>1. Staged(static, stage).task = serv[static].task
      BY DEF Staged
    <3> QED
      BY <1>1, <1>2, <1>3, <1>10, SetStatic DEF p, Staged
  <2> QED
    BY <1>11, <1>12, <2>1
<1>15. stage \in {"saving", "saved"}
  BY DEF stage
<1> QED
  BY <1>1, <1>2, <1>3, <1>11, <1>13, <1>14, <1>15, StagedOrder

LEMMA CollectOrder ==
  ASSUME Types, Order, NEW s \in 1 .. Len(serv), NEW n \in serv[s].pages, Collect(s, n)
  PROVE  Order'
<1> DEFINE r == Collected(s, n)
<1>1. /\ serv' = [serv EXCEPT ![s] = r]
      /\ UNCHANGED <<file, act, static, uiQueue, delayed, crash>>
  BY DEF Collect, Collected, Executor
<1>2. /\ r.stage = serv[s].stage /\ r.task = serv[s].task /\ r.queue = serv[s].queue
      /\ r.keys = serv[s].keys /\ r.evict = serv[s].evict /\ r.closed = serv[s].closed
  BY CollectedType
<1> HIDE DEF r
<1>3. static # 0 => serv'[static] = IF s = static THEN r ELSE serv[static]
  BY <1>1, StaticType
<1> QED
  BY <1>1, <1>2, <1>3, SameOrder

(* doNext: the page counted past exists, so the next one may be asked for.   *)
LEMMA CountsOn ==
  ASSUME Types, InOrder, static # 0, act' = Counted(static), UNCHANGED <<file, static>>,
         Exists(Title, act[static].mIndex)
  PROVE  /\ More(static) => Due'
         /\ Exists(Title, 0)' /\ Title' = Title
         /\ act'[static].state = act[static].state /\ act'[static].dialog = act[static].dialog
<1>1. static \in 1 .. Len(act) /\ act[static].book \in Book
  BY StaticType, ServiceTypes DEF Activity
<1>2. /\ act'[static].book = act[static].book /\ act'[static].mIndex = act[static].mIndex + 1
      /\ act'[static].state = act[static].state /\ act'[static].dialog = act[static].dialog
  BY <1>1, CountedType
<1>3. Title' = Title /\ Title \in Book
  BY <1>1, <1>2 DEF Title
<1>4. PICK b \in Book, m \in Int : b = Title /\ m \in Page(b) /\ m = act[static].mIndex
  <2>1. act[static].mIndex \in Page(Title)
    BY DEF Exists
  <2>2. act[static].mIndex \in Int
    BY <1>3, <2>1, BookAssumption DEF Page
  <2> QED
    BY <1>3, <2>1, <2>2, Zenon
<1>5. m \in Nat /\ m + 1 \in Nat /\ PageCount[b] \in Nat /\ PageCount[b] >= 2
  BY <1>4, BookAssumption DEF Page
<1>6. Before(b, m + 1)
  BY <1>4, <1>5, BeforeBelow
<1>7. \A c, n : Exists(c, n)' <=> Exists(c, n)
  BY DEF Exists
<1>8. Before(b, m + 1)'
  BY <1>6, <1>7 DEF Before
<1>9. More(static) => m + 1 \in Page(b)
  BY <1>4, <1>5 DEF More, Count, Title, Page
<1>10. More(static) => Due'
  BY <1>2, <1>3, <1>4, <1>8, <1>9 DEF Due
<1>11. Exists(b, 0)
  BY <1>5, <1>6 DEF Before, Page
<1>12. Exists(Title, 0)'
  BY <1>3, <1>4, <1>7, <1>11
<1> QED
  BY <1>2, <1>3, <1>10, <1>12

(* The static service has nothing to do.                                     *)
LEMMA IdleOrder ==
  ASSUME static' # 0, InOrder', Turn', crash' = "none",
         serv'[static'].stage = "idle", serv'[static'].queue = <<>>, ~serv'[static'].closed,
         Grows(serv'[static'].evict),
         \A x \in 1 .. Len(serv'[static'].evict) : Before(Title, serv[static].evict[x])'
  PROVE  Order'
<1>1. Evicts'
  BY DEF Evicts, Grows
<1>2. \A t : serv'[static'].queue # <<t>>
  OBVIOUS
<1>3. Tasks'
  BY <1>2 DEF Tasks
<1> QED
  BY <1>1, <1>3 DEF Order

LEMMA CallsBackOrder ==
  ASSUME Types, Held, Order, NEW s \in 1 .. Len(serv), CallsBack(s) PROVE Order'
<1>1. /\ serv[s].stage = "saved" /\ serv' = [serv EXCEPT ![s] = Rest(s)]
      /\ UNCHANGED <<file, static, delayed, crash>>
  BY DEF CallsBack
<1> DEFINE t == serv[s].task
<1>2. /\ s = static /\ static # 0 /\ Title \in Book /\ t.by = static /\ t.page \in Nat
      /\ delayed = {} /\ uiQueue = <<>> /\ serv[static].queue = <<>>
      /\ act[static].dialog /\ act[static].state = "live" /\ Wanted(t)
  BY <1>1, Decodes
<1>3. t.kind \in {"book", "page"}
  BY <1>1, TaskType DEF Request
<1>4. PICK b \in Book, p \in Nat : b = Title /\ p \in Page(b) /\ p = t.page
  BY <1>2 DEF Wanted
<1>5. Exists(b, p) /\ InOrder
  BY <1>1, <1>2, <1>4 DEF Order, Tasks
<1>6. /\ serv'[static] = Rest(static) /\ Rest(static).stage = "idle"
      /\ Rest(static).queue = <<>> /\ ~Rest(static).closed
      /\ Rest(static).evict = serv[static].evict
  BY <1>1, <1>2, SetStatic, RestType
<1>7. \A c, n : Exists(c, n)' <=> Exists(c, n)
  BY <1>1 DEF Exists
<1>8. \A c, n : Before(c, n)' <=> Before(c, n)
  BY <1>7 DEF Before
<1>9. InOrder'
  BY <1>5, <1>7, <1>8 DEF InOrder
<1>10. ASSUME NEW x \in 1 .. Len(serv[static].evict) PROVE Before(b, serv[static].evict[x])
  <2>1. serv[static].evict \in Seq(Nat) /\ Within(serv[static].evict, p + 1)
    BY <1>1, <1>2, <1>4, StaticType, ServiceTypes DEF Service, Order, Evicts
  <2>2. serv[static].evict[x] \in Nat /\ serv[static].evict[x] <= p + 1
    BY <2>1, ElementOfSeq DEF Within
  <2> QED
    BY <1>4, <1>5, <2>2, BeforeBelow
<1>11. Turn' /\ Title' = b
  <2>1. CASE t.kind = "book"
    <3>1. ~NoService(static)
      BY <1>2 DEF NoService
    <3>2. act' = Counted(static) /\ uiQueue' = << <<IF More(static) THEN "render" ELSE "show", static>> >>
      BY <1>2, <2>1, <3>1 DEF CallsBack, doNext, Counted
    <3>3. Exists(Title, act[static].mIndex)
      BY <1>2, <1>4, <1>5, <2>1 DEF Wanted
    <3>4. /\ More(static) => Due'
          /\ Exists(Title, 0)' /\ Title' = Title /\ act'[static].dialog
      BY <1>1, <1>2, <1>5, <3>2, <3>3, CountsOn
    <3>5. /\ uiQueue' = << <<"render", static>> >> => More(static)
          /\ uiQueue' # << <<"page", static>> >>
      BY <3>2
    <3> QED
      BY <1>1, <1>2, <1>4, <3>4, <3>5 DEF Turn
  <2>2. CASE t.kind = "page"
    <3>1. act' = act /\ uiQueue' = << <<"page", static>> >>
      BY <1>2, <2>2 DEF CallsBack
    <3>2. Title' = b
      BY <1>1, <1>4, <3>1 DEF Title
    <3>3. act[static].cur = p
      BY <1>2, <1>4, <2>2 DEF Wanted
    <3>4. Shows'
      BY <1>1, <1>4, <1>5, <1>7, <3>1, <3>2, <3>3 DEF Shows
    <3>5. uiQueue' # << <<"render", static>> >> /\ uiQueue' # << <<"show", static>> >>
      BY <3>1
    <3> QED
      BY <1>1, <1>2, <3>1, <3>2, <3>4, <3>5 DEF Turn
  <2> QED
    BY <1>3, <2>1, <2>2
<1>12. \A x \in 1 .. Len(serv'[static'].evict) : Before(Title, serv[static].evict[x])'
  BY <1>1, <1>6, <1>8, <1>10, <1>11
<1>13. Grows(serv[static].evict) /\ crash = "none"
  BY <1>2 DEF Order, Evicts
<1> QED
  BY <1>1, <1>2, <1>6, <1>9, <1>11, <1>12, <1>13, IdleOrder

(* mBookRender, whether its message was posted or delayed.                   *)
LEMMA BookRenderOrder ==
  ASSUME Types, Held, Order, static # 0, Rests(static), Due, ~AtRest,
         act[static].dialog,
         BookRender(static), uiQueue' = Posted(static), delayed' = {},
         UNCHANGED <<file, static>>
  PROVE  Order'
<1> DEFINE n == act[static].mIndex
<1>1. /\ static \in 1 .. Len(act) /\ Len(act) \in Nat /\ ~serv[static].recycled
      /\ act[static].book \in Book /\ n \in Nat
  BY StaticType, ServiceTypes DEF Held, Activity
<1>2. ~NoService(static)
  BY DEF NoService
<1>3. /\ InOrder /\ crash = "none" /\ ~serv[static].closed /\ Grows(serv[static].evict)
      /\ \A x \in 1 .. Len(serv[static].evict) : Before(Title, serv[static].evict[x])
      /\ serv[static].stage = "idle" /\ serv[static].queue = <<>>
  BY DEF Order, Evicts, Rests, Stuck
<1>4. \A c, m : Exists(c, m)' <=> Exists(c, m)
  BY DEF Exists
<1>5. \A c, m : Before(c, m)' <=> Before(c, m)
  BY <1>4 DEF Before
<1>6. InOrder'
  BY <1>3, <1>4, <1>5 DEF InOrder
<1>7. CASE Exists(Title, n)
  <2>1. act' = Counted(static) /\ serv' = serv /\ crash' = crash
    BY <1>2, <1>7 DEF BookRender, Counted, Title
  <2>2. uiQueue' = << <<IF More(static) THEN "render" ELSE "show", static>> >>
    BY <1>2, <1>7 DEF Posted, Title
  <2>3. /\ More(static) => Due'
        /\ Exists(Title, 0)' /\ Title' = Title /\ act'[static].dialog
    BY <1>3, <1>7, <2>1, CountsOn
  <2>4. /\ uiQueue' = << <<"render", static>> >> => More(static)
        /\ uiQueue' # << <<"page", static>> >>
    BY <2>2
  <2>5. Turn'
    BY <2>3, <2>4 DEF Turn
  <2>6. \A x \in 1 .. Len(serv'[static'].evict) : Before(Title, serv[static].evict[x])'
    BY <1>3, <1>5, <2>1, <2>3
  <2> QED
    BY <1>3, <1>6, <2>1, <2>5, <2>6, IdleOrder
<1>8. CASE ~Exists(Title, n)
  <2> DEFINE r == Asking(static, n, "book")
             t == [key |-> Title, page |-> n, by |-> static, kind |-> "book"]
  <2>1. act' = act /\ serv' = [serv EXCEPT ![static] = r] /\ crash' = crash
    BY <1>2, <1>8 DEF BookRender, Asking, Title
  <2>2. uiQueue' = <<>>
    BY <1>8 DEF Posted, Title
  <2>3. /\ r.stage = "idle" /\ r.queue = <<t>> /\ Title \in r.keys
        /\ r.evict = serv[static].evict /\ r.closed = serv[static].closed
    BY <1>1, AskedQueue DEF Title
  <2>4. serv'[static] = r
    BY <2>1, SetStatic
  <2>5. Title' = Title
    BY <2>1 DEF Title
  <2>6. t.page = n /\ t.key = Title /\ t.kind = "book"
    OBVIOUS
  <2> HIDE DEF r, t
  <2>7. Evicts'
    BY <1>3, <1>5, <2>3, <2>4, <2>5 DEF Evicts
  <2>8. ASSUME NEW u, serv'[static'].queue = <<u>> PROVE Wanted(u)' /\ ~Exists(Title, u.page)'
    <3>1. u = t
      BY <2>3, <2>4, <2>8
    <3> QED
      BY <1>4, <1>5, <1>8, <2>1, <2>3, <2>4, <2>5, <2>6, <3>1 DEF Wanted, Due
  <2>9. Tasks'
    BY <2>3, <2>4, <2>8 DEF Tasks
  <2>10. Turn'
    BY <2>1, <2>2 DEF Turn
  <2> QED
    BY <1>3, <1>6, <2>1, <2>7, <2>9, <2>10 DEF Order
<1> QED
  BY <1>7, <1>8

LEMMA DeliverDelayedOrder ==
  ASSUME Types, Held, Order, NEW i \in delayed, DeliverDelayed(i) PROVE Order'
<1>1. static # 0 /\ Delayed /\ act[static].state = "live" /\ act[static].dialog
  <2>1. static # 0
    BY DEF Held
  <2> QED
    BY <2>1 DEF Held, OneAtATime, AtRest, Noted, Asked, Decoding
<1>2. i = static /\ delayed \ {i} = {} /\ uiQueue = <<>> /\ Rests(static) /\ ~AtRest
  BY <1>1 DEF Delayed, AtRest
<1>3. Posted(static) \in Seq(Note(Len(act)))
  BY <1>1, StaticType, PostedType
<1>4. <<>> \o Posted(static) = Posted(static)
  BY <1>3
<1>5. Due
  BY <1>1 DEF Order, Turn
<1> QED
  BY <1>1, <1>2, <1>4, <1>5, BookRenderOrder DEF DeliverDelayed

(* The pages are displayed, or the fragment shows its bitmap.                *)
LEMMA DeliverOrder ==
  ASSUME Types, Held, Order, Deliver PROVE Order'
<1>1. static # 0 /\ Noted /\ act[static].state = "live" /\ act[static].dialog
  <2>1. static # 0
    BY DEF Held, Deliver
  <2> QED
    BY <2>1 DEF Held, OneAtATime, AtRest, Delayed, Asked, Decoding, Deliver
<1>2. PICK w \in {"render", "show", "page"} : uiQueue = << <<w, static>> >>
  BY <1>1 DEF Noted
<1>3. Head(uiQueue)[1] = w /\ Head(uiQueue)[2] = static /\ Tail(uiQueue) = <<>>
  BY <1>2
<1>4. delayed = {} /\ Rests(static) /\ ~AtRest /\ UNCHANGED <<file, delayed, static>>
  BY <1>1 DEF Noted, Deliver, AtRest
<1>5. CASE w = "render"
  <2>1. BookRender(static) /\ uiQueue' = <<>> \o Posted(static)
    BY <1>3, <1>5 DEF Deliver
  <2>2. Posted(static) \in Seq(Note(Len(act)))
    BY <1>1, StaticType, PostedType
  <2>3. <<>> \o Posted(static) = Posted(static)
    BY <2>2
  <2>4. Due
    BY <1>1, <1>2, <1>5 DEF Order, Turn
  <2> QED
    BY <1>1, <1>4, <2>1, <2>3, <2>4, BookRenderOrder
<1>6. CASE w # "render"
  <2>1. serv' = serv /\ uiQueue' = <<>> /\ crash' = crash
    BY <1>2, <1>3, <1>6 DEF Deliver
  <2> DEFINE a == act[static]
             c == IF w = "show" THEN 0 ELSE a.cur
  <2>2. static \in 1 .. Len(act) /\ act \in Seq(Activity) /\ a \in Activity
    BY <1>1, StaticType, ServiceTypes DEF Types, Pages
  <2>3. c \in Int /\ c \in Page(Title) /\ Exists(Title, c)
    <3>1. CASE w = "show"
      BY <1>1, <1>2, <3>1 DEF Order, Turn, Exists
    <3>2. CASE w = "page"
      BY <1>1, <1>2, <2>2, <3>2 DEF Order, Turn, Shows, Activity
    <3> QED
      BY <1>6, <3>1, <3>2
  <2>4. act' = [act EXCEPT ![static] = [a EXCEPT !.dialog = FALSE, !.cur = c]]
    <3>1. CASE w = "show"
      BY <1>3, <3>1 DEF Deliver
    <3>2. CASE w = "page"
      <4>1. [a EXCEPT !.dialog = FALSE] = [a EXCEPT !.dialog = FALSE, !.cur = c]
        BY <2>2, <3>2 DEF Activity
      <4>2. act' = [act EXCEPT ![static] = [a EXCEPT !.dialog = FALSE]]
        BY <1>3, <3>2 DEF Deliver
      <4> QED
        BY <4>1, <4>2
    <3> QED
      BY <1>6, <3>1, <3>2
  <2> HIDE DEF c
  <2> DEFINE r == [a EXCEPT !.dialog = FALSE, !.cur = c]
  <2>5. r \in Activity /\ r.book = a.book /\ r.cur = c
    BY <2>2, <2>3 DEF Activity
  <2>6. act' = [act EXCEPT ![static] = r]
    BY <2>4
  <2> HIDE DEF r
  <2>7. act'[static] = r
    BY <2>2, <2>5, <2>6, SetActivity
  <2>8. Title' = Title
    BY <1>4, <2>5, <2>7 DEF Title
  <2>9. \A b, m : Exists(b, m)' <=> Exists(b, m)
    BY <1>4 DEF Exists
  <2>10. \A b, m : Before(b, m)' <=> Before(b, m)
    BY <2>9 DEF Before
  <2>11. Shows'
    BY <1>4, <2>3, <2>5, <2>7, <2>8, <2>9 DEF Shows
  <2>12. Turn'
    BY <1>4, <2>1, <2>11 DEF Turn
  <2>13. InOrder' /\ crash' = "none"
    BY <2>1, <2>9, <2>10 DEF Order, InOrder
  <2>14. /\ serv'[static'].stage = "idle" /\ serv'[static'].queue = <<>>
         /\ ~serv'[static'].closed /\ Grows(serv'[static'].evict)
         /\ \A x \in 1 .. Len(serv[static].evict) : Before(Title, serv[static].evict[x])
    BY <1>1, <1>4, <2>1 DEF Order, Evicts, Rests, Stuck
  <2>15. \A x \in 1 .. Len(serv'[static'].evict) : Before(Title, serv[static].evict[x])'
    BY <1>4, <2>1, <2>8, <2>10, <2>14
  <2> QED
    BY <1>1, <1>4, <2>12, <2>13, <2>14, <2>15, IdleOrder
<1> QED
  BY <1>5, <1>6

(* The page a swipe comes to has a file, or is the first without one.        *)
LEMMA SwipeOrder ==
  ASSUME Types, Held, Order, NEW i \in 1 .. Len(act), Swipe(i) PROVE Order'
<1>1. act[i].state = "live" /\ ~act[i].dialog
  BY SwipeShape
<1>2. i = static /\ static # 0 /\ AtRest
  <2>1. i = static /\ static # 0
    BY <1>1 DEF Held, Only
  <2> QED
    BY <1>1, <2>1 DEF Held, OneAtATime
<1>3. UNCHANGED <<file, static, uiQueue, delayed, crash>> /\ act'[static].book = act[static].book
  BY <1>2, SwipeShape
<1>4. PICK n \in Page(act[static].book) \cap {act[static].cur - 1, act[static].cur + 1} :
        /\ act'[static].cur = n
        /\ act'[static].dialog <=> ~Exists(act[static].book, n)
        /\ IF act'[static].dialog THEN serv' = [serv EXCEPT ![static] = Asking(static, n, "page")]
                                  ELSE serv' = serv
  BY <1>2, SwipeShape
<1>5. act[static].book \in Book /\ static \in 1 .. Len(act) /\ act[static].cur \in Int
  BY <1>2, StaticType, ServiceTypes DEF Activity
<1>6. PICK b \in Book, c \in Int :
        b = act[static].book /\ c \in Page(b) /\ c = act[static].cur
  <2>1. act[static].cur \in Page(act[static].book)
    BY <1>1, <1>2 DEF Order, Turn, Shows, Title
  <2> QED
    BY <1>5, <2>1, Zenon
<1>7. InOrder /\ Exists(b, c)
  BY <1>1, <1>2, <1>6 DEF Order, Turn, Shows, Title
<1>8. n \in Nat /\ n <= c + 1 /\ n \in Page(b)
  <2>1. PageCount[b] \in Nat
    BY BookAssumption
  <2> QED
    BY <1>4, <1>6, <2>1 DEF Page
<1>9. Before(b, n)
  BY <1>6, <1>7, <1>8, BeforeBelow
<1>10. Title' = b /\ Title = b
  BY <1>3, <1>6 DEF Title
<1>11. \A d, m : Exists(d, m)' <=> Exists(d, m)
  BY <1>3 DEF Exists
<1>12. \A d, m : Before(d, m)' <=> Before(d, m)
  BY <1>11 DEF Before
<1>13. InOrder' /\ crash' = "none" /\ delayed = {} /\ uiQueue = <<>> /\ Rests(static)
  BY <1>2, <1>3, <1>11, <1>12 DEF Order, InOrder, AtRest
<1>14. Exists(b, n) => Shows'
  BY <1>3, <1>4, <1>8, <1>10, <1>11 DEF Shows
<1>15. Turn'
  BY <1>3, <1>4, <1>6, <1>13, <1>14 DEF Turn
<1>16. /\ ~serv[static].closed /\ Grows(serv[static].evict)
       /\ \A x \in 1 .. Len(serv[static].evict) : Before(b, serv[static].evict[x])
       /\ serv[static].stage = "idle" /\ serv[static].queue = <<>>
  BY <1>1, <1>2, <1>10, <1>13 DEF Order, Evicts, Rests, Stuck
<1>17. CASE Exists(b, n)
  <2>1. serv' = serv
    BY <1>4, <1>6, <1>17
  <2>2. \A x \in 1 .. Len(serv'[static'].evict) : Before(Title, serv[static].evict[x])'
    BY <1>3, <1>10, <1>12, <1>16, <2>1
  <2> QED
    BY <1>2, <1>3, <1>13, <1>15, <1>16, <2>1, <2>2, IdleOrder
<1>18. CASE ~Exists(b, n)
  <2> DEFINE r == Asking(static, n, "page")
             t == [key |-> b, page |-> n, by |-> static, kind |-> "page"]
  <2>1. serv' = [serv EXCEPT ![static] = r]
    BY <1>4, <1>6, <1>18
  <2>2. ~serv[static].recycled
    BY <1>2 DEF Held
  <2>3. /\ r.stage = "idle" /\ r.queue = <<t>> /\ b \in r.keys
        /\ r.evict = serv[static].evict /\ r.closed = serv[static].closed
    BY <1>2, <1>6, <1>8, <1>13, <2>2, AskedQueue
  <2>4. serv'[static] = r
    BY <1>2, <2>1, SetStatic
  <2>5. t.page = n /\ t.key = b /\ t.kind = "page"
    OBVIOUS
  <2> HIDE DEF r, t
  <2>6. Evicts'
    BY <1>3, <1>10, <1>12, <1>16, <2>3, <2>4 DEF Evicts
  <2>7. ASSUME NEW u, serv'[static'].queue = <<u>> PROVE Wanted(u)' /\ ~Exists(Title, u.page)'
    <3>1. u = t
      BY <1>3, <2>3, <2>4, <2>7
    <3> QED
      BY <1>3, <1>4, <1>8, <1>9, <1>10, <1>11, <1>12, <1>18, <2>3, <2>4, <2>5, <3>1 DEF Wanted
  <2>8. Tasks'
    BY <1>3, <2>3, <2>4, <2>7 DEF Tasks
  <2> QED
    BY <1>13, <1>15, <2>6, <2>8 DEF Order
<1> QED
  BY <1>17, <1>18

(* An activity that leaves, and the one that comes.                          *)
LEMMA BackOrder ==
  ASSUME Types, Order, NEW i \in 1 .. Len(act), Back(i) PROVE Order'
<1>1. /\ act[i].state = "live" /\ ~act[i].dialog
      /\ act' = [act EXCEPT ![i].state = "finished"]
      /\ UNCHANGED <<file, static, serv, uiQueue, delayed, crash>>
  BY DEF Back
<1>2. Len(act') = Len(act) /\ act'[i].state = "finished"
  BY BackShape
<1>3. \A a \in 1 .. Len(act) :
        /\ act'[a].book = act[a].book /\ act'[a].mIndex = act[a].mIndex
        /\ act'[a].cur = act[a].cur /\ act'[a].dialog = act[a].dialog
        /\ act'[a].state = "live" => act[a].state = "live"
  <2> SUFFICES ASSUME NEW a \in 1 .. Len(act)
               PROVE  /\ act'[a].book = act[a].book /\ act'[a].mIndex = act[a].mIndex
                      /\ act'[a].cur = act[a].cur /\ act'[a].dialog = act[a].dialog
                      /\ act'[a].state = "live" => act[a].state = "live"
    OBVIOUS
  <2>1. act \in Seq(Activity) /\ act[i] \in Activity /\ DOMAIN act = 1 .. Len(act)
    BY ElementOfSeq, LenProperties DEF Types, Pages
  <2>2. CASE a # i
    BY <2>2, BackShape
  <2>3. CASE a = i
    <3>1. act'[i] = [act[i] EXCEPT !.state = "finished"]
      BY <1>1, <2>1
    <3> QED
      BY <1>1, <2>1, <2>3, <3>1 DEF Activity
  <2> QED
    BY <2>2, <2>3
<1> QED
  BY <1>1, <1>2, <1>3, StaticType, SameOrder

LEMMA NoneOrder ==
  ASSUME Order, UNCHANGED <<file, crash>>, static' = 0 PROVE Order'
<1>1. \A d, m : Exists(d, m)' <=> Exists(d, m)
  BY DEF Exists
<1>2. \A d, m : Before(d, m)' <=> Before(d, m)
  BY <1>1 DEF Before
<1> QED
  BY <1>1, <1>2 DEF Order, InOrder

LEMMA DestroyOrder ==
  ASSUME Types, Order, NEW i \in 1 .. Len(act), Destroy(i) \/ DestroyUnseen(i), Calm'
  PROVE  Order'
<1>1. static = i /\ static' = 0 /\ file' = file
  BY DEF Destroy, DestroyUnseen, onDestroy, Calm
<1>2. crash' = crash
  BY <1>1 DEF Destroy, DestroyUnseen, onDestroy
<1> QED
  BY <1>1, <1>2, NoneOrder

LEMMA NewOrder ==
  ASSUME Order, NEW b \in Book, UNCHANGED <<file, crash>>,
         static' # 0, act'[static'] = NewActivity(b), serv'[static'] = NewService,
         uiQueue' = <<>>
  PROVE  Order'
<1>1. \A d, m : Exists(d, m)' <=> Exists(d, m)
  BY DEF Exists
<1>2. \A d, m : Before(d, m)' <=> Before(d, m)
  BY <1>1 DEF Before
<1>3. InOrder' /\ crash' = "none"
  BY <1>1, <1>2 DEF Order, InOrder
<1>4. /\ Title' = b /\ act'[static'].mIndex = 0 /\ act'[static'].dialog
      /\ serv'[static'].stage = "idle" /\ serv'[static'].queue = <<>>
      /\ serv'[static'].evict = <<>> /\ ~serv'[static'].closed
  BY DEF Title, NewActivity, NewService
<1>5. 0 \in Page(b) /\ Before(b, 0)
  BY BookAssumption DEF Page, Before
<1>6. Due'
  BY <1>2, <1>4, <1>5 DEF Due
<1>7. Turn'
  BY <1>4, <1>6 DEF Turn
<1>8. Len(<<>>) = 0
  OBVIOUS
<1>9. Grows(serv'[static'].evict)
  BY <1>4, <1>8 DEF Grows
<1>10. \A x \in 1 .. Len(serv'[static'].evict) : Before(Title, serv[static].evict[x])'
  BY <1>4, <1>8
<1> QED
  BY <1>3, <1>4, <1>7, <1>9, <1>10, IdleOrder

LEMMA OpenOrder ==
  ASSUME Types, Held, Order, NEW b \in Book, Open(b) PROVE Order'
<1>1. UNCHANGED <<file, crash, uiQueue>> /\ \A a \in 1 .. Len(act) : act[a].state # "live"
  BY LenProperties DEF Open, NoneLive, Types, Pages
<1>2. uiQueue = <<>>
  <2>1. static # 0 => AtRest
    BY <1>1, StaticType DEF Held, OneAtATime
  <2> QED
    BY <2>1 DEF Held, AtRest
<1>3. /\ Len(act) \in Nat /\ static' = Len(act) + 1 /\ Len(act') = Len(act) + 1
      /\ act'[Len(act')] = NewActivity(b) /\ serv'[Len(act')] = NewService
  BY OpenTypes, LenProperties DEF Types, Pages
<1> QED
  BY <1>1, <1>2, <1>3, NewOrder

LEMMA RelaunchOrder ==
  ASSUME Types, Held, Order, NEW i \in 1 .. Len(act), Relaunch(i), Calm' PROVE Order'
<1>1. /\ static = i /\ static # 0 /\ ~act[i].dialog /\ act[i].state = "live"
      /\ UNCHANGED <<file, crash, uiQueue>>
  BY DEF Relaunch, Calm
<1>2. uiQueue = <<>>
  BY <1>1 DEF Held, OneAtATime, AtRest
<1>3. /\ Len(act) \in Nat /\ static' = Len(act) + 1 /\ Len(act') = Len(act) + 1
      /\ act'[Len(act')] = NewActivity(act[i].book) /\ serv'[Len(act')] = NewService
  BY RelaunchTypes, LenProperties DEF Types, Pages
<1>4. act[i].book \in Book
  BY <1>1, StaticType, ServiceTypes DEF Activity
<1> QED
  BY <1>1, <1>2, <1>3, <1>4, NewOrder

(* No step loses the order while nothing was destroyed early or late and the *)
(* storage refused no file.                                                  *)
InTime == Calm /\ storage # "refused"
LEMMA StepInTime == Types /\ [Next]_vars /\ InTime' => InTime
<1> SUFFICES ASSUME Types, [Next]_vars, InTime' PROVE storage # "refused"
  BY StepCalm DEF InTime
<1> SUFFICES ASSUME storage = "refused" PROVE storage' = "refused"
  BY DEF InTime
<1>1. CASE ExecutorStep
  BY <1>1 DEF ExecutorStep, FreeAll, OpenPages, Render, SaveBegins, SaveEnds, CallsBack, Executor
<1>2. CASE UiStep
  BY <1>2 DEF UiStep, Deliver, DeliverDelayed
<1>3. CASE UserStep
  BY <1>3 DEF UserStep, Open, Swipe, Back, Destroy, DestroyUnseen, Relaunch, Collect, Kill, Executor
<1>4. CASE UNCHANGED vars
  BY <1>4 DEF vars
<1> QED
  BY <1>1, <1>2, <1>3, <1>4 DEF Next

(* A message that meets no service comes out of time.                        *)
LEMMA StepNull ==
  Types /\ Token /\ [Next]_vars /\ (Calm => crash # "null") => (Calm => crash # "null")'
<1> SUFFICES ASSUME Types, Token, [Next]_vars, Calm => crash # "null", Calm'
             PROVE  crash' # "null"
  OBVIOUS
<1>1. Held /\ Calm /\ crash # "null"
  BY StepCalm DEF Token
<1>2. crash' = crash => crash' # "null"
  BY <1>1
<1>3. CASE ExecutorStep
  BY <1>1, <1>3
     DEF ExecutorStep, FreeAll, OpenPages, Render, SaveBegins, SaveEnds, CallsBack, Executor
<1>4. ASSUME NEW i \in 1 .. Len(act), static # 0, BookRender(i) PROVE crash' # "null"
  BY <1>1, <1>4 DEF BookRender, NoService
<1>5. CASE UiStep
  <2>1. CASE Deliver
    <3>1. static # 0
      BY <1>1, <2>1 DEF Held, Deliver
    <3>2. Head(uiQueue)[2] \in 1 .. Len(act)
      BY <2>1, HeadNote DEF Deliver
    <3> QED
      BY <1>2, <1>4, <2>1, <3>1, <3>2 DEF Deliver
  <2>2. ASSUME NEW i \in delayed, DeliverDelayed(i) PROVE crash' # "null"
    <3>1. static # 0 /\ i \in 1 .. Len(act)
      BY <1>1 DEF Held, Types, Pages
    <3> QED
      BY <1>4, <2>2, <3>1 DEF DeliverDelayed
  <2> QED
    BY <1>5, <2>1, <2>2 DEF UiStep
<1>6. CASE UserStep
  <2>1. ASSUME NEW i \in DOMAIN act, onDestroy(i) PROVE crash' # "null"
    <3>1. i \in 1 .. Len(act) /\ (late \/ static # i) = late'
      BY <2>1, LenProperties DEF onDestroy, Types, Pages
    <3>2. static = i
      BY <3>1 DEF Calm
    <3>3. static # 0
      BY <3>1, <3>2
    <3> QED
      BY <1>1, <2>1, <3>3 DEF onDestroy
  <2> QED
    BY <1>2, <1>6, <2>1
       DEF UserStep, Open, Swipe, Back, Destroy, DestroyUnseen, Relaunch, Collect, Kill, Executor
<1>7. CASE UNCHANGED vars
  BY <1>2, <1>7 DEF vars
<1> QED
  BY <1>3, <1>5, <1>6, <1>7 DEF Next

LEMMA StepOrder ==
  Types /\ Token /\ (InTime => Order) /\ [Next]_vars => (InTime => Order)'
<1> SUFFICES ASSUME Types, Token, InTime => Order, [Next]_vars, InTime' PROVE Order'
  OBVIOUS
<1>0. Calm' /\ storage' # "refused"
  BY DEF InTime
<1>1. DOMAIN serv = 1 .. Len(serv) /\ DOMAIN act = 1 .. Len(act)
  BY LenProperties DEF Types, Pages, Services
<1>2. Held /\ Order
  BY StepInTime DEF Token, InTime
<1>3. CASE ExecutorStep
  BY <1>0, <1>1, <1>2, <1>3, FreeAllOrder, OpenPagesOrder, RenderOrder, SaveOrder, CallsBackOrder
     DEF ExecutorStep
<1>4. CASE UiStep
  BY <1>2, <1>4, DeliverOrder, DeliverDelayedOrder DEF UiStep
<1>5. CASE UserStep
  <2>1. CASE \E b \in Book : Open(b)
    BY <1>2, <2>1, OpenOrder
  <2>2. CASE \E i \in 1 .. Len(act) :
               Swipe(i) \/ Back(i) \/ Destroy(i) \/ DestroyUnseen(i) \/ Relaunch(i)
    BY <1>0, <1>2, <2>2, SwipeOrder, BackOrder, DestroyOrder, RelaunchOrder
  <2>3. CASE \E s \in 1 .. Len(serv) : \E n \in serv[s].pages : Collect(s, n)
    BY <1>2, <2>3, CollectOrder
  <2>4. CASE Kill
    <3>1. static' = 0 /\ UNCHANGED <<file, crash>>
      BY <2>4 DEF Kill
    <3> QED
      BY <1>2, <3>1, NoneOrder
  <2> QED
    BY <1>1, <1>5, <2>1, <2>2, <2>3, <2>4 DEF UserStep
<1>6. CASE UNCHANGED vars
  <2>1. UNCHANGED <<file, act, static, serv, uiQueue, delayed, crash>>
    BY <1>6 DEF vars
  <2> QED
    BY <1>2, <2>1, SameOrder
<1> QED
  BY <1>3, <1>4, <1>5, <1>6 DEF Next

LEMMA InitOrder == Init => Order
<1> SUFFICES ASSUME Init PROVE Order
  OBVIOUS
<1>1. ASSUME NEW b \in Book, NEW n \in Page(b) PROVE ~Exists(b, n)
  BY DEF Init, Exists
<1> QED
  BY <1>1 DEF Init, Order, InOrder

LEMMA OrderAlways == SafetySpec => []((InTime => Order) /\ (Calm => crash # "null"))
<1>1. IInv /\ (InTime => Order) /\ [Next]_vars => (InTime => Order)'
  BY StepOrder DEF IInv
<1>2. IInv /\ (Calm => crash # "null") /\ [Next]_vars => (Calm => crash # "null")'
  BY StepNull DEF IInv
<1>3. Init => (InTime => Order) /\ (Calm => crash # "null")
  BY InitOrder DEF Init
<1> QED
  BY <1>1, <1>2, <1>3, Inductive, PTL DEF SafetySpec
-----------------------------------------------------------------------------
(* The state always has its types: as many services as activities, every     *)
(* file a page of its book or none, and the static field one of them or null *)
(* (VudroidActivity.onCreate and onDestroy, DecodeServiceBase).              *)
THEOREM BookType == SafetySpec => []TypeOK
<1>1. Types => TypeOK
  <2> SUFFICES ASSUME Types PROVE TypeOK
    OBVIOUS
  <2>1. \A b \in Book : /\ DOMAIN file[b] = Page(b)
                        /\ \A n \in Page(b) : file[b][n] \in {NoFile, CutOff} \cup (Book \X Page(b))
    BY DEF Types, Files
  <2>2. /\ Len(act) = Len(serv) /\ DOMAIN act = 1 .. Len(act) /\ DOMAIN serv = 1 .. Len(serv)
    BY LenProperties DEF Types, Pages, Services
  <2>3. \A i \in 1 .. Len(act) : act[i] \in Activity /\ serv[i] \in Service(Len(act)) /\ Sound(serv[i])
    BY <2>2, ServiceTypes
  <2>4. /\ Len(act) <= MaxActs /\ static \in 0 .. Len(act) /\ delayed \subseteq 1 .. Len(act)
        /\ crash \in {"none", "null", "closed"} /\ storage \in {"sound", "failing", "refused"}
    BY DEF Types, Pages
  <2> QED
    BY <2>1, <2>2, <2>3, <2>4 DEF TypeOK, Activity, Service, Sound
<1> QED
  BY <1>1, Inductive, PTL DEF IInv

(* A cut-off picture file is one being written, or the process died or the   *)
(* storage failed (FileUtil.saveBitmap of the decode callbacks).             *)
THEOREM PartialOnlyWhileWritten == SafetySpec => []PartialIsBeingWritten
BY Inductive, PTL DEF IInv

(* A picture file shows the page it is named after, unless an activity was   *)
(* destroyed while it loaded or after another one was created (mBookRender,  *)
(* readImage and onDestroy, which all use the static field).                 *)
THEOREM FilesAlwaysTrue == SafetySpec => []FilesTrueUnlessEarlyOrLate
BY Inductive, PTL DEF IInv

(* No service is asked for its page count while it renders but in those two  *)
(* cases (doNext's getPageCount against the executor's renderBitmap).        *)
THEOREM LibraryAlone == SafetySpec => CountsAlone
<1> DEFINE Alone == \A i \in DOMAIN act : Asks(i) => serv[static].stage # "opened" \/ late \/ torn
<1>1. IInv /\ [Next]_vars => [Alone]_vars
  <2> SUFFICES ASSUME IInv, Next, NEW i \in DOMAIN act, Asks(i)
               PROVE  serv[static].stage # "opened" \/ late \/ torn
    OBVIOUS
  <2>1. DOMAIN act = 1 .. Len(act)
    BY LenProperties DEF IInv, Types, Pages
  <2> QED
    BY <2>1, AloneStep DEF IInv, Calm
<1> QED
  BY <1>1, Inductive, PTL DEF SafetySpec, CountsAlone

(* But in those two cases every message finds a service (mBookRender and     *)
(* onDestroy); and if no picture file was refused either (saveBitmap), the   *)
(* page that is rendered was not evicted when the page after it was opened   *)
(* (DecodeServiceBase.getPage's queue).                                      *)
THEOREM NoCrashInTime == SafetySpec => []CrashesOnlyAfterEarlyOrLate
<1>1. (InTime => Order) /\ (Calm => crash # "null") => CrashesOnlyAfterEarlyOrLate
  BY DEF InTime, Calm, Order, CrashesOnlyAfterEarlyOrLate
<1> QED
  BY <1>1, OrderAlways, PTL
=============================================================================
