------------------------------ MODULE BookReader ------------------------------
(***************************************************************************)
(* The e-book reader: VudroidActivity, its page fragments (ImageFragment)  *)
(* and the decoding service they share through a static field              *)
(* (DecodeServiceBase over the native PDF library).  Three kinds of steps  *)
(* interleave: the user and the system, the messages of the main thread,   *)
(* and the single thread of each service's executor.  Pages become picture *)
(* files, which outlive the process and are never decoded again.           *)
(***************************************************************************)
EXTENDS Integers, Sequences, FiniteSets, SequencesExt

CONSTANTS
  Book,         \* the books, each with a directory of picture files
  PageCount,    \* the number of pages of each book
  Broken,       \* the <<book, page>> the native library throws at when opened
  Garbled,      \* the <<book, page>> it opens, but throws at when it renders them
  PoolSize,     \* PAGE_POOL_SIZE (16 in the code)
  MaxActs,      \* bound of the model: activities created, a death of the process counted as one
  MaxKills      \* bound of the model: deaths of the process

ASSUME BookAssumption == PageCount \in [Book -> Nat] /\ \A b \in Book : PageCount[b] >= 2
ASSUME PoolAssumption == PoolSize \in Nat /\ PoolSize >= 2
ASSUME BoundAssumption == MaxActs \in Nat /\ MaxKills \in Nat

VARIABLES
  file,      \* the picture files of each book: NoFile, CutOff, or the page they show
  storage,   \* the storage: sound, failing, or one that has refused to open a file
  act,       \* the activities, in the order of their creation
  static,    \* VudroidActivity.decodeService: the creator's number, 0 for null
  serv,      \* the services: activity i creates service i
  uiQueue,   \* messages of the main thread
  delayed,   \* activities whose postDelayed(mBookRender, 100) is not due yet
  kills,
  crash,     \* why the process died for good: "none", "null" or "closed"
  late,      \* an onDestroy met another activity's service, or none
  torn       \* an activity was destroyed while it was loading

vars == <<file, storage, act, static, serv, uiQueue, delayed, kills, crash, late, torn>>

Act == 1 .. MaxActs
NoFile == <<>>
CutOff == <<0>>
Page(b) == 0 .. PageCount[b] - 1

(* A fresh DecodeServiceBase: no key in decodingFutures, an empty queue and  *)
(* no cached page; its document is open.                                     *)
NewService == [keys |-> {}, queue |-> <<>>, recycled |-> FALSE,
               pages |-> {}, cleared |-> {}, evict |-> <<>>,
               stage |-> "idle", task |-> <<>>, closed |-> FALSE]
NewActivity(b) == [book |-> b, state |-> "live", mIndex |-> 0, dialog |-> TRUE, cur |-> -1]

Exists(b, n) == n \in Page(b) /\ file[b][n] # NoFile
Loading(i) == act[i].state = "live" /\ act[i].dialog
Alive == crash = "none"
Count(s) == PageCount[act[s].book]

Init ==
  /\ file = [b \in Book |-> [n \in Page(b) |-> NoFile]]
  /\ storage \in {"sound", "failing"}
  /\ act = <<>> /\ serv = <<>> /\ static = 0
  /\ uiQueue = <<>> /\ delayed = {}
  /\ kills = 0 /\ crash = "none" /\ late = FALSE /\ torn = FALSE
-----------------------------------------------------------------------------
(* DecodeServiceBase, called on the main thread                              *)

(* A queue without its element at the only index in a set, if there is one.  *)
Without(queue, indices) ==
  IF indices = {} THEN queue ELSE RemoveAt(queue, CHOOSE a \in indices : TRUE)

(* decodePage: all requests for a book have its directory as their key, so a *)
(* request replaces the one before it, and cancels it when it has not begun. *)
Requested(s, key, n, i, kind) ==
  IF s.recycled THEN s
  ELSE [s EXCEPT !.keys = @ \cup {key},
                 !.queue = Append(Without(@, {a \in DOMAIN @ : @[a].key = key}),
                                  [key |-> key, page |-> n, by |-> i, kind |-> kind])]

(* recycle: every future is cancelled; the pages and the document are freed  *)
(* by a last task of the executor.                                           *)
Recycled(s) ==
  [s EXCEPT !.recycled = TRUE, !.keys = {}, !.queue = <<[kind |-> "recycle"]>>]
-----------------------------------------------------------------------------
(* The executor's thread                                                     *)

GotOneFewer(s, n) ==      \* mutant: >= PAGE_POOL_SIZE
  IF n \in s.pages \ s.cleared THEN s
  ELSE LET q == Append(Without(s.evict, {a \in DOMAIN s.evict : s.evict[a] = n}), n)
           over == Len(q) >= PoolSize
       IN  [s EXCEPT !.evict = IF over THEN Tail(q) ELSE q,
                     !.pages = (@ \cup {n}) \ (IF over THEN {Head(q)} ELSE {}),
                     !.cleared = @ \ ({n} \cup (IF over THEN {Head(q)} ELSE {}))]
GotKeepsCleared(s, n) ==  \* mutant: the evicted page's reference stays cleared
  IF n \in s.pages \ s.cleared THEN s
  ELSE LET q == Append(Without(s.evict, {a \in DOMAIN s.evict : s.evict[a] = n}), n)
           over == Len(q) > PoolSize
       IN  [s EXCEPT !.evict = IF over THEN Tail(q) ELSE q,
                     !.pages = (@ \cup {n}) \ (IF over THEN {Head(q)} ELSE {}),
                     !.cleared = @ \ {n}]

(* getPage: a page that is cached keeps its place in the queue; one that is  *)
(* opened goes to the end, and the head is recycled when there are too many. *)
Got(s, n) ==
  IF n \in s.pages \ s.cleared THEN s
  ELSE LET q == Append(Without(s.evict, {a \in DOMAIN s.evict : s.evict[a] = n}), n)
           over == Len(q) > PoolSize
       IN  [s EXCEPT !.evict = IF over THEN Tail(q) ELSE q,
                     !.pages = (@ \cup {n}) \ (IF over THEN {Head(q)} ELSE {}),
                     !.cleared = @ \ ({n} \cup (IF over THEN {Head(q)} ELSE {}))]

(* The native library throws for a broken page and for one beyond the end.   *)
Opens(s, n) == n < Count(s) /\ <<act[s].book, n>> \notin Broken
Cached(s, n) == n \in serv[s].pages \ serv[s].cleared

Waiting(s) == Alive /\ serv[s].stage = "idle" /\ serv[s].queue # <<>>
Taken(s) == [serv[s] EXCEPT !.queue = Tail(@)]
Executor == <<storage, act, static, delayed, kills, late, torn>>

(* The last task: every page, then the document.                             *)
FreeAll(s) ==
  /\ Waiting(s) /\ Head(serv[s].queue).kind = "recycle"
  /\ serv' = [serv EXCEPT ![s] =
       [Taken(s) EXCEPT !.pages = {}, !.cleared = {}, !.evict = <<>>]]
  /\ UNCHANGED <<file, uiQueue, crash, Executor>>

(* performDecode begins: the page and the one after it are opened.  What the *)
(* library throws ends the task, and its Future keeps it to itself.          *)
OpenPages(s) ==
  /\ Waiting(s) /\ Head(serv[s].queue).kind # "recycle"
  /\ LET t == Head(serv[s].queue)
         last == t.page + 1 >= Count(s)
     IN  \/ /\ ~Cached(s, t.page) /\ ~Opens(s, t.page)
            /\ serv' = [serv EXCEPT ![s] = Taken(s)]
         \/ /\ Cached(s, t.page) \/ Opens(s, t.page)
            /\ \E one \in {Got(Taken(s), t.page)} :
                 \E two \in {IF last THEN one ELSE Got(one, t.page + 1)} :
                   serv' = [serv EXCEPT ![s] =
                     IF ~last /\ ~Opens(s, t.page + 1) THEN one
                     ELSE [two EXCEPT !.stage = "opened", !.task = t,
                                      !.closed = t.page \notin two.pages]]
  /\ UNCHANGED <<file, uiQueue, crash, Executor>>

Rest(s) == [serv[s] EXCEPT !.stage = "idle", !.task = <<>>, !.closed = FALSE]
Dead(s) == serv[s].task.key \notin serv[s].keys

(* calculateScale and renderBitmap, unless the task is dead.  A page that    *)
(* was recycled meanwhile has no native handle to render; what rendering     *)
(* throws ends the task, and its Future keeps it.                            *)
Renders(s) == <<act[s].book, serv[s].task.page>> \notin Garbled
Render(s) ==
  /\ Alive /\ serv[s].stage = "opened"
  /\ \/ /\ Dead(s) \/ (~serv[s].closed /\ ~Renders(s))
        /\ serv' = [serv EXCEPT ![s] = Rest(s)]
        /\ UNCHANGED crash
     \/ /\ ~Dead(s) /\ ~serv[s].closed /\ Renders(s)
        /\ serv' = [serv EXCEPT ![s].stage = "rendered"]
        /\ UNCHANGED crash
     \/ ~Dead(s) /\ serv[s].closed /\ crash' = "closed" /\ UNCHANGED serv
  /\ UNCHANGED <<file, uiQueue, Executor>>

(* The callback saves the picture: the file exists from the moment it is     *)
(* opened for writing.  When the directory or the file cannot be made,       *)
(* saveBitmap keeps the exception to itself and the callback goes on.        *)
SaveBegins(s) ==
  /\ Alive /\ serv[s].stage = "rendered"
  /\ \/ /\ Dead(s)
        /\ serv' = [serv EXCEPT ![s] = Rest(s)]
        /\ UNCHANGED <<file, storage>>
     \/ /\ ~Dead(s)
        /\ serv' = [serv EXCEPT ![s].stage = "saving"]
        /\ file' = [file EXCEPT ![serv[s].task.key][serv[s].task.page] = CutOff]
        /\ UNCHANGED storage
     \/ /\ ~Dead(s) /\ storage # "sound"
        /\ serv' = [serv EXCEPT ![s].stage = "saved"]
        /\ storage' = "refused"
        /\ UNCHANGED file
  /\ UNCHANGED <<uiQueue, crash, act, static, delayed, kills, late, torn>>

Written(s) ==
  [file EXCEPT ![serv[s].task.key][serv[s].task.page] = <<act[s].book, serv[s].task.page>>]

SaveEndsUnlessDead(s) ==  \* mutant: a dead task leaves the file as it is
  /\ Alive /\ serv[s].stage = "saving"
  /\ serv' = [serv EXCEPT ![s].stage = "saved"]
  /\ \/ ~Dead(s) /\ file' = Written(s)
     \/ (storage # "sound" \/ Dead(s)) /\ UNCHANGED file
  /\ UNCHANGED <<uiQueue, crash, Executor>>

(* The picture is written, or stays cut off on a storage that fails.         *)
SaveEnds(s) ==
  /\ Alive /\ serv[s].stage = "saving"
  /\ serv' = [serv EXCEPT ![s].stage = "saved"]
  /\ \/ file' = Written(s)
     \/ storage # "sound" /\ UNCHANGED file
  /\ UNCHANGED <<uiQueue, crash, Executor>>

(* doNext: on to the second page, or to the pages' display.  After the first *)
(* page it asks the service the static field names now, if any.              *)
NoService(i) == static = 0 /\ act[i].mIndex + 1 < 2
More(i) == act[i].mIndex + 1 < 2 /\ act[i].mIndex + 1 < Count(static)
doNext(i) ==
  /\ act' = [act EXCEPT ![i].mIndex = @ + 1]
  /\ uiQueue' = Append(uiQueue, <<IF More(i) THEN "render" ELSE "show", i>>)

(* The end of the callback: of VudroidActivity's, where a null static field  *)
(* ends the task; of ImageFragment's, where a destroyed activity does.       *)
CallsBack(s) ==
  /\ Alive /\ serv[s].stage = "saved"
  /\ serv' = [serv EXCEPT ![s] = Rest(s)]
  /\ LET t == serv[s].task IN
     \/ t.kind = "book" /\ ~NoService(t.by) /\ doNext(t.by)
     \/ /\ t.kind = "book" /\ NoService(t.by)
        /\ act' = [act EXCEPT ![t.by].mIndex = @ + 1]
        /\ UNCHANGED uiQueue
     \/ /\ t.kind = "page"
        /\ uiQueue' = IF act[t.by].state = "destroyed" THEN uiQueue
                      ELSE Append(uiQueue, <<"page", t.by>>)
        /\ UNCHANGED act
  /\ UNCHANGED <<file, storage, static, delayed, kills, crash, late, torn>>

(* The collector clears a SoftReference; the finalizer frees the page.  It   *)
(* may at any time, but never the page a task holds, and makes a difference  *)
(* to the next task only, so it is modelled while one waits.                 *)
Collect(s, n) ==
  /\ Waiting(s) /\ Cached(s, n) /\ ~serv[s].recycled
  /\ serv' = [serv EXCEPT ![s].cleared = @ \cup {n}]
  /\ UNCHANGED <<file, uiQueue, crash, Executor>>

ExecutorStep ==
  \E s \in DOMAIN serv :
    FreeAll(s) \/ OpenPages(s) \/ Render(s) \/ SaveBegins(s) \/ SaveEnds(s) \/ CallsBack(s)
-----------------------------------------------------------------------------
(* The main thread's messages                                                *)

(* mBookRender: request the page, or go on when its file exists.             *)
BookRender(i) ==
  LET b == act[i].book
      n == act[i].mIndex
  IN  \/ /\ IF Exists(b, n) THEN NoService(i) ELSE static = 0
         /\ crash' = "null"
         /\ act' = IF Exists(b, n) THEN [act EXCEPT ![i].mIndex = @ + 1] ELSE act
         /\ UNCHANGED serv
      \/ /\ ~NoService(i) /\ Exists(b, n)
         /\ act' = [act EXCEPT ![i].mIndex = @ + 1]
         /\ UNCHANGED <<serv, crash>>
      \/ /\ static # 0 /\ ~Exists(b, n)
         /\ serv' = [serv EXCEPT ![static] = Requested(@, b, n, i, "book")]
         /\ UNCHANGED <<act, crash>>

PostedNothing(i) == <<>>   \* mutant: the else branch is missing

(* What mBookRender's doNext posts behind the messages that are waiting.     *)
Posted(i) ==
  IF ~NoService(i) /\ Exists(act[i].book, act[i].mIndex)
  THEN <<<<IF More(i) THEN "render" ELSE "show", i>>>> ELSE <<>>

DeliverDelayed(i) ==
  /\ Alive /\ i \in delayed
  /\ delayed' = delayed \ {i}
  /\ BookRender(i)
  /\ uiQueue' = uiQueue \o Posted(i)
  /\ UNCHANGED <<file, storage, static, kills, late, torn>>

Deliver ==
  /\ Alive /\ uiQueue # <<>>
  /\ LET what == Head(uiQueue)[1]
         i == Head(uiQueue)[2]
     IN  \/ /\ what = "render"
            /\ BookRender(i)
            /\ uiQueue' = Tail(uiQueue) \o Posted(i)
         \/ /\ what = "show"       \* showContent
            /\ act' = [act EXCEPT ![i].dialog = FALSE, ![i].cur = 0]
            /\ uiQueue' = Tail(uiQueue)
            /\ UNCHANGED <<serv, crash>>
         \/ /\ what = "page"       \* the fragment shows the bitmap
            /\ act' = [act EXCEPT ![i].dialog = FALSE]
            /\ uiQueue' = Tail(uiQueue)
            /\ UNCHANGED <<serv, crash>>
  /\ UNCHANGED <<file, storage, static, delayed, kills, late, torn>>

UiStep == Deliver \/ \E i \in delayed : DeliverDelayed(i)
-----------------------------------------------------------------------------
(* The user and the system                                                   *)

NoneLive == \A i \in DOMAIN act : act[i].state # "live"

CreatedOnce(b, acts, servs) ==  \* mutant: the service is only set when null
  /\ Len(acts) + kills < MaxActs
  /\ act' = Append(acts, NewActivity(b))
  /\ serv' = Append(servs, NewService)
  /\ static' = IF static = 0 THEN Len(acts) + 1 ELSE static
  /\ delayed' = delayed \cup {Len(acts) + 1}

(* onCreate and readBook.                                                    *)
Created(b, acts, servs) ==
  /\ Len(acts) + kills < MaxActs
  /\ act' = Append(acts, NewActivity(b))
  /\ serv' = Append(servs, NewService)
  /\ static' = Len(acts) + 1
  /\ delayed' = delayed \cup {Len(acts) + 1}

Open(b) ==
  /\ Alive /\ NoneLive
  /\ Created(b, act, serv)
  /\ UNCHANGED <<file, storage, uiQueue, kills, crash, late, torn>>

(* A page is one swipe away; the dialog of a page that loads is modal.       *)
(* setUserVisibleHint and readImage.                                         *)
Swipe(i) ==
  /\ Alive /\ act[i].state = "live" /\ ~act[i].dialog
  /\ \E n \in Page(act[i].book) \cap {act[i].cur - 1, act[i].cur + 1} :
       LET read == ~Exists(act[i].book, n) /\ static # 0 IN
       /\ act' = [act EXCEPT ![i].cur = n, ![i].dialog = read]
       /\ serv' = IF read
                  THEN [serv EXCEPT ![static] = Requested(@, act[i].book, n, i, "page")]
                  ELSE serv
  /\ UNCHANGED <<file, storage, static, uiQueue, delayed, kills, crash, late, torn>>

BackWhileLoading(i) ==    \* mutant: the dialog can be left
  /\ Alive /\ act[i].state = "live"
  /\ act' = [act EXCEPT ![i].state = "finished"]
  /\ UNCHANGED <<file, storage, static, serv, uiQueue, delayed, kills, crash, late, torn>>

(* finish: the activity's onDestroy comes when the main thread is idle,      *)
(* perhaps after another one was created.                                    *)
Back(i) ==
  /\ Alive /\ act[i].state = "live" /\ ~act[i].dialog
  /\ act' = [act EXCEPT ![i].state = "finished"]
  /\ UNCHANGED <<file, storage, static, serv, uiQueue, delayed, kills, crash, late, torn>>

(* onDestroy, for whichever service the static field names.                  *)
Gone(i) == [act EXCEPT ![i].state = "destroyed"]
onDestroy(i) ==
  /\ serv' = IF static # 0 THEN [serv EXCEPT ![static] = Recycled(@)] ELSE serv
  /\ static' = 0
  /\ act' = Gone(i)
  /\ crash' = IF static = 0 THEN "null" ELSE crash
  /\ late' = (late \/ static # i)

Destroy(i) ==
  /\ Alive /\ act[i].state = "finished"
  /\ onDestroy(i)
  /\ UNCHANGED <<file, storage, uiQueue, delayed, kills, torn>>

(* The system destroys an activity that is not in front, loading or not.     *)
DestroyUnseen(i) ==
  /\ Alive /\ act[i].state = "live"
  /\ onDestroy(i)
  /\ torn' = (torn \/ act[i].dialog)
  /\ UNCHANGED <<file, storage, uiQueue, delayed, kills>>

(* A configuration change that the manifest does not list: onDestroy of the  *)
(* old activity and onCreate of the new one, in one message.  Without a      *)
(* service onDestroy throws, as in DestroyUnseen.                            *)
Relaunch(i) ==
  /\ Alive /\ act[i].state = "live" /\ static # 0
  /\ Created(act[i].book, Gone(i), [serv EXCEPT ![static] = Recycled(@)])
  /\ late' = (late \/ static # i)
  /\ torn' = (torn \/ act[i].dialog)
  /\ UNCHANGED <<file, storage, uiQueue, kills, crash>>

(* The process dies and comes back: only the files stay.                     *)
Kill ==
  /\ Alive /\ kills < MaxKills
  /\ act' = <<>> /\ serv' = <<>> /\ static' = 0
  /\ uiQueue' = <<>> /\ delayed' = {}
  /\ kills' = kills + 1
  /\ UNCHANGED <<file, storage, crash, late, torn>>

UserStep ==
  \/ \E b \in Book : Open(b)
  \/ \E i \in DOMAIN act :
       Swipe(i) \/ Back(i) \/ Destroy(i) \/ DestroyUnseen(i) \/ Relaunch(i)
  \/ \E s \in DOMAIN serv : \E n \in serv[s].pages : Collect(s, n)
  \/ Kill

Next == ExecutorStep \/ UiStep \/ UserStep

(* The main thread delivers its messages and every executor runs its tasks.  *)
SafetySpec == Init /\ [][Next]_vars
Spec == SafetySpec /\ WF_vars(Deliver)
        /\ \A i \in Act : WF_vars(DeliverDelayed(i))
        /\ \A s \in Act : WF_vars(s \in DOMAIN serv /\
             (OpenPages(s) \/ Render(s) \/ SaveBegins(s) \/ SaveEnds(s) \/ CallsBack(s) \/ FreeAll(s)))
-----------------------------------------------------------------------------
(* PROPERTIES                                                                *)

TypeOK ==
  /\ \A b \in Book : /\ DOMAIN file[b] = Page(b)
                     /\ \A n \in Page(b) : file[b][n] \in {NoFile, CutOff} \cup (Book \X Page(b))
  /\ Len(act) = Len(serv) /\ Len(act) <= MaxActs /\ static \in 0 .. Len(act)
  /\ delayed \subseteq DOMAIN act
  /\ \A i \in DOMAIN act :
       /\ act[i].book \in Book /\ act[i].mIndex \in Nat
       /\ act[i].state \in {"live", "finished", "destroyed"}
  /\ \A s \in DOMAIN serv :
       /\ serv[s].stage \in {"idle", "opened", "rendered", "saving", "saved"}
       /\ serv[s].cleared \subseteq serv[s].pages /\ serv[s].pages \subseteq Nat
       /\ serv[s].keys \subseteq Book
  /\ crash \in {"none", "null", "closed"} /\ storage \in {"sound", "failing", "refused"}

(* A picture file, which is never decoded again, shows the page it is named  *)
(* after.                                                                    *)
FileHoldsItsPage ==
  \A b \in Book : \A n \in DOMAIN file[b] : file[b][n] \in {NoFile, CutOff, <<b, n>>}

(* It does unless an activity was destroyed while it loaded or after another *)
(* one was created: requests go to the service the static field names when   *)
(* their message is delivered, and never to the one of another book but then. *)
FilesTrueUnlessEarlyOrLate == FileHoldsItsPage \/ late \/ torn

(* A cut-off file, which every later reader takes for the page, is one being *)
(* written or what a killed process or a failing storage left.               *)
PartialIsBeingWritten ==
  \A b \in Book : \A n \in DOMAIN file[b] :
    file[b][n] = CutOff =>
      \/ storage # "sound" \/ kills > 0
      \/ \E s \in DOMAIN serv : serv[s].stage = "saving" /\ serv[s].task.page = n
                                 /\ serv[s].task.key = b

(* No message meets a null service, unless an activity was destroyed while   *)
(* it loaded or after another one was created.  And opening the next page    *)
(* never recycles the page about to be rendered: a page keeps its old place  *)
(* in the queue when it is asked for again, but one whose picture is saved   *)
(* is not asked for again.  It is when the storage has refused to open its   *)
(* file, and then preloading may recycle the page in use.                    *)
CrashesOnlyAfterEarlyOrLate ==
  /\ crash = "null" => late \/ torn
  /\ crash = "closed" => late \/ torn \/ storage = "refused"

(* The PDF library locks nothing.  No page count runs beside rendering: when *)
(* doNext on the main thread or on another service's executor asks a service *)
(* for its page count, that service's executor is not rendering, unless an   *)
(* activity was destroyed too early or too late.                             *)
Asks(i) == i \in DOMAIN act' /\ act'[i].mIndex = 1 /\ act[i].mIndex = 0 /\ static # 0
CountsAlone ==
  [][\A i \in DOMAIN act : Asks(i) => serv[static].stage # "opened" \/ late \/ torn]_vars

(* The dialog that blocks the reader closes again, unless the page asked for *)
(* or the next one is broken, the page asked for cannot be rendered, or an   *)
(* activity was destroyed while loading.                                     *)
Unreadable(i) ==
  \E n \in {act[i].mIndex, act[i].cur} :
    \/ {<<act[i].book, n>>, <<act[i].book, n + 1>>} \cap Broken # {}
    \/ <<act[i].book, n>> \in Garbled
LoadingEnds ==
  \A i \in Act :
    (i \in DOMAIN act /\ Loading(i)) ~>
      \/ ~(i \in DOMAIN act /\ Loading(i))
      \/ ~Alive \/ late \/ torn \/ Unreadable(i)
=============================================================================
