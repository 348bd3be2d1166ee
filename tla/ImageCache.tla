------------------------------ MODULE ImageCache ------------------------------
(***************************************************************************)
(* The picture cache of the performance module: ImageCache.java with its   *)
(* thread pools and its RenderHandler, driven by ImageCacheActivity (one   *)
(* placeholder view, or a list whose rows are recycled) and by             *)
(* ImageListAdapter.  The main thread runs the activity's callbacks and    *)
(* the handler's messages; each pool thread runs LoadRunnable; the disk    *)
(* survives the process.                                                   *)
(***************************************************************************)
EXTENDS ImageMemory, FiniteSets

CONSTANTS PlaceImg, ListImg,  \* the addresses of the two buttons
          HolderView,         \* iv_cache
          RowView,            \* the row views of lv_cache
          OffScreen,          \* any view of a replaced adapter or activity
          ThreadCount,        \* mThreadCount
          MaxPools,           \* bound: initConfig calls in one process
          MaxPending          \* bound: loads that are not yet rendered

Visible == {HolderView} \cup RowView
View == Visible \cup {OffScreen}

ASSUME CacheAssumption ==
    /\ PlaceImg \subseteq Url /\ ListImg \subseteq Url
    /\ HolderView \notin RowView /\ OffScreen \notin Visible
    /\ None \notin View
    /\ ThreadCount \in Nat \ {0}
    /\ MaxPools \in Nat /\ MaxPending \in Nat

VARIABLES activity,     \* "gone", "stopped" or "started"
          mode,         \* which button was clicked last in this activity
          inst,         \* mCache # null
          mConfig,      \* the configuration of the current instance
          handlerAct,   \* what RenderHandler.mActivity refers to
          adapterStale, \* the adapter holds an instance that was cleared
          mem,          \* mImageMap, mFifoList, mImageLru
          mViewMap,     \* address -> view
          shown,        \* view -> what it displays
          asked,        \* history: view -> the address it was last asked to show
          pools,        \* every ThreadPoolExecutor of the process, current last
          looper,       \* results posted to mHandler
          file,         \* the cached file of an address
          crashed,      \* the exception that ended the process
          cleared       \* history: clear() ran in this process

ui == <<activity, mode, adapterStale>>
cache == <<inst, mConfig, handlerAct, mem, mViewMap>>
screen == <<shown, asked>>
vars == <<ui, cache, screen, pools, looper, file, crashed, cleared>>

\* The configurations the two buttons build.
HolderConfig == [style |-> "LRU", beginImage |-> TRUE, errorImage |-> TRUE]
ListConfig == [style |-> "FIFO", beginImage |-> FALSE, errorImage |-> FALSE]
Config == {HolderConfig, ListConfig}

ASSUME ConfigAssumption == None \notin Config

\* mapped: the view displays the very bitmap that mImageMap holds.
Plain(kind) == [kind |-> kind, pic |-> None, mapped |-> FALSE]
Display == {Plain(k) : k \in {"blank", "begin", "error", "recycled"}}
           \cup [kind : {"picture"}, pic : Pic, mapped : BOOLEAN]

FileState == {"absent", "torn", "complete"}
Thread == 1..ThreadCount
Idle == [phase |-> "idle", url |-> None]
Job == {Idle} \cup [phase : {"fetch", "save"}, url : Url]
Pool == [queue : Seq(Url), run : [Thread -> Job]]
NewPool == [queue |-> <<>>, run |-> [t \in Thread |-> Idle]]
Result == [url : Url, pic : Pic \cup {None}]

NoView == [u \in Url |-> None]
Alive == crashed = "no"

Loading == {w \in (1..MaxPools) \X Thread :
              w[1] <= Len(pools) /\ pools[w[1]].run[w[2]] # Idle}
Waiting == {w \in (1..MaxPools) \X (1..MaxPending) :
              w[1] <= Len(pools) /\ w[2] <= Len(pools[w[1]].queue)}
Pending == Cardinality(Loading) + Cardinality(Waiting) + Len(looper)

-----------------------------------------------------------------------------
\* What a decoder makes of a file: nothing or a part of a torn one.
openBitmap(u) ==
    CASE file[u] = "absent"   -> {None}
      [] file[u] = "complete" -> {[url |-> u, whole |-> TRUE]}
      [] file[u] = "torn"     -> {None, [url |-> u, whole |-> FALSE]}

\* A view's drawable is replaced; nothing is observed of an off-screen one.
Draw(screenshot, v, d) == [w \in Visible |-> IF w = v THEN d ELSE screenshot[w]]

\* The bitmaps of the addresses in gone leave mImageMap.
Unmap(screenshot, gone) ==
    [w \in Visible |->
        IF screenshot[w].mapped /\ screenshot[w].pic.url \in gone
        THEN [screenshot[w] EXCEPT !.mapped = FALSE] ELSE screenshot[w]]

Evicted(m, n) == {u \in Url : m.imageMap[u] # None /\ n.imageMap[u] = None}

\* render, for a view and a configuration that are there.  A bitmap of an
\* address already in memory is displayed and not stored.
Render(style, m, screenshot, u, v, pic, fromMemory) ==
    LET stored == ~isExist(style, m, u)
        n == IF stored THEN refreshList(style, m, u, pic) ELSE Touch(style, m, u)
    IN /\ mem' = n
       /\ shown' = Draw(Unmap(screenshot, Evicted(m, n)), v,
                        [kind |-> "picture", pic |-> pic,
                         mapped |-> style = "FIFO" /\ (stored \/ fromMemory)])

\* Mutant: the view also forgets the address it was bound to before.
Rebind(u, v) == mViewMap' = [w \in Url |-> IF w = u THEN v
                                            ELSE IF mViewMap[w] = v THEN None ELSE mViewMap[w]]

\* mViewMap.put(url, iv): earlier addresses of the view keep it.
Bind(u, v) == mViewMap' = [mViewMap EXCEPT ![u] = v]

\* show(u, v) under configuration c with memory m and pools ps.
show(c, m, ps, u, v) ==
    LET start == Draw(shown, v, Plain(IF c.beginImage THEN "begin" ELSE "blank"))
        opened == IF isExist(c.style, m, u) THEN {Lookup(c.style, m, u)}
                  ELSE openBitmap(u)
    IN /\ Bind(u, v)
       /\ asked' = [asked EXCEPT ![v] = u]
       /\ \E pic \in opened :
            \/ /\ pic # None
               /\ Render(c.style, m, start, u, v, pic, isExist(c.style, m, u))
               /\ pools' = ps
            \/ /\ pic = None
               /\ pools' = [ps EXCEPT ![Len(ps)].queue = Append(@, u)]
               /\ mem' = m /\ shown' = start

\* initConfig: a new pool each time, the old ones keep running.
initConfig(c) ==
    /\ Len(pools) < MaxPools
    /\ mConfig' = c
    /\ handlerAct' = "current"

-----------------------------------------------------------------------------
\* onClick of btn_cache_holder.
HolderClick(u) ==
    /\ Alive /\ activity = "started" /\ Pending < MaxPending
    /\ mode' = "holder"
    /\ initConfig(HolderConfig)
    /\ show(HolderConfig, Configured("LRU", mem), Append(pools, NewPool), u, HolderView)
    /\ UNCHANGED <<activity, adapterStale, inst, looper, file, crashed, cleared>>

\* onClick of btn_cache_list: a new adapter, whose rows are new views.
ListClick ==
    /\ Alive /\ activity = "started"
    /\ mode' = "list" /\ adapterStale' = FALSE
    /\ initConfig(ListConfig)
    /\ mem' = Configured("FIFO", mem)
    /\ pools' = Append(pools, NewPool)
    /\ mViewMap' = [u \in Url |-> IF mViewMap[u] \in RowView THEN OffScreen ELSE mViewMap[u]]
    /\ shown' = [v \in Visible |-> IF v \in RowView THEN Plain("blank") ELSE shown[v]]
    /\ asked' = [v \in Visible |-> IF v \in RowView THEN None ELSE asked[v]]
    /\ UNCHANGED <<activity, inst, looper, file, crashed, cleared>>

\* getView binds a new or a recycled row to an address of the list.
GetView(u, v) ==
    /\ Alive /\ activity = "started" /\ mode = "list" /\ ~adapterStale
    /\ Pending < MaxPending
    /\ show(ListConfig, mem, pools, u, v)
    /\ UNCHANGED <<ui, inst, mConfig, handlerAct, looper, file, crashed, cleared>>

\* getView of an adapter that outlived its cache: the instance it holds asks
\* mCache.mConfig, which the new instance does not have.
StaleGetView ==
    /\ Alive /\ activity = "started" /\ mode = "list" /\ adapterStale
    /\ crashed' = "adapter"
    /\ UNCHANGED <<ui, cache, screen, pools, looper, file, cleared>>

\* Drawing a view whose bitmap was recycled throws.
Redraw(v) ==
    /\ Alive /\ activity = "started"
    /\ mode = (IF v = HolderView THEN "holder" ELSE "list")
    /\ shown[v].kind = "recycled"
    /\ crashed' = "recycled"
    /\ UNCHANGED <<ui, cache, screen, pools, looper, file, cleared>>

-----------------------------------------------------------------------------
\* A new activity object: onCreate and onStart.
Launch ==
    /\ Alive /\ activity = "gone"
    /\ activity' = "started" /\ mode' = "none" /\ adapterStale' = FALSE
    /\ inst' = TRUE
    /\ handlerAct' = IF handlerAct = "current" THEN "old" ELSE handlerAct
    /\ shown' = [v \in Visible |-> Plain("blank")]
    /\ asked' = [v \in Visible |-> None]
    /\ UNCHANGED <<mConfig, mem, mViewMap, pools, looper, file, crashed, cleared>>

\* onStart of a stopped activity: a new instance without a configuration.
Restart ==
    /\ Alive /\ activity = "stopped"
    /\ activity' = "started"
    /\ inst' = TRUE
    /\ UNCHANGED <<mode, adapterStale, mConfig, handlerAct, mem, mViewMap, screen,
                   pools, looper, file, crashed, cleared>>

\* Mutant: clear() keeps the instance.
ClearKeepingInstance ==
    /\ UNCHANGED <<inst, mConfig>> /\ mem' = EmptyMemory /\ mViewMap' = NoView
    /\ shown' = [v \in Visible |->
                   IF shown[v].mapped THEN Plain("recycled") ELSE shown[v]]

\* The bitmaps of mImageMap are recycled, those of mImageLru are not.
clear ==
    /\ inst' = FALSE /\ mConfig' = None /\ mem' = EmptyMemory /\ mViewMap' = NoView
    /\ shown' = [v \in Visible |->
                   IF shown[v].mapped THEN Plain("recycled") ELSE shown[v]]

\* onStop calls clear().
Stop ==
    /\ Alive /\ activity = "started"
    /\ activity' = "stopped"
    /\ adapterStale' = (mode = "list")
    /\ clear
    /\ cleared' = TRUE
    /\ UNCHANGED <<mode, handlerAct, asked, pools, looper, file, crashed>>

Destroy ==
    /\ Alive /\ activity = "stopped"
    /\ activity' = "gone"
    /\ UNCHANGED <<mode, adapterStale, cache, screen, pools, looper, file, crashed, cleared>>

\* The weak reference to a replaced activity is cleared.
Collect ==
    /\ Alive /\ handlerAct = "old"
    /\ handlerAct' = "collected"
    /\ UNCHANGED <<ui, inst, mConfig, mem, mViewMap, screen, pools, looper, file,
                   crashed, cleared>>

\* The process ends, by a crash or by the system, and is later started anew.
Kill ==
    /\ activity' = "gone" /\ mode' = "none" /\ adapterStale' = FALSE
    /\ inst' = FALSE /\ mConfig' = None /\ handlerAct' = "none"
    /\ mem' = EmptyMemory /\ mViewMap' = NoView
    /\ shown' = [v \in Visible |-> Plain("blank")] /\ asked' = [v \in Visible |-> None]
    /\ pools' = <<>> /\ looper' = <<>>
    /\ crashed' = "no" /\ cleared' = FALSE
    /\ UNCHANGED file

-----------------------------------------------------------------------------
\* LoadRunnable.run on thread t of pool p.
Thr(p, t) == p \in 1..Len(pools) /\ Alive
Job1(p, t, job) == pools' = [pools EXCEPT ![p].run[t] = job]
Post(u, pic) == looper' = Append(looper, [url |-> u, pic |-> pic])

\* The pool hands a load to an idle thread; it ends at once when the activity
\* the handler refers to is gone.
Take(p, t) ==
    /\ Thr(p, t) /\ pools[p].run[t] = Idle /\ pools[p].queue # <<>>
    /\ pools' = [pools EXCEPT ![p].queue = Tail(@),
                    ![p].run[t] = IF handlerAct = "collected" THEN Idle
                                  ELSE [phase |-> "fetch", url |-> Head(pools[p].queue)]]
    /\ UNCHANGED <<ui, cache, screen, looper, file, crashed, cleared>>

\* Mutant: a failed load posts nothing.
FetchFailSilently(p, t) ==
    /\ Thr(p, t) /\ pools[p].run[t].phase = "fetch"
    /\ Job1(p, t, Idle)
    /\ UNCHANGED <<ui, cache, screen, looper, file, crashed, cleared>>

\* getImage returned null.
FetchFail(p, t) ==
    /\ Thr(p, t) /\ pools[p].run[t].phase = "fetch"
    /\ Post(pools[p].run[t].url, None)
    /\ Job1(p, t, Idle)
    /\ UNCHANGED <<ui, cache, screen, file, crashed, cleared>>

\* getImage returned a bitmap and saveBitmap opened, and so truncated, the file.
FetchOk(p, t) ==
    /\ Thr(p, t) /\ pools[p].run[t].phase = "fetch"
    /\ file' = [file EXCEPT ![pools[p].run[t].url] = "torn"]
    /\ Job1(p, t, [phase |-> "save", url |-> pools[p].run[t].url])
    /\ UNCHANGED <<ui, cache, screen, looper, crashed, cleared>>

\* getImage returned a bitmap and the file could not be opened.
FetchUnsaved(p, t) ==
    /\ Thr(p, t) /\ pools[p].run[t].phase = "fetch"
    /\ Post(pools[p].run[t].url, [url |-> pools[p].run[t].url, whole |-> TRUE])
    /\ Job1(p, t, Idle)
    /\ UNCHANGED <<ui, cache, screen, file, crashed, cleared>>

\* saveBitmap returns, having written everything or failed on the way; the
\* bitmap is posted either way.
SaveEnds(p, t, ok) ==
    /\ Thr(p, t) /\ pools[p].run[t].phase = "save"
    /\ LET u == pools[p].run[t].url
           shared == \E w \in Loading : w # <<p, t>> /\
                        pools[w[1]].run[w[2]] = [phase |-> "save", url |-> u]
       IN /\ file' = IF ok /\ ~shared THEN [file EXCEPT ![u] = "complete"] ELSE file
          /\ Post(u, [url |-> u, whole |-> TRUE])
    /\ Job1(p, t, Idle)
    /\ UNCHANGED <<ui, cache, screen, crashed, cleared>>

Load(p, t) == \/ Take(p, t) \/ FetchFail(p, t) \/ FetchOk(p, t)
              \/ FetchUnsaved(p, t) \/ \E ok \in BOOLEAN : SaveEnds(p, t, ok)

-----------------------------------------------------------------------------
\* RenderHandler.handleMessage on the main thread.
NextMessage == /\ Alive /\ looper # <<>>
               /\ looper' = Tail(looper)
               /\ UNCHANGED <<ui, inst, mConfig, handlerAct, mViewMap, asked, pools,
                              file, cleared>>

\* render and showError dereference the instance, its configuration and the view.
Missing(u) == ~inst \/ mConfig = None \/ mViewMap[u] = None

DropMessage ==
    /\ NextMessage /\ handlerAct = "collected"
    /\ UNCHANGED <<mem, shown, crashed>>

\* Mutant: the test for a null bitmap is missing.
RenderUnchecked ==
    /\ NextMessage /\ handlerAct # "collected"
    /\ LET r == Head(looper) IN
       /\ ~Missing(r.url)
       /\ Render(mConfig.style, mem, shown, r.url, mViewMap[r.url], r.pic, FALSE)
    /\ UNCHANGED crashed

RenderMessage ==
    /\ NextMessage /\ handlerAct # "collected"
    /\ LET r == Head(looper) IN
       /\ r.pic # None /\ ~Missing(r.url)
       /\ Render(mConfig.style, mem, shown, r.url, mViewMap[r.url], r.pic, FALSE)
    /\ UNCHANGED crashed

showError ==
    /\ NextMessage /\ handlerAct # "collected"
    /\ LET r == Head(looper) IN
       /\ r.pic = None /\ inst /\ mConfig # None
       /\ mConfig.errorImage => mViewMap[r.url] # None
       /\ shown' = IF mConfig.errorImage
                   THEN Draw(shown, mViewMap[r.url], Plain("error")) ELSE shown
    /\ UNCHANGED <<mem, crashed>>

LateMessage ==
    /\ NextMessage /\ handlerAct # "collected"
    /\ LET r == Head(looper) IN
       \/ r.pic # None /\ Missing(r.url)
       \/ r.pic = None /\ (~inst \/ mConfig = None)
       \/ r.pic = None /\ inst /\ mConfig # None /\ mConfig.errorImage /\ Missing(r.url)
    /\ crashed' = "late"
    /\ UNCHANGED <<mem, shown>>

HandleMessage == DropMessage \/ RenderMessage \/ showError \/ LateMessage

-----------------------------------------------------------------------------
Init ==
    /\ activity = "gone" /\ mode = "none" /\ adapterStale = FALSE
    /\ inst = FALSE /\ mConfig = None /\ handlerAct = "none"
    /\ mem = EmptyMemory /\ mViewMap = NoView
    /\ shown = [v \in Visible |-> Plain("blank")] /\ asked = [v \in Visible |-> None]
    /\ pools = <<>> /\ looper = <<>>
    /\ file = [u \in Url |-> "absent"]
    /\ crashed = "no" /\ cleared = FALSE

Next ==
    \/ \E u \in PlaceImg : HolderClick(u)
    \/ ListClick
    \/ \E u \in ListImg, v \in RowView : GetView(u, v)
    \/ StaleGetView
    \/ \E v \in Visible : Redraw(v)
    \/ Launch \/ Restart \/ Stop \/ Destroy \/ Collect \/ Kill
    \/ \E p \in 1..MaxPools, t \in Thread : Load(p, t)
    \/ HandleMessage

\* The pools run their threads (connections and reads have timeouts) and the
\* looper delivers its messages; users and the system do as they like.
Fairness == /\ \A p \in 1..MaxPools, t \in Thread : WF_vars(Load(p, t))
            /\ WF_vars(HandleMessage)

-----------------------------------------------------------------------------
\* Types of the state: what the maps, the pools and the handler's queue hold.
TypeOK ==
    /\ activity \in {"gone", "stopped", "started"}
    /\ mode \in {"none", "holder", "list"}
    /\ inst \in BOOLEAN /\ adapterStale \in BOOLEAN /\ cleared \in BOOLEAN
    /\ mConfig \in Config \cup {None}
    /\ handlerAct \in {"none", "current", "old", "collected"}
    /\ mem \in Memory
    /\ mViewMap \in [Url -> View \cup {None}]
    /\ shown \in [Visible -> Display]
    /\ asked \in [Visible -> Url \cup {None}]
    /\ pools \in Seq(Pool)
    /\ looper \in Seq(Result)
    /\ file \in [Url -> FileState]
    /\ crashed \in {"no", "adapter", "recycled", "late"}

\* The queue and the map of each store agree and stay within the limit, also
\* when the same picture is loaded twice and arrives twice (render's isExist
\* test before refreshList) and across clear() and changes of the style.
MemoryAgrees == StoreAgrees(mem)

\* A load in flight always finds the instance, the configuration and a view to
\* render on, and no view or adapter dangles, unless clear() ran: only onStop
\* can make the main thread throw.
CrashNeedsClear == crashed # "no" => cleared

\* A recycled bitmap, or an adapter of a cleared instance, stays on the screen
\* only until the next click: whoever configures the new instance replaces it.
DanglesUntilClick ==
    activity = "started" /\ mConfig # None =>
        /\ mode = "list" => ~adapterStale
        /\ \A v \in Visible : shown[v].kind = "recycled" =>
                                mode # (IF v = HolderView THEN "holder" ELSE "list")

\* The begin image of the single view is replaced by a picture or the error
\* image, unless the user changes to the list or the cache is cleared.
HolderResolves ==
    (shown[HolderView].kind = "begin" /\ mode = "holder")
        ~> (shown[HolderView].kind # "begin" \/ mode # "holder" \/ cleared)

\* "往图像视图上加载网络图片": when nothing is left to load, a view shows the
\* picture it was last asked to show; a comment promises it, the code does not.
ShowsWhatWasAsked == \A v \in Visible :
    Pending = 0 /\ shown[v].kind = "picture" => shown[v].pic.url = asked[v]

SafetySpec == Init /\ [][Next]_vars
Spec == SafetySpec /\ Fairness
=============================================================================
