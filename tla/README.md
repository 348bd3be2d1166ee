# A verification of android2

`android2` is the sample source of a book on Android programming: eighteen
Gradle modules of independent applications, 70 000 lines of Java, and below
`mixture` the vendored C of two document libraries. Most activities show one
platform class. A few parts contain logic of their own: threads, handlers,
queues, caches and databases that several callbacks share, and in the library
data structures that are corrected and moved while they are used. These are what
this project models.

TLA+ modules describe the state and the steps of those parts, TLC configurations
check them on small instances, and TLAPS proofs establish many of the properties
for every instance. `PROJECT.json` maps each definition to the lines it stands
for, lists the runs, the mutants that show a property can fail, the hazards of
the code, the theorems and the finding.

## Inventory

### Image cache (`performance`)

*State.* `ImageCache` is a static instance with a configuration, an address to
view map, an address to bitmap map whose order is a FIFO list or an `LruCache`,
a fixed thread pool and a `RenderHandler` that holds a weak reference to the
activity. Pictures are also stored as files.
*Operations.* `initConfig`, `show` (from memory, from the file, or by a
`LoadRunnable`), `render`, `showError`, `refreshList`, `clear`. The activity's
buttons and the list adapter's `getView` call `show`; `onStart` takes an
instance and `onStop` clears it.
*Interaction.* Pool threads post results to the main looper; they share the
files and nothing else with the main thread.
*Hard.* Every `initConfig` makes a pool and no pool ends, so loads of an earlier
configuration meet a later one; `clear` drops the instance under loads in
flight, views and adapters; rows are recycled; two threads may load one address;
the process may die while a file is written.
*Correct when* the list, the map and the limit agree; results in flight find what
they need unless `clear` ran; the begin image is replaced; nothing recycled
stays in use; a view shows what it was last asked to show (it does not, see
Findings).

### Shopping cart (`storage`; `senior` has the same in another layout)

*State.* Tables `cart_info` and `goods_info`, the shared parameters `count` and
`first`, the application's icon map, and in every page on the stack a copy
`mCount` and, in a cart page, the rows, `mCartArray` and `mGoodsMap`.
*Operations.* Opening pages, adding goods in two pages, deleting a row,
clearing, coming back, the first run's download of the catalogue, whose failing
writes nobody notices.
*Interaction.* Pages only meet through the databases and the parameters, which
they read at different moments of their life cycle.
*Hard.* A page below others holds old copies; one callback makes two or more
durable writes and the process may end between them; the system reclaims the
process and makes the pages anew.
*Correct when* the number on the badge is the number of goods in the cart unless
an old copy, a failing insert or an end of the process got in between, the page on
top shows what is stored, no lookup fails, and once `first` is false the catalogue
lacks only what could not be written.

### Code scanner (`device`, ZXing's classes adapted)

*State.* The page's life cycle, its surface, the static `CameraManager` with its
two one-shot callbacks, one `CaptureActivityHandler` and one `DecodeThread` per
resumed page, the `InactivityTimer`.
*Operations.* `onResume`, `surfaceCreated`, `onPause` (which quits the decode
thread and waits for it), frames, auto-focus, decoding, results.
*Interaction.* Messages between the main looper and the decode thread, callbacks
of the camera, a timer thread.
*Hard.* A result, a frame or a focus that arrives late; a join on the main
thread; a camera that throws in the middle of starting; a timer shut down.
*Correct when* there is one frame at a time, the search never stalls, nothing is
left after quitting, the join returns and nothing throws.

### Chat client (`network`)

*State.* `ClientThread`: socket, reader, writer, a handler for messages to send
and a thread that reads; `MainApplication` with the only `ClientThread`; the
login, contacts and chat pages with their broadcast receivers.
*Operations.* `sendAction`, connecting, writing, reading, `notify`; the pages'
`LOGIN`, `GETLIST`, `SENDMSG` and `LOGOUT`; registration in `onStart` and
`onStop`; a refresh posted 500 ms after `onResume`.
*Interaction.* Pages post to the thread's looper; the reading thread broadcasts
to the pages. The chat server lives in another repository and may send any line.
*Hard.* Users faster than the connection; lines that cannot be parsed; an end of
the connection on one side only; broadcasts on their way when a page stops; an
`onDestroy` that comes after the next page has resumed, or after a rotation, and
logs out.
*Correct when* accepted messages are written in order and once, texts are sent
in a session, the window shows both sides' texts in order.

### Pictures and sounds in the chat (`network`, `ChatMainActivity`)

*State.* The page's `mFileName`, the static `mFilePath`, `mDownloadId`,
`mActivity` and `ll_show` that all pages share, the serial executor of
`UploadHttpTask`, the download manager's rows, and a `RefreshRunnable` for each
message that arrived.
*Operations.* Choosing a file, uploading, naming it in a message when the upload
ends, receiving one, polling the download.
*Interaction.* Every runnable polls the download of the message that came last;
an upload that ends reads fields that a later choice, also in another page, has
overwritten.
*Hard.* Two files in a row; a page left before its upload ends; downloads that
fail, overtake each other or are empty.
*Correct when* a message names the file that was uploaded for it, a window never
shows an incomplete file or an older message's, and polling ends.

### PDF and DjVu reader (`mixture`)

*State.* `VudroidActivity` with its `mIndex`, a dialog and fragments; the static
`decodeService`; in each `DecodeServiceBase` the futures by key, the executor's
queue and current task, the soft references to pages and the eviction queue; the
picture files, one directory per book.
*Operations.* `readBook`, `mBookRender`, `doNext`, `showContent`, the fragment's
`readImage`; `decodePage`, `performDecode`, `getPage`, `recycle`;
`FileUtil.saveBitmap`; `onDestroy`.
*Interaction.* Messages of the main thread, the thread of every service's
executor, the collector's finalizer; a picture file is written once and read by
every later activity and process.
*Hard.* A picture that exists is never decoded again, so a wrong or cut-off one
stays; every request for a book has the same key and replaces the one before
it; an activity's `onDestroy` may come after the next one's `onCreate` and then
recycles the wrong service; a page may leave the pool while it is used.
*Correct when* each file shows its own page, cut-off files are only being written
or left by a death of the process or a failing storage, nothing meets a null service
or a closed page, no page count of a document runs beside its rendering, the dialog
closes.

### PDF library (`mixture/src/main/jni/mupdf`, vendored C)

*State.* Of the hash table of `base_hash.c`, used for the store of the
document's resources and for glyphs: size, load and slots. Of the document:
the objects read so far with `/Count` and `/MediaBox`, which of them indirect
references keep, and the file.
*Operations.* `fz_hashinsert` with `fz_resizehash`, `fz_hashfind`,
`fz_hashremove`, `fz_emptyhash`; `pdf_getpagecount`, `pdf_getpageobject`,
`pdf_flushxref`, `pdf_closexref`, called by `pdfdroidbridge.c`.
*Interaction.* The library locks nothing. The page count corrects objects in
memory; each opening of a page begins with a flush of the objects nobody keeps,
and writes what the page inherits into the page object.
*Hard.* A removal leaves no tombstone but shifts entries back around the end of
the table; a doubling inserts every entry anew; a count that the file states
wrongly decides which subtrees are skipped.
*Correct when* look-ups find exactly what was entered and end; the page opened is
the page asked for, with its own or the nearest inherited box, whatever the file
states, and opens unless that box or its contents make it impossible.

### The other parts

| part | module of the repository | state of the work |
|---|---|---|
| Bluetooth transfer | `mixture` | planned, `BluetoothLink` |
| login and forgotten password | `storage`, `middle` | planned, `LoginForget` |
| traffic service and its table | `custom` | planned, `TrafficMonitor` |
| music service and its controllers | `media` | planned, `MusicPlayback` |
| calendar arithmetic, calculator | `senior`, `junior` | planned as pure functions and a small machine |
| `SocketActivity`, `MessageTransmit` | `network` | not modelled: one thread per message promises no order |
| recorder and camera widgets, maps, speech, payments | `device`, `media`, `thirdsdk`, `weixin` | not modelled: the state is the platform's or the vendor's |
| widgets, animations, OpenGL, tabs, lists | `event`, `group`, `animation`, `custom` | not modelled: geometry and drawing |
| file dialog, single requests, Wi-Fi, JNI | `filedialog`, `network`, `mixture` | not modelled: input and output without interaction |
| EPUB, page curl, the rest of the PDF library | `mixture` | not modelled, see below |
| encryption samples | `test` | not modelled: library calls and published algorithms on 32-bit words |

## Modules

| module | models | extends |
|---|---|---|
| `ImageMemory` | the memory store: maps, FIFO list, LRU order | |
| `ImageCache` | the cache, the pools, the handler, the activity and adapter, the files | `ImageMemory` |
| `MCImageCache` | instances of `ImageCache` with symmetry | `ImageCache` |
| `ImageCacheProofs` | theorems about it | `ImageCache` |
| `ShoppingCart` | three pages over two tables and two parameters | |
| `ShoppingCartProofs` | theorems about it | `ShoppingCart` |
| `ScanCapture` | page, camera, handlers, decode threads, timer | |
| `ScanCaptureProofs` | theorems about it | `ScanCapture` |
| `OrderedChannel` | what callers of `sendAction` may rely on | |
| `ChatLink` | `MainApplication`, `ClientThread`, the three pages | instantiates `OrderedChannel` |
| `ChatLinkProofs` | theorems about it | `ChatLink` |
| `ChatMedia` | the chat page's uploads and downloads | |
| `ChatMediaProofs` | theorems about it | `ChatMedia` |
| `BookReader` | activities, services, executors, page pools, files | |
| `MCBookReader` | an instance of it | `BookReader` |
| `BookReaderProofs` | theorems about it | `BookReader` |
| `KeyedMap` | what users of a hash table rely on: a map | |
| `HashTable` | `base_hash.c`, one step per slot moved | instantiates `KeyedMap` |
| `MCHashTable` | an instance with colliding keys | `HashTable` |
| `HashTableProofs` | theorems about it | `HashTable` |
| `PageTree` | page counts, page look-up, inheritance and flushes | |
| `MCPageTree` | four page trees | `PageTree` |
| `PageTreeProofs` | theorems about it | `PageTree` |

Variables and operators keep the source's names where they have one
(`mViewMap`, `initConfig`, `refreshList`, `addToCart`'s halves `AddCount` and
`AddRow`, `quitSynchronously`'s halves `Quit` and `Joined`, `sendAction`,
`onUploadFinish`, `doNext`). An action is one callback or one message on the
main thread, which runs one at a time, or one step of another thread between two
points where others can see it. A callback is split where it writes something
durable twice (the cart), where it waits for another thread (the scanner) and
where a loop has an invariant in its middle (the hash table). Definitions marked
*mutant* or *a bug to compare with* belong to no specification: they are
plausible bugs, and each property of a passing run is violated when one of them
takes the place of the definition after it.

### `ImageCache`

`mem` holds the stores, `pools` every executor of the process with its queue and
the job of each thread (`fetch`, `save`), `looper` the posted results, `file`
what is on the disk, `shown` what each view displays. `mapped` on a displayed
picture says that it is the bitmap of `mImageMap`, which `clear` recycles;
`LruCache` bitmaps are not recycled. `asked`, `cleared` and `crashed` are
history. Choices that the application fixes are constants of the model: the fade
duration is always positive, no size is set, and the addresses have different
hash codes, so one file stands for one address. A file a thread has opened is
`torn` until every byte is written; if two threads write it at once it stays
torn, which is one of the outcomes of interleaved writes. `Kill` is the process
ending, by the system or by an exception, and starting again later.

### `ShoppingCart`

The stack of pages is the task's; each page is a record of its fields. A callback
with several writes leaves its name in `pc`, and only `Kill` can come in between.
`Reclaim` is the system taking the process in the background: the top page is
made anew at once, the others when they come to the top. `MayFail` says which
writes the storage may refuse: an `insert` that returns -1 is ignored, so the
download goes on with -1 as row number, and `saveImage` keeps its exception to
itself, so a row names a picture that is not there (`pictures` is what is). An
update that throws ends the process, which is `Kill`. `mIconMap` is the
application's map of thumbnails, filled by the download or read back from the
files by a cart page. `crashed` is set by every lookup the code makes without a test
for null: of the goods of a row (`showCart`, `showDetail`) and of `mGoodsMap`.
`drifted`, `failed` and `cut` are history: an addition started from an old `mCount`,
its row could not be inserted, or a kill separated two writes; products whose row or
pictures could not be written; a first run was cut short.

### `ScanCapture`

`cam` is `CameraManager` and the camera behind it: `previewing` is the field,
`drawing` what the camera does, so that a failure between the two can be seen.
`frameTo` and `focusTo` are the handlers in the one-shot callbacks. A handler has
a state, a decode thread and the thread's inbox; the main looper is `queue`, and
`later` the delayed auto-focus messages. `decode` and `sendToTarget` are apart
because `activity.getHandler()` is read on the decode thread while the main
thread goes on. `Faults` names the calls that may throw: `open`, `display`
(`setPreviewDisplay`), `preview` (`startPreview`), `focus` (`autoFocus`).
Nobody sends `restart_preview`, `return_scan_result` or
`launch_product_query`, so they have no action.

### `ChatLink` and `OrderedChannel`

`link` is how far `ClientThread.run` got: `mSendHandler` is not null from
`looping` on. `sendQueue` is its message queue, `written` the history of the
connection, `lines` what the server sent and nobody read. A broadcast in flight
is kept only for a receiver that is registered, and is dropped when the receiver
is unregistered. Receivers are registered at run time, so Android 8 delivers to
them. A page that is left keeps its receiver, and contacts their `LOGOUT`, until
Android stops and destroys it, which comes at any time after the next page has
resumed: `leaving` holds the pages for which that is to come (`LeaveChat`,
`LeaveContacts`, then `DestroyChat`, `DestroyContacts`). Until then a chat page opened
anew shows a text twice, because both receivers append to the static window. `slipped`
is true while the contacts in front have no session, because their `LOGIN` was
dropped, the system destroyed them, or the late `LOGOUT` of others came after it;
`astray` remembers the texts sent meanwhile. The model ends the process nowhere: a
killed process starts from `Init`. Left out: a `RECVMSG` line with fewer than four
items in its head throws in `onReceive` (`ChatMainActivity` 251-252, 258) and ends the
process; the friend list a `GETLIST` line brings is reduced to whether somebody is
online; and nothing is claimed of `GETLIST` requests.
`OrderedChannel` is the promise: accept, write in order, lose only after the
connection broke. `ChatLink` maps `waiting` to `sendQueue` and `broken` to a
socket that is broken or closed.

### `ChatMedia`

`page` is the chat page created last, which is where `mActivity` and `ll_show`
point; files are numbered in the order of choice and downloads in the order of
their messages, so `mFileName[p]`, `mFilePath` and `mDownloadId` are numbers.
`Upload` is the task's background half, with or without success, and
`onUploadFinish` the callback. `Fetch` is the download manager: a row is pending,
runs, fails, is done, or turns out to be empty. A poll that finds nothing new
only posts itself again and is a stutter; it divides by the size
(`RefreshThrows`) or ends (`RefreshEnds`). A photo's height asked of a sound is a
null bitmap and ends the process, as the code has it. A message whose body is no
web address is taken for one of our own and shows what `mFilePath` names
(`onReceiveLocal`). A page that was left still receives until it is stopped
(`Listens`). `picked` records the kind and the page of each choice, and `sent` the
messages, with how many files had been chosen by then. Whether the message that
names the file reaches the server is not followed: `ChatLink` has the same
`sendAction` for texts, and no `SENDPHOTO`.

### `BookReader`

Activity `i` creates service `i`; `static` is the field they share. A service is
its futures' `keys` (the decode key is the book's directory), the executor's
`queue`, the cached `pages` with those the collector `cleared`, the queue of
evictions and the task under way with its `stage`. The task is cut where another
thread can see or change something: pages opened, picture rendered, file created,
file written, callback done. `closed` says that the page to render was freed by
the opening of the next one. `uiQueue` and `delayed` are the main thread's
messages. `file` outlives `Kill`. `storage` may be `sound` or `failing`, where a
picture may stay cut off, or the directory or the file may not be made at all:
`saveBitmap` keeps that to itself and the reader goes on without a file, which
`refused` remembers. `Back` leaves an activity whose `onDestroy` comes later (`Destroy`),
`DestroyUnseen` is the system destroying one in the background, also while its
dialog is open, and `Relaunch` a configuration change. `late` and `torn` are
history: an `onDestroy` met another activity's service or none; an activity was
destroyed while it loaded. The library throws for the pages in `Broken` when they are
opened and for those in `Garbled` when they are rendered; both end the task, whose
`Future` keeps the exception. The collector may clear a page at any time; as a task
holds the pages it uses, that only matters to the next one, so `Collect` is a step
while one waits. Zooming, which the reader never does, is left out, and so is what
two threads inside a library do to each other: `CountsAlone` says when a page count
cannot meet rendering. The finalizer, and the executors of two services with their
documents, may be in the PDF library at once. The pages of a DjVu book are decoded by
`DjvuContext`'s own message thread, which the executor waits for; the model has that
as the executor's step, and its native side is not modelled.

### `HashTable` and `KeyedMap`

`ents` are the slots. An insertion into a table that is not crowded, a look-up
and an emptying are one step each; a removal opens the `hole` and then looks at
one slot per step (`ShiftSlot`, `ShiftDone`), and a doubling copies one slot per
step (`CopySlot`, `CopyDone`) before the pending entry goes in, as
`fz_resizehash` and `fz_hashremove` do. A key's bytes are a value. `Items` says
which values may be entered under a key. `KeyedMap` is the map from keys to what
was entered; `HashTable` maps `map` to what the slots hold under each key, in the
middle of the loops too, where the entry being shifted or copied counts once.

### `PageTree`

`kids`, `stated` and `box` are the file, `count` and `own` the same in the
objects in memory, `kept` the objects an indirect reference holds, `total` what
`pdf_getpagecount` returned and `answer` the page opened last, or `Nobody` when
`pdf_loadpage` threw: for a page without a box, with an `Unfit` one (no array, or less
than 1 by 1) or with `Spoiled` contents (`Loads`). The inherited box is written into
the page before that and stays. `box` is the `/MediaBox` or the `/CropBox`, whichever
the file uses; a file in which some nodes state one and some the other is not looked
at. The recursions over
the tree are recursive functions. `Flushed` takes what nobody keeps from the file
again. In the code as it is, `pdf_resolveindirect` keeps its target, so the page
count itself keeps every object it corrects and the flush before a page forgets
none of them; `CorrectionsStay` says so, and its mutant is the reference that
does not keep. Page trees have no cycle (`Acyclic`): on cyclic ones the library does not end.

## Runs

| run | asks | bounds |
|---|---|---|
| `cache_main` | stores agree; only `clear` can make the main thread throw; what dangles is replaced at the next click | three addresses, a memory of one, one thread per pool, two pools, two loads in flight |
| `cache_live` | the begin image always has a load behind it and is replaced | two addresses on one view and a list address |
| `cache_asked` | *violated:* a view shows what it was last asked to show | two addresses, one view |
| `cart_pages` | `count` is the sum unless drifted; no null goods | two products, quantity two, four pages; any row may fail to be inserted |
| `cart_ends` | the top page shows the cart with its thumbnails, and the catalogue lacks only what could not be written, when the process may end | two products, three rows, three pages; any picture may fail to be saved |
| `scan_main` | one frame, no stall, nothing after quitting, no exception | two pages, three handlers; opening, display and preview may fail |
| `scan_faults` | the main thread's join returns | every fault, and a surface created while paused |
| `chat_main` | order both ways, which texts are in a session, and `OrderedChannel` | four calls (`MaxSends`) and three lines (`MaxLines`), five together (`MaxTraffic`), one refresh waiting |
| `media_main` | which file a message names and shows, and exactly when it is another one; polling ends | two pages, two files chosen, two received |
| `table_main` | every probe ends, look-ups find what was entered, the table is a map, the loops end | seven keys in six slots, doubling to twelve |
| `reader_main` | files, crashes, counts beside rendering, the dialog closes | books of three and two pages, one that cannot be opened and one that cannot be rendered, a pool of two, a storage that may refuse or cut off files, two activities, one of which a death of the process may stand for (`MaxActs`, `MaxKills`) |
| `tree_main` | the page found, its box, whether it opens, the corrected counts | four trees, every choice of counts from 0, 1 and 4, two fit boxes, an unfit one or none on three nodes, one page with spoiled contents |

*Why the bounds are enough.* A memory of one evicts with the second address, and
two pools with one thread each are the smallest case of two threads that load
the same address under two configurations. Four pages hold the cycle cart,
channel, detail, cart in which a page below keeps an old copy. With three
handlers in two pages a handler leaks, a second works and a third takes over
after a new page. Four calls are a login, a late logout and two texts, and five
calls and lines together leave room for two lines around two texts. Three rows are
two products and one of them again after a first run was cut short. Two pages, files and downloads are enough for one to overwrite the
fields of the other. Six slots is the smallest table whose probes all end, and
the seven keys, one of them with two values, collide, run around its end, and
partly still collide after it has doubled. A pool of two with a book of three
pages evicts, and two activities are enough for a late `onDestroy` to meet the
wrong service; three pages and a pool of two are also enough for the next page to
evict the one to be rendered after a refused file. The trees have three levels, an empty subtree, missing nodes and a
page beside subtrees; the counts stated too small, too large and not at all are
among 0, 1 and 4. The theorems below hold for any numbers.

*Deadlock* is checked in the cache, cart, chat, hash table and page tree runs.
The scanner's, the media's and the reader's processes may end, and their pages
are counted by `Pages`, `MaxPages` and `MaxActs`, so their runs do not check it.

*Fairness.* `ImageCache`'s `Spec` has weak fairness of every pool thread's step
(connections and reads have timeouts, so a load ends) and of the handler's
message; users, the system, `clear` and death have none. `ScanCapture`'s has
weak fairness of the decode threads and of the main looper, and none of the
camera, the surface or the user. `ChatLink`'s has weak fairness of the looper
that writes: a write on an open socket returns or throws. `ChatMedia`'s is of
each posted runnable, not of the download manager: `PollingEnds` starts from a
download that is done. `HashTable`'s is of the loops' steps, which nothing
interrupts. `BookReader`'s is of the main thread's messages, one condition for
those delivered and one per delayed one, and of each executor's task; none of the
user, the system or the collector. `LoadingEnds` excepts a page asked for, or
the one after it, that cannot be opened, and a page asked for that cannot be
rendered, because the executor's future swallows the exception, and activities
destroyed too early or too late.

## Proofs

The theorems hold for every value of the constants that satisfies the named
assumptions of the modules. Each is an inductive invariant, checked by one step
per action, and the last step is temporal.

`ImageCacheProofs`, under `MemoryAssumption`, `CacheAssumption` and
`ConfigAssumption`:

* `TypeCorrect`: `SafetySpec => []TypeOK`.
* `MemoryAlwaysAgrees`: `SafetySpec => []MemoryAgrees`. Each store's order
  lists the stored addresses once each and within the limit. The inductive
  invariant is `IInv == TypeOK /\ MemoryAgrees /\ HasPool`: the agreement is
  inductive only together with the types, and a configured instance must have a
  pool for `show` to hand a load to. The argument goes through lemmas on the
  memory's operators (eviction removes the head, insertion appends, a hit moves
  to the end), then one lemma for the user's steps, one for the life cycle, one
  for the pool threads and one for the handler's messages.
* `OnlyClearCrashes`: `SafetySpec => []CrashNeedsClear`. Before the first
  `clear` every address in a queue, a thread or a result is bound to a view
  (`Bound`) and there is an instance with a configuration behind it (`Running`),
  so that `handleMessage` finds all it looks up.
* `ClickEndsDangling`: `SafetySpec => []DanglesUntilClick`. What was recycled or
  belongs to a cleared instance is on the screen only while the new instance has
  no configuration (`Dangling`).

`ShoppingCartProofs`, under `CartAssumption`: `CartType`, `CartNeverCrashes` and
`CartCatalogueComplete`. The inductive invariant is `IInv == Core /\ Referring`. `Core`
adds to the types and to the property what a page knows of the goods it shows
(`Pages`: each row and each entry of `mCartArray` has its goods, unless the page was
cleared) and what each unfinished callback has already written (`Deleting`,
`Clearing`, `Downloading`: each product before the current one is saved or in
`failed`); `Referring` says that no table and no page refers to goods that are not
there, although inserts fail. That no product has two rows, and that a cart page on
top has every saved thumbnail, follow from `Run == Alone /\ Single /\ Iconed`, which
is proved on top of it: a download is the only page of its process, its rows are
those of the products before the current one, each once, and a page that is not
downloading has its icons. Then `CartCountIsSum` and `CartTopShows`, which
hold between callbacks only. `Balance` and `Shown` say what is true between the
writes of one: an addition is one ahead of the table, a deletion has its new count
at hand, the page on top knows what the table records. The sum is a fold over the
goods; that changing one row changes it by the difference (`SizeChange`) is proved
through a recursive function that adds the goods one by one and the least number
at which the claim would fail.

`ChatLinkProofs`, under `ChatAssumption`:

* `ImplementsChannel`: the initial states are initial states of
  `OrderedChannel` and every step is one of its steps or none. It needs
  `LinkOK`: a thread that has a handler has had a socket, so that a message
  that leaves the queue is either written or lost to a broken connection.
* `TextsAlwaysInSession`: `SafetySpec => []TextsInSession`, which says of every text
  whether it is in a session. The property says nothing of the pages, so it is not
  inductive; `SessionOK` adds that, while the connection holds and somebody is in the
  contacts or the chat page, what was accepted ends in an open session exactly if
  nothing slipped. A late `LOGOUT` sets `slipped` unless nobody is there.
* `ChatType`: `SafetySpec => []TypeOK`, which includes that what is addressed to a
  receiver finds it registered, also the second receiver of a page that was left. The
  invariant, shared with the next theorem, is
  `IInv == Wires /\ Calls /\ Pages /\ Addressed /\ Ways`.
* `WindowAlwaysInOrder`: `SafetySpec => []WindowInOrder`. The window alone says
  nothing of what is still to come; `Way` follows the texts on the way from the
  server's lines through the broadcasts to the window, each stage holding earlier
  texts than the one before and all of them earlier than the next to be sent; two
  copies of one text are addressed to the two receivers (`Before`).

`ChatMediaProofs`, under `MediaAssumption`: `MediaType`,
`MediaSendsWhatWasUploaded` and `MediaShowsOwnOrLater`. `Names` relates the choices to
the fields: `mFileName` of a page is the last file chosen in it, and later files were
chosen in the same page or in later ones (`Picks`), and an upload under way, or its
result, is of a file its page chose (`Told`). From that follows what each message
named and showed when it was sent (`Right`), and later choices do not change it,
because `sent` records how many there were.

`HashTableProofs`, under `SizeAssumption` (six slots or more), `HashAssumption`,
`ItemsAssumption` and `FreeAssumption`, for every hash function:

* `HashTableType`, and `HashTableReachable`: no probe for an entered key meets a
  free slot before the entry, and no key has two slots. Inside the loops this is
  false as it stands: while a removal shifts, a probe may meet the hole, and
  `Closing` says that no entry before `look` has it on its way; and while a table is copied the old slots, the new ones and the
  pending entry share no key (`Copying`).
* `HashTableRoom`: there is always a free slot, and a table being filled after
  doubling is never crowded again, because `load` is the number of entries
  (`LoadIsEntries`), counted with the library's facts on cardinalities.
* `HashTableFinds`, and `HashTableImplementsMap`: look-ups answer what was
  entered, and every step is a step of `KeyedMap` or leaves the map alone.

`PageTreeProofs`, under `NodeAssumption`, `CountsAssumption` and `TreeAssumption`, for
every tree without a cycle (`Acyclic`), of any depth and width, and any stated counts:

* `PageTreeType` and `PageTreeCorrectionsStay`: an open document has every page tree
  node both corrected and kept (`OpenInv`), so what a flush leaves is what it found.
* `OpensTheNth`: the page opened is the page asked for. A subtree is counted as long as
  its list of pages is (`CountIsLength`), and from any place before the page the search
  either finds it in the subtree's list or has seen exactly that list (`SearchReads`).
* `InheritsNearest` and `PromisesKept`, under the hypothesis that no node is listed
  under two others and the root under none (`OneParent`): what is handed down to a node
  is its parent's nearest box (`SearchFits`), and a page that was opened before has
  that box of its own (`Owned`). So a page fails to open exactly when `Loads` says so of
  that box and its contents. The hypothesis is needed: the library writes into a
  page listed under two nodes the box of the one it came by first. The run's trees
  are checked to satisfy it.

The functions over the tree are recursive, and a recursive function has the values
its body says only if there is such a function. `Solution` proves that there is for a
body that looks down a well-founded relation, by putting together the solutions on
the sets closed downwards; `Folding` uses it for the folds over the kids, and
`Counting`, `Reading`, `Searching` and `Inheriting` for the four recursions, of which the
last goes up. What is claimed of all nodes is carried from the kids to the node
(`Upwards`).

`BookReaderProofs`, under `BookAssumption` and `BoundAssumption`: `BookType`,
`PartialOnlyWhileWritten`, `FilesAlwaysTrue` and `LibraryAlone`. That files are
true is not inductive: a request must be answered by the service of its own book,
which the static field decides twice, when the request is made and when the
picture is named. `Token` says why it goes well: while no activity was destroyed
too early or too late, at most one thing is on its way in the process, a delayed
message, a message, a request or a task, and it belongs to the only live
activity, which waits behind its modal dialog and whose service is the static
one; other services are idle and have at most their last task. Each step hands
the token on or finds nothing on its way, so that a saved file is the page of
`act[static].book`, and nobody counts pages while the static service renders.

The same invariant leads to `NoCrashInTime`. While no activity was destroyed too early
or too late and the storage refused no file (`InTime`), the pictures of a book are added in reading order and one at a time
(`InOrder`, `Wanted`), so the queue of evictions grows and what opening the next
page evicts is an earlier page than the one about to be rendered (`Evicts`); a
page whose picture exists is not asked for again (`Tasks`, `Turn`). A page that could
not be opened or rendered leaves the reader behind its dialog, with pages in the
queue whose pictures do not exist and nothing more to come (`Stuck`).

`ScanCaptureProofs`, under `ScanAssumption`: `ScanType` for every constant, and

* `QuitIsFinal`, unless `autoFocus` may throw. A handler is *owned* while a page's
  field holds it. `Base` gives each handler its status: owned, it works and its
  inbox asks for frames only; not owned, it is quiet in every place where
  something of it could be, the inbox, the thread, the queue and the camera; and
  the one being joined has its `quit` as the last message of its inbox. Which
  page owns a handler and how many frames it has are left open, so a surface
  created before the page resumes does no harm here.
* `OneFrame`, `SearchGoesOn` and `NothingThrown`, unless `autoFocus` may throw or a
  surface may come before the page resumes. `Strict` adds that only the shown page
  owns a handler, that it is resumed and has its surface then, that the camera
  draws then and otherwise does not preview, and that the frames of its handler
  are one while it searches and none after a result. Frames are counted over the
  camera, the inbox, the thread and the main queue; the lemmas on `Occurs` say how
  appending, taking and removing messages change the counts.

  Both hypotheses are on `Faults` and `EarlySurface`, leave every other fault to
  happen, and are those of run `scan_main`. They are needed: when `autoFocus`
  throws, the handler under construction is in no field although the camera has
  its address, and a surface created for a paused page makes a handler that no
  `onPause` ends.

*Induction over data* is not available as a rule. Where a theorem needs it (sums
over a table, messages removed from a queue), the recursive function's defining
equation and the claim are proved by taking the least number at which they
fail, which exists because the order of the naturals is well-founded.

*Only model-checked:* all liveness (`HolderResolves`, `JoinReturns`, `LoopsEnd`,
`PollingEnds`, `LoadingEnds`, the fair part of `SendsInOrder`), which is out of
the prover's reach.

## Findings

* A recycled or reused view keeps every address it was bound to, so a late
  result overwrites what it was last asked to show (`ImageCache.java:84`, run
  `cache_asked`).

Other behaviour met while modelling, which the models contain and no text of the
repository contradicts:

* `count` is written from a page's own copy, which a page below others has not
  refreshed (`ShoppingDetailActivity.java:49`); the model's `drifted`.
* `autoFocus` failing while a handler is built leaves `previewing` set in the
  static camera manager, and later pages show no preview
  (`CameraManager.java:157`); `scan_main` leaves that fault out, `scan_faults`
  has it.
* A login before the connection stands is dropped without a word, and the texts
  after it are sent without a session (`MainApplication.java:47`). The same happens
  when contacts are left and the user logs in again before Android destroys them:
  their `LOGOUT` follows the new `LOGIN` (`QQContactActivity.java:112`); `slipped`,
  `astray`.
* A first run's inserts and pictures may fail unnoticed, and `first` becomes false
  over what is missing (`ShoppingCartActivity.java:346`, `FileUtil.java:62`);
  `failed`.
* A file sent by a page that was left is shown in the window of the page created
  last, because the window is a static field (`showMedia`, `ll_show`); the
  model's `sent` records both.
* Two files chosen in a row: the first message names the second
  (`ChatMainActivity.java:213`). A waiting photo shows what a later
  message fetched (`ChatMainActivity.java:425`). A photo and a sound that overlap,
  or an empty file, end the process (`ChatMainActivity.java:369`, `:433`).
* A reading activity whose `onDestroy` comes after another one's `onCreate`
  recycles the other's service, and its delayed messages then ask another book's
  service for their page or meet null (`VudroidActivity.java:144`); `late`,
  `torn`.
* A cut-off picture file is taken for the page from then on
  (`FileUtil.java:55`); `PartialIsBeingWritten` says when there is one. When the file
  could not even be opened the page is asked for again, and opening the page after it
  may then evict and free the one about to be rendered
  (`DecodeServiceBase.java:145`); `CrashesOnlyAfterEarlyOrLate` says that this is the
  only way there.

## Not modelled

* *The PDF library beside the table and the page tree.* Most of its lines are
  generated font and character-map tables; the others are parsers, filters,
  interpreters of content streams and rasterisers, which compute on bytes and
  share no state beyond a document. The recursions on cyclic page trees do not
  end and so have no result to model. What two threads do to each other inside
  the library is undefined; `CountsAlone` says when a page count is not one of them.
* *The platform*: the camera, the download manager, sockets, the collector and
  the life cycle are external and modelled as what they may do at any time.
* *The chat and upload servers*, in another repository: any line in any order,
  success or failure.
* *Widgets, drawing, animations, vendors' SDKs, forms, encryption samples*: no
  interaction, or not the program's own.

## Plan

1. `BluetoothLink`: accept tasks and their static server socket, the page's
   socket field, the receiving thread's buffer; an abstract specification of
   message transfer.
2. `LoginForget`: which credential a remembered record holds after code logins,
   password changes and page restarts.
3. `MusicPlayback` and `TrafficMonitor`: sticky services whose every start posts
   one more runnable.
4. Pure functions: the lunar calendar's conversion against counting days, the
   calculator's key machine.
5. Proofs of what those modules bring; of the present ones every safety property the
   passing runs check has a theorem.

Runs stay few: a configuration whose question a later module answers better is
removed, and a new module brings one run of what holds and at most one of what
does not.
