----------------------------- MODULE ScanCapture -----------------------------
(***************************************************************************)
(* The code scanner of the device module: FindScanActivity, its            *)
(* CaptureActivityHandler, one DecodeThread per handler, and the           *)
(* CameraManager all pages of the process share.                           *)
(*                                                                         *)
(* Three kinds of threads take steps: the main thread (lifecycle, surface  *)
(* callbacks, camera callbacks and messages), the decode threads, and the  *)
(* inactivity timer.  quitSynchronously makes the main thread wait for a   *)
(* decode thread; nothing else of the main thread runs meanwhile.          *)
(***************************************************************************)
EXTENDS Naturals, Sequences, FiniteSets

CONSTANTS
  Handlers,      \* bound: how many CaptureActivityHandlers are made
  Pages,         \* bound: how many FindScanActivity pages are launched
  Faults,        \* the camera calls that may throw
  EarlySurface   \* may the surface of a paused, visible page be created?

ASSUME ScanAssumption ==
  /\ Handlers \in Nat \ {0}
  /\ Pages \in Nat \ {0}
  /\ Faults \subseteq {"open", "display", "preview", "focus"}
  /\ EarlySurface \in BOOLEAN

VARIABLES
  life,        \* where the current page is in its lifecycle
  page,        \* the current page
  hasSurface,  \* its rendering surface exists
  finishing,   \* finish() was called for it
  opened,      \* result pages it asked for since it was last resumed
  timer,       \* its InactivityTimer
  mHandler,    \* for each page, its CaptureActivityHandler or 0
  handler,     \* the handlers made so far, with their decode threads
  cam,         \* the CameraManager and the camera it holds
  queue,       \* messages of the main looper that are due
  later,       \* auto_focus messages that are delayed
  joining,     \* the handler whose decode thread the main thread waits for, or 0
  crashed      \* the exception that ended the process

page_vars == <<life, page, hasSurface, finishing, opened, timer>>
vars == <<page_vars, mHandler, handler, cam, queue, later, joining, crashed>>

Ids == 1 .. Handlers
Results == {"decode_succeeded", "decode_failed"}

Message == [what : {"frame", "focus"} \cup Results, to : 0 .. Handlers]
ResultsOf(h) == [what : Results, to : {h}]

Unborn == [page |-> 0, state |-> "unborn", thread |-> "none", inbox |-> <<>>, to |-> 0]

(* The main thread runs and is free to take its next message. *)
Main == joining = 0 /\ crashed = "no"

-----------------------------------------------------------------------------
(* CameraManager: `open` is camera # null, `previewing` its own flag,      *)
(* `drawing` what the hardware does, `frameTo` and `focusTo` the handlers   *)
(* the two callback objects hold, `oneShot` and `focusing` what the         *)
(* hardware still owes.                                                     *)

openDriver(c) ==
  IF c.open THEN c
  ELSE [c EXCEPT !.open = TRUE]

closeDriver(c) ==
  IF c.open
  THEN [c EXCEPT !.open = FALSE, !.drawing = FALSE, !.oneShot = FALSE, !.focusing = FALSE]
  ELSE c

startPreview(c) ==
  IF c.open /\ ~c.previewing
  THEN [c EXCEPT !.previewing = TRUE, !.drawing = TRUE]
  ELSE c

stopPreview(c) ==
  IF c.open /\ c.previewing
  THEN [c EXCEPT !.previewing = FALSE, !.drawing = FALSE,
                 !.frameTo = 0, !.focusTo = 0, !.focusing = FALSE]
  ELSE c

requestPreviewFrame(c, h) ==
  IF c.open /\ c.previewing
  THEN [c EXCEPT !.frameTo = h, !.oneShot = TRUE]
  ELSE c

requestAutoFocus(c, h, done) ==
  IF c.open /\ c.previewing
  THEN [c EXCEPT !.focusTo = h, !.focusing = done]
  ELSE c

-----------------------------------------------------------------------------
(* CaptureActivityHandler's constructor for a new handler h: its thread     *)
(* starts, then the preview, then the first requests.  An exception of the  *)
(* camera leaves the constructor, and the handler unassigned.               *)

(* A bug to compare with: the handler never learns its activity. *)
NewOrphan(h, state) ==
  handler' = [handler EXCEPT ![h] =
    [page |-> 0, state |-> state, thread |-> "idle", inbox |-> <<>>, to |-> 0]]

New(h, state) ==
  handler' = [handler EXCEPT ![h] =
    [page |-> page, state |-> state, thread |-> "idle", inbox |-> <<>>, to |-> 0]]

Started(c, h, focused) ==
  requestAutoFocus(requestPreviewFrame(startPreview(c), h), h, focused)

NewHandler(c, h) ==
  \/ /\ New(h, "PREVIEW")
     /\ cam' = Started(c, h, TRUE)
     /\ mHandler' = [mHandler EXCEPT ![page] = h]
  \/ /\ "preview" \in Faults /\ ~c.previewing
     /\ New(h, "SUCCESS")
     /\ cam' = c
     /\ UNCHANGED mHandler
  \/ /\ "focus" \in Faults
     /\ New(h, "PREVIEW")
     /\ cam' = Started(c, h, FALSE)
     /\ UNCHANGED mHandler

(* initCamera catches whatever the camera throws. *)
initCamera ==
  \/ /\ ~cam.open /\ "open" \in Faults
     /\ UNCHANGED <<cam, handler, mHandler>>
  \/ /\ ~cam.open /\ "display" \in Faults
     /\ cam' = openDriver(cam)
     /\ UNCHANGED <<handler, mHandler>>
  \/ /\ mHandler[page] # 0
     /\ cam' = openDriver(cam)
     /\ UNCHANGED <<handler, mHandler>>
  \/ /\ mHandler[page] = 0
     /\ \E h \in Ids :
          /\ \A k \in Ids : handler[k].state = "unborn" <=> k >= h
          /\ NewHandler(openDriver(cam), h)

-----------------------------------------------------------------------------
(* The page's lifecycle, on the main thread.                                *)

Resume ==
  /\ Main
  /\ life \in {"created", "paused", "stopped"} /\ ~finishing
  /\ life' = "resumed"
  /\ opened' = 0
  /\ IF hasSurface THEN initCamera ELSE UNCHANGED <<cam, handler, mHandler>>
  /\ UNCHANGED <<page, hasSurface, finishing, timer, queue, later, joining, crashed>>

surfaceCreated ==
  /\ Main
  /\ ~hasSurface
  /\ life = "resumed" \/ (EarlySurface /\ life = "paused")
  /\ hasSurface' = TRUE
  /\ initCamera
  /\ UNCHANGED <<life, page, finishing, opened, timer, queue, later, joining, crashed>>

surfaceDestroyed ==
  /\ Main
  /\ hasSurface /\ life \in {"paused", "stopped"}
  /\ hasSurface' = FALSE
  /\ UNCHANGED <<life, page, finishing, opened, timer, mHandler, handler, cam,
                 queue, later, joining, crashed>>

(* A bug to compare with: the thread is joined but not told to quit. *)
QuitUntold(h) ==
  /\ handler' = [handler EXCEPT ![h].state = "DONE"]
  /\ cam' = stopPreview(cam)
  /\ joining' = h

(* The part of quitSynchronously before the join. *)
Quit(h) ==
  /\ handler' = [handler EXCEPT ![h].state = "DONE",
                                ![h].inbox = Append(@, "quit")]
  /\ cam' = stopPreview(cam)
  /\ joining' = h

Pause ==
  /\ Main
  /\ life = "resumed"
  /\ life' = "paused"
  /\ IF mHandler[page] # 0
     THEN Quit(mHandler[page])
     ELSE cam' = closeDriver(cam) /\ UNCHANGED <<handler, joining>>
  /\ UNCHANGED <<page, hasSurface, finishing, opened, timer, mHandler, queue, later, crashed>>

(* The messages of q that are not in V, in their order. *)
Without(q, V) ==
  LET kept[n \in 0 .. Len(q)] ==
        IF n = 0 THEN <<>>
        ELSE IF q[n] \in V THEN kept[n - 1] ELSE Append(kept[n - 1], q[n])
  IN  kept[Len(q)]

(* A bug to compare with: only the failures are removed. *)
PurgedOfFailures(q, h) == Without(q, [what : {"decode_failed"}, to : {h}])

(* removeMessages for the two kinds of results. *)
Purged(q, h) == Without(q, ResultsOf(h))

(* A bug to compare with: quitSynchronously no longer waits. *)
JoinedAtOnce ==
  /\ crashed = "no"
  /\ joining # 0
  /\ queue' = Purged(queue, joining)
  /\ mHandler' = [mHandler EXCEPT ![page] = 0]
  /\ cam' = closeDriver(cam)
  /\ joining' = 0
  /\ UNCHANGED <<page_vars, handler, later, crashed>>

(* The join returns: the rest of quitSynchronously and of onPause. *)
Joined ==
  /\ crashed = "no"
  /\ joining # 0 /\ handler[joining].thread = "ended"
  /\ queue' = Purged(queue, joining)
  /\ mHandler' = [mHandler EXCEPT ![page] = 0]
  /\ cam' = closeDriver(cam)
  /\ joining' = 0
  /\ UNCHANGED <<page_vars, handler, later, crashed>>

Stop ==
  /\ Main
  /\ life = "paused"
  /\ life' = "stopped"
  /\ UNCHANGED <<page, hasSurface, finishing, opened, timer, mHandler, handler, cam,
                 queue, later, joining, crashed>>

Destroy ==
  /\ Main
  /\ life = "stopped"
  /\ life' = "destroyed"
  /\ timer' = "shut"
  /\ UNCHANGED <<page, hasSurface, finishing, opened, mHandler, handler, cam,
                 queue, later, joining, crashed>>

Back ==
  /\ Main
  /\ life \in {"resumed", "paused", "stopped"} /\ ~finishing
  /\ finishing' = TRUE
  /\ UNCHANGED <<life, page, hasSurface, opened, timer, mHandler, handler, cam,
                 queue, later, joining, crashed>>

Launch ==
  /\ Main
  /\ life = "destroyed" /\ page < Pages
  /\ page' = page + 1
  /\ life' = "created"
  /\ hasSurface' = FALSE
  /\ finishing' = FALSE
  /\ opened' = 0
  /\ timer' = "armed"
  /\ UNCHANGED <<mHandler, handler, cam, queue, later, joining, crashed>>

(* FinishListener.run, on the timer's own thread. *)
TimerFires ==
  /\ crashed = "no"
  /\ timer = "armed"
  /\ timer' = "fired"
  /\ finishing' = TRUE
  /\ UNCHANGED <<life, page, hasSurface, opened, mHandler, handler, cam,
                 queue, later, joining, crashed>>

-----------------------------------------------------------------------------
(* The camera posts what it owes to the main looper.                        *)

CameraFrame ==
  /\ crashed = "no"
  /\ cam.open /\ cam.drawing /\ cam.oneShot
  /\ cam' = [cam EXCEPT !.oneShot = FALSE]
  /\ queue' = Append(queue, [what |-> "frame", to |-> 0])
  /\ UNCHANGED <<page_vars, mHandler, handler, later, joining, crashed>>

CameraFocus ==
  /\ crashed = "no"
  /\ cam.open /\ cam.focusing
  /\ cam' = [cam EXCEPT !.focusing = FALSE]
  /\ queue' = Append(queue, [what |-> "focus", to |-> 0])
  /\ UNCHANGED <<page_vars, mHandler, handler, later, joining, crashed>>

-----------------------------------------------------------------------------
(* The decode thread of handler h.                                          *)

Take(h) ==
  /\ crashed = "no"
  /\ handler[h].thread = "idle" /\ handler[h].inbox # <<>>
  /\ handler' = [handler EXCEPT
       ![h].thread = IF Head(handler[h].inbox) = "quit" THEN "ended" ELSE "decoding",
       ![h].inbox = Tail(@)]
  /\ UNCHANGED <<page_vars, mHandler, cam, queue, later, joining, crashed>>

(* decode ends: it asks its activity for the handler, and while it makes the *)
(* message the other threads go on.                                         *)
decode(h) ==
  /\ crashed = "no"
  /\ handler[h].thread = "decoding"
  /\ handler' = [handler EXCEPT ![h].thread = "sending",
                                ![h].to = mHandler[handler[h].page]]
  /\ UNCHANGED <<page_vars, mHandler, cam, queue, later, joining, crashed>>

sendToTarget(h, result) ==
  /\ crashed = "no"
  /\ handler[h].thread = "sending"
  /\ handler' = [handler EXCEPT ![h].thread = "idle", ![h].to = 0]
  /\ IF handler[h].to = 0
     THEN crashed' = "no handler" /\ UNCHANGED queue
     ELSE queue' = Append(queue, [what |-> result, to |-> handler[h].to]) /\ UNCHANGED crashed
  /\ UNCHANGED <<page_vars, mHandler, cam, later, joining>>

-----------------------------------------------------------------------------
(* The messages of the main looper.                                         *)

Due(what) == Main /\ queue # <<>> /\ Head(queue).what = what
Addressee == Head(queue).to

onPreviewFrame ==
  /\ Due("frame")
  /\ queue' = Tail(queue)
  /\ IF cam.frameTo = 0 THEN UNCHANGED <<handler, cam>>
     ELSE /\ handler' = [handler EXCEPT ![cam.frameTo].inbox = Append(@, "decode")]
          /\ cam' = [cam EXCEPT !.frameTo = 0]
  /\ UNCHANGED <<page_vars, mHandler, later, joining, crashed>>

onAutoFocus ==
  /\ Due("focus")
  /\ queue' = Tail(queue)
  /\ IF cam.focusTo = 0 THEN UNCHANGED <<later, cam>>
     ELSE /\ later' = Append(later, cam.focusTo)
          /\ cam' = [cam EXCEPT !.focusTo = 0]
  /\ UNCHANGED <<page_vars, mHandler, handler, joining, crashed>>

Refocus ==
  /\ Main /\ later # <<>>
  /\ later' = Tail(later)
  /\ LET h == Head(later) IN
       IF handler[h].state # "PREVIEW" THEN UNCHANGED <<cam, crashed>>
       ELSE \/ cam' = requestAutoFocus(cam, h, TRUE) /\ UNCHANGED crashed
            \/ /\ "focus" \in Faults /\ cam.open /\ cam.previewing
               /\ crashed' = "autofocus" /\ UNCHANGED cam
  /\ UNCHANGED <<page_vars, mHandler, handler, queue, joining>>

(* A bug to compare with: a failed decode is not followed by another. *)
DecodeFailedSilently ==
  /\ Due("decode_failed")
  /\ queue' = Tail(queue)
  /\ handler' = [handler EXCEPT ![Addressee].state = "PREVIEW"]
  /\ UNCHANGED <<page_vars, mHandler, cam, later, joining, crashed>>

DecodeFailed ==
  /\ Due("decode_failed")
  /\ queue' = Tail(queue)
  /\ handler' = [handler EXCEPT ![Addressee].state = "PREVIEW"]
  /\ cam' = requestPreviewFrame(cam, Addressee)
  /\ UNCHANGED <<page_vars, mHandler, later, joining, crashed>>

(* A bug to compare with: the search goes on after a result. *)
DecodeSucceededAndGoesOn ==
  /\ Due("decode_succeeded")
  /\ queue' = Tail(queue)
  /\ handler' = [handler EXCEPT ![Addressee].state = "SUCCESS"]
  /\ cam' = requestPreviewFrame(cam, Addressee)
  /\ opened' = IF opened = 2 THEN opened ELSE opened + 1
  /\ UNCHANGED <<life, page, hasSurface, finishing, timer, mHandler, later, joining, crashed>>

(* decode_succeeded and handleDecode: the timer is set again, which a shut  *)
(* down executor rejects, and a result that is not empty opens its page.    *)
DecodeSucceeded ==
  /\ Due("decode_succeeded")
  /\ queue' = Tail(queue)
  /\ handler' = [handler EXCEPT ![Addressee].state = "SUCCESS"]
  /\ IF handler[Addressee].page # page \/ timer = "shut"
     THEN crashed' = "rejected" /\ UNCHANGED <<timer, opened>>
     ELSE /\ timer' = "armed"
          /\ \E empty \in BOOLEAN : opened' = IF empty \/ opened = 2 THEN opened ELSE opened + 1
          /\ UNCHANGED crashed
  /\ UNCHANGED <<life, page, hasSurface, finishing, mHandler, cam, later, joining>>

-----------------------------------------------------------------------------
Init ==
  /\ life = "created" /\ page = 1 /\ hasSurface = FALSE
  /\ finishing = FALSE /\ opened = 0 /\ timer = "armed"
  /\ mHandler = [p \in 1 .. Pages |-> 0]
  /\ handler = [h \in Ids |-> Unborn]
  /\ cam = [open |-> FALSE, previewing |-> FALSE, drawing |-> FALSE,
            oneShot |-> FALSE, focusing |-> FALSE, frameTo |-> 0, focusTo |-> 0]
  /\ queue = <<>> /\ later = <<>> /\ joining = 0 /\ crashed = "no"

PageStep == Resume \/ surfaceCreated \/ surfaceDestroyed \/ Pause \/ Stop \/ Destroy
            \/ Back \/ Launch \/ TimerFires
CameraStep == CameraFrame \/ CameraFocus
MessageStep == onPreviewFrame \/ onAutoFocus \/ Refocus \/ DecodeFailed \/ DecodeSucceeded
ThreadStep(h) == Take(h) \/ decode(h) \/ \E result \in Results : sendToTarget(h, result)

Next == PageStep \/ Joined \/ CameraStep \/ MessageStep \/ \E h \in Ids : ThreadStep(h)

SafetySpec == Init /\ [][Next]_vars

(* Decode threads and the main looper are scheduled by the system; the      *)
(* camera, the user and the lifecycle promise nothing.                      *)
Spec == SafetySpec /\ WF_vars(Joined) /\ WF_vars(MessageStep)
        /\ \A h \in Ids : WF_vars(ThreadStep(h))

-----------------------------------------------------------------------------
(* The types of the variables; a handler that was made knows its page. *)
TypeOK ==
  /\ life \in {"created", "resumed", "paused", "stopped", "destroyed"}
  /\ page \in 1 .. Pages /\ hasSurface \in BOOLEAN /\ finishing \in BOOLEAN
  /\ opened \in 0 .. 2 /\ timer \in {"armed", "fired", "shut"}
  /\ mHandler \in [1 .. Pages -> 0 .. Handlers]
  /\ \A h \in Ids :
       \/ handler[h] = Unborn
       \/ /\ handler[h].page \in 1 .. Pages
          /\ handler[h].state \in {"PREVIEW", "SUCCESS", "DONE"}
          /\ handler[h].thread \in {"idle", "decoding", "sending", "ended"}
          /\ handler[h].to \in 0 .. Handlers
          /\ handler[h].inbox \in Seq({"decode", "quit"})
  /\ cam \in [open : BOOLEAN, previewing : BOOLEAN, drawing : BOOLEAN, oneShot : BOOLEAN,
              focusing : BOOLEAN, frameTo : 0 .. Handlers, focusTo : 0 .. Handlers]
  /\ queue \in Seq(Message) /\ later \in Seq(Ids) /\ joining \in 0 .. Handlers
  /\ crashed \in {"no", "no handler", "rejected", "autofocus"}

Occurs(s, V) == Cardinality({i \in DOMAIN s : s[i] \in V})

(* The frames handler h has out: requested, waiting, being decoded, or as a result. *)
Frames(h) ==
  Cardinality({c \in {cam} : c.frameTo = h})
  + Occurs(handler[h].inbox, {"decode"})
  + Cardinality({t \in {handler[h].thread} : t \in {"decoding", "sending"}})
  + Occurs(queue, ResultsOf(h))

(* A handler has at most one frame out, and none once a result was taken, so *)
(* the two threads never share a frame and a page asks for at most one       *)
(* result page before it is resumed again (CameraManager 187-203,            *)
(* CaptureActivityHandler 81-94).                                            *)
OneFrameAtATime ==
  /\ opened <= 1
  /\ \A h \in Ids : Frames(h) <= IF handler[h].state = "SUCCESS" THEN 0 ELSE 1

(* While the page's handler searches, its frame is on its way: it is with    *)
(* the decode thread, or the camera really draws and will still send it.     *)
(* So the search never stalls (CaptureActivityHandler 59-61, 89-93).         *)
SearchNeverStalls ==
  \A h \in Ids :
    (crashed = "no" /\ joining = 0 /\ mHandler[page] = h /\ handler[h].state = "PREVIEW") =>
      /\ Frames(h) = 1
      /\ cam.frameTo = h =>
           \/ cam.drawing /\ cam.oneShot
           \/ \E i \in DOMAIN queue : queue[i].what = "frame"

(* Whatever order the decode thread, the camera and the queue were in, once  *)
(* quitSynchronously has returned its thread is over, none of its results is *)
(* queued, and the camera will call it no more (CaptureActivityHandler       *)
(* 110-123).                                                                 *)
QuitLeavesNothing ==
  \A h \in Ids :
    (handler[h].state = "DONE" /\ joining # h) =>
      /\ handler[h].thread = "ended"
      /\ Frames(h) = 0 /\ cam.focusTo # h

(* No exception ends the process: the decode thread always finds a handler,  *)
(* and no result reaches a page whose timer was shut down.                   *)
NeverThrows == crashed = "no"

(* Unless the process ends, the main thread does not wait for ever for a     *)
(* decode thread, whatever it was doing when it was told to quit             *)
(* (CaptureActivityHandler 113-119, DecodeThread 71-76).                     *)
JoinReturns == joining # 0 ~> (joining = 0 \/ crashed # "no")
=============================================================================
