------------------------------ MODULE ChatMedia ------------------------------
(***************************************************************************)
(* Pictures and sounds in the chat (ChatMainActivity of the network        *)
(* module).  A file that is sent is first uploaded by a task and then      *)
(* named in a message by the page's fields; one that arrives is fetched by *)
(* the system's download manager while a runnable on the main thread polls *)
(* it.  Fields of the page, and static ones all pages share, say which     *)
(* file and which download is meant.  ChatLink models sendAction, the      *)
(* broadcasts and the texts.                                               *)
(***************************************************************************)
EXTENDS Naturals, Sequences

CONSTANTS
  MaxPages,  \* bound: chat pages opened
  MaxPicks,  \* bound: files the user chooses
  MaxMedia   \* bound: pictures and sounds the friends send

ASSUME MediaAssumption == MaxPages \in Nat /\ MaxPicks \in Nat /\ MaxMedia \in Nat

VARIABLES
  page,         \* mActivity, ll_show: the chat page created last
  front,        \* it is "shown", "hidden" or "left"
  picked,       \* the files chosen, in order: a photo or a sound, and in which page
  mFileName,    \* of each page: the file chosen last, 0 before
  mFilePath,    \* static: the file chosen last in any page
  uploads,      \* AsyncTask's serial executor: its tasks
  results,      \* onPostExecute messages on their way to the main thread
  sent,         \* history: the messages of own files
  downloads,    \* rows of the download manager, in the order of their messages
  mDownloadId,  \* static: the last one
  refreshing,   \* the messages whose RefreshRunnable is posted
  media,        \* what each message shows: a download, 0 before
  crash         \* what the main thread died of

life == <<page, front>>
up == <<picked, mFileName, mFilePath, uploads, results, sent>>
down == <<downloads, mDownloadId, refreshing, media>>
vars == <<life, up, down, crash>>

Kind == {"photo", "sound"}
Alive == crash = "none"
Shown == Alive /\ front = "shown"

(* A page that was left keeps its receiver until Android stops it.          *)
Listens == Alive /\ page # 0 /\ front # "hidden"

Init ==
  /\ page = 0 /\ front = "left"
  /\ picked = <<>> /\ mFileName = [p \in 1 .. MaxPages |-> 0] /\ mFilePath = 0
  /\ uploads = <<>> /\ results = <<>> /\ sent = <<>>
  /\ downloads = <<>> /\ mDownloadId = 0 /\ refreshing = {} /\ media = <<>>
  /\ crash = "none"
-----------------------------------------------------------------------------
(* onCreate, onStop, onStart and the back key.                              *)
Create ==
  /\ Alive /\ front = "left" /\ page < MaxPages
  /\ page' = page + 1 /\ front' = "shown"
  /\ UNCHANGED <<up, down, crash>>

Hide == Shown /\ front' = "hidden" /\ UNCHANGED <<page, up, down, crash>>
Show == Alive /\ front = "hidden" /\ front' = "shown" /\ UNCHANGED <<page, up, down, crash>>
Leave == Shown /\ front' = "left" /\ UNCHANGED <<page, up, down, crash>>
-----------------------------------------------------------------------------
(* onConfirmSelect: the fields, and a task for the upload.                  *)
onConfirmSelect(kind) ==
  /\ Shown /\ Len(picked) < MaxPicks
  /\ picked' = Append(picked, [kind |-> kind, page |-> page])
  /\ mFileName' = [mFileName EXCEPT ![page] = Len(picked')]
  /\ mFilePath' = Len(picked')
  /\ uploads' = Append(uploads, [page |-> page, file |-> Len(picked')])
  /\ UNCHANGED <<life, results, sent, down, crash>>

(* doInBackground and upload, one task after the other: the file is stored, *)
(* or an exception says why not.                                            *)
Upload(succ) ==
  /\ Alive /\ uploads # <<>>
  /\ uploads' = Tail(uploads)
  /\ results' = Append(results,
       [page |-> Head(uploads).page, file |-> Head(uploads).file, succ |-> succ])
  /\ UNCHANGED <<life, picked, mFileName, mFilePath, sent, down, crash>>

NamedByPath(p) == mFilePath  \* mutant: the name is taken from the static path
Named(p) == mFileName[p]

(* onUploadFinish of the page that chose the file, which may have been left: *)
(* showMedia appends the file the static path names to the last page's       *)
(* window, and throws when a photo's height is asked of a sound; then the    *)
(* message goes to the friend of the page that chose it.                     *)
onUploadFinish ==
  /\ Alive /\ results # <<>>
  /\ LET r == Head(results)
         name == Named(r.page)
     IN  /\ results' = Tail(results)
         /\ IF ~r.succ
            THEN UNCHANGED <<sent, crash>>
            ELSE IF picked[mFileName[r.page]].kind = "photo" /\ picked[mFilePath].kind = "sound"
            THEN crash' = "null" /\ UNCHANGED sent
            ELSE /\ sent' = Append(sent, [page |-> r.page, file |-> r.file, name |-> name,
                                          shows |-> mFilePath, chosen |-> Len(picked)])
                 /\ UNCHANGED crash
  /\ UNCHANGED <<life, picked, mFileName, mFilePath, uploads, down>>
-----------------------------------------------------------------------------
(* downloadFile: the static field remembers the download that was enqueued. *)
LatestOnce(id) == IF mDownloadId = 0 THEN id ELSE mDownloadId  \* mutant: the first
Latest(id) == id

(* onReceive and showMedia of a friend's picture or sound.                  *)
onReceive(kind) ==
  /\ Listens /\ Len(downloads) < MaxMedia
  /\ downloads' = Append(downloads, [kind |-> kind, state |-> "pending"])
  /\ mDownloadId' = Latest(Len(downloads'))
  /\ refreshing' = refreshing \cup {Len(downloads')}
  /\ media' = Append(media, 0)
  /\ UNCHANGED <<life, up, crash>>

(* A message that names no address of the web is taken for one of our own:   *)
(* nothing is fetched, and a photo shows what the static path names, which   *)
(* throws when that is nothing or a sound.                                   *)
onReceiveLocal(kind) ==
  /\ Listens
  /\ crash' = IF kind = "photo" /\ (mFilePath = 0 \/ picked[mFilePath].kind = "sound")
              THEN "null" ELSE crash
  /\ UNCHANGED <<life, up, down>>

(* The download manager: the size is unknown until the download runs, and   *)
(* may turn out to be 0.                                                    *)
Fetch(d, state) ==
  /\ \/ downloads[d].state = "pending" /\ state \in {"running", "empty", "failed"}
     \/ downloads[d].state = "running" /\ state \in {"done", "failed"}
  /\ downloads' = [downloads EXCEPT ![d].state = state]
  /\ UNCHANGED <<life, up, mDownloadId, refreshing, media, crash>>

PolledFirst == downloads[1]  \* mutant: the query has no filter
Polled == downloads[mDownloadId]

(* RefreshRunnable.run divides by the size ...                              *)
RefreshThrows(d) ==
  /\ Alive /\ d \in refreshing
  /\ Polled.state = "empty"
  /\ crash' = "division"
  /\ UNCHANGED <<life, up, down>>

(* ... posts itself again, which changes nothing, unless all is there; then *)
(* a photo's height is asked of what was fetched, and a sound that cannot   *)
(* be played is let be.                                                     *)
Unposted(d) == refreshing \ {d}

RefreshEnds(d) ==
  /\ Alive /\ d \in refreshing
  /\ Polled.state = "done"
  /\ refreshing' = Unposted(d)
  /\ media' = [media EXCEPT ![d] = mDownloadId]
  /\ crash' = IF downloads[d].kind = "photo" /\ Polled.kind = "sound" THEN "null" ELSE crash
  /\ UNCHANGED <<life, up, downloads, mDownloadId>>

Refresh(d) == RefreshThrows(d) \/ RefreshEnds(d)
-----------------------------------------------------------------------------
PageStep == Create \/ Hide \/ Show \/ Leave \/ \E k \in Kind : onConfirmSelect(k)
NetStep ==
  \/ \E succ \in BOOLEAN : Upload(succ)
  \/ \E k \in Kind : onReceive(k) \/ onReceiveLocal(k)
  \/ \E d \in DOMAIN downloads, s \in {"running", "empty", "done", "failed"} : Fetch(d, s)

Next == PageStep \/ NetStep \/ onUploadFinish \/ \E d \in 1 .. MaxMedia : Refresh(d)

SafetySpec == Init /\ [][Next]_vars

(* The main thread runs what was posted to it; nothing is assumed of the    *)
(* network, the download manager or the user.                               *)
Spec == SafetySpec /\ \A d \in 1 .. MaxMedia : WF_vars(Refresh(d))
-----------------------------------------------------------------------------
(* PROPERTIES                                                               *)

TypeOK ==
  /\ page \in 0 .. MaxPages /\ front \in {"shown", "hidden", "left"}
  /\ picked \in Seq([kind : Kind, page : 1 .. MaxPages]) /\ Len(picked) <= MaxPicks
  /\ mFileName \in [1 .. MaxPages -> 0 .. Len(picked)] /\ mFilePath = Len(picked)
  /\ downloads \in Seq([kind : Kind, state : {"pending", "running", "empty", "done", "failed"}])
  /\ Len(downloads) <= MaxMedia /\ mDownloadId = Len(downloads)
  /\ refreshing \subseteq DOMAIN downloads
  /\ Len(media) = Len(downloads) /\ \A d \in DOMAIN media : media[d] \in 0 .. mDownloadId
  /\ crash \in {"none", "null", "division"}

(* A message names the file that was uploaded for it, whatever other pages    *)
(* chose meanwhile, except exactly when its own page chose another file       *)
(* before the upload's end was handled; and the window shows the file that    *)
(* the message names, except exactly when a later page had chosen one by      *)
(* then (ChatMainActivity 179-201, 216-225).                                  *)
ChosenBetween(f, m) == {picked[g].page : g \in f + 1 .. m.chosen}
SendsWhatWasUploaded ==
  \A i \in DOMAIN sent : LET m == sent[i] IN
    /\ (m.name = m.file <=> m.page \notin ChosenBetween(m.file, m))
    /\ (m.shows = m.name <=> \A p \in ChosenBetween(m.name, m) : p <= m.page)

(* A message shows its own picture or a later one, never an earlier one, and  *)
(* all of it: a poll that looks at the last download only ends a message with *)
(* what that download has fetched.                                            *)
ShowsOwnOrLater ==
  \A d \in DOMAIN media :
    media[d] # 0 => media[d] >= d /\ downloads[media[d]].state = "done"

(* Once the last picture or sound was fetched, every message stops polling,   *)
(* also those whose own download failed, unless the process dies or another   *)
(* one arrives.                                                               *)
LastIsFetched(n) == Len(downloads) = n /\ downloads[n].state = "done"
PollingEnds ==
  \A d, n \in 1 .. MaxMedia :
    (d \in refreshing /\ LastIsFetched(n))
      ~> (d \notin refreshing \/ ~Alive \/ Len(downloads) > n)
=============================================================================
