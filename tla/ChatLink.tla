------------------------------ MODULE ChatLink ------------------------------
(***************************************************************************)
(* The chat of the network module: MainApplication and the ClientThread it *)
(* starts (one thread that connects and then writes what its handler is    *)
(* sent, one that reads lines and broadcasts them), and the pages that use *)
(* them: login, contacts, chat.  The chat server is outside the            *)
(* repository: it may send any line, or none, and close the connection.    *)
(***************************************************************************)
EXTENDS Naturals, Sequences, FiniteSets

CONSTANTS
  MaxSends,     \* bound: calls of sendAction
  MaxLines,     \* bound: lines the server sends
  MaxTraffic,   \* bound: calls and lines together
  MaxDue,       \* bound: refreshes that wait
  MayRecreate   \* may the system destroy a page without the user leaving it?

ASSUME ChatAssumption ==
  /\ MaxSends \in Nat /\ MaxLines \in Nat /\ MaxTraffic \in Nat /\ MaxDue \in Nat
  /\ MayRecreate \in BOOLEAN

VARIABLES
  link,        \* how far ClientThread.run got; mSendHandler is set when "looping"
  socket,      \* the connection
  sendQueue,   \* messages of mSendHandler
  written,     \* history: what was written to the open connection
  recv,        \* RecvThread
  lines,       \* lines of the server that were not read yet
  sentLines,   \* how many lines the server sent
  broadcasts,  \* broadcasts on their way to a registered receiver
  page,        \* the page in front
  visible,     \* it is started, not stopped
  leaving,     \* pages that were left and whose onStop and onDestroy are to come
  due,         \* how many mRefresh wait in the contacts pages' handlers
  online,      \* mGroupOnline lists somebody
  window,      \* ll_show of the chat page: what it shows, and whose it is
  sends,       \* how many calls of sendAction there were
  slipped,     \* history: the contacts in front lost their session, see TextsInSession
  astray       \* history: the texts that were sent while it was so

wire == <<link, socket, recv, lines, sentLines>>
pages == <<page, visible, leaving, due, online, window>>
history == <<slipped, astray>>
vars == <<wire, pages, sendQueue, written, broadcasts, sends, history>>

Message == [what : {"LOGIN", "LOGOUT", "GETLIST", "SENDMSG"}, nr : 1 .. MaxSends]
Line == [what : {"RECVMSG", "GETLIST", "UNKNOWN", "MALFORMED"}, nr : 1 .. MaxLines]
Receiver == [chat |-> {"RECVMSG", "ERROR"}, contacts |-> {"GETLIST", "ERROR"}]

-----------------------------------------------------------------------------
(* mRefresh is posted; the model remembers at most MaxDue of them.          *)
PostRefresh == due' = IF due < MaxDue THEN due + 1 ELSE due

(* MainApplication.sendAction: without a handler the message is dropped.    *)
sendAction(what) ==
  /\ sends < MaxSends /\ sends + sentLines < MaxTraffic
  /\ sends' = sends + 1
  /\ sendQueue' = IF link = "looping"
                  THEN Append(sendQueue, [what |-> what, nr |-> sends + 1])
                  ELSE sendQueue

(* The receivers are registered in onStart and unregistered in onStop: the   *)
(* page in front has one, and until it is stopped a page that was left.      *)
Registered(to, left) == IF left THEN to \in leaving ELSE page = to /\ visible

(* What is on its way to an unregistered receiver is dropped when its turn   *)
(* comes.                                                                    *)
Dropped == [to |-> "nobody", left |-> FALSE, what |-> "ERROR", nr |-> 0]
Unregister(to, left) ==
  LET rest == [i \in DOMAIN broadcasts |->
                 IF broadcasts[i].to = to /\ broadcasts[i].left = left
                 THEN Dropped ELSE broadcasts[i]]
  IN  broadcasts' = IF \A i \in DOMAIN rest : rest[i] = Dropped THEN <<>> ELSE rest

(* A page is left: Android stops and destroys it after the page that comes   *)
(* to the front has resumed, at some time.  Bound: not two of one kind wait. *)
Leave(to) ==
  /\ to \notin leaving
  /\ leaving' = leaving \cup {to}
  /\ broadcasts' = [i \in DOMAIN broadcasts |->
                      IF broadcasts[i].to = to
                      THEN [broadcasts[i] EXCEPT !.left = TRUE] ELSE broadcasts[i]]

Broadcast(to, what, nr) ==
  LET For(left) == IF Registered(to, left)
                   THEN <<[to |-> to, left |-> left, what |-> what, nr |-> nr]>> ELSE <<>>
  IN  For(TRUE) \o For(FALSE)

(* notify of a connection error broadcasts it to both.                      *)
Errors == Broadcast("chat", "ERROR", 0) \o Broadcast("contacts", "ERROR", 0)

(* A bug to compare with: every line that is no chat message goes to the list. *)
NotifyAll(line) ==
  IF line.what = "RECVMSG" THEN Broadcast("chat", "RECVMSG", line.nr)
  ELSE Broadcast("contacts", line.what, line.nr)

(* notify of a line; another head has an action nobody receives.            *)
Notify(line) ==
  IF line.what = "RECVMSG" THEN Broadcast("chat", "RECVMSG", line.nr)
  ELSE IF line.what = "GETLIST" THEN Broadcast("contacts", "GETLIST", line.nr)
  ELSE <<>>

-----------------------------------------------------------------------------
(* ClientThread.run.                                                        *)

Connect ==
  /\ link = "connecting"
  /\ link' = "connected" /\ socket' = "open" /\ recv' = "reading"
  /\ UNCHANGED <<pages, lines, sentLines, sendQueue, written, broadcasts, sends, history>>

ConnectFails ==
  /\ link = "connecting"
  /\ link' = "failed"
  /\ broadcasts' = broadcasts \o Errors
  /\ UNCHANGED <<pages, socket, recv, lines, sentLines, sendQueue, written, sends, history>>

Publish ==
  /\ link = "connected"
  /\ link' = "looping"
  /\ UNCHANGED <<pages, socket, recv, lines, sentLines, sendQueue, written, broadcasts,
                 sends, history>>

(* A bug to compare with: a thread of its own for every write, as           *)
(* MessageTransmit has them.                                                *)
WriteUnordered ==
  /\ link = "looping"
  /\ \E i \in DOMAIN sendQueue :
       /\ written' = IF socket = "open" THEN Append(written, sendQueue[i]) ELSE written
       /\ sendQueue' = SubSeq(sendQueue, 1, i - 1) \o SubSeq(sendQueue, i + 1, Len(sendQueue))
  /\ UNCHANGED <<wire, pages, broadcasts, sends, history>>

(* The handler's handleMessage: an exception of the write loses the message. *)
Write ==
  /\ link = "looping" /\ sendQueue # <<>>
  /\ sendQueue' = Tail(sendQueue)
  /\ written' = IF socket = "open" THEN Append(written, Head(sendQueue)) ELSE written
  /\ UNCHANGED <<wire, pages, broadcasts, sends, history>>

-----------------------------------------------------------------------------
(* RecvThread.                                                              *)

(* A bug to compare with: lines overtake each other on their way. *)
ReadUnordered ==
  /\ recv = "reading"
  /\ \E i \in DOMAIN lines :
       /\ lines' = SubSeq(lines, 1, i - 1) \o SubSeq(lines, i + 1, Len(lines))
       /\ broadcasts' = broadcasts \o Notify(lines[i])
  /\ UNCHANGED <<link, socket, recv, sentLines, pages, sendQueue, written, sends, history>>

(* A line whose head cannot be cut out throws inside notify, and the        *)
(* exception ends the thread like one of the connection.                    *)
Read ==
  /\ recv = "reading" /\ lines # <<>>
  /\ IF Head(lines).what = "MALFORMED"
     THEN recv' = "ended" /\ lines' = <<>> /\ broadcasts' = broadcasts \o Errors
     ELSE recv' = recv /\ lines' = Tail(lines) /\ broadcasts' = broadcasts \o Notify(Head(lines))
  /\ UNCHANGED <<link, socket, sentLines, pages, sendQueue, written, sends, history>>

(* readLine throws when the connection broke, and returns null, which ends  *)
(* the loop without a word, when the server closed it.                      *)
ReadEnds ==
  /\ recv = "reading"
  /\ recv' = "ended" /\ lines' = <<>>
  /\ \/ socket = "broken" /\ broadcasts' = broadcasts \o Errors
     \/ socket = "closed" /\ lines = <<>> /\ UNCHANGED broadcasts
  /\ UNCHANGED <<link, socket, sentLines, pages, sendQueue, written, sends, history>>

-----------------------------------------------------------------------------
(* The server and the network.  A line nobody will read is not kept.        *)

ServerLine ==
  /\ socket = "open" /\ recv = "reading"
  /\ sentLines < MaxLines /\ sends + sentLines < MaxTraffic
  /\ sentLines' = sentLines + 1
  /\ \E what \in {"RECVMSG", "GETLIST", "UNKNOWN", "MALFORMED"} :
       lines' = Append(lines, [what |-> what, nr |-> sentLines + 1])
  /\ UNCHANGED <<link, socket, recv, pages, sendQueue, written, broadcasts, sends, history>>

SocketEnds ==
  /\ socket = "open"
  /\ socket' \in {"broken", "closed"}
  /\ UNCHANGED <<link, recv, lines, sentLines, pages, sendQueue, written, broadcasts,
                 sends, history>>

-----------------------------------------------------------------------------
(* The pages, on the main thread.                                           *)

(* onReceive of the addressed receiver; an error is only a toast.  The views *)
(* are static: a receiver of a page that was left shows its text in the      *)
(* window of the page opened since.                                          *)
Deliver ==
  /\ broadcasts # <<>>
  /\ broadcasts' = Tail(broadcasts)
  /\ LET b == Head(broadcasts) IN
       /\ window' = IF b.to = "chat" /\ b.what = "RECVMSG" /\ page = "chat"
                    THEN Append(window, [mine |-> FALSE, left |-> b.left, nr |-> b.nr])
                    ELSE window
       /\ online' \in IF b.to = "contacts" /\ b.what = "GETLIST" THEN BOOLEAN ELSE {online}
  /\ UNCHANGED <<wire, page, visible, leaving, due, sendQueue, written, sends, history>>

OpenLogin ==
  /\ page = "home" /\ visible
  /\ page' = "login"
  /\ UNCHANGED <<wire, visible, leaving, due, online, window, sendQueue, written, broadcasts,
                 sends, history>>

LeaveLogin ==
  /\ page = "login" /\ visible
  /\ page' = "home"
  /\ UNCHANGED <<wire, visible, leaving, due, online, window, sendQueue, written, broadcasts,
                 sends, history>>

(* btn_ok: LOGIN, and the contacts, whose onResume posts a refresh.         *)
Login ==
  /\ page = "login" /\ visible
  /\ sendAction("LOGIN")
  /\ slipped' = (link # "looping")
  /\ page' = "contacts"
  /\ PostRefresh
  /\ UNCHANGED <<wire, visible, leaving, online, window, written, broadcasts, astray>>

(* btn_refresh, or another tab and back. *)
AskRefresh ==
  /\ page = "contacts" /\ visible
  /\ PostRefresh
  /\ UNCHANGED <<wire, page, visible, leaving, online, window, sendQueue, written, broadcasts,
                 sends, history>>

(* mRefresh runs whatever became of the page that posted it. *)
Refresh ==
  /\ due > 0
  /\ due' = due - 1
  /\ sendAction("GETLIST")
  /\ UNCHANGED <<wire, page, visible, leaving, online, window, written, broadcasts, history>>

(* A bug to compare with: the contacts log out when they are stopped. *)
OpenChatLoggingOut ==
  /\ page = "contacts" /\ visible /\ online
  /\ sendAction("LOGOUT")
  /\ page' = "chat" /\ window' = <<>>
  /\ Unregister("contacts", FALSE)
  /\ UNCHANGED <<wire, visible, leaving, due, online, written, history>>

(* The covered contacts are stopped here; what their receiver does until     *)
(* then is only to change the list.                                          *)
OpenChat ==
  /\ page = "contacts" /\ visible /\ online
  /\ page' = "chat" /\ window' = <<>>
  /\ Unregister("contacts", FALSE)
  /\ UNCHANGED <<wire, visible, leaving, due, online, sendQueue, written, sends, history>>

(* btn_send: the text is shown first, whether or not it can be sent.        *)
SendText ==
  /\ page = "chat" /\ visible
  /\ window' = Append(window, [mine |-> TRUE, left |-> FALSE, nr |-> sends + 1])
  /\ sendAction("SENDMSG")
  /\ astray' = IF slipped THEN astray \cup {sends + 1} ELSE astray
  /\ UNCHANGED <<wire, page, visible, leaving, due, online, written, broadcasts, slipped>>

LeaveChat ==
  /\ page = "chat" /\ visible
  /\ page' = "contacts" /\ window' = <<>> /\ PostRefresh
  /\ Leave("chat")
  /\ UNCHANGED <<wire, visible, online, sendQueue, written, sends, history>>

(* onStop of a chat page that was left.                                     *)
DestroyChat ==
  /\ "chat" \in leaving
  /\ leaving' = leaving \ {"chat"}
  /\ Unregister("chat", TRUE)
  /\ UNCHANGED <<wire, page, visible, due, online, window, sendQueue, written, sends, history>>

(* finish() of the contacts, or the back key.                               *)
LeaveContacts ==
  /\ page = "contacts" /\ visible
  /\ page' = "home"
  /\ Leave("contacts")
  /\ UNCHANGED <<wire, visible, due, online, window, sendQueue, written, sends, history>>

(* onStop and onDestroy of contacts that were left: the LOGOUT, which comes  *)
(* after the next LOGIN when the user was quick.                             *)
DestroyContacts ==
  /\ "contacts" \in leaving
  /\ leaving' = leaving \ {"contacts"}
  /\ Unregister("contacts", TRUE)
  /\ sendAction("LOGOUT")
  /\ slipped' = (slipped \/ page \in {"contacts", "chat"})
  /\ UNCHANGED <<wire, page, visible, due, online, window, written, astray>>

(* Hiding the other pages changes nothing that is modelled. *)
Hide ==
  /\ visible /\ page \in {"contacts", "chat"}
  /\ visible' = FALSE
  /\ Unregister(page, FALSE)
  /\ UNCHANGED <<wire, page, leaving, due, online, window, sendQueue, written, sends, history>>

Show ==
  /\ ~visible
  /\ visible' = TRUE
  /\ IF page = "contacts" THEN PostRefresh ELSE UNCHANGED due
  /\ UNCHANGED <<wire, page, leaving, online, window, sendQueue, written, broadcasts,
                 sends, history>>

(* The system makes a page anew, because the screen turned or because it    *)
(* had reclaimed the stopped contacts: their onDestroy logs out, and        *)
(* nothing logs in again.                                                   *)
RecreateContacts ==
  /\ MayRecreate
  /\ page \in {"contacts", "chat"}
  /\ sendAction("LOGOUT")
  /\ IF page = "contacts" /\ visible
     THEN Unregister("contacts", FALSE) /\ PostRefresh
     ELSE UNCHANGED <<broadcasts, due>>
  /\ slipped' = TRUE
  /\ UNCHANGED <<wire, page, visible, leaving, online, window, written, astray>>

RecreateChat ==
  /\ MayRecreate
  /\ page = "chat"
  /\ window' = <<>>
  /\ Unregister("chat", FALSE)
  /\ UNCHANGED <<wire, page, visible, leaving, due, online, sendQueue, written, sends, history>>

-----------------------------------------------------------------------------
Init ==
  /\ link = "connecting" /\ socket = "none" /\ recv = "none"
  /\ lines = <<>> /\ sentLines = 0
  /\ sendQueue = <<>> /\ written = <<>> /\ broadcasts = <<>>
  /\ page = "home" /\ visible = TRUE /\ leaving = {}
  /\ due = 0 /\ online = FALSE /\ window = <<>>
  /\ sends = 0 /\ slipped = FALSE /\ astray = {}

ThreadStep == Connect \/ ConnectFails \/ Publish \/ Write \/ Read \/ ReadEnds
ServerStep == ServerLine \/ SocketEnds
PageStep == \/ Deliver \/ OpenLogin \/ LeaveLogin \/ Login \/ AskRefresh \/ Refresh
            \/ OpenChat \/ SendText \/ LeaveChat \/ DestroyChat \/ LeaveContacts \/ DestroyContacts
            \/ Hide \/ Show \/ RecreateContacts \/ RecreateChat

Next == ThreadStep \/ ServerStep \/ PageStep

SafetySpec == Init /\ [][Next]_vars

(* The looper of a running ClientThread handles what it was sent. *)
Spec == SafetySpec /\ WF_vars(Write)

-----------------------------------------------------------------------------
(* The types of the variables; every receiver only gets broadcasts of its    *)
(* own action, and only while it is registered.                              *)
TypeOK ==
  /\ link \in {"connecting", "connected", "looping", "failed"}
  /\ socket \in {"none", "open", "broken", "closed"}
  /\ sendQueue \in Seq(Message) /\ written \in Seq(Message)
  /\ recv \in {"none", "reading", "ended"}
  /\ lines \in Seq(Line) /\ sentLines \in 0 .. MaxLines
  /\ \A i \in DOMAIN broadcasts :
       broadcasts[i].to # "nobody" =>
         /\ broadcasts[i].to \in DOMAIN Receiver
         /\ broadcasts[i].what \in Receiver[broadcasts[i].to]
         /\ Registered(broadcasts[i].to, broadcasts[i].left)
  /\ page \in {"home", "login", "contacts", "chat"} /\ visible \in BOOLEAN
  /\ leaving \subseteq {"contacts", "chat"}
  /\ due \in 0 .. MaxDue /\ online \in BOOLEAN
  /\ window \in Seq([mine : BOOLEAN, left : BOOLEAN, nr : Nat])
  /\ sends \in 0 .. MaxSends /\ slipped \in BOOLEAN /\ astray \subseteq 1 .. MaxSends

(* The chat page shows what the user typed, and what the server sent, each   *)
(* in its order, whatever was lost while the page was stopped; and once,     *)
(* except that the receiver of a chat page that was left and is not stopped  *)
(* yet shows a text another time (ClientThread 97-100, ChatMainActivity      *)
(* 119-127, 249-254, 497-513).                                               *)
WindowInOrder ==
  \A i, j \in DOMAIN window :
    i < j /\ window[i].mine = window[j].mine =>
      /\ window[i].nr <= window[j].nr
      /\ window[i].left = window[j].left => window[i].nr # window[j].nr

(* The messages accepted so far, in the order the server gets them.          *)
Accepted == written \o sendQueue

InSession(i) ==
  \E j \in 1 .. i - 1 :
    /\ Accepted[j].what = "LOGIN"
    /\ \A k \in j + 1 .. i - 1 : Accepted[k].what # "LOGOUT"

(* A text reaches the server inside a session, after a LOGIN and before the  *)
(* LOGOUT, but for the texts sent from contacts that lost their session, and *)
(* those never do: their LOGIN was dropped, or the system destroyed them, or *)
(* the LOGOUT of contacts left before came after it (QQLoginActivity 37-41,  *)
(* QQContactActivity 109-114).                                               *)
TextsInSession ==
  socket # "broken" /\ socket # "closed" =>
    \A i \in DOMAIN Accepted :
      Accepted[i].what = "SENDMSG" => (InSession(i) <=> Accepted[i].nr \notin astray)

Channel == INSTANCE OrderedChannel WITH
  waiting <- sendQueue, broken <- socket \in {"broken", "closed"}

(* What sendAction accepted is written in order and once, and is lost only   *)
(* with the connection (MainApplication 51, ClientThread 71-83).             *)
SendsInOrder == Channel!Spec

=============================================================================
