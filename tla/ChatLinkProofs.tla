--------------------------- MODULE ChatLinkProofs ---------------------------
(***************************************************************************)
(* Theorems about ChatLink for any numbers of calls, lines and refreshes.  *)
(* The sending half: what sendAction accepted is written in its order, and *)
(* every text is sent inside a session.  The receiving half: the types,    *)
(* and that the chat page shows each side's texts in order.                *)
(***************************************************************************)
EXTENDS ChatLink, TLAPS, SequenceTheorems

What == {"LOGIN", "LOGOUT", "GETLIST", "SENDMSG"}

(* The types of the sending half, and that only a connected thread has a handler. *)
LinkOK ==
  /\ link \in {"connecting", "connected", "looping", "failed"}
  /\ socket \in {"none", "open", "broken", "closed"}
  /\ link \in {"connected", "looping"} <=> socket # "none"
  /\ sendQueue \in Seq(Message) /\ written \in Seq(Message)
  /\ sends \in Nat

(* The steps that touch the sending half. *)
Sending ==
  /\ \E what \in What : sendAction(what)
  /\ UNCHANGED <<link, socket, written>>

(* The steps of the pages that send nothing. *)
Quiet == \/ Deliver \/ OpenLogin \/ LeaveLogin \/ AskRefresh \/ OpenChat \/ LeaveChat
         \/ DestroyChat \/ LeaveContacts \/ Hide \/ Show \/ RecreateChat

LEMMA QuietSteps ==
  ASSUME Quiet
  PROVE  UNCHANGED <<wire, sendQueue, written, sends, history>>
  BY DEF Quiet, Deliver, OpenLogin, LeaveLogin, AskRefresh, OpenChat, LeaveChat, DestroyChat,
         LeaveContacts, Hide, Show, RecreateChat

LEMMA StepShape ==
  ASSUME [Next]_vars
  PROVE  \/ UNCHANGED <<link, socket, sendQueue, written, sends>>
         \/ Connect \/ ConnectFails \/ Publish \/ Write \/ SocketEnds
         \/ Sending
  <1>1. CASE UNCHANGED vars
    BY <1>1 DEF vars, wire
  <1>2. CASE ThreadStep
    BY <1>2 DEF ThreadStep, Read, ReadEnds, pages
  <1>3. CASE ServerStep
    BY <1>3 DEF ServerStep, ServerLine, pages
  <1>4. CASE Login \/ Refresh \/ SendText \/ DestroyContacts \/ RecreateContacts
    BY <1>4 DEF Login, Refresh, SendText, DestroyContacts, RecreateContacts, Sending, What, wire
  <1>5. CASE Quiet
    BY <1>5, QuietSteps DEF wire
  <1> QED BY <1>1, <1>2, <1>3, <1>4, <1>5 DEF Next, PageStep, Quiet

-----------------------------------------------------------------------------
(* What a call of sendAction does to the queue. *)
LEMMA SendingOK ==
  ASSUME LinkOK, NEW what \in What, sendAction(what)
  PROVE  /\ sends' \in Nat
         /\ \/ link # "looping" /\ sendQueue' = sendQueue
            \/ /\ link = "looping"
               /\ \E m \in Message : /\ m.what = what /\ m.nr = sends + 1
                                     /\ sendQueue' = Append(sendQueue, m)
         /\ sendQueue' \in Seq(Message) /\ sends' = sends + 1
  <1> DEFINE m == [what |-> what, nr |-> sends + 1]
  <1>1. sends \in Nat /\ sends < MaxSends /\ MaxSends \in Nat /\ sends' = sends + 1
    BY ChatAssumption DEF LinkOK, sendAction
  <1>2. m \in Message /\ m.what = what /\ m.nr = sends + 1
    BY <1>1 DEF Message, What
  <1>3. sendQueue' = IF link = "looping" THEN Append(sendQueue, m) ELSE sendQueue
    BY DEF sendAction
  <1> HIDE DEF m
  <1>4. Append(sendQueue, m) \in Seq(Message)
    BY <1>2, AppendProperties DEF LinkOK
  <1> QED BY <1>1, <1>2, <1>3, <1>4 DEF LinkOK

(* What a write does to the queue and to the connection. *)
LEMMA WriteOK ==
  ASSUME LinkOK, Write
  PROVE  /\ sendQueue # <<>> /\ sendQueue' = Tail(sendQueue) /\ sendQueue' \in Seq(Message)
         /\ written' = IF socket = "open" THEN Append(written, Head(sendQueue)) ELSE written
         /\ written' \in Seq(Message)
         /\ UNCHANGED <<link, socket, sends>>
  <1>1. /\ sendQueue # <<>> /\ sendQueue' = Tail(sendQueue)
        /\ written' = IF socket = "open" THEN Append(written, Head(sendQueue)) ELSE written
        /\ UNCHANGED <<link, socket, sends>>
    BY DEF Write, wire
  <1>2. Head(sendQueue) \in Message /\ Tail(sendQueue) \in Seq(Message)
    BY <1>1, HeadTailProperties DEF LinkOK
  <1>3. Append(written, Head(sendQueue)) \in Seq(Message)
    BY <1>2, AppendProperties DEF LinkOK
  <1> QED BY <1>1, <1>2, <1>3 DEF LinkOK

LEMMA InitLinkOK == Init => LinkOK
  BY EmptySeq DEF Init, LinkOK

LEMMA NextLinkOK == LinkOK /\ [Next]_vars => LinkOK'
  <1> SUFFICES ASSUME LinkOK, [Next]_vars PROVE LinkOK'
    OBVIOUS
  <1>1. CASE UNCHANGED <<link, socket, sendQueue, written, sends>>
    BY <1>1 DEF LinkOK
  <1>2. CASE Connect \/ ConnectFails \/ Publish \/ SocketEnds
    BY <1>2 DEF LinkOK, Connect, ConnectFails, Publish, SocketEnds
  <1>3. CASE Write
    BY <1>3, WriteOK DEF LinkOK
  <1>4. CASE Sending
    BY <1>4, SendingOK DEF LinkOK, Sending
  <1> QED BY <1>1, <1>2, <1>3, <1>4, StepShape

-----------------------------------------------------------------------------
(* Every step of the chat is a step of the channel, or none. *)
LEMMA StepRefines == LinkOK /\ [Next]_vars => [Channel!Next]_(Channel!vars)
  <1> SUFFICES ASSUME LinkOK, [Next]_vars PROVE [Channel!Next]_(Channel!vars)
    OBVIOUS
  <1>1. CASE UNCHANGED <<link, socket, sendQueue, written, sends>>
    BY <1>1 DEF Channel!vars
  <1>2. CASE Connect \/ ConnectFails \/ Publish
    <2>1. UNCHANGED <<sendQueue, written>>
      BY <1>2 DEF Connect, ConnectFails, Publish
    <2>2. socket' = socket \/ (socket = "none" /\ socket' = "open")
      BY <1>2 DEF Connect, ConnectFails, Publish, LinkOK
    <2> QED BY <2>1, <2>2 DEF Channel!vars
  <1>3. CASE SocketEnds
    BY <1>3 DEF SocketEnds, Channel!Next, Channel!Break
  <1>4. CASE Write
    <2>1. socket # "none"
      BY <1>4 DEF Write, LinkOK
    <2>2. CASE socket = "open"
      BY <1>4, <2>2, WriteOK DEF Channel!Next, Channel!Write
    <2>3. CASE socket \in {"broken", "closed"}
      BY <1>4, <2>3, WriteOK DEF Channel!Next, Channel!Lose
    <2> QED BY <2>1, <2>2, <2>3 DEF LinkOK
  <1>5. CASE Sending
    BY <1>5, SendingOK DEF Sending, Channel!Next, Channel!Accept, Channel!vars
  <1> QED BY <1>1, <1>2, <1>3, <1>4, <1>5, StepShape

\* The calls of sendAction by the pages are queued, written and lost like in
\* the channel of OrderedChannel: in their order, each once, and lost only with
\* the connection, however many calls and whatever the pages and threads do.
THEOREM ImplementsChannel ==
  SafetySpec => Channel!Init /\ [][Channel!Next]_(Channel!vars)
  <1>1. Init => Channel!Init
    BY DEF Init, Channel!Init
  <1> QED BY <1>1, InitLinkOK, NextLinkOK, StepRefines, PTL DEF SafetySpec

-----------------------------------------------------------------------------
(* Sessions in a sequence of messages. *)

SessionAt(s, i) ==
  \E j \in 1 .. i - 1 :
    s[j].what = "LOGIN" /\ \A k \in j + 1 .. i - 1 : s[k].what # "LOGOUT"

OpenAfter(s) == SessionAt(s, Len(s) + 1)

(* The texts outside a session are those of a set; the numbers of all of     *)
(* them are at most n.                                                       *)
Exact(s, outside) ==
  \A i \in 1 .. Len(s) : s[i].what = "SENDMSG" => (SessionAt(s, i) <=> s[i].nr \notin outside)
Numbered(s, n) == \A i \in 1 .. Len(s) : s[i].nr <= n

LEMMA AppendSession ==
  ASSUME NEW s \in Seq(Message), NEW m \in Message
  PROVE  LET t == Append(s, m) IN
         /\ \A a : Exact(s, a) /\ (m.what = "SENDMSG" => (OpenAfter(s) <=> m.nr \notin a))
                  => Exact(t, a)
         /\ m.what = "LOGIN" => OpenAfter(t)
         /\ m.what = "LOGOUT" => ~OpenAfter(t)
         /\ m.what \notin {"LOGIN", "LOGOUT"} => (OpenAfter(t) <=> OpenAfter(s))
  <1> DEFINE t == Append(s, m)
             n == Len(s)
  <1>1. /\ n \in Nat /\ Len(t) = n + 1 /\ t[n + 1] = m
        /\ \A i \in 1 .. n : t[i] = s[i]
    BY AppendProperties, LenProperties
  <1> HIDE DEF t, n
  <1>2. ASSUME NEW i \in 1 .. n + 1 PROVE SessionAt(t, i) <=> SessionAt(s, i)
    BY <1>1 DEF SessionAt
  <1>3. ASSUME NEW a, Exact(s, a), m.what = "SENDMSG" => (OpenAfter(s) <=> m.nr \notin a)
        PROVE  Exact(t, a)
    BY <1>1, <1>2, <1>3 DEF Exact, OpenAfter, n
  <1>4. ASSUME m.what = "LOGIN" PROVE OpenAfter(t)
    BY <1>1, <1>4 DEF OpenAfter, SessionAt
  <1>5. ASSUME m.what = "LOGOUT" PROVE ~OpenAfter(t)
    BY <1>1, <1>5 DEF OpenAfter, SessionAt
  <1>6. ASSUME m.what \notin {"LOGIN", "LOGOUT"} PROVE OpenAfter(t) <=> OpenAfter(s)
    <2>1. ASSUME OpenAfter(s) PROVE OpenAfter(t)
      <3>1. PICK j \in 1 .. n : s[j].what = "LOGIN" /\ \A k \in j + 1 .. n : s[k].what # "LOGOUT"
        BY <1>1, <2>1 DEF OpenAfter, SessionAt, n
      <3>2. t[j].what = "LOGIN" /\ \A k \in j + 1 .. n + 1 : t[k].what # "LOGOUT"
        BY <1>1, <1>6, <3>1
      <3> QED BY <1>1, <3>1, <3>2 DEF OpenAfter, SessionAt
    <2>2. ASSUME OpenAfter(t) PROVE OpenAfter(s)
      <3>1. PICK j \in 1 .. n + 1 : t[j].what = "LOGIN" /\ \A k \in j + 1 .. n + 1 : t[k].what # "LOGOUT"
        BY <1>1, <2>2 DEF OpenAfter, SessionAt
      <3>2. j \in 1 .. n
        BY <1>1, <1>6, <3>1
      <3>3. s[j].what = "LOGIN" /\ \A k \in j + 1 .. n : s[k].what # "LOGOUT"
        BY <1>1, <3>1, <3>2
      <3> QED BY <1>1, <3>2, <3>3 DEF OpenAfter, SessionAt, n
    <2> QED BY <2>1, <2>2
  <1> QED BY <1>3, <1>4, <1>5, <1>6 DEF t

(* A number that is not taken yet can be added to the set. *)
LEMMA NumberedMore ==
  ASSUME NEW s \in Seq(Message), NEW n \in Nat, Numbered(s, n)
  PROVE  /\ Numbered(s, n + 1)
         /\ \A m \in Message : m.nr = n + 1 => Numbered(Append(s, m), n + 1)
         /\ \A a : Exact(s, a) => Exact(s, a \cup {n + 1})
  <1>0. \A i \in 1 .. Len(s) : s[i] \in Message
    BY ElementOfSeq
  <1>1. Len(s) \in Nat /\ \A i \in 1 .. Len(s) : s[i] \in Message /\ s[i].nr \in Nat
    BY <1>0, LenProperties, ChatAssumption DEF Message
  <1>2. Numbered(s, n + 1)
    BY <1>1 DEF Numbered
  <1>3. ASSUME NEW m \in Message, m.nr = n + 1 PROVE Numbered(Append(s, m), n + 1)
    <2> DEFINE t == Append(s, m)
    <2>1. /\ Len(t) = Len(s) + 1 /\ t[Len(s) + 1] = m
          /\ \A i \in 1 .. Len(s) : t[i] = s[i]
      BY AppendProperties
    <2> HIDE DEF t
    <2>2. Numbered(t, n + 1)
      BY <1>1, <1>2, <1>3, <2>1 DEF Numbered
    <2> QED BY <2>2 DEF t
  <1>4. ASSUME NEW a, Exact(s, a) PROVE Exact(s, a \cup {n + 1})
    <2>1. \A i \in 1 .. Len(s) : s[i].nr # n + 1
      BY <1>1 DEF Numbered
    <2> QED BY <1>4, <2>1 DEF Exact
  <1> QED BY <1>2, <1>3, <1>4

(* A write moves a message, a call adds one at the end.                     *)
LEMMA AcceptedOK ==
  ASSUME LinkOK
  PROVE  /\ Accepted \in Seq(Message)
         /\ Write /\ socket = "open" => Accepted' = Accepted
         /\ \A what \in What :
              sendAction(what) /\ UNCHANGED <<link, socket, written>> =>
                \/ link # "looping" /\ Accepted' = Accepted
                \/ /\ link = "looping"
                   /\ \E m \in Message : /\ m.what = what /\ m.nr = sends + 1
                                         /\ Accepted' = Append(Accepted, m)
  <1>1. Accepted \in Seq(Message)
    BY ConcatProperties DEF Accepted, LinkOK
  <1>2. ASSUME Write, socket = "open" PROVE Accepted' = Accepted
    <2>1. /\ sendQueue # <<>> /\ sendQueue' = Tail(sendQueue)
          /\ written' = Append(written, Head(sendQueue))
      BY <1>2, WriteOK
    <2>2. Append(written, Head(sendQueue)) \o Tail(sendQueue) = written \o sendQueue
      BY <2>1 DEF LinkOK
    <2> QED BY <2>1, <2>2 DEF Accepted
  <1>3. ASSUME NEW what \in What, sendAction(what), UNCHANGED <<link, socket, written>>
        PROVE  \/ link # "looping" /\ Accepted' = Accepted
               \/ /\ link = "looping"
                  /\ \E m \in Message : /\ m.what = what /\ m.nr = sends + 1
                                        /\ Accepted' = Append(Accepted, m)
    <2>1. CASE link # "looping" /\ sendQueue' = sendQueue
      BY <1>3, <2>1 DEF Accepted
    <2>2. ASSUME NEW m \in Message, sendQueue' = Append(sendQueue, m)
          PROVE  Accepted' = Append(Accepted, m)
      <3>1. written \o Append(sendQueue, m) = Append(written \o sendQueue, m)
        BY DEF LinkOK
      <3> QED BY <1>3, <2>2, <3>1 DEF Accepted
    <2> QED BY <1>3, <2>1, <2>2, SendingOK
  <1> QED BY <1>1, <1>2, <1>3

-----------------------------------------------------------------------------
(* While the connection is not lost, whoever sees the contacts or the chat   *)
(* page has a session open unless it slipped, and a thread without handler   *)
(* has accepted nothing.                                                     *)
Alive == socket # "broken" /\ socket # "closed"
Chatting == page \in {"contacts", "chat"}

SessionOK ==
  /\ slipped \in BOOLEAN /\ astray \subseteq 1 .. sends
  /\ Alive =>
       /\ link # "looping" => Accepted = <<>>
       /\ Chatting => (OpenAfter(Accepted) <=> ~slipped)
       /\ Exact(Accepted, astray)
       /\ Numbered(Accepted, sends)

LEMMA NothingAccepted ==
  ASSUME Accepted = <<>>
  PROVE  ~OpenAfter(Accepted) /\ (\A a : Exact(Accepted, a)) /\ \A n : Numbered(Accepted, n)
  <1>1. Len(Accepted) = 0
    BY EmptySeq
  <1> QED BY <1>1 DEF OpenAfter, SessionAt, Exact, Numbered

LEMMA InitSessionOK == Init => SessionOK
  <1> SUFFICES ASSUME Init PROVE SessionOK
    OBVIOUS
  <1>1. ~Chatting /\ slipped \in BOOLEAN /\ astray = {} /\ written = <<>> /\ sendQueue = <<>>
    BY DEF Init, Chatting
  <1>2. Accepted = <<>>
    BY <1>1 DEF Accepted
  <1> QED BY <1>1, <1>2, NothingAccepted DEF SessionOK

(* The steps of the threads and the server. *)
LEMMA ThreadSessionOK ==
  ASSUME LinkOK, SessionOK, ThreadStep \/ ServerStep
  PROVE  SessionOK'
  <1>1. /\ UNCHANGED <<page, slipped, astray, sends>> /\ (link = "looping" => link' = "looping")
    BY DEF ThreadStep, ServerStep, Connect, ConnectFails, Publish, Write, Read, ReadEnds,
           ServerLine, SocketEnds, pages, wire, history
  <1>2. CASE Write
    <2>1. UNCHANGED socket /\ socket # "none"
      BY <1>2 DEF Write, wire, LinkOK
    <2>2. Alive' => Alive /\ Accepted' = Accepted
      BY <1>1, <1>2, <2>1, AcceptedOK DEF Alive, LinkOK
    <2> QED BY <1>1, <2>2 DEF SessionOK, Chatting
  <1>3. CASE SocketEnds
    BY <1>1, <1>3 DEF SocketEnds, SessionOK, Alive
  <1>4. CASE Connect \/ ConnectFails \/ Publish \/ Read \/ ReadEnds \/ ServerLine
    <2>1. /\ UNCHANGED <<sendQueue, written>>
          /\ socket' = socket \/ socket = "none"
      BY <1>4 DEF Connect, ConnectFails, Publish, Read, ReadEnds, ServerLine, LinkOK
    <2>2. Accepted' = Accepted /\ (Alive' => Alive)
      BY <1>1, <2>1 DEF Accepted, Alive
    <2> QED BY <1>1, <2>2 DEF SessionOK, Chatting
  <1> QED BY <1>2, <1>3, <1>4 DEF ThreadStep, ServerStep

(* A call whose message does not touch the numbers of the texts.             *)
LEMMA CallSessionOK ==
  ASSUME LinkOK, SessionOK, Alive, NEW what \in What, sendAction(what),
         UNCHANGED <<link, socket, written>>,
         \/ what # "SENDMSG" /\ astray' = astray
         \/ /\ what = "SENDMSG" /\ Chatting
            /\ astray' = IF slipped THEN astray \cup {sends + 1} ELSE astray
  PROVE  /\ link' # "looping" => Accepted' = <<>>
         /\ Exact(Accepted', astray') /\ Numbered(Accepted', sends')
         /\ \/ link # "looping" /\ ~OpenAfter(Accepted) /\ ~OpenAfter(Accepted')
            \/ /\ link = "looping"
               /\ what = "LOGIN" => OpenAfter(Accepted')
               /\ what = "LOGOUT" => ~OpenAfter(Accepted')
               /\ what \notin {"LOGIN", "LOGOUT"} => (OpenAfter(Accepted') <=> OpenAfter(Accepted))
  <1>1. /\ Accepted \in Seq(Message) /\ sends \in Nat /\ sends' = sends + 1
        /\ Exact(Accepted, astray) /\ Numbered(Accepted, sends)
        /\ Chatting => (OpenAfter(Accepted) <=> ~slipped)
        /\ link # "looping" => Accepted = <<>>
    BY AcceptedOK DEF SessionOK, LinkOK, sendAction
  <1>2. Exact(Accepted, astray \cup {sends + 1}) /\ Numbered(Accepted, sends + 1)
    BY <1>1, NumberedMore
  <1>3. CASE link # "looping" /\ Accepted' = Accepted
    <2>1. Accepted = <<>> /\ Accepted' = <<>>
      BY <1>1, <1>3
    <2>2. ~OpenAfter(Accepted) /\ (\A a : Exact(Accepted, a)) /\ \A n : Numbered(Accepted, n)
      BY <2>1, NothingAccepted
    <2> QED BY <1>3, <2>1, <2>2
  <1>4. ASSUME link = "looping", NEW m \in Message, m.what = what, m.nr = sends + 1,
               Accepted' = Append(Accepted, m)
        PROVE  /\ Exact(Accepted', astray') /\ Numbered(Accepted', sends')
               /\ what = "LOGIN" => OpenAfter(Accepted')
               /\ what = "LOGOUT" => ~OpenAfter(Accepted')
               /\ what \notin {"LOGIN", "LOGOUT"} => (OpenAfter(Accepted') <=> OpenAfter(Accepted))
    <2>1. Numbered(Accepted', sends')
      BY <1>1, <1>4, NumberedMore
    <2>2. Exact(Accepted, astray')
      BY <1>1, <1>2
    <2>3. m.what = "SENDMSG" => (OpenAfter(Accepted) <=> m.nr \notin astray')
      <3>1. CASE what # "SENDMSG"
        BY <1>4, <3>1
      <3>2. CASE what = "SENDMSG"
        <4>1. Chatting /\ astray' = IF slipped THEN astray \cup {sends + 1} ELSE astray
          BY <3>2
        <4>2. sends + 1 \notin astray
          BY <1>1 DEF SessionOK
        <4> QED BY <1>1, <1>4, <4>1, <4>2
      <3> QED BY <3>1, <3>2
    <2> QED BY <1>1, <1>4, <2>1, <2>2, <2>3, AppendSession
  <1> QED BY <1>1, <1>3, <1>4, AcceptedOK

(* The numbers of the texts that went astray were taken.                      *)
LEMMA AstrayTaken ==
  ASSUME LinkOK, SessionOK, NEW what \in What, sendAction(what),
         astray' \in {astray, astray \cup {sends + 1}}
  PROVE  astray' \subseteq 1 .. sends'
  <1>1. sends \in Nat /\ sends' = sends + 1 /\ astray \subseteq 1 .. sends
    BY DEF LinkOK, SessionOK, sendAction
  <1> QED BY <1>1

(* The steps of the pages, by what they send. *)
LEMMA PageSessionOK ==
  ASSUME LinkOK, SessionOK, PageStep
  PROVE  SessionOK'
  <1>1. CASE Login
    <2>1. /\ sendAction("LOGIN") /\ UNCHANGED <<link, socket, written, astray>>
          /\ slipped' = (link # "looping") /\ (Alive' => Alive) /\ "LOGIN" \in What
      BY <1>1 DEF Login, wire, Alive, What
    <2>2. astray' \subseteq 1 .. sends'
      BY <2>1, AstrayTaken
    <2>3. ASSUME Alive
          PROVE  /\ link' # "looping" => Accepted' = <<>>
                 /\ Exact(Accepted', astray') /\ Numbered(Accepted', sends')
                 /\ OpenAfter(Accepted') <=> ~slipped'
      BY <2>1, <2>3, CallSessionOK
    <2> QED BY <2>1, <2>2, <2>3 DEF SessionOK
  <1>2. CASE Refresh
    <2>1. /\ sendAction("GETLIST") /\ UNCHANGED <<link, socket, written, page, slipped, astray>>
          /\ (Alive' => Alive) /\ "GETLIST" \in What
      BY <1>2 DEF Refresh, wire, history, Alive, What
    <2>2. astray' \subseteq 1 .. sends'
      BY <2>1, AstrayTaken
    <2>3. ASSUME Alive
          PROVE  /\ link' # "looping" => Accepted' = <<>>
                 /\ Exact(Accepted', astray') /\ Numbered(Accepted', sends')
                 /\ OpenAfter(Accepted') <=> OpenAfter(Accepted)
      BY <2>1, <2>3, CallSessionOK
    <2> QED BY <2>1, <2>2, <2>3 DEF SessionOK, Chatting
  <1>3. CASE SendText
    <2>1. /\ sendAction("SENDMSG") /\ UNCHANGED <<link, socket, written, page, slipped>>
          /\ Chatting /\ (Alive' => Alive) /\ "SENDMSG" \in What
          /\ astray' = IF slipped THEN astray \cup {sends + 1} ELSE astray
      BY <1>3 DEF SendText, wire, Chatting, Alive, What
    <2>2. astray' \subseteq 1 .. sends'
      BY <2>1, AstrayTaken
    <2>3. ASSUME Alive
          PROVE  /\ link' # "looping" => Accepted' = <<>>
                 /\ Exact(Accepted', astray') /\ Numbered(Accepted', sends')
                 /\ OpenAfter(Accepted') <=> OpenAfter(Accepted)
      BY <2>1, <2>3, CallSessionOK
    <2> QED BY <2>1, <2>2, <2>3 DEF SessionOK, Chatting
  <1>4. CASE DestroyContacts \/ RecreateContacts
    <2>1. /\ sendAction("LOGOUT") /\ UNCHANGED <<link, socket, written, page, astray>>
          /\ (Alive' => Alive) /\ "LOGOUT" \in What
          /\ slipped' \in BOOLEAN /\ (Chatting => slipped' = TRUE)
      BY <1>4 DEF DestroyContacts, RecreateContacts, wire, Alive, What, Chatting, SessionOK
    <2>2. astray' \subseteq 1 .. sends'
      BY <2>1, AstrayTaken
    <2>3. ASSUME Alive
          PROVE  /\ link' # "looping" => Accepted' = <<>>
                 /\ Exact(Accepted', astray') /\ Numbered(Accepted', sends')
                 /\ ~OpenAfter(Accepted')
      BY <2>1, <2>3, CallSessionOK
    <2> QED BY <2>1, <2>2, <2>3 DEF SessionOK, Chatting
  <1>5. CASE Quiet
    <2>1. /\ UNCHANGED <<link, socket, sendQueue, written, sends, slipped, astray>>
      BY <1>5, QuietSteps DEF wire, history
    <2>2. Chatting' => Chatting
      BY <1>5 DEF Quiet, Deliver, OpenLogin, LeaveLogin, AskRefresh, OpenChat, LeaveChat,
                  DestroyChat, LeaveContacts, Hide, Show, RecreateChat, Chatting
    <2> QED BY <2>1, <2>2 DEF SessionOK, Alive, Accepted
  <1> QED BY <1>1, <1>2, <1>3, <1>4, <1>5 DEF PageStep, Quiet

LEMMA NextSessionOK == LinkOK /\ SessionOK /\ [Next]_vars => SessionOK'
  <1> SUFFICES ASSUME LinkOK, SessionOK, [Next]_vars PROVE SessionOK'
    OBVIOUS
  <1>1. CASE UNCHANGED vars
    BY <1>1 DEF vars, wire, pages, history, SessionOK, Alive, Chatting, Accepted
  <1> QED BY <1>1, ThreadSessionOK, PageSessionOK DEF Next

\* A text the server gets lies between a LOGIN and the LOGOUT after it, but for
\* those sent from contacts whose LOGIN was dropped, which the system destroyed,
\* or which the LOGOUT of contacts left before overtook, and these never do,
\* however many calls, pages, rotations and refreshes there are.
THEOREM TextsAlwaysInSession == SafetySpec => []TextsInSession
  <1>1. LinkOK /\ SessionOK => TextsInSession
    <2> SUFFICES ASSUME LinkOK, SessionOK, Alive,
                        NEW i \in DOMAIN Accepted, Accepted[i].what = "SENDMSG"
                 PROVE  InSession(i) <=> Accepted[i].nr \notin astray
      BY DEF TextsInSession, Alive
    <2>1. i \in 1 .. Len(Accepted)
      BY AcceptedOK, LenProperties
    <2>2. SessionAt(Accepted, i) <=> Accepted[i].nr \notin astray
      BY <2>1 DEF SessionOK, Exact
    <2> QED BY <2>2 DEF SessionAt, InSession
  <1> QED BY <1>1, InitLinkOK, NextLinkOK, InitSessionOK, NextSessionOK, PTL DEF SafetySpec
-----------------------------------------------------------------------------
(* The receiving half.                                                       *)
Text == [mine : BOOLEAN, left : BOOLEAN, nr : Nat]
Post == [to : {"chat", "contacts", "nobody"}, left : BOOLEAN,
         what : {"RECVMSG", "GETLIST", "ERROR"}, nr : Nat]
IsText(p) == p.to = "chat" /\ p.what = "RECVMSG"

(* The way of a line: it waits in l, then in b, and ends in the window w;    *)
(* each stage holds earlier lines than the one before, or the same one for   *)
(* another receiver.  n numbers the calls of sendAction and so the user's    *)
(* own texts, c the lines.                                                   *)
Before(p, q) == p.nr <= q.nr /\ (p.left = q.left => p.nr < q.nr)
Shown(w, n) ==
  /\ \A i, j \in 1 .. Len(w) : i < j /\ w[i].mine = w[j].mine => Before(w[i], w[j])
  /\ \A i \in 1 .. Len(w) : w[i].mine => w[i].nr <= n
ShownFirst(w, b, l, c) ==
  \A i \in 1 .. Len(w) : ~w[i].mine =>
    /\ w[i].nr <= c
    /\ \A j \in 1 .. Len(b) : IsText(b[j]) => Before(w[i], b[j])
    /\ \A j \in 1 .. Len(l) : w[i].nr < l[j].nr
Posted(b, l, c) ==
  \A i \in 1 .. Len(b) : IsText(b[i]) =>
    /\ b[i].nr <= c
    /\ \A j \in 1 .. Len(b) : i < j /\ IsText(b[j]) => Before(b[i], b[j])
    /\ \A j \in 1 .. Len(l) : b[i].nr < l[j].nr
Sent(l, c) ==
  \A i \in 1 .. Len(l) :
    /\ l[i].nr <= c
    /\ \A j \in 1 .. Len(l) : i < j => l[i].nr < l[j].nr
Way(w, b, l, n, c) == Shown(w, n) /\ ShownFirst(w, b, l, c) /\ Posted(b, l, c) /\ Sent(l, c)

Wires ==
  /\ link \in {"connecting", "connected", "looping", "failed"}
  /\ socket \in {"none", "open", "broken", "closed"}
  /\ recv \in {"none", "reading", "ended"}
  /\ lines \in Seq(Line) /\ sentLines \in 0 .. MaxLines
Calls ==
  /\ sendQueue \in Seq(Message) /\ written \in Seq(Message)
  /\ sends \in 0 .. MaxSends /\ astray \subseteq 1 .. MaxSends
Pages ==
  /\ page \in {"home", "login", "contacts", "chat"} /\ visible \in BOOLEAN
  /\ leaving \subseteq {"contacts", "chat"}
  /\ due \in 0 .. MaxDue /\ online \in BOOLEAN /\ slipped \in BOOLEAN
  /\ window \in Seq(Text)

Good(p) ==
  /\ p \in Post
  /\ (p.to # "nobody" => p.what \in Receiver[p.to] /\ Registered(p.to, p.left))
Addressed ==
  /\ broadcasts \in Seq(Post)
  /\ \A i \in 1 .. Len(broadcasts) : Good(broadcasts[i])
Ways == Way(window, broadcasts, lines, sends, sentLines)

IInv == Wires /\ Calls /\ Pages /\ Addressed /\ Ways

-----------------------------------------------------------------------------
(* Sequences: what the first element and the others are. *)
LEMMA Appended ==
  ASSUME NEW S, NEW s \in Seq(S), NEW e \in S
  PROVE  /\ Append(s, e) \in Seq(S)
         /\ Len(Append(s, e)) = Len(s) + 1
         /\ \A i \in 1 .. Len(s) : Append(s, e)[i] = s[i]
         /\ Append(s, e)[Len(s) + 1] = e
         /\ s \o <<e>> = Append(s, e) /\ s \o <<>> = s
         /\ Len(s) \in Nat /\ DOMAIN s = 1 .. Len(s)
  BY AppendProperties, LenProperties, AppendIsConcat, ConcatEmptySeq

LEMMA Shortened ==
  ASSUME NEW S, NEW s \in Seq(S), s # <<>>
  PROVE  /\ Tail(s) \in Seq(S) /\ Head(s) \in S /\ Head(s) = s[1]
         /\ Len(Tail(s)) = Len(s) - 1 /\ Len(s) \in Nat /\ Len(s) > 0
         /\ \A i \in 1 .. Len(Tail(s)) : Tail(s)[i] = s[i + 1]
  BY HeadTailProperties, LenProperties, EmptySeq

LEMMA Nothing ==
  ASSUME NEW S
  PROVE  /\ <<>> \in Seq(S) /\ Len(<<>>) = 0
         /\ \A e \in S : <<e>> \in Seq(S)
  BY EmptySeq

-----------------------------------------------------------------------------
(* How the way of the lines changes. *)
LEMMA WayShorter ==
  ASSUME NEW w, NEW b, NEW l, NEW n \in Nat, NEW c, Way(w, b, l, n, c)
  PROVE  /\ Way(w, b, <<>>, n, c)
         /\ Way(w, <<>>, l, n, c)
         /\ Way(<<>>, b, l, n, c)
  BY Nothing DEF Way, Shown, ShownFirst, Posted, Sent

(* The numbers are numbers. *)
LEMMA Numbers ==
  ASSUME NEW w \in Seq(Text), NEW b \in Seq(Post), NEW l \in Seq(Line)
  PROVE  /\ \A i \in 1 .. Len(w) : w[i] \in Text /\ w[i].nr \in Nat
         /\ \A i \in 1 .. Len(b) : b[i] \in Post /\ b[i].nr \in Nat
         /\ \A i \in 1 .. Len(l) : l[i] \in Line /\ l[i].nr \in Nat
         /\ Len(w) \in Nat /\ Len(b) \in Nat /\ Len(l) \in Nat
  <1>1. \A i \in 1 .. Len(w) : w[i] \in Text
    BY ElementOfSeq
  <1>2. \A i \in 1 .. Len(b) : b[i] \in Post
    BY ElementOfSeq
  <1>3. \A i \in 1 .. Len(l) : l[i] \in Line
    BY ElementOfSeq
  <1> QED BY <1>1, <1>2, <1>3, LenProperties, ChatAssumption DEF Text, Post, Line

LEMMA WayCalls ==
  ASSUME NEW w \in Seq(Text), NEW b \in Seq(Post), NEW l \in Seq(Line), NEW n \in Nat, NEW c,
         Way(w, b, l, n, c)
  PROVE  Way(w, b, l, n + 1, c)
  <1>0. /\ \A i \in 1 .. Len(w) : w[i] \in Text /\ w[i].nr \in Nat
        /\ \A i \in 1 .. Len(b) : b[i].nr \in Nat
        /\ \A i \in 1 .. Len(l) : l[i].nr \in Nat
        /\ Len(w) \in Nat /\ Len(b) \in Nat /\ Len(l) \in Nat
    BY Numbers
  <1>1. Shown(w, n + 1)
    BY <1>0 DEF Way, Shown
  <1> QED BY <1>1 DEF Way

LEMMA WayOwn ==
  ASSUME NEW w \in Seq(Text), NEW b \in Seq(Post), NEW l \in Seq(Line), NEW n \in Nat, NEW c,
         Way(w, b, l, n, c), NEW t \in Text, t.mine, t.nr = n + 1
  PROVE  Way(Append(w, t), b, l, n + 1, c)
  <1>0. /\ \A i \in 1 .. Len(w) : w[i] \in Text /\ w[i].nr \in Nat
        /\ \A i \in 1 .. Len(b) : b[i].nr \in Nat
        /\ \A i \in 1 .. Len(l) : l[i].nr \in Nat
        /\ Len(w) \in Nat /\ Len(b) \in Nat /\ Len(l) \in Nat
    BY Numbers
  <1> DEFINE v == Append(w, t)
  <1>1. /\ Len(v) = Len(w) + 1 /\ v[Len(w) + 1] = t
        /\ \A i \in 1 .. Len(w) : v[i] = w[i]
    BY Appended
  <1>2. \A i \in 1 .. Len(v) : i \in 1 .. Len(w) \/ i = Len(w) + 1
    BY <1>1, <1>0
  <1>3. t.mine = TRUE
    BY DEF Text
  <1> HIDE DEF v
  <1>6. ASSUME NEW i \in 1 .. Len(w), w[i].mine = t.mine PROVE w[i].nr < t.nr
    <2>1. w[i].nr <= n
      BY <1>3, <1>6 DEF Way, Shown
    <2>2. w[i].nr \in Nat
      BY <1>0
    <2> QED BY <2>1, <2>2
  <1>7. ASSUME NEW i \in 1 .. Len(v), NEW j \in 1 .. Len(v), i < j, v[i].mine = v[j].mine
        PROVE  Before(v[i], v[j])
    <2>1. i \in 1 .. Len(w)
      BY <1>0, <1>1, <1>7
    <2>2. CASE j \in 1 .. Len(w)
      BY <1>1, <1>7, <2>1, <2>2 DEF Way, Shown
    <2>3. CASE j = Len(w) + 1
      <3>1. v[i].nr < v[j].nr /\ v[i].nr \in Nat /\ v[j].nr \in Nat
        BY <1>0, <1>1, <1>6, <1>7, <2>1, <2>3 DEF Text
      <3> QED BY <3>1 DEF Before
    <2> QED BY <1>2, <2>2, <2>3
  <1>8. ASSUME NEW i \in 1 .. Len(v), v[i].mine PROVE v[i].nr <= n + 1
    <2>1. CASE i \in 1 .. Len(w)
      BY <1>0, <1>1, <1>8, <2>1 DEF Way, Shown
    <2>2. CASE i = Len(w) + 1
      BY <1>1, <2>2
    <2> QED BY <1>2, <2>1, <2>2
  <1>4. Shown(v, n + 1)
    BY <1>7, <1>8 DEF Shown
  <1>5. ShownFirst(v, b, l, c)
    BY <1>1, <1>2, <1>3, <1>0 DEF Way, ShownFirst
  <1> QED BY <1>4, <1>5 DEF Way, v

(* Broadcasts that are dropped, or whose text is none.                       *)
LEMMA WayMarked ==
  ASSUME NEW w, NEW b, NEW d, NEW l, NEW n, NEW c, Way(w, b, l, n, c), Len(d) = Len(b),
         \A i \in 1 .. Len(b) : d[i] = b[i] \/ ~IsText(d[i])
  PROVE  Way(w, d, l, n, c)
  <1>1. ShownFirst(w, d, l, c)
    BY DEF Way, ShownFirst
  <1>2. Posted(d, l, c)
    BY DEF Way, Posted
  <1> QED BY <1>1, <1>2 DEF Way

(* The page of all texts on their way is left, and its window is gone.       *)
LEMMA WayLeft ==
  ASSUME NEW b, NEW d, NEW w, NEW l, NEW n \in Nat, NEW c, Way(w, b, l, n, c), Len(d) = Len(b),
         \A i \in 1 .. Len(b) : /\ (IsText(d[i]) => IsText(b[i]))
                               /\ d[i].nr = b[i].nr
                               /\ (IsText(b[i]) => b[i].left = FALSE)
  PROVE  Way(<<>>, d, l, n, c)
  <1>1. Way(<<>>, b, l, n, c)
    BY WayShorter
  <1>2. Posted(d, l, c)
    <2>1. ASSUME NEW i \in 1 .. Len(d), IsText(d[i])
          PROVE  i \in 1 .. Len(b) /\ IsText(b[i]) /\ d[i].nr = b[i].nr /\ b[i].left = FALSE
      BY <2>1
    <2>2. ASSUME NEW i \in 1 .. Len(d), IsText(d[i])
          PROVE  d[i].nr <= c /\ \A j \in 1 .. Len(l) : d[i].nr < l[j].nr
      <3>1. b[i].nr <= c /\ \A j \in 1 .. Len(l) : b[i].nr < l[j].nr
        BY <2>1, <2>2 DEF Way, Posted
      <3> QED BY <2>1, <2>2, <3>1
    <2>3. ASSUME NEW i \in 1 .. Len(d), NEW j \in 1 .. Len(d), i < j, IsText(d[i]), IsText(d[j])
          PROVE  Before(d[i], d[j])
      <3>1. /\ i \in 1 .. Len(b) /\ IsText(b[i]) /\ d[i].nr = b[i].nr /\ b[i].left = FALSE
            /\ j \in 1 .. Len(b) /\ IsText(b[j]) /\ d[j].nr = b[j].nr /\ b[j].left = FALSE
        BY <2>1, <2>3
      <3>2. Before(b[i], b[j])
        BY <2>3, <3>1 DEF Way, Posted
      <3>3. d[i].nr <= d[j].nr /\ d[i].nr < d[j].nr
        BY <3>1, <3>2 DEF Before
      <3> QED BY <3>3 DEF Before
    <2> QED BY <2>2, <2>3 DEF Posted
  <1>3. Len(<<>>) = 0
    BY EmptySeq
  <1> QED BY <1>1, <1>2, <1>3 DEF Way, ShownFirst

(* More broadcasts: of errors, lists, or texts later than all before.        *)
Later(p, w, b, l, c) ==
  IsText(p) =>
    /\ p.nr <= c
    /\ \A j \in 1 .. Len(l) : p.nr < l[j].nr
    /\ \A j \in 1 .. Len(w) : ~w[j].mine => Before(w[j], p)
    /\ \A j \in 1 .. Len(b) : IsText(b[j]) => Before(b[j], p)

LEMMA WayMore ==
  ASSUME NEW w \in Seq(Text), NEW b \in Seq(Post), NEW l \in Seq(Line), NEW n, NEW c,
         Way(w, b, l, n, c), NEW e \in Seq(Post),
         \A i \in 1 .. Len(e) : Later(e[i], w, b, l, c),
         \A i, j \in 1 .. Len(e) : i < j /\ IsText(e[i]) /\ IsText(e[j]) => Before(e[i], e[j])
  PROVE  Way(w, b \o e, l, n, c)
  <1> DEFINE d == b \o e
  <1>1. /\ Len(d) = Len(b) + Len(e) /\ Len(b) \in Nat /\ Len(e) \in Nat
        /\ \A i \in 1 .. Len(b) : d[i] = b[i]
        /\ \A i \in 1 .. Len(d) : i > Len(b) => i - Len(b) \in 1 .. Len(e) /\ d[i] = e[i - Len(b)]
    BY ConcatProperties, LenProperties
  <1>2. \A i \in 1 .. Len(d) : i \in 1 .. Len(b) \/ i > Len(b)
    BY <1>1
  <1> HIDE DEF d
  <1>3. ShownFirst(w, d, l, c)
    <2>1. ASSUME NEW i \in 1 .. Len(w), ~w[i].mine, NEW j \in 1 .. Len(d), IsText(d[j])
          PROVE  Before(w[i], d[j])
      <3>1. CASE j \in 1 .. Len(b)
        BY <1>1, <2>1, <3>1 DEF Way, ShownFirst
      <3>2. CASE j > Len(b)
        BY <1>1, <2>1, <3>2 DEF Later
      <3> QED BY <1>2, <3>1, <3>2
    <2> QED BY <2>1 DEF Way, ShownFirst
  <1>4. Posted(d, l, c)
    <2>1. ASSUME NEW i \in 1 .. Len(d), IsText(d[i])
          PROVE  d[i].nr <= c /\ \A j \in 1 .. Len(l) : d[i].nr < l[j].nr
      <3>1. CASE i \in 1 .. Len(b)
        BY <1>1, <2>1, <3>1 DEF Way, Posted
      <3>2. CASE i > Len(b)
        BY <1>1, <2>1, <3>2 DEF Later
      <3> QED BY <1>2, <3>1, <3>2
    <2>2. ASSUME NEW i \in 1 .. Len(d), NEW j \in 1 .. Len(d), i < j, IsText(d[i]), IsText(d[j])
          PROVE  Before(d[i], d[j])
      <3>1. CASE j \in 1 .. Len(b)
        <4>1. i \in 1 .. Len(b)
          BY <1>1, <2>2, <3>1
        <4> QED BY <1>1, <2>2, <3>1, <4>1 DEF Way, Posted
      <3>2. CASE i \in 1 .. Len(b) /\ j > Len(b)
        BY <1>1, <2>2, <3>2 DEF Later
      <3>3. CASE i > Len(b) /\ j > Len(b)
        <4> DEFINE x == i - Len(b)
                   y == j - Len(b)
        <4>1. x \in 1 .. Len(e) /\ y \in 1 .. Len(e) /\ x < y /\ d[i] = e[x] /\ d[j] = e[y]
          BY <1>1, <2>2, <3>3
        <4> HIDE DEF x, y
        <4> QED BY <2>2, <4>1
      <3> QED BY <1>2, <3>1, <3>2, <3>3
    <2> QED BY <2>1, <2>2 DEF Posted
  <1> QED BY <1>3, <1>4 DEF Way, d

LEMMA WayLine ==
  ASSUME NEW w \in Seq(Text), NEW b \in Seq(Post), NEW l \in Seq(Line), NEW n, NEW c \in Nat,
         Way(w, b, l, n, c), NEW x \in Line, x.nr = c + 1
  PROVE  Way(w, b, Append(l, x), n, c + 1)
  <1>0. /\ \A i \in 1 .. Len(w) : w[i] \in Text /\ w[i].nr \in Nat
        /\ \A i \in 1 .. Len(b) : b[i].nr \in Nat
        /\ \A i \in 1 .. Len(l) : l[i].nr \in Nat
        /\ Len(w) \in Nat /\ Len(b) \in Nat /\ Len(l) \in Nat
    BY Numbers
  <1> DEFINE k == Append(l, x)
  <1>1. /\ Len(k) = Len(l) + 1 /\ k[Len(l) + 1] = x
        /\ \A i \in 1 .. Len(l) : k[i] = l[i]
    BY Appended
  <1>2. \A i \in 1 .. Len(k) : i \in 1 .. Len(l) \/ i = Len(l) + 1
    BY <1>1, <1>0
  <1> HIDE DEF k
  <1>3. ShownFirst(w, b, k, c + 1)
    <2>1. ASSUME NEW i \in 1 .. Len(w), ~w[i].mine
          PROVE  w[i].nr <= c /\ w[i].nr < x.nr
      <3>1. w[i].nr <= c
        BY <2>1 DEF Way, ShownFirst
      <3>2. w[i].nr \in Nat
        BY <1>0
      <3> QED BY <3>1, <3>2
    <2>2. ASSUME NEW i \in 1 .. Len(w), ~w[i].mine, NEW j \in 1 .. Len(k)
          PROVE  w[i].nr < k[j].nr
      BY <1>1, <1>2, <2>1, <2>2 DEF Way, ShownFirst
    <2> QED BY <1>0, <2>1, <2>2 DEF Way, ShownFirst
  <1>4. Posted(b, k, c + 1)
    <2>1. ASSUME NEW i \in 1 .. Len(b), IsText(b[i])
          PROVE  b[i].nr <= c + 1 /\ b[i].nr < x.nr
      <3>1. b[i].nr <= c
        BY <2>1 DEF Way, Posted
      <3>2. b[i].nr \in Nat
        BY <1>0
      <3> QED BY <3>1, <3>2
    <2>2. ASSUME NEW i \in 1 .. Len(b), IsText(b[i]), NEW j \in 1 .. Len(k)
          PROVE  b[i].nr < k[j].nr
      BY <1>1, <1>2, <2>1, <2>2 DEF Way, Posted
    <2>3. \A i, j \in 1 .. Len(b) :
            IsText(b[i]) /\ i < j /\ IsText(b[j]) => Before(b[i], b[j])
      BY DEF Way, Posted
    <2> QED BY <2>1, <2>2, <2>3 DEF Posted
  <1>5. Sent(k, c + 1)
    <2>1. \A i \in 1 .. Len(l) : l[i].nr <= c /\ l[i].nr < x.nr
      BY <1>0 DEF Way, Sent
    <2>2. ASSUME NEW i \in 1 .. Len(k), NEW j \in 1 .. Len(k), i < j PROVE k[i].nr < k[j].nr
      <3>1. i \in 1 .. Len(l)
        BY <1>0, <1>1, <2>2
      <3>2. CASE j \in 1 .. Len(l)
        BY <1>1, <2>2, <3>1, <3>2 DEF Way, Sent
      <3>3. CASE j = Len(l) + 1
        BY <1>1, <2>1, <3>1, <3>3
      <3> QED BY <1>2, <3>2, <3>3
    <2>3. ASSUME NEW i \in 1 .. Len(k) PROVE k[i].nr <= c + 1
      BY <1>0, <1>1, <1>2, <2>1
    <2> QED BY <2>2, <2>3 DEF Sent
  <1> QED BY <1>3, <1>4, <1>5 DEF Way, k

LEMMA WayRead ==
  ASSUME NEW w \in Seq(Text), NEW b \in Seq(Post), NEW l \in Seq(Line), NEW n, NEW c \in Nat,
         Way(w, b, l, n, c), l # <<>>
  PROVE  /\ Way(w, b, Tail(l), n, c)
         /\ \A p \in Post : p.nr = Head(l).nr => Later(p, w, b, Tail(l), c)
  <1>0. /\ \A i \in 1 .. Len(w) : w[i] \in Text /\ w[i].nr \in Nat
        /\ \A i \in 1 .. Len(b) : b[i].nr \in Nat
        /\ \A i \in 1 .. Len(l) : l[i].nr \in Nat
        /\ Len(w) \in Nat /\ Len(b) \in Nat /\ Len(l) \in Nat
    BY Numbers
  <1> DEFINE k == Tail(l)
  <1>1. /\ Len(k) = Len(l) - 1 /\ Head(l) = l[1] /\ 1 \in 1 .. Len(l)
        /\ \A i \in 1 .. Len(k) : k[i] = l[i + 1] /\ i + 1 \in 1 .. Len(l)
    BY Shortened
  <1>2. k \in Seq(Line)
    BY Shortened
  <1> HIDE DEF k
  <1>3. Way(w, b, k, n, c)
    <2>1. ShownFirst(w, b, k, c)
      BY <1>1 DEF Way, ShownFirst
    <2>2. Posted(b, k, c)
      BY <1>1 DEF Way, Posted
    <2>3. Sent(k, c)
      <3>1. ASSUME NEW i \in 1 .. Len(k), NEW j \in 1 .. Len(k), i < j PROVE k[i].nr < k[j].nr
        <4>1. i + 1 \in 1 .. Len(l) /\ j + 1 \in 1 .. Len(l) /\ i + 1 < j + 1
          BY <1>1, <3>1
        <4> QED BY <1>1, <4>1 DEF Way, Sent
      <3>2. ASSUME NEW i \in 1 .. Len(k) PROVE k[i].nr <= c
        BY <1>1 DEF Way, Sent
      <3> QED BY <3>1, <3>2 DEF Sent
    <2> QED BY <2>1, <2>2, <2>3 DEF Way
  <1>4. ASSUME NEW p \in Post, p.nr = Head(l).nr
        PROVE  Later(p, w, b, k, c)
    <2>1. ASSUME NEW i \in 1 .. Len(k) PROVE p.nr < k[i].nr
      <3>1. i + 1 \in 1 .. Len(l) /\ 1 < i + 1
        BY <1>1
      <3> QED BY <1>1, <1>4, <3>1 DEF Way, Sent
    <2>2. p.nr <= c
      BY <1>1, <1>4 DEF Way, Sent
    <2>3. ASSUME NEW i \in 1 .. Len(b), IsText(b[i]) PROVE Before(b[i], p)
      <3>1. b[i].nr < p.nr
        BY <1>1, <1>4, <2>3 DEF Way, Posted
      <3> QED BY <1>0, <3>1 DEF Before, Post
    <2>4. ASSUME NEW i \in 1 .. Len(w), ~w[i].mine PROVE Before(w[i], p)
      <3>1. w[i].nr < p.nr
        BY <1>1, <1>4, <2>4 DEF Way, ShownFirst
      <3> QED BY <1>0, <3>1 DEF Before, Post
    <2> QED BY <2>1, <2>2, <2>3, <2>4 DEF Later
  <1> QED BY <1>3, <1>4 DEF k

LEMMA WayDeliver ==
  ASSUME NEW w \in Seq(Text), NEW b \in Seq(Post), NEW l \in Seq(Line), NEW n, NEW c \in Nat,
         Way(w, b, l, n, c), b # <<>>
  PROVE  /\ Way(w, Tail(b), l, n, c)
         /\ IsText(Head(b)) =>
              \A t \in Text : ~t.mine /\ t.left = Head(b).left /\ t.nr = Head(b).nr
                              => Way(Append(w, t), Tail(b), l, n, c)
  <1>0. /\ \A i \in 1 .. Len(w) : w[i] \in Text /\ w[i].nr \in Nat
        /\ \A i \in 1 .. Len(b) : b[i].nr \in Nat
        /\ \A i \in 1 .. Len(l) : l[i].nr \in Nat
        /\ Len(w) \in Nat /\ Len(b) \in Nat /\ Len(l) \in Nat
    BY Numbers
  <1> DEFINE d == Tail(b)
  <1>1. /\ Len(d) = Len(b) - 1 /\ Head(b) = b[1] /\ 1 \in 1 .. Len(b)
        /\ \A i \in 1 .. Len(d) : d[i] = b[i + 1] /\ i + 1 \in 1 .. Len(b) /\ 1 < i + 1
    BY Shortened
  <1> HIDE DEF d
  <1>3. Way(w, d, l, n, c)
    <2>1. ShownFirst(w, d, l, c)
      BY <1>1 DEF Way, ShownFirst
    <2>2. Posted(d, l, c)
      <3>1. ASSUME NEW i \in 1 .. Len(d), IsText(d[i])
            PROVE  d[i].nr <= c /\ \A j \in 1 .. Len(l) : d[i].nr < l[j].nr
        BY <1>1, <3>1 DEF Way, Posted
      <3>2. ASSUME NEW i \in 1 .. Len(d), NEW j \in 1 .. Len(d), i < j,
                   IsText(d[i]), IsText(d[j])
            PROVE  Before(d[i], d[j])
        <4>1. i + 1 \in 1 .. Len(b) /\ j + 1 \in 1 .. Len(b) /\ i + 1 < j + 1
          BY <1>1, <3>2
        <4> QED BY <1>1, <3>2, <4>1 DEF Way, Posted
      <3> QED BY <3>1, <3>2 DEF Posted
    <2> QED BY <2>1, <2>2 DEF Way
  <1>4. ASSUME IsText(Head(b)), NEW t \in Text, ~t.mine, t.left = Head(b).left,
               t.nr = Head(b).nr
        PROVE  Way(Append(w, t), d, l, n, c)
    <2> DEFINE v == Append(w, t)
    <2>1. /\ Len(v) = Len(w) + 1 /\ v[Len(w) + 1] = t
          /\ \A i \in 1 .. Len(w) : v[i] = w[i]
      BY Appended
    <2>2. \A i \in 1 .. Len(v) : i \in 1 .. Len(w) \/ i = Len(w) + 1
      BY <2>1, <1>0
    <2>3. /\ t.nr <= c
          /\ \A i \in 1 .. Len(l) : t.nr < l[i].nr
          /\ \A i \in 1 .. Len(d) : IsText(d[i]) => Before(t, d[i])
          /\ \A i \in 1 .. Len(w) : ~w[i].mine => Before(w[i], t)
      BY <1>1, <1>4 DEF Way, Posted, ShownFirst, Before
    <2>4. \A i \in 1 .. Len(w) : w[i].mine = t.mine => ~w[i].mine
      BY <1>4, <1>0 DEF Text
    <2> HIDE DEF v
    <2>5. ShownFirst(v, d, l, c)
      BY <1>3, <2>1, <2>2, <2>3 DEF Way, ShownFirst
    <2>6. Shown(v, n)
      <3>1. ASSUME NEW i \in 1 .. Len(v), NEW j \in 1 .. Len(v), i < j, v[i].mine = v[j].mine
            PROVE  Before(v[i], v[j])
        <4>1. i \in 1 .. Len(w)
          BY <1>0, <2>1, <3>1
        <4>2. CASE j \in 1 .. Len(w)
          BY <1>3, <2>1, <3>1, <4>1, <4>2 DEF Way, Shown
        <4>3. CASE j = Len(w) + 1
          BY <2>1, <2>3, <2>4, <3>1, <4>1, <4>3
        <4> QED BY <2>2, <4>2, <4>3
      <3>2. ASSUME NEW i \in 1 .. Len(v), v[i].mine PROVE v[i].nr <= n
        BY <1>3, <1>4, <2>1, <2>2, <3>2 DEF Way, Shown
      <3> QED BY <3>1, <3>2 DEF Shown
    <2> QED BY <1>3, <2>5, <2>6 DEF Way, v
  <1> QED BY <1>3, <1>4 DEF d
-----------------------------------------------------------------------------
(* What is broadcast: once for each receiver. *)
Batch(e, nr) ==
  /\ e \in Seq(Post)
  /\ \A i \in 1 .. Len(e) : Good(e[i]) /\ (IsText(e[i]) => e[i].nr = nr)
  /\ \A i, j \in 1 .. Len(e) : i < j /\ IsText(e[i]) /\ IsText(e[j]) => Before(e[i], e[j])

LEMMA NoBatch ==
  ASSUME NEW nr
  PROVE  Batch(<<>>, nr)
  BY Nothing DEF Batch

LEMMA BroadcastOK ==
  ASSUME NEW to \in {"chat", "contacts"}, NEW what \in Receiver[to], NEW nr \in Nat
  PROVE  /\ Batch(Broadcast(to, what, nr), nr)
         /\ \A i \in 1 .. Len(Broadcast(to, what, nr)) : Broadcast(to, what, nr)[i].what = what
  <1> DEFINE p == [to |-> to, left |-> TRUE, what |-> what, nr |-> nr]
             q == [to |-> to, left |-> FALSE, what |-> what, nr |-> nr]
             e == Broadcast(to, what, nr)
  <1>1. /\ p \in Post /\ p.to = to /\ p.what = what /\ p.nr = nr /\ p.left = TRUE
        /\ q \in Post /\ q.to = to /\ q.what = what /\ q.nr = nr /\ q.left = FALSE
    BY DEF Post, Receiver
  <1>2. e = (IF Registered(to, TRUE) THEN <<p>> ELSE <<>>)
              \o (IF Registered(to, FALSE) THEN <<q>> ELSE <<>>)
    BY DEF Broadcast
  <1>3. (Registered(to, TRUE) => Good(p)) /\ (Registered(to, FALSE) => Good(q))
    BY <1>1 DEF Good
  <1>4. Before(p, q)
    BY <1>1 DEF Before
  <1> HIDE DEF p, q, e
  <1> SUFFICES Batch(e, nr) /\ \A i \in 1 .. Len(e) : e[i].what = what
    BY DEF e
  <1>5. \/ e = <<>>
        \/ e = <<p>> /\ Good(p)
        \/ e = <<q>> /\ Good(q)
        \/ e = Append(<<p>>, q) /\ Good(p) /\ Good(q)
    <2>1. /\ <<>> \o <<>> = <<>> /\ <<>> \o <<q>> = <<q>> /\ <<p>> \o <<>> = <<p>>
          /\ <<p>> \o <<q>> = Append(<<p>>, q)
      <3>1. <<p>> \in Seq(Post) /\ <<q>> \in Seq(Post) /\ <<>> \in Seq(Post)
        BY <1>1, Nothing
      <3> QED BY <1>1, <3>1, ConcatEmptySeq, AppendIsConcat
    <2>2. CASE ~Registered(to, TRUE) /\ ~Registered(to, FALSE)
      BY <1>2, <2>1, <2>2
    <2>3. CASE Registered(to, TRUE) /\ ~Registered(to, FALSE)
      BY <1>2, <1>3, <2>1, <2>3
    <2>4. CASE ~Registered(to, TRUE) /\ Registered(to, FALSE)
      BY <1>2, <1>3, <2>1, <2>4
    <2>5. CASE Registered(to, TRUE) /\ Registered(to, FALSE)
      BY <1>2, <1>3, <2>1, <2>5
    <2> QED BY <2>2, <2>3, <2>4, <2>5
  <1>6. CASE e = <<>>
    <2>1. Len(e) = 0
      BY <1>6, EmptySeq
    <2> QED BY <1>6, <2>1, NoBatch
  <1>7. ASSUME NEW x, x \in {p, q}, e = <<x>>, Good(x)
        PROVE  Batch(e, nr) /\ \A i \in 1 .. Len(e) : e[i].what = what
    <2>1. e \in Seq(Post) /\ Len(e) = 1 /\ e[1] = x
      BY <1>1, <1>7
    <2> QED BY <1>1, <1>7, <2>1 DEF Batch
  <1>8. CASE e = Append(<<p>>, q) /\ Good(p) /\ Good(q)
    <2>0. <<p>> \in Seq(Post) /\ Len(<<p>>) = 1 /\ <<p>>[1] = p
      BY <1>1
    <2>1. e \in Seq(Post) /\ Len(e) = 2 /\ e[1] = p /\ e[2] = q
      BY <1>1, <1>8, <2>0, AppendProperties
    <2>2. \A i \in 1 .. Len(e) : i \in {1, 2}
      BY <2>1
    <2>3. \A i \in 1 .. Len(e) : Good(e[i]) /\ e[i].nr = nr /\ e[i].what = what
      BY <1>1, <1>8, <2>1, <2>2
    <2>5. \A i, j \in 1 .. Len(e) :
            i < j /\ IsText(e[i]) /\ IsText(e[j]) => Before(e[i], e[j])
      <3>1. SUFFICES ASSUME NEW i \in 1 .. Len(e), NEW j \in 1 .. Len(e), i < j
                     PROVE  Before(e[i], e[j])
        OBVIOUS
      <3>2. i = 1 /\ j = 2
        BY <2>1, <3>1
      <3> QED BY <1>4, <2>1, <3>2
    <2> QED BY <2>1, <2>3, <2>5 DEF Batch
  <1>9. CASE e = <<p>> /\ Good(p)
    BY <1>7, <1>9
  <1>10. CASE e = <<q>> /\ Good(q)
    BY <1>7, <1>10
  <1> QED BY <1>5, <1>6, <1>8, <1>9, <1>10

LEMMA ErrorsOK == Batch(Errors, 0) /\ \A i \in 1 .. Len(Errors) : ~IsText(Errors[i])
  <1> DEFINE a == Broadcast("chat", "ERROR", 0)
             b == Broadcast("contacts", "ERROR", 0)
             e == a \o b
  <1>1. "ERROR" \in Receiver["chat"] /\ "ERROR" \in Receiver["contacts"]
    BY DEF Receiver
  <1>2. Batch(a, 0) /\ \A i \in 1 .. Len(a) : a[i].what = "ERROR"
    BY <1>1, BroadcastOK
  <1>3. Batch(b, 0) /\ \A i \in 1 .. Len(b) : b[i].what = "ERROR"
    BY <1>1, BroadcastOK
  <1>4. Errors = e
    BY DEF Errors
  <1> HIDE DEF a, b
  <1>5. a \in Seq(Post) /\ b \in Seq(Post) /\ Len(a) \in Nat /\ Len(b) \in Nat
    BY <1>2, <1>3, LenProperties DEF Batch
  <1>6. /\ e \in Seq(Post) /\ Len(e) = Len(a) + Len(b)
        /\ \A i \in 1 .. Len(e) : e[i] = IF i <= Len(a) THEN a[i] ELSE b[i - Len(a)]
    BY <1>5, ConcatProperties
  <1> HIDE DEF e
  <1>7. ASSUME NEW i \in 1 .. Len(e) PROVE Good(e[i]) /\ e[i].what = "ERROR"
    <2>1. CASE i <= Len(a)
      <3>1. i \in 1 .. Len(a) /\ e[i] = a[i]
        BY <1>5, <1>6, <2>1
      <3> QED BY <1>2, <3>1 DEF Batch
    <2>2. CASE i > Len(a)
      <3> DEFINE k == i - Len(a)
      <3>1. k \in 1 .. Len(b) /\ e[i] = b[k]
        BY <1>5, <1>6, <2>2
      <3> HIDE DEF k
      <3> QED BY <1>3, <3>1 DEF Batch
    <2> QED BY <1>5, <2>1, <2>2
  <1>8. \A i \in 1 .. Len(e) : ~IsText(e[i])
    BY <1>7 DEF IsText
  <1> QED BY <1>4, <1>6, <1>7, <1>8 DEF Batch

LEMMA NotifyOK ==
  ASSUME NEW x \in Line
  PROVE  Batch(Notify(x), x.nr)
  <1>1. x.nr \in Nat
    BY ChatAssumption DEF Line
  <1>2. "RECVMSG" \in Receiver["chat"] /\ "GETLIST" \in Receiver["contacts"]
    BY DEF Receiver
  <1> QED BY <1>1, <1>2, BroadcastOK, NoBatch DEF Notify

(* Whom the broadcasts on their way are for. *)
LEMMA AddressedMore ==
  ASSUME Addressed, NEW e, NEW nr, Batch(e, nr), UNCHANGED <<page, visible, leaving>>,
         broadcasts' = broadcasts \o e
  PROVE  Addressed'
  <1>1. /\ broadcasts' \in Seq(Post) /\ Len(broadcasts') = Len(broadcasts) + Len(e)
        /\ Len(broadcasts) \in Nat /\ Len(e) \in Nat
        /\ \A i \in 1 .. Len(broadcasts') :
             broadcasts'[i] = IF i <= Len(broadcasts) THEN broadcasts[i]
                              ELSE e[i - Len(broadcasts)]
    BY ConcatProperties, LenProperties DEF Addressed, Batch
  <1>2. ASSUME NEW i \in 1 .. Len(broadcasts') PROVE Good(broadcasts'[i])
    <2>1. CASE i <= Len(broadcasts)
      <3>1. i \in 1 .. Len(broadcasts) /\ broadcasts'[i] = broadcasts[i]
        BY <1>1, <2>1
      <3> QED BY <3>1 DEF Addressed
    <2>2. CASE i > Len(broadcasts)
      <3> DEFINE k == i - Len(broadcasts)
      <3>1. k \in 1 .. Len(e) /\ broadcasts'[i] = e[k]
        BY <1>1, <2>2
      <3> HIDE DEF k
      <3> QED BY <3>1 DEF Batch
    <2> QED BY <1>1, <2>1, <2>2
  <1> QED BY <1>1, <1>2 DEF Addressed, Good, Registered

LEMMA AddressedLess ==
  ASSUME Addressed, UNCHANGED <<page, visible, leaving>>, broadcasts # <<>>,
         broadcasts' = Tail(broadcasts)
  PROVE  Addressed' /\ Good(Head(broadcasts))
  <1>1. /\ broadcasts' \in Seq(Post) /\ Head(broadcasts) = broadcasts[1]
        /\ 1 \in 1 .. Len(broadcasts)
        /\ \A i \in 1 .. Len(broadcasts') : broadcasts'[i] = broadcasts[i + 1]
                                          /\ i + 1 \in 1 .. Len(broadcasts)
    BY Shortened DEF Addressed
  <1> QED BY <1>1 DEF Addressed, Good, Registered

LEMMA AddressedStill ==
  ASSUME Addressed, UNCHANGED broadcasts,
         \A to \in {"chat", "contacts"}, left \in BOOLEAN :
           Registered(to, left) => Registered(to, left)'
  PROVE  Addressed'
  BY DEF Addressed, Good, Post

LEMMA AddressedSame ==
  ASSUME Addressed, UNCHANGED <<page, visible, leaving, broadcasts>>
  PROVE  Addressed'
  BY DEF Addressed, Good, Registered

(* A receiver is unregistered: nothing for it is on its way any more. *)
LEMMA Unregistered ==
  ASSUME IInv, NEW to \in {"chat", "contacts"}, NEW left \in BOOLEAN, Unregister(to, left),
         \A a \in {"chat", "contacts"}, b \in BOOLEAN :
           Registered(a, b) /\ ~(a = to /\ b = left) => Registered(a, b)'
  PROVE  Addressed' /\ Way(window, broadcasts', lines, sends, sentLines)
  <1>0. PICK b, d : /\ b = broadcasts
                    /\ d = [i \in DOMAIN b |-> IF b[i].to = to /\ b[i].left = left
                                               THEN Dropped ELSE b[i]]
    OBVIOUS
  <1>1. /\ b \in Seq(Post) /\ DOMAIN b = 1 .. Len(b) /\ Len(b) \in Nat
        /\ \A i \in 1 .. Len(b) : b[i] \in Post
    BY <1>0, LenProperties, ElementOfSeq DEF IInv, Addressed
  <1>2. Way(window, b, lines, sends, sentLines) /\ sends \in Nat
    BY <1>0, ChatAssumption DEF IInv, Ways, Calls
  <1>3. CASE broadcasts' = <<>>
    <2>1. Addressed'
      BY <1>3, Nothing DEF Addressed
    <2> QED BY <1>2, <1>3, <2>1, WayShorter
  <1>4. CASE broadcasts' = d
    <2>1. Dropped \in Post /\ Dropped.to = "nobody" /\ ~IsText(Dropped)
      BY DEF Dropped, Post, IsText
    <2>2. /\ d \in Seq(Post) /\ Len(d) = Len(b)
          /\ \A i \in 1 .. Len(b) :
               d[i] = Dropped \/ (d[i] = b[i] /\ ~(b[i].to = to /\ b[i].left = left))
      BY <1>0, <1>1, <2>1
    <2>3. Way(window, d, lines, sends, sentLines)
      BY <1>2, <2>1, <2>2, WayMarked
    <2>4. ASSUME NEW i \in 1 .. Len(d) PROVE Good(d[i])'
      <3>1. CASE d[i] = Dropped
        BY <2>1, <3>1, <1>4 DEF Good
      <3>2. CASE d[i] = b[i] /\ ~(b[i].to = to /\ b[i].left = left)
        <4>1. b[i] \in Post /\ Good(b[i])
          BY <1>0, <1>1, <2>2 DEF IInv, Addressed
        <4>2. b[i].to # "nobody" => Registered(b[i].to, b[i].left)'
          BY <3>2, <4>1 DEF Good, Post
        <4> QED BY <3>2, <4>1, <4>2 DEF Good
      <3> QED BY <2>2, <3>1, <3>2
    <2>5. Addressed'
      BY <1>4, <2>2, <2>4 DEF Addressed
    <2> QED BY <1>4, <2>3, <2>5
  <1> QED BY <1>0, <1>3, <1>4 DEF Unregister

(* A page is left: what is on its way to it is marked. *)
LEMMA Left ==
  ASSUME IInv, NEW to \in {"chat", "contacts"}, Leave(to), page = to, page' # to,
         page' \notin {"chat"}
  PROVE  /\ Addressed'
         /\ (to = "contacts" => Way(window, broadcasts', lines, sends, sentLines))
         /\ Way(<<>>, broadcasts', lines, sends, sentLines)
  <1>0. PICK b, d :
          /\ b = broadcasts
          /\ d = [i \in DOMAIN b |-> IF b[i].to = to THEN [b[i] EXCEPT !.left = TRUE] ELSE b[i]]
    OBVIOUS
  <1>1. /\ b \in Seq(Post) /\ DOMAIN b = 1 .. Len(b) /\ Len(b) \in Nat
        /\ \A i \in 1 .. Len(b) : b[i] \in Post
    BY <1>0, LenProperties, ElementOfSeq DEF IInv, Addressed
  <1>2. Way(window, b, lines, sends, sentLines) /\ sends \in Nat
    BY <1>0, ChatAssumption DEF IInv, Ways, Calls
  <1>3. broadcasts' = d /\ to \notin leaving /\ leaving' = leaving \cup {to}
    BY <1>0 DEF Leave
  <1>4. ASSUME NEW i \in 1 .. Len(b)
        PROVE  /\ d[i] \in Post /\ d[i].to = b[i].to /\ d[i].what = b[i].what
               /\ d[i].nr = b[i].nr
               /\ (b[i].to = to => d[i].left = TRUE)
               /\ (b[i].to # to => d[i] = b[i])
    <2>1. b[i] \in Post /\ d[i] = IF b[i].to = to THEN [b[i] EXCEPT !.left = TRUE] ELSE b[i]
      BY <1>0, <1>1
    <2> QED BY <2>1 DEF Post
  <1>5. d \in Seq(Post) /\ Len(d) = Len(b)
    <2>1. d = [i \in 1 .. Len(b) |-> d[i]]
      BY <1>0, <1>1
    <2>2. \A i \in 1 .. Len(b) : d[i] \in Post
      BY <1>4
    <2> QED BY <1>1, <2>1, <2>2
  <1>6. ASSUME NEW i \in 1 .. Len(b)
        PROVE  Good(b[i]) /\ (IsText(d[i]) => IsText(b[i]))
               /\ (IsText(b[i]) /\ to = "chat" => b[i].left = FALSE)
    <2>1. Good(b[i]) /\ b[i] \in Post
      BY <1>0, <1>1 DEF IInv, Addressed
    <2>2. IsText(d[i]) => IsText(b[i])
      BY <1>4 DEF IsText
    <2>3. IsText(b[i]) /\ to = "chat" => b[i].left = FALSE
      BY <1>3, <2>1 DEF Good, IsText, Registered, Post
    <2> QED BY <2>1, <2>2, <2>3
  <1>7. Addressed'
    <2>1. ASSUME NEW i \in 1 .. Len(d) PROVE Good(d[i])'
      <3>1. CASE b[i].to = to
        <4>1. d[i] \in Post /\ d[i].to = to /\ d[i].left = TRUE /\ d[i].what \in Receiver[to]
          BY <1>4, <1>5, <1>6, <3>1 DEF Good
        <4>2. Registered(to, TRUE)'
          BY <1>3 DEF Registered
        <4> QED BY <4>1, <4>2 DEF Good
      <3>2. CASE b[i].to = "nobody"
        BY <1>4, <1>5, <3>2 DEF Good
      <3>3. CASE b[i].to \notin {to, "nobody"}
        <4>1. d[i] = b[i] /\ Good(b[i]) /\ b[i] \in Post
          BY <1>1, <1>4, <1>5, <1>6, <3>3
        <4>2. b[i].left = TRUE /\ b[i].to \in leaving
          BY <3>3, <4>1 DEF Good, Registered, Post
        <4>3. Registered(b[i].to, TRUE)'
          BY <1>3, <4>2 DEF Registered
        <4>4. d[i].left = TRUE /\ d[i] \in Post /\ d[i].what \in Receiver[d[i].to] /\ d[i].to = b[i].to
          BY <3>3, <4>1, <4>2 DEF Good
        <4> QED BY <4>3, <4>4 DEF Good
      <3> QED BY <3>1, <3>2, <3>3
    <2> QED BY <1>3, <1>5, <2>1 DEF Addressed
  <1>8. CASE to = "contacts"
    <2>1. \A i \in 1 .. Len(b) : d[i] = b[i] \/ ~IsText(d[i])
      BY <1>4, <1>8 DEF IsText
    <2>2. Way(window, d, lines, sends, sentLines)
      BY <1>2, <1>5, <2>1, WayMarked
    <2> QED BY <1>2, <1>3, <1>7, <2>2, WayShorter
  <1>9. CASE to = "chat"
    <2>1. \A i \in 1 .. Len(b) : /\ (IsText(d[i]) => IsText(b[i]))
                                /\ d[i].nr = b[i].nr
                                /\ (IsText(b[i]) => b[i].left = FALSE)
      BY <1>4, <1>6, <1>9
    <2>2. Way(<<>>, d, lines, sends, sentLines)
      BY <1>2, <1>5, <2>1, WayLeft
    <2> QED BY <1>3, <1>7, <1>9, <2>2
  <1> QED BY <1>8, <1>9

-----------------------------------------------------------------------------
LEMMA InitHolds == Init => IInv
  <1> SUFFICES ASSUME Init PROVE IInv
    OBVIOUS
  <1>1. \A S : <<>> \in Seq(S)
    BY Nothing
  <1>2. Len(<<>>) = 0
    BY Nothing
  <1>3. Wires
    BY <1>1, ChatAssumption DEF Init, Wires
  <1>4. Calls
    BY <1>1, ChatAssumption DEF Init, Calls
  <1>5. Addressed
    BY <1>1, <1>2 DEF Init, Addressed
  <1>6. Ways
    BY <1>2 DEF Init, Ways, Way, Shown, ShownFirst, Posted, Sent
  <1>7. Pages
    <2>1. due \in 0 .. MaxDue /\ window \in Seq(Text)
      BY <1>1, ChatAssumption DEF Init
    <2> QED BY <2>1 DEF Init, Pages
  <1> QED BY <1>3, <1>4, <1>5, <1>6, <1>7 DEF IInv

(* What a call of sendAction changes. *)
LEMMA CallKeeps ==
  ASSUME Calls, NEW what \in What, sendAction(what), written' = written,
         astray' \in {astray, astray \cup {sends + 1}}
  PROVE  Calls' /\ sends' = sends + 1 /\ sends \in Nat
  <1> DEFINE m == [what |-> what, nr |-> sends + 1]
  <1>1. sends \in Nat /\ sends' = sends + 1 /\ sends' \in 1 .. MaxSends
    BY ChatAssumption DEF Calls, sendAction
  <1>2. m \in Message
    BY <1>1, ChatAssumption DEF Message, What, sendAction
  <1>3. sendQueue' = IF link = "looping" THEN Append(sendQueue, m) ELSE sendQueue
    BY DEF sendAction
  <1>4. astray' \subseteq 1 .. MaxSends
    BY <1>1 DEF Calls
  <1> HIDE DEF m
  <1>5. sendQueue' \in Seq(Message)
    BY <1>2, <1>3, AppendProperties DEF Calls
  <1> QED BY <1>1, <1>4, <1>5 DEF Calls

-----------------------------------------------------------------------------
(* The thread that writes, the network, and the start. *)
LEMMA SendingKeeps ==
  ASSUME IInv, Connect \/ Publish \/ Write \/ SocketEnds
  PROVE  IInv'
  <1>1. UNCHANGED <<lines, sentLines, pages, broadcasts, sends, history>>
    BY DEF Connect, Publish, Write, SocketEnds, wire
  <1>2. Wires'
    BY DEF IInv, Wires, Connect, Publish, Write, SocketEnds, wire
  <1>3. Calls'
    <2>1. CASE Write
      <3>1. Head(sendQueue) \in Message /\ Tail(sendQueue) \in Seq(Message)
        BY <2>1, Shortened DEF Write, IInv, Calls
      <3>2. /\ sendQueue' = Tail(sendQueue)
            /\ written' = IF socket = "open" THEN Append(written, Head(sendQueue)) ELSE written
        BY <2>1 DEF Write
      <3>3. sendQueue' \in Seq(Message) /\ written' \in Seq(Message)
        BY <3>1, <3>2, AppendProperties DEF IInv, Calls
      <3> QED BY <1>1, <3>3 DEF IInv, Calls, history
    <2>2. CASE Connect \/ Publish \/ SocketEnds
      BY <1>1, <2>2 DEF Connect, Publish, SocketEnds, IInv, Calls, history
    <2> QED BY <2>1, <2>2
  <1>4. Pages' /\ Addressed' /\ Ways'
    BY <1>1, AddressedSame DEF IInv, Pages, Ways, pages, history
  <1> QED BY <1>2, <1>3, <1>4 DEF IInv

(* The line of a window, as the lemmas about the way want it. *)
LEMMA WayTypes ==
  ASSUME IInv
  PROVE  /\ window \in Seq(Text) /\ broadcasts \in Seq(Post) /\ lines \in Seq(Line)
         /\ sends \in Nat /\ sentLines \in Nat
         /\ Way(window, broadcasts, lines, sends, sentLines)
  BY ChatAssumption DEF IInv, Wires, Calls, Pages, Addressed, Ways

(* An error is broadcast, and the lines nobody read are gone or stay. *)
LEMMA ErrorKeeps ==
  ASSUME IInv, broadcasts' = broadcasts \o Errors, lines' \in {lines, <<>>},
         UNCHANGED <<pages, sends, sentLines>>
  PROVE  Addressed' /\ Ways'
  <1>1. /\ lines' \in Seq(Line) /\ Way(window, broadcasts, lines', sends, sentLines)
    BY WayTypes, WayShorter, Nothing
  <1>2. Errors \in Seq(Post) /\ \A i \in 1 .. Len(Errors) : ~IsText(Errors[i])
    BY ErrorsOK DEF Batch
  <1>3. \A i \in 1 .. Len(Errors) : Later(Errors[i], window, broadcasts, lines', sentLines)
    BY <1>2 DEF Later
  <1>4. PICK e : e = Errors
    OBVIOUS
  <1>5. Way(window, broadcasts \o e, lines', sends, sentLines)
    BY <1>1, <1>2, <1>3, <1>4, WayTypes, WayMore
  <1>6. Addressed'
    BY ErrorsOK, AddressedMore DEF IInv, pages
  <1> QED BY <1>4, <1>5, <1>6 DEF Ways, pages

LEMMA ReadKeeps ==
  ASSUME IInv, ConnectFails \/ Read \/ ReadEnds
  PROVE  IInv'
  <1>1. UNCHANGED <<socket, sentLines, pages, sendQueue, written, sends, history>>
    BY DEF ConnectFails, Read, ReadEnds
  <1>2. Calls' /\ Pages'
    BY <1>1 DEF IInv, Calls, Pages, pages, history
  <1>3. CASE ConnectFails
    BY <1>1, <1>2, <1>3, ErrorKeeps DEF ConnectFails, IInv, Wires
  <1>4. CASE ReadEnds
    <2>1. Wires'
      BY <1>1, <1>4, Nothing DEF ReadEnds, IInv, Wires
    <2>2. CASE broadcasts' = broadcasts \o Errors
      BY <1>1, <1>2, <1>4, <2>1, <2>2, ErrorKeeps DEF ReadEnds, IInv
    <2>3. CASE broadcasts' = broadcasts
      <3>1. Way(window, broadcasts, <<>>, sends, sentLines)
        BY WayTypes, WayShorter
      <3>2. Ways'
        BY <1>1, <1>4, <2>3, <3>1 DEF ReadEnds, Ways, pages
      <3>3. Addressed'
        BY <1>1, <2>3, AddressedSame DEF IInv, pages
      <3> QED BY <1>2, <2>1, <3>2, <3>3 DEF IInv
    <2> QED BY <1>4, <2>2, <2>3 DEF ReadEnds
  <1>5. CASE Read /\ Head(lines).what = "MALFORMED"
    <2>1. Wires'
      BY <1>1, <1>5, Nothing DEF Read, IInv, Wires
    <2> QED BY <1>1, <1>2, <1>5, <2>1, ErrorKeeps DEF Read, IInv
  <1>6. CASE Read /\ Head(lines).what # "MALFORMED"
    <2>1. /\ lines # <<>> /\ lines' = Tail(lines) /\ UNCHANGED <<link, recv>>
          /\ broadcasts' = broadcasts \o Notify(Head(lines))
      BY <1>6 DEF Read
    <2>2. lines' \in Seq(Line) /\ Head(lines) \in Line
      BY <2>1, WayTypes, Shortened
    <2>3. Wires'
      BY <1>1, <2>1, <2>2 DEF IInv, Wires
    <2>4. PICK x, e : x = Head(lines) /\ e = Notify(x)
      OBVIOUS
    <2>5. Batch(e, x.nr) /\ x \in Line
      BY <2>2, <2>4, NotifyOK
    <2>6. Addressed'
      BY <1>1, <2>1, <2>4, <2>5, AddressedMore DEF IInv, pages
    <2>7. /\ Way(window, broadcasts, Tail(lines), sends, sentLines)
          /\ \A p \in Post : p.nr = x.nr => Later(p, window, broadcasts, Tail(lines), sentLines)
      BY <2>1, <2>4, WayTypes, WayRead
    <2>8. /\ e \in Seq(Post)
          /\ \A i \in 1 .. Len(e) : Later(e[i], window, broadcasts, Tail(lines), sentLines)
          /\ \A i, j \in 1 .. Len(e) : i < j /\ IsText(e[i]) /\ IsText(e[j]) => Before(e[i], e[j])
      <3>1. e \in Seq(Post) /\ \A i \in 1 .. Len(e) : e[i] \in Post
        BY <2>5, ElementOfSeq DEF Batch
      <3>2. ASSUME NEW i \in 1 .. Len(e)
            PROVE  Later(e[i], window, broadcasts, Tail(lines), sentLines)
        <4>1. CASE IsText(e[i])
          BY <2>5, <2>7, <3>1, <4>1 DEF Batch
        <4>2. CASE ~IsText(e[i])
          BY <4>2 DEF Later
        <4> QED BY <4>1, <4>2
      <3> QED BY <2>5, <3>1, <3>2 DEF Batch
    <2>9. PICK l : l = Tail(lines)
      OBVIOUS
    <2>10. Way(window, broadcasts \o e, l, sends, sentLines)
      <3>1. l \in Seq(Line)
        BY <2>1, <2>2, <2>9
      <3> QED BY <2>7, <2>8, <2>9, <3>1, WayTypes, WayMore
    <2>11. Ways'
      BY <1>1, <2>1, <2>4, <2>9, <2>10 DEF Ways, pages
    <2> QED BY <1>2, <2>3, <2>6, <2>11 DEF IInv
  <1> QED BY <1>3, <1>4, <1>5, <1>6

LEMMA ServerLineKeeps ==
  ASSUME IInv, ServerLine
  PROVE  IInv'
  <1>1. PICK what \in {"RECVMSG", "GETLIST", "UNKNOWN", "MALFORMED"} :
          lines' = Append(lines, [what |-> what, nr |-> sentLines + 1])
    BY DEF ServerLine
  <1> DEFINE x == [what |-> what, nr |-> sentLines + 1]
  <1>2. /\ sentLines \in Nat /\ sentLines' = sentLines + 1 /\ sentLines' \in 0 .. MaxLines
        /\ UNCHANGED <<link, socket, recv, pages, sendQueue, written, broadcasts, sends, history>>
    BY ChatAssumption DEF ServerLine, IInv, Wires
  <1>3. x \in Line /\ x.nr = sentLines + 1
    BY <1>2, ChatAssumption DEF Line
  <1>4. lines' = Append(lines, x)
    BY <1>1
  <1> HIDE DEF x
  <1>5. Wires'
    BY <1>2, <1>3, <1>4, AppendProperties DEF IInv, Wires
  <1>6. Way(window, broadcasts, lines', sends, sentLines')
    BY <1>2, <1>3, <1>4, WayLine, WayTypes
  <1>7. Calls' /\ Pages' /\ Addressed' /\ Ways'
    BY <1>2, <1>6, AddressedSame DEF IInv, Calls, Pages, Ways, pages, history
  <1> QED BY <1>5, <1>7 DEF IInv

-----------------------------------------------------------------------------
(* What the pages do. *)
LEMMA DeliverKeeps ==
  ASSUME IInv, Deliver
  PROVE  IInv'
  <1> DEFINE b == Head(broadcasts)
             t == [mine |-> FALSE, left |-> b.left, nr |-> b.nr]
  <1>1. /\ broadcasts # <<>> /\ broadcasts' = Tail(broadcasts)
        /\ window' = IF b.to = "chat" /\ b.what = "RECVMSG" /\ page = "chat"
                     THEN Append(window, t) ELSE window
        /\ UNCHANGED <<wire, page, visible, leaving, due, sendQueue, written, sends, history>>
    BY DEF Deliver
  <1>2. online' \in BOOLEAN
    BY DEF Deliver, IInv, Pages
  <1>3. b \in Post /\ Addressed'
    BY <1>1, AddressedLess DEF IInv, Good
  <1>4. t \in Text /\ ~t.mine /\ t.left = b.left /\ t.nr = b.nr
    BY <1>3 DEF Text, Post
  <1> HIDE DEF b, t
  <1>5. Way(window', broadcasts', lines, sends, sentLines)
    <2>1. CASE IsText(b) /\ page = "chat"
      <3>1. window' = Append(window, t)
        BY <1>1, <2>1 DEF IsText
      <3> QED BY <1>1, <1>4, <2>1, <3>1, WayTypes, WayDeliver DEF b
    <2>2. CASE ~(IsText(b) /\ page = "chat")
      <3>1. window' = window
        BY <1>1, <2>2 DEF IsText
      <3> QED BY <1>1, <3>1, WayTypes, WayDeliver
    <2> QED BY <2>1, <2>2
  <1>6. window' \in Seq(Text)
    BY <1>1, <1>4, WayTypes, AppendProperties
  <1>7. Wires' /\ Calls' /\ Pages' /\ Ways'
    BY <1>1, <1>2, <1>5, <1>6 DEF IInv, Wires, Calls, Pages, Ways, wire, history
  <1> QED BY <1>3, <1>7 DEF IInv

LEMMA SendTextKeeps ==
  ASSUME IInv, SendText
  PROVE  IInv'
  <1> DEFINE t == [mine |-> TRUE, left |-> FALSE, nr |-> sends + 1]
  <1>1. /\ window' = Append(window, t) /\ sendAction("SENDMSG")
        /\ astray' \in {astray, astray \cup {sends + 1}}
        /\ UNCHANGED <<wire, page, visible, leaving, due, online, written, broadcasts, slipped>>
    BY DEF SendText
  <1>2. Calls' /\ sends' = sends + 1 /\ sends \in Nat
    BY <1>1, CallKeeps DEF IInv, What
  <1>3. t \in Text /\ t.mine /\ t.nr = sends + 1
    BY <1>2 DEF Text
  <1> HIDE DEF t
  <1>4. Way(window', broadcasts, lines, sends', sentLines)
    BY <1>1, <1>2, <1>3, WayTypes, WayOwn
  <1>5. window' \in Seq(Text)
    BY <1>1, <1>3, WayTypes, AppendProperties
  <1>6. Wires' /\ Pages' /\ Ways'
    BY <1>1, <1>4, <1>5 DEF IInv, Wires, Pages, Ways, wire
  <1>7. Addressed'
    BY <1>1, AddressedSame DEF IInv
  <1> QED BY <1>2, <1>6, <1>7 DEF IInv

(* The steps that leave the window or empty it. *)
LEMMA EmptiesKeeps ==
  ASSUME IInv, UNCHANGED <<wire, written, astray>>,
         window' \in {window, <<>>},
         Way(window', broadcasts', lines, sends, sentLines), broadcasts' \in Seq(Post),
         \/ UNCHANGED <<sendQueue, sends>>
         \/ \E what \in What : sendAction(what)
  PROVE  Wires' /\ Calls' /\ Ways' /\ window' \in Seq(Text)
  <1>1. Wires'
    BY DEF IInv, Wires, wire
  <1>2. Calls' /\ sends \in Nat /\ sends' \in {sends, sends + 1}
    <2>1. CASE UNCHANGED <<sendQueue, sends>>
      BY <2>1, ChatAssumption DEF IInv, Calls
    <2>2. CASE \E what \in What : sendAction(what)
      BY <2>2, CallKeeps DEF IInv
    <2> QED BY <2>1, <2>2
  <1>3. window' \in Seq(Text)
    BY WayTypes, Nothing
  <1>4. Way(window', broadcasts', lines, sends', sentLines)
    BY <1>2, <1>3, WayTypes, WayCalls
  <1>5. Ways'
    BY <1>4 DEF Ways, wire
  <1> QED BY <1>1, <1>2, <1>3, <1>5

LEMMA PostRefreshOK ==
  ASSUME due \in 0 .. MaxDue, PostRefresh
  PROVE  due' \in 0 .. MaxDue
  BY ChatAssumption DEF PostRefresh

(* The pages before the contacts, and the list of the contacts. *)
LEMMA FrontKeeps ==
  ASSUME IInv, OpenLogin \/ LeaveLogin \/ Login \/ AskRefresh \/ Refresh \/ Show
  PROVE  IInv'
  <1>1. /\ UNCHANGED <<wire, written, window, broadcasts, online, leaving, astray>>
        /\ UNCHANGED <<sendQueue, sends>> \/ \E what \in What : sendAction(what)
    BY DEF OpenLogin, LeaveLogin, Login, AskRefresh, Refresh, Show, What, history
  <1>2. Wires' /\ Calls' /\ Ways' /\ window' \in Seq(Text)
    BY <1>1, WayTypes, EmptiesKeeps
  <1>3. due \in 0 .. MaxDue
    BY DEF IInv, Pages
  <1>4. due' \in 0 .. MaxDue
    BY <1>3, PostRefreshOK, ChatAssumption
       DEF OpenLogin, LeaveLogin, Login, AskRefresh, Refresh, Show
  <1>5. /\ page' \in {"home", "login", "contacts", "chat"} /\ visible' \in BOOLEAN
        /\ slipped' \in BOOLEAN
    BY DEF OpenLogin, LeaveLogin, Login, AskRefresh, Refresh, Show, IInv, Pages, history
  <1>6. Pages'
    BY <1>1, <1>2, <1>4, <1>5 DEF IInv, Pages
  <1>7. Addressed'
    <2>1. \A to \in {"chat", "contacts"}, left \in BOOLEAN :
            Registered(to, left) => Registered(to, left)'
      BY <1>1 DEF OpenLogin, LeaveLogin, Login, AskRefresh, Refresh, Show, Registered
    <2> QED BY <1>1, <2>1, AddressedStill DEF IInv
  <1> QED BY <1>2, <1>6, <1>7 DEF IInv

(* The steps of a page that unregister a receiver. *)
LEMMA StopKeeps ==
  ASSUME IInv,
         \/ OpenChat \/ Hide \/ RecreateChat \/ DestroyChat \/ DestroyContacts
         \/ RecreateContacts /\ page = "contacts" /\ visible
  PROVE  IInv'
  <1>1. Addressed' /\ Way(window, broadcasts', lines, sends, sentLines)
    <2>1. CASE OpenChat
      <3>1. /\ Unregister("contacts", FALSE) /\ page = "contacts"
            /\ \A a \in {"chat", "contacts"}, b \in BOOLEAN :
                 Registered(a, b) /\ ~(a = "contacts" /\ b = FALSE) => Registered(a, b)'
        BY <2>1 DEF OpenChat, Registered
      <3> QED BY <3>1, Unregistered
    <2>2. CASE Hide
      <3>1. /\ Unregister(page, FALSE) /\ page \in {"chat", "contacts"}
            /\ \A a \in {"chat", "contacts"}, b \in BOOLEAN :
                 Registered(a, b) /\ ~(a = page /\ b = FALSE) => Registered(a, b)'
        BY <2>2 DEF Hide, Registered
      <3>2. PICK to \in {"chat", "contacts"} : to = page
        BY <3>1
      <3> QED BY <3>1, <3>2, Unregistered
    <2>3. CASE RecreateChat
      <3>1. /\ Unregister("chat", FALSE)
            /\ \A a \in {"chat", "contacts"}, b \in BOOLEAN :
                 Registered(a, b) /\ ~(a = "chat" /\ b = FALSE) => Registered(a, b)'
        BY <2>3 DEF RecreateChat, Registered
      <3> QED BY <3>1, Unregistered
    <2>4. CASE DestroyChat
      <3>1. /\ Unregister("chat", TRUE)
            /\ \A a \in {"chat", "contacts"}, b \in BOOLEAN :
                 Registered(a, b) /\ ~(a = "chat" /\ b = TRUE) => Registered(a, b)'
        BY <2>4 DEF DestroyChat, Registered
      <3> QED BY <3>1, Unregistered
    <2>5. CASE DestroyContacts
      <3>1. /\ Unregister("contacts", TRUE)
            /\ \A a \in {"chat", "contacts"}, b \in BOOLEAN :
                 Registered(a, b) /\ ~(a = "contacts" /\ b = TRUE) => Registered(a, b)'
        BY <2>5 DEF DestroyContacts, Registered
      <3> QED BY <3>1, Unregistered
    <2>6. CASE RecreateContacts /\ page = "contacts" /\ visible
      <3>1. /\ Unregister("contacts", FALSE)
            /\ \A a \in {"chat", "contacts"}, b \in BOOLEAN :
                 Registered(a, b) /\ ~(a = "contacts" /\ b = FALSE) => Registered(a, b)'
        BY <2>6 DEF RecreateContacts, Registered
      <3> QED BY <3>1, Unregistered
    <2> QED BY <2>1, <2>2, <2>3, <2>4, <2>5, <2>6
  <1>2. /\ UNCHANGED <<wire, written, online, astray>> /\ window' \in {window, <<>>}
        /\ UNCHANGED <<sendQueue, sends>> \/ \E what \in What : sendAction(what)
    BY DEF OpenChat, Hide, RecreateChat, DestroyChat, DestroyContacts, RecreateContacts, What,
           history
  <1>3. Way(window', broadcasts', lines, sends, sentLines) /\ broadcasts' \in Seq(Post)
    BY <1>1, <1>2, WayTypes, WayShorter DEF Addressed
  <1>4. Wires' /\ Calls' /\ Ways' /\ window' \in Seq(Text)
    BY <1>2, <1>3, EmptiesKeeps
  <1>5. due' \in 0 .. MaxDue
    BY PostRefreshOK DEF OpenChat, Hide, RecreateChat, DestroyChat, DestroyContacts,
                         RecreateContacts, IInv, Pages
  <1>6. /\ page' \in {"home", "login", "contacts", "chat"} /\ visible' \in BOOLEAN
        /\ slipped' \in BOOLEAN /\ leaving' \subseteq {"contacts", "chat"}
    BY DEF OpenChat, Hide, RecreateChat, DestroyChat, DestroyContacts, RecreateContacts, IInv,
           Pages, history
  <1>7. Pages'
    BY <1>2, <1>4, <1>5, <1>6 DEF IInv, Pages
  <1> QED BY <1>1, <1>4, <1>7 DEF IInv

(* The contacts are made anew behind the chat page, or hidden. *)
LEMMA RecreateKeeps ==
  ASSUME IInv, RecreateContacts, ~(page = "contacts" /\ visible)
  PROVE  IInv'
  <1>1. /\ UNCHANGED <<wire, page, visible, leaving, due, online, window, broadcasts, written,
                       astray>>
        /\ sendAction("LOGOUT") /\ slipped' = TRUE
    BY DEF RecreateContacts
  <1>2. Wires' /\ Calls' /\ Ways' /\ window' \in Seq(Text)
    BY <1>1, WayTypes, EmptiesKeeps DEF What
  <1>3. Pages' /\ Addressed'
    BY <1>1, <1>2, AddressedSame DEF IInv, Pages
  <1> QED BY <1>2, <1>3 DEF IInv

(* A page is left. *)
LEMMA LeaveKeeps ==
  ASSUME IInv, LeaveChat \/ LeaveContacts
  PROVE  IInv'
  <1>1. /\ UNCHANGED <<wire, written, online, visible, history, sendQueue, sends>>
        /\ window' \in {window, <<>>} /\ page' \in {"home", "contacts"}
    BY DEF LeaveChat, LeaveContacts
  <1>2. Addressed' /\ Way(window', broadcasts', lines, sends, sentLines)
    <2>1. CASE LeaveChat
      <3>1. Leave("chat") /\ page = "chat" /\ page' = "contacts" /\ window' = <<>>
        BY <2>1 DEF LeaveChat
      <3> QED BY <3>1, Left
    <2>2. CASE LeaveContacts
      <3>1. Leave("contacts") /\ page = "contacts" /\ page' = "home" /\ window' = window
        BY <2>2 DEF LeaveContacts
      <3> QED BY <3>1, Left
    <2> QED BY <2>1, <2>2
  <1>3. Wires' /\ Calls' /\ Ways' /\ window' \in Seq(Text)
    BY <1>1, <1>2, EmptiesKeeps DEF Addressed, history
  <1>4. due' \in 0 .. MaxDue
    BY PostRefreshOK DEF LeaveChat, LeaveContacts, IInv, Pages
  <1>5. leaving' \subseteq {"contacts", "chat"}
    BY DEF LeaveChat, LeaveContacts, Leave, IInv, Pages
  <1>6. Pages'
    BY <1>1, <1>3, <1>4, <1>5 DEF IInv, Pages, history
  <1> QED BY <1>2, <1>3, <1>6 DEF IInv

LEMMA NextHolds == IInv /\ [Next]_vars => IInv'
  <1> SUFFICES ASSUME IInv, [Next]_vars PROVE IInv'
    OBVIOUS
  <1>1. CASE ThreadStep
    BY <1>1, SendingKeeps, ReadKeeps DEF ThreadStep
  <1>2. CASE ServerStep
    BY <1>2, SendingKeeps, ServerLineKeeps DEF ServerStep
  <1>3. CASE PageStep
    BY <1>3, DeliverKeeps, SendTextKeeps, FrontKeeps, StopKeeps, RecreateKeeps, LeaveKeeps
       DEF PageStep
  <1>4. CASE UNCHANGED vars
    <2>1. UNCHANGED <<wire, pages, sendQueue, written, broadcasts, sends, history>>
      BY <1>4 DEF vars
    <2>2. Addressed'
      BY <2>1, AddressedSame DEF IInv, pages
    <2> QED BY <2>1, <2>2 DEF IInv, Wires, Calls, Pages, Ways, wire, pages, history
  <1> QED BY <1>1, <1>2, <1>3, <1>4 DEF Next

-----------------------------------------------------------------------------
\* The chat's variables keep their types, and whatever page is left, stopped or
\* made anew, no broadcast is on its way to a receiver that is not registered
\* (ChatMainActivity 491-513, QQContactActivity 189-209).
THEOREM ChatType == SafetySpec => []TypeOK
  <1>1. IInv => TypeOK
    <2> SUFFICES ASSUME IInv PROVE TypeOK
      OBVIOUS
    <2>1. DOMAIN broadcasts = 1 .. Len(broadcasts)
      BY LenProperties DEF IInv, Addressed
    <2>2. ASSUME NEW i \in DOMAIN broadcasts, broadcasts[i].to # "nobody"
          PROVE  /\ broadcasts[i].to \in DOMAIN Receiver
                 /\ broadcasts[i].what \in Receiver[broadcasts[i].to]
                 /\ Registered(broadcasts[i].to, broadcasts[i].left)
      BY <2>1, <2>2 DEF IInv, Addressed, Good, Post, Receiver
    <2> QED BY <2>2 DEF IInv, Wires, Calls, Pages, Text, TypeOK
  <1> QED BY <1>1, InitHolds, NextHolds, PTL DEF SafetySpec

\* The chat page shows the user's texts and the server's, each in their order,
\* and once for each receiver, however many lines and calls there are and
\* however often pages are stopped, left, destroyed and opened again
\* (ClientThread 97-100, ChatMainActivity 119-127, 249-254, 497-513).
THEOREM WindowAlwaysInOrder == SafetySpec => []WindowInOrder
  <1>1. IInv => WindowInOrder
    <2> SUFFICES ASSUME IInv, NEW i \in DOMAIN window, NEW j \in DOMAIN window,
                        i < j, window[i].mine = window[j].mine
                 PROVE  /\ window[i].nr <= window[j].nr
                        /\ (window[i].left = window[j].left => window[i].nr # window[j].nr)
      BY DEF WindowInOrder
    <2>1. i \in 1 .. Len(window) /\ j \in 1 .. Len(window)
      BY WayTypes, LenProperties
    <2>2. Before(window[i], window[j])
      BY <2>1 DEF IInv, Ways, Way, Shown
    <2>3. window[i].nr \in Nat /\ window[j].nr \in Nat
      BY <2>1, WayTypes, Numbers
    <2> QED BY <2>2, <2>3 DEF Before
  <1> QED BY <1>1, InitHolds, NextHolds, PTL DEF SafetySpec
=============================================================================
