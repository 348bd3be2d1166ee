--------------------------- MODULE ChatMediaProofs ---------------------------
(***************************************************************************)
(* Theorems about ChatMedia for any numbers of pages, files and downloads: *)
(* which file a message names and shows, and which download a received     *)
(* message shows.                                                          *)
(***************************************************************************)
EXTENDS ChatMedia, TLAPS, SequenceTheorems

States == {"pending", "running", "empty", "done", "failed"}
Row == [kind : Kind, state : States]
Pick == [kind : Kind, page : 1 .. MaxPages]
Task == [page : 1 .. MaxPages, file : Nat]
Result == [page : 1 .. MaxPages, file : Nat, succ : BOOLEAN]
Sent == [page : Nat, file : Nat, name : Nat, shows : Nat, chosen : Nat]

(* The types of the sending half ... *)
UpTypes ==
  /\ page \in 0 .. MaxPages /\ front \in {"shown", "hidden", "left"}
  /\ front # "left" => page # 0
  /\ picked \in Seq(Pick) /\ Len(picked) <= MaxPicks /\ mFilePath = Len(picked)
  /\ mFileName \in [1 .. MaxPages -> 0 .. Len(picked)]
  /\ uploads \in Seq(Task) /\ results \in Seq(Result) /\ sent \in Seq(Sent)

(* ... and of the receiving one, with what is left of a download.            *)
DownTypes ==
  /\ downloads \in Seq(Row) /\ Len(downloads) <= MaxMedia
  /\ mDownloadId = Len(downloads) /\ refreshing \subseteq DOMAIN downloads
  /\ media \in Seq(Nat) /\ Len(media) = Len(downloads)
  /\ \A d \in DOMAIN media : media[d] \in 0 .. Len(downloads)
  /\ crash \in {"none", "null", "division"}

(* The files chosen lie in the order of their pages, and a page names the    *)
(* last one it has chosen.                                                   *)
Picks ==
  /\ \A f \in 1 .. Len(picked) : /\ picked[f].page <= page
                                 /\ f <= mFileName[picked[f].page]
  /\ \A p \in 1 .. MaxPages : mFileName[p] # 0 => picked[mFileName[p]].page = p
  /\ \A f, g \in 1 .. Len(picked) : f <= g => picked[f].page <= picked[g].page

(* A file under way was chosen in its page.                                  *)
Told(t) == t.file \in 1 .. Len(picked) /\ picked[t.file].page = t.page
ToldNext(t) == t.file \in 1 .. Len(picked') /\ picked'[t.file].page = t.page

Names ==
  /\ Picks
  /\ \A i \in DOMAIN uploads : Told(uploads[i])
  /\ \A i \in DOMAIN results : Told(results[i])
  /\ \A i \in DOMAIN sent : sent[i].chosen <= Len(picked)

(* What SendsWhatWasUploaded says of one message.                            *)
Right(m) ==
  /\ (m.name = m.file <=> m.page \notin ChosenBetween(m.file, m))
  /\ (m.shows = m.name <=> \A p \in ChosenBetween(m.name, m) : p <= m.page)

IInv == UpTypes /\ DownTypes /\ Names /\ SendsWhatWasUploaded /\ ShowsOwnOrLater

-----------------------------------------------------------------------------
(* The elements of a sequence after an element was appended, or removed at   *)
(* the head.                                                                 *)
LEMMA Appended ==
  ASSUME NEW S, NEW s \in Seq(S), NEW e \in S
  PROVE  /\ Append(s, e) \in Seq(S) /\ Len(Append(s, e)) = Len(s) + 1
         /\ \A i \in DOMAIN Append(s, e) : \/ i \in DOMAIN s /\ Append(s, e)[i] = s[i]
                                           \/ i = Len(s) + 1 /\ Append(s, e)[i] = e
  BY AppendProperties

LEMMA Shortened ==
  ASSUME NEW S, NEW s \in Seq(S), s # <<>>
  PROVE  /\ Head(s) \in S /\ Tail(s) \in Seq(S) /\ 1 \in DOMAIN s /\ s[1] = Head(s)
         /\ \A i \in DOMAIN Tail(s) : i + 1 \in DOMAIN s /\ Tail(s)[i] = s[i + 1]
<1>1. Head(s) \in S /\ Tail(s) \in Seq(S) /\ Len(s) \in Nat \ {0} /\ Len(Tail(s)) = Len(s) - 1
  BY HeadTailProperties, LenProperties, EmptySeq
<1>2. \A i \in 1 .. Len(Tail(s)) : Tail(s)[i] = s[i + 1]
  BY HeadTailProperties
<1>3. DOMAIN s = 1 .. Len(s) /\ DOMAIN Tail(s) = 1 .. Len(Tail(s))
  BY <1>1, LenProperties
<1> QED
  BY <1>1, <1>2, <1>3

LEMMA PickedTypes ==
  ASSUME UpTypes
  PROVE  /\ Len(picked) \in Nat /\ DOMAIN picked = 1 .. Len(picked)
         /\ \A f \in 1 .. Len(picked) : picked[f].page \in 1 .. MaxPages
         /\ MaxPages \in Nat /\ MaxPicks \in Nat /\ page \in Nat
<1>1. \A f \in 1 .. Len(picked) : picked[f] \in Pick
  BY ElementOfSeq DEF UpTypes
<1> QED
  BY <1>1, MediaAssumption, LenProperties DEF UpTypes, Pick

LEMMA SentTypes ==
  ASSUME UpTypes, NEW i \in DOMAIN sent
  PROVE  sent[i] \in Sent
<1>1. DOMAIN sent = 1 .. Len(sent)
  BY LenProperties DEF UpTypes
<1> QED
  BY <1>1, ElementOfSeq DEF UpTypes

-----------------------------------------------------------------------------
(* Init establishes the invariant.                                           *)
LEMMA InitHolds == Init => IInv
<1> SUFFICES ASSUME Init PROVE IInv
  OBVIOUS
<1>0. Len(<<>>) = 0 /\ \A S : <<>> \in Seq(S)
  BY EmptySeq
<1>1. UpTypes
  BY <1>0, MediaAssumption DEF Init, UpTypes
<1>4. Names
  BY <1>0, MediaAssumption DEF Init, Names, Picks
<1>2. DownTypes
  BY MediaAssumption, EmptySeq DEF Init, DownTypes
<1>3. SendsWhatWasUploaded /\ ShowsOwnOrLater
  BY DEF Init, SendsWhatWasUploaded, ShowsOwnOrLater
<1> QED
  BY <1>1, <1>2, <1>3, <1>4 DEF IInv

(* The receiving half is left alone by a step that changes none of it.       *)
LEMMA DownStays ==
  ASSUME IInv, UNCHANGED down, crash' \in {"none", "null", "division"}
  PROVE  DownTypes' /\ ShowsOwnOrLater'
  BY DEF IInv, down, DownTypes, ShowsOwnOrLater

(* ... and the sending half likewise.                                        *)
LEMMA UpStays ==
  ASSUME IInv, UNCHANGED up, UNCHANGED life
  PROVE  UpTypes' /\ Names' /\ SendsWhatWasUploaded'
  BY DEF IInv, up, life, UpTypes, Names, Picks, Told, SendsWhatWasUploaded, ChosenBetween

-----------------------------------------------------------------------------
(* A new page has chosen nothing.                                            *)
LEMMA CreateKeeps ==
  ASSUME IInv, Create
  PROVE  IInv'
<1>1. /\ page \in Nat /\ page' = page + 1 /\ page' \in 1 .. MaxPages /\ front' = "shown"
      /\ MaxPages \in Nat
  BY MediaAssumption DEF IInv, UpTypes, Create
<1>2. UNCHANGED <<picked, mFileName, mFilePath, uploads, results, sent>>
  BY DEF Create, up
<1>3. UpTypes'
  BY <1>1, <1>2 DEF IInv, UpTypes
<1>4. Names'
  <2>1. Picks'
    <3>1. \A f \in 1 .. Len(picked) : picked[f].page <= page'
      BY <1>1, PickedTypes DEF IInv, Names, Picks
    <3> QED
      BY <1>2, <3>1 DEF IInv, Names, Picks
  <2> QED
    BY <1>2, <2>1 DEF IInv, Names, Told
<1>5. SendsWhatWasUploaded'
  BY <1>2 DEF IInv, SendsWhatWasUploaded, ChosenBetween
<1>6. DownTypes' /\ ShowsOwnOrLater'
  BY DownStays DEF Create, IInv, DownTypes
<1> QED
  BY <1>3, <1>4, <1>5, <1>6 DEF IInv

(* Showing, hiding and leaving the last page.                                *)
LEMMA FrontKeeps ==
  ASSUME IInv, Hide \/ Show \/ Leave
  PROVE  IInv'
<1>1. UNCHANGED <<page, up, down, crash>> /\ front' \in {"shown", "hidden", "left"}
      /\ (front' # "left" => page # 0)
  BY DEF Hide, Show, Leave, Shown, IInv, UpTypes
<1>2. UpTypes'
  BY <1>1 DEF IInv, up, UpTypes
<1>3. Names' /\ SendsWhatWasUploaded'
  BY <1>1 DEF IInv, up, Names, Picks, Told, SendsWhatWasUploaded, ChosenBetween
<1> QED
  BY <1>1, <1>2, <1>3, DownStays DEF IInv, DownTypes

(* What was right of a message stays so when another file is chosen.         *)
LEMMA RightStays ==
  ASSUME UpTypes, NEW x \in Pick, picked' = Append(picked, x),
         NEW m \in Sent, m.chosen <= Len(picked), Right(m)
  PROVE  Right(m)'
<1>1. \A f \in 1 .. Len(picked) : picked'[f] = picked[f]
  BY AppendProperties DEF UpTypes
<1>2. ASSUME NEW f \in Nat PROVE ChosenBetween(f, m)' = ChosenBetween(f, m)
  <2>1. \A g \in f + 1 .. m.chosen : g \in 1 .. Len(picked)
    BY PickedTypes DEF Sent
  <2>2. \A g \in f + 1 .. m.chosen : picked'[g] = picked[g]
    BY <1>1, <2>1
  <2> QED
    BY <2>2 DEF ChosenBetween
<1>3. m.file \in Nat /\ m.name \in Nat
  BY DEF Sent
<1> QED
  BY <1>2, <1>3 DEF Right

(* A page that chooses a file names it.                                      *)
LEMMA PickKeeps ==
  ASSUME IInv, NEW kind \in Kind, onConfirmSelect(kind)
  PROVE  IInv'
<1> DEFINE n == Len(picked) + 1
           t == [page |-> page, file |-> n]
           x == [kind |-> kind, page |-> page]
<1>1. /\ page \in 1 .. MaxPages /\ Len(picked) \in Nat /\ n <= MaxPicks /\ n # 0
      /\ MaxPages \in Nat /\ MaxPicks \in Nat
  BY MediaAssumption, LenProperties DEF IInv, UpTypes, onConfirmSelect, Shown
<1>2. /\ x \in Pick /\ x.page = page /\ picked' = Append(picked, x)
      /\ picked' \in Seq(Pick) /\ Len(picked') = n
      /\ picked'[n] = x /\ \A f \in 1 .. Len(picked) : picked'[f] = picked[f]
  <2>1. x \in Pick /\ x.page = page /\ picked' = Append(picked, x)
    BY <1>1 DEF onConfirmSelect, Pick
  <2> HIDE DEF x
  <2> QED
    BY <2>1, AppendProperties DEF IInv, UpTypes
<1>3. /\ mFileName' = [mFileName EXCEPT ![page] = n] /\ mFilePath' = n
      /\ uploads' = Append(uploads, t)
      /\ UNCHANGED <<page, front, results, sent, down, crash>>
  BY <1>2 DEF onConfirmSelect, life
<1>4. t \in Task /\ t.file = n /\ t.page = page
  BY <1>1 DEF Task
<1> HIDE DEF x
<1>5. UpTypes'
  <2>1. mFileName' \in [1 .. MaxPages -> 0 .. Len(picked')]
    BY <1>1, <1>2, <1>3 DEF IInv, UpTypes
  <2>2. uploads' \in Seq(Task)
    BY <1>3, <1>4, Appended DEF IInv, UpTypes
  <2> QED
    BY <1>1, <1>2, <1>3, <2>1, <2>2 DEF IInv, UpTypes
<1> HIDE DEF t
<1>6. Picks'
  <2>1. \A p \in 1 .. MaxPages : mFileName'[p] = IF p = page THEN n ELSE mFileName[p]
    BY <1>3 DEF IInv, UpTypes
  <2>2. \A f \in 1 .. Len(picked) : /\ picked[f].page \in 1 .. MaxPages
                                    /\ picked[f].page <= page
                                    /\ f <= mFileName[picked[f].page]
    BY PickedTypes DEF IInv, Names, Picks
  <2>3. \A f \in 1 .. n : f \in 1 .. Len(picked) \/ f = n
    BY <1>1
  <2>4. ASSUME NEW f \in 1 .. n
        PROVE  picked'[f].page <= page' /\ f <= mFileName'[picked'[f].page]
    <3>1. CASE f \in 1 .. Len(picked)
      BY <1>1, <1>2, <1>3, <2>1, <2>2, <3>1
    <3>2. CASE f = n
      BY <1>1, <1>2, <1>3, <2>1, <3>2
    <3> QED
      BY <2>3, <3>1, <3>2
  <2>5. ASSUME NEW p \in 1 .. MaxPages, mFileName'[p] # 0
        PROVE  picked'[mFileName'[p]].page = p
    <3>1. CASE p = page
      BY <1>2, <2>1, <3>1
    <3>2. CASE p # page
      <4>1. mFileName'[p] = mFileName[p] /\ mFileName[p] \in 1 .. Len(picked)
        <5>1. mFileName'[p] = mFileName[p] /\ mFileName[p] # 0
          BY <2>1, <2>5, <3>2
        <5>2. mFileName[p] \in 0 .. Len(picked)
          BY DEF IInv, UpTypes
        <5> QED
          BY <1>1, <5>1, <5>2
      <4>2. picked[mFileName[p]].page = p
        BY <2>5, <4>1 DEF IInv, Names, Picks
      <4>3. picked'[mFileName[p]] = picked[mFileName[p]]
        BY <1>2, <4>1
      <4> QED
        BY <4>1, <4>2, <4>3
    <3> QED
      BY <3>1, <3>2
  <2>6. ASSUME NEW f \in 1 .. n, NEW g \in 1 .. n, f <= g
        PROVE  picked'[f].page <= picked'[g].page
    <3>1. CASE g \in 1 .. Len(picked)
      <4>1. f \in 1 .. Len(picked)
        BY <1>1, <2>6, <3>1
      <4> QED
        BY <1>2, <2>6, <3>1, <4>1 DEF IInv, Names, Picks
    <3>2. CASE g = n /\ f \in 1 .. Len(picked)
      BY <1>2, <2>2, <3>2
    <3>3. CASE g = n /\ f = n
      BY <1>1, <1>2, <3>3
    <3> QED
      BY <2>3, <3>1, <3>2, <3>3
  <2> QED
    BY <1>2, <2>4, <2>5, <2>6 DEF Picks
<1>7. Names'
  <2>1. \A r : Told(r) => ToldNext(r)
    BY <1>1, <1>2 DEF Told, ToldNext
  <2>2. ToldNext(t)
    BY <1>1, <1>2, <1>4 DEF ToldNext
  <2>3. \A i \in DOMAIN results : ToldNext(results[i])
    BY <2>1 DEF IInv, Names
  <2>4. \A i \in DOMAIN uploads' : ToldNext(uploads'[i])
    <3> SUFFICES ASSUME NEW i \in DOMAIN uploads'
                 PROVE  ToldNext(uploads'[i])
      OBVIOUS
    <3>1. (i \in DOMAIN uploads /\ uploads'[i] = uploads[i]) \/ uploads'[i] = t
      BY <1>3, <1>4, Appended DEF IInv, UpTypes
    <3>2. \A j \in DOMAIN uploads : ToldNext(uploads[j])
      BY <2>1 DEF IInv, Names
    <3> QED
      BY <2>2, <3>1, <3>2
  <2>5. \A i \in DOMAIN sent : sent[i].chosen <= Len(picked')
    <3> SUFFICES ASSUME NEW i \in DOMAIN sent PROVE sent[i].chosen <= n
      BY <1>2
    <3>1. sent[i].chosen \in Nat /\ sent[i].chosen <= Len(picked)
      BY SentTypes DEF IInv, Names, Sent
    <3> QED
      BY <1>1, <3>1
  <2> QED
    BY <1>3, <1>6, <2>3, <2>4, <2>5 DEF Names, Told, ToldNext
<1>8. SendsWhatWasUploaded'
  <2> SUFFICES ASSUME NEW i \in DOMAIN sent PROVE Right(sent[i])'
    BY <1>3 DEF SendsWhatWasUploaded, Right
  <2>1. PICK m \in Sent : m = sent[i]
    BY SentTypes DEF IInv
  <2>2. Right(m) /\ m.chosen <= Len(picked)
    BY <2>1 DEF IInv, SendsWhatWasUploaded, Right, Names
  <2>3. Right(m)'
    BY <1>2, <2>2, RightStays DEF IInv
  <2>4. sent'[i] = m
    BY <1>3, <2>1
  <2> QED
    BY <1>3, <2>3, <2>4 DEF Right, ChosenBetween
<1>9. DownTypes' /\ ShowsOwnOrLater'
  BY <1>3, DownStays DEF IInv, DownTypes
<1> QED
  BY <1>5, <1>7, <1>8, <1>9 DEF IInv

(* An upload that ends moves its task to the results.                        *)
LEMMA UploadKeeps ==
  ASSUME IInv, NEW succ \in BOOLEAN, Upload(succ)
  PROVE  IInv'
<1> DEFINE h == Head(uploads)
           r == [page |-> h.page, file |-> h.file, succ |-> succ]
<1>1. /\ uploads # <<>> /\ uploads' = Tail(uploads) /\ results' = Append(results, r)
      /\ UNCHANGED <<page, front, picked, mFileName, mFilePath, sent, down, crash>>
  BY DEF Upload, life
<1>2. /\ h \in Task /\ uploads' \in Seq(Task) /\ 1 \in DOMAIN uploads /\ uploads[1] = h
      /\ \A i \in DOMAIN uploads' : i + 1 \in DOMAIN uploads /\ uploads'[i] = uploads[i + 1]
  BY <1>1, Shortened DEF IInv, UpTypes
<1>3. r \in Result /\ r.page = h.page /\ r.file = h.file
  BY <1>2 DEF Task, Result
<1>4. Told(h)
  BY <1>2 DEF IInv, Names
<1> HIDE DEF r
<1>5. /\ results' \in Seq(Result)
      /\ \A i \in DOMAIN results' : \/ i \in DOMAIN results /\ results'[i] = results[i]
                                    \/ results'[i] = r
  BY <1>1, <1>3, Appended DEF IInv, UpTypes
<1>6. UpTypes'
  BY <1>1, <1>2, <1>5 DEF IInv, UpTypes
<1>7. Names'
  <2>1. \A i \in DOMAIN uploads' : Told(uploads'[i])
    BY <1>2 DEF IInv, Names
  <2>2. \A i \in DOMAIN results' : Told(results'[i])
    BY <1>3, <1>4, <1>5 DEF IInv, Names, Told
  <2>3. Picks' /\ \A i \in DOMAIN sent' : sent'[i].chosen <= Len(picked')
    BY <1>1 DEF IInv, Names, Picks
  <2> QED
    BY <1>1, <2>1, <2>2, <2>3 DEF Names, Told
<1>8. SendsWhatWasUploaded'
  BY <1>1 DEF IInv, SendsWhatWasUploaded, ChosenBetween
<1>9. DownTypes' /\ ShowsOwnOrLater'
  BY <1>1, DownStays DEF IInv, DownTypes
<1> QED
  BY <1>6, <1>7, <1>8, <1>9 DEF IInv

(* What a page names when an upload of it ends is the file that was uploaded *)
(* or one it has chosen since; and what the path names was chosen in that    *)
(* page or in a later one.                                                   *)
LEMMA FinishRight ==
  ASSUME IInv, NEW r \in Result, Told(r),
         NEW m, m = [page |-> r.page, file |-> r.file, name |-> mFileName[r.page],
                     shows |-> mFilePath, chosen |-> Len(picked)]
  PROVE  m \in Sent /\ m.chosen = Len(picked) /\ Right(m)
<1> DEFINE n == Len(picked)
           q == m.name
<1>1. /\ n \in Nat /\ mFilePath = n /\ MaxPages \in Nat
      /\ \A f \in 1 .. n : picked[f].page \in 1 .. MaxPages
  BY PickedTypes DEF IInv, UpTypes
<1>2. /\ m.page = r.page /\ m.file = r.file /\ m.name = mFileName[r.page]
      /\ m.shows = n /\ m.chosen = n
  BY <1>1
<1>3. /\ r.page \in 1 .. MaxPages /\ r.file \in 1 .. n /\ picked[r.file].page = r.page
  BY DEF Result, Told
<1>4. q \in 1 .. n /\ r.file <= q /\ picked[q].page = r.page
  <2>1. r.file <= mFileName[r.page] /\ mFileName[r.page] \in 0 .. n
    BY <1>3 DEF IInv, UpTypes, Names, Picks
  <2>2. mFileName[r.page] \in 1 .. n
    BY <1>1, <1>3, <2>1
  <2> QED
    BY <1>1, <1>2, <1>3, <2>1, <2>2 DEF IInv, Names, Picks
<1>5. m \in Sent
  <2>1. r.page \in Nat /\ r.file \in Nat /\ mFileName[r.page] \in Nat /\ n \in Nat /\ mFilePath \in Nat
    BY <1>1, <1>2, <1>3, <1>4
  <2> QED
    BY <2>1 DEF Sent
<1>6. \A f \in 1 .. n : picked[f].page = r.page => f <= q
  BY <1>2, <1>3 DEF IInv, Names, Picks
<1>7. \A f \in q .. n : r.page <= picked[f].page
  <2>1. \A f \in q .. n : f \in 1 .. n /\ q <= f
    BY <1>1, <1>4
  <2> QED
    BY <1>4, <2>1 DEF IInv, Names, Picks
<1> HIDE DEF n, q
<1>8. q = m.file <=> m.page \notin ChosenBetween(m.file, m)
  <2>1. ASSUME q = m.file, m.page \in ChosenBetween(m.file, m) PROVE FALSE
    <3>1. PICK g \in q + 1 .. n : picked[g].page = r.page
      BY <1>2, <2>1 DEF ChosenBetween
    <3>2. g \in 1 .. n /\ g > q
      BY <1>1, <1>4, <3>1
    <3> QED
      BY <1>1, <1>4, <1>6, <3>1, <3>2
  <2>2. ASSUME q # m.file PROVE m.page \in ChosenBetween(m.file, m)
    <3>1. q \in m.file + 1 .. n
      BY <1>1, <1>2, <1>3, <1>4, <2>2
    <3> QED
      BY <1>2, <1>4, <3>1 DEF ChosenBetween
  <2> QED
    BY <2>1, <2>2
<1>9. m.shows = q <=> \A p \in ChosenBetween(q, m) : p <= m.page
  <2>1. ASSUME n = q, NEW p \in ChosenBetween(q, m) PROVE FALSE
    <3>1. PICK g \in q + 1 .. n : TRUE
      BY <1>2, <2>1 DEF ChosenBetween
    <3> QED
      BY <1>1, <2>1, <3>1
  <2>2. ASSUME n # q PROVE \E p \in ChosenBetween(q, m) : ~(p <= m.page)
    <3>1. n \in q + 1 .. n /\ n \in 1 .. n /\ n \in q .. n /\ n > q
      BY <1>1, <1>4, <2>2
    <3>2. picked[n].page \in ChosenBetween(q, m)
      BY <1>2, <3>1 DEF ChosenBetween
    <3>3. picked[n].page # r.page /\ r.page <= picked[n].page
      BY <1>1, <1>4, <1>6, <1>7, <3>1
    <3>4. ~(picked[n].page <= m.page)
      BY <1>1, <1>2, <1>3, <3>1, <3>3
    <3> QED
      BY <3>2, <3>4
  <2>3. m.shows = n
    BY <1>2
  <2> QED
    BY <2>1, <2>2, <2>3
<1> QED
  BY <1>2, <1>5, <1>8, <1>9 DEF Right, q, n

(* The message that an upload's end sends.                                   *)
LEMMA FinishKeeps ==
  ASSUME IInv, onUploadFinish
  PROVE  IInv'
<1> DEFINE r == Head(results)
<1>0. PICK m : m = [page |-> r.page, file |-> r.file, name |-> mFileName[r.page],
                    shows |-> mFilePath, chosen |-> Len(picked)]
  OBVIOUS
<1>1. /\ results # <<>> /\ results' = Tail(results)
      /\ UNCHANGED <<page, front, picked, mFileName, mFilePath, uploads, down>>
      /\ sent' = sent \/ sent' = Append(sent, m)
      /\ crash' \in {"null", crash}
  BY <1>0 DEF onUploadFinish, life, Named
<1>2. /\ r \in Result /\ results' \in Seq(Result) /\ 1 \in DOMAIN results /\ results[1] = r
      /\ \A i \in DOMAIN results' : i + 1 \in DOMAIN results /\ results'[i] = results[i + 1]
  BY <1>1, Shortened DEF IInv, UpTypes
<1>3. Told(r)
  BY <1>2 DEF IInv, Names
<1>4. m \in Sent /\ m.chosen = Len(picked) /\ Right(m)
  BY <1>0, <1>2, <1>3, FinishRight
<1>5. sent' \in Seq(Sent) /\ \A i \in DOMAIN sent' :
        (i \in DOMAIN sent /\ sent'[i] = sent[i]) \/ sent'[i] = m
  <2>1. CASE sent' = sent
    BY <2>1 DEF IInv, UpTypes
  <2>2. CASE sent' = Append(sent, m)
    BY <1>4, <2>2, Appended DEF IInv, UpTypes
  <2> QED
    BY <1>1, <2>1, <2>2
<1>6. UpTypes'
  BY <1>1, <1>2, <1>5 DEF IInv, UpTypes
<1>7. Names'
  <2>1. \A i \in DOMAIN results' : Told(results'[i])
    BY <1>2 DEF IInv, Names
  <2>2. \A i \in DOMAIN sent' : sent'[i].chosen <= Len(picked)
    BY <1>4, <1>5, PickedTypes DEF IInv, Names
  <2>3. Picks'
    BY <1>1 DEF IInv, Names, Picks
  <2> QED
    BY <1>1, <2>1, <2>2, <2>3 DEF IInv, Names, Told
<1>8. SendsWhatWasUploaded'
  <2> SUFFICES ASSUME NEW i \in DOMAIN sent' PROVE Right(sent'[i])
    BY <1>1 DEF SendsWhatWasUploaded, Right, ChosenBetween
  <2> QED
    BY <1>4, <1>5 DEF IInv, SendsWhatWasUploaded, Right
<1>9. DownTypes' /\ ShowsOwnOrLater'
  BY <1>1, DownStays DEF IInv, DownTypes
<1> QED
  BY <1>6, <1>7, <1>8, <1>9 DEF IInv

-----------------------------------------------------------------------------
(* A message that arrives shows nothing yet.                                 *)
LEMMA ReceiveKeeps ==
  ASSUME IInv, NEW kind \in Kind, onReceive(kind)
  PROVE  IInv'
<1> DEFINE d == [kind |-> kind, state |-> "pending"]
<1>1. /\ downloads' = Append(downloads, d) /\ mDownloadId' = Len(downloads')
      /\ refreshing' = refreshing \cup {Len(downloads')} /\ media' = Append(media, 0)
      /\ UNCHANGED <<life, up, crash>> /\ Len(downloads) < MaxMedia
  BY DEF onReceive, Latest
<1>2. d \in Row
  BY DEF Row, States
<1>3. /\ downloads' \in Seq(Row) /\ Len(downloads') = Len(downloads) + 1
      /\ \A i \in DOMAIN downloads : i \in DOMAIN downloads' /\ downloads'[i] = downloads[i]
  BY <1>1, <1>2, AppendProperties DEF IInv, DownTypes
<1>4. /\ media' \in Seq(Nat) /\ Len(media') = Len(media) + 1
      /\ \A i \in DOMAIN media' : (i \in DOMAIN media /\ media'[i] = media[i]) \/ media'[i] = 0
  BY <1>1, Appended DEF IInv, DownTypes
<1>5. Len(downloads) \in Nat /\ MaxMedia \in Nat /\ DOMAIN downloads = 1 .. Len(downloads)
      /\ DOMAIN downloads' = 1 .. Len(downloads')
  BY <1>3, MediaAssumption, LenProperties DEF IInv, DownTypes
<1>6. DownTypes'
  <2>1. Len(downloads') <= MaxMedia
    BY <1>1, <1>3, <1>5
  <2>2. refreshing' \subseteq DOMAIN downloads'
    BY <1>1, <1>3, <1>5 DEF IInv, DownTypes
  <2>3. \A i \in DOMAIN media' : media'[i] \in 0 .. Len(downloads')
    <3> SUFFICES ASSUME NEW i \in DOMAIN media'
                 PROVE  media'[i] \in 0 .. Len(downloads')
      OBVIOUS
    <3>1. Len(downloads') \in Nat /\ 0 .. Len(downloads) \subseteq 0 .. Len(downloads')
      BY <1>3, <1>5
    <3>2. CASE media'[i] = 0
      BY <3>1, <3>2
    <3>3. CASE i \in DOMAIN media /\ media'[i] = media[i]
      <4>1. media[i] \in 0 .. Len(downloads)
        BY <3>3 DEF IInv, DownTypes
      <4> QED
        BY <3>1, <3>3, <4>1
    <3> QED
      BY <1>4, <3>2, <3>3
  <2> QED
    BY <1>1, <1>3, <1>4, <2>1, <2>2, <2>3 DEF IInv, DownTypes
<1>7. ShowsOwnOrLater'
  <2> SUFFICES ASSUME NEW i \in DOMAIN media', media'[i] # 0
               PROVE  media'[i] >= i /\ downloads'[media'[i]].state = "done"
    BY DEF ShowsOwnOrLater
  <2>1. i \in DOMAIN media /\ media'[i] = media[i]
    BY <1>4
  <2>2. media[i] \in DOMAIN downloads
    BY <1>5, <2>1 DEF IInv, DownTypes
  <2> QED
    BY <1>3, <2>1, <2>2 DEF IInv, ShowsOwnOrLater
<1> QED
  BY <1>1, <1>6, <1>7, UpStays DEF IInv

(* A message that is taken for one of our own leaves all but the crash.      *)
LEMMA ReceiveLocalKeeps ==
  ASSUME IInv, NEW kind \in Kind, onReceiveLocal(kind)
  PROVE  IInv'
<1>1. UNCHANGED <<life, up, down>> /\ crash' \in {"null", crash}
  BY DEF onReceiveLocal
<1> QED
  BY <1>1, UpStays, DownStays DEF IInv, DownTypes

(* A download that is done stays as it is.                                   *)
LEMMA FetchKeeps ==
  ASSUME IInv, NEW d \in DOMAIN downloads, NEW s \in {"running", "empty", "done", "failed"},
         Fetch(d, s)
  PROVE  IInv'
<1>1. /\ downloads' = [downloads EXCEPT ![d].state = s] /\ downloads[d].state # "done"
      /\ UNCHANGED <<life, up, mDownloadId, refreshing, media, crash>>
  BY DEF Fetch
<1>2. downloads \in Seq(Row) /\ downloads[d] \in Row
  BY ElementOfSeq DEF IInv, DownTypes
<1>3. [downloads[d] EXCEPT !.state = s] \in Row
  BY <1>2 DEF Row, States
<1>4. downloads' = [downloads EXCEPT ![d] = [downloads[d] EXCEPT !.state = s]]
  BY <1>1
<1>5. downloads' \in Seq(Row) /\ Len(downloads') = Len(downloads)
  BY <1>2, <1>3, <1>4, ExceptSeq
<1>6. DOMAIN downloads' = DOMAIN downloads
      /\ \A i \in DOMAIN downloads : i # d => downloads'[i] = downloads[i]
  BY <1>4
<1>7. DownTypes'
  BY <1>1, <1>5, <1>6 DEF IInv, DownTypes
<1>8. ShowsOwnOrLater'
  <2>1. \A i \in DOMAIN media : media[i] # 0 => media[i] \in DOMAIN downloads
    BY LenProperties DEF IInv, DownTypes
  <2> QED
    BY <1>1, <1>6, <2>1 DEF IInv, ShowsOwnOrLater
<1> QED
  BY <1>1, <1>7, <1>8, UpStays DEF IInv

(* A poll shows the last download, which is done, or ends the process.       *)
LEMMA RefreshKeeps ==
  ASSUME IInv, NEW d \in 1 .. MaxMedia, Refresh(d)
  PROVE  IInv'
<1>1. CASE RefreshThrows(d)
  <2>1. UNCHANGED <<life, up, down>> /\ crash' = "division"
    BY <1>1 DEF RefreshThrows
  <2> QED
    BY <2>1, UpStays, DownStays DEF IInv
<1>2. CASE RefreshEnds(d)
  <2>1. /\ d \in DOMAIN downloads /\ downloads[mDownloadId].state = "done"
        /\ refreshing' \subseteq refreshing /\ media' = [media EXCEPT ![d] = mDownloadId]
        /\ crash' \in {"null", crash} /\ UNCHANGED <<life, up, downloads, mDownloadId>>
    BY <1>2 DEF RefreshEnds, Polled, Unposted, IInv, DownTypes
  <2>2. /\ mDownloadId = Len(downloads) /\ Len(downloads) \in Nat
        /\ DOMAIN downloads = 1 .. Len(downloads) /\ DOMAIN media = 1 .. Len(downloads)
    BY LenProperties DEF IInv, DownTypes
  <2>3. media' \in Seq(Nat) /\ Len(media') = Len(media)
    BY <2>1, <2>2, ExceptSeq DEF IInv, DownTypes
  <2>4. DOMAIN media' = DOMAIN media
        /\ \A i \in DOMAIN media : media'[i] = IF i = d THEN mDownloadId ELSE media[i]
    BY <2>1
  <2>5. DownTypes'
    BY <2>1, <2>2, <2>3, <2>4 DEF IInv, DownTypes
  <2>6. ShowsOwnOrLater'
    BY <2>1, <2>2, <2>4 DEF IInv, ShowsOwnOrLater
  <2> QED
    BY <2>1, <2>5, <2>6, UpStays DEF IInv
<1> QED
  BY <1>1, <1>2 DEF Refresh

-----------------------------------------------------------------------------
(* Every step keeps the invariant.                                           *)
LEMMA NextHolds == IInv /\ [Next]_vars => IInv'
<1> SUFFICES ASSUME IInv, [Next]_vars PROVE IInv'
  OBVIOUS
<1>1. CASE UNCHANGED vars
  BY <1>1, UpStays, DownStays DEF vars, IInv, DownTypes
<1>2. CASE PageStep
  BY <1>2, CreateKeeps, FrontKeeps, PickKeeps DEF PageStep
<1>3. CASE NetStep
  BY <1>3, UploadKeeps, ReceiveKeeps, ReceiveLocalKeeps, FetchKeeps DEF NetStep
<1>4. CASE onUploadFinish
  BY <1>4, FinishKeeps
<1>5. CASE \E d \in 1 .. MaxMedia : Refresh(d)
  BY <1>5, RefreshKeeps
<1> QED
  BY <1>1, <1>2, <1>3, <1>4, <1>5 DEF Next

LEMMA Holds == SafetySpec => []IInv
<1> QED
  BY InitHolds, NextHolds, PTL DEF SafetySpec

(* The variables keep their types for any bounds.                            *)
THEOREM MediaType == SafetySpec => []TypeOK
<1>1. IInv => TypeOK
  BY DEF IInv, UpTypes, DownTypes, TypeOK, Row, States, Pick
<1> QED
  BY <1>1, Holds, PTL

(* onUploadFinish names the file that was uploaded unless its page chose     *)
(* another one meanwhile, and shows what it names unless a later page had    *)
(* chosen a file; in both cases it goes wrong exactly then, however many     *)
(* pages, files and uploads there are.                                       *)
THEOREM MediaSendsWhatWasUploaded == SafetySpec => []SendsWhatWasUploaded
<1>1. IInv => SendsWhatWasUploaded
  BY DEF IInv
<1> QED
  BY <1>1, Holds, PTL

(* A message shows its own or a later picture, fetched to its end, however   *)
(* many messages wait when a poll looks at the last download.                *)
THEOREM MediaShowsOwnOrLater == SafetySpec => []ShowsOwnOrLater
<1>1. IInv => ShowsOwnOrLater
  BY DEF IInv
<1> QED
  BY <1>1, Holds, PTL
=============================================================================
