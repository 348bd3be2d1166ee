-------------------------- MODULE ShoppingCartProofs --------------------------
(***************************************************************************)
(* Theorems about the shopping cart, for any number of products, rows,     *)
(* goods and pages: no callback looks goods up that its page does not      *)
(* know; the catalogue is complete once "first" is false, whenever the     *)
(* process ends; unless they drifted apart, the badge's number is the sum  *)
(* over the rows; and the page on top shows what is stored.                *)
(***************************************************************************)
EXTENDS ShoppingCart, FiniteSets, SequenceTheorems, FiniteSetTheorems, WellFoundedInduction, TLAPS

(* A page with rows on screen knows the goods of each row and of each entry  *)
(* of mCartArray.  A page without rows need not: clearing empties mGoodsMap  *)
(* and leaves mCartArray as it is.                                           *)
Listed(page) == {g \in Goods : page.rows[g] > 0}
Known(page) == \A g \in Goods : page.rows[g] > 0 \/ page.mCartArray[g] > 0 => g \in page.mGoodsMap
Supported(page) == Listed(page) # {} => Known(page)
SoundPage == {page \in Page : Supported(page)}

(* The callback under way.                                                   *)
Callback ==
  [op : {"idle", "clear"}] \cup [op : {"download"}, next : Nat \ {0}]
    \cup [op : {"save"}, next : Products, row : Goods \cup {NoRow}]
    \cup [op : {"add"}, goods_id : Goods] \cup [op : {"delete"}, goods_id : Goods, left : Int]

(* Between its two halves a deletion has taken the goods off the page's two  *)
(* lists and not yet out of mGoodsMap.                                       *)
Deleting ==
  Running("delete") =>
    /\ Known(Top)
    /\ pc.goods_id \in Top.mGoodsMap
    /\ Top.rows[pc.goods_id] = 0 /\ Top.mCartArray[pc.goods_id] = 0

Clearing == Running("clear") => Top.rows = NoRows

(* While the catalogue is downloaded the products before the next one are    *)
(* complete or failed, and the one being saved is in the row insert returned.*)
Saved(p) == \E i \in Rows : goods[i] = [product |-> p, pictures |-> Pictures]
Done(p) == Saved(p) \/ p \in failed
Downloading ==
  /\ pc.op \in {"download", "save"} => \A p \in Products : p < pc.next => Done(p)
  /\ Running("save") => \/ pc.row = NoRow
                        \/ pc.row \in Rows /\ goods[pc.row].product = pc.next
Complete == ~first => \A p \in Products : Done(p)

Pages ==
  /\ stack \in Seq(SoundPage) /\ Len(stack) <= MaxDepth
  /\ pc \in Callback
  /\ pc.op # "idle" => stack # <<>>

(* What the cart table, a page or an addition refers to is in the table of   *)
(* goods: rows come from there and nothing is ever taken out of it.          *)
Carried(page) == page.goods_id \in Rows \cup {0} /\ Listed(page) \subseteq Rows
Referring ==
  /\ \A g \in Goods : cartDB[g] > 0 => g \in Rows
  /\ \A i \in 1 .. Len(stack) : Carried(stack[i])
  /\ pc.op = "add" => pc.goods_id \in Rows

Core == TypeOK /\ Pages /\ Deleting /\ Clearing /\ Downloading /\ Complete /\ NeverCrashes
IInv == Core /\ Referring
-----------------------------------------------------------------------------
(* A sequence whose last element is taken off, and one put in its place.     *)
LEMMA BelowType ==
  ASSUME NEW S, NEW s \in Seq(S), NEW n \in 1 .. Len(s)
  PROVE  /\ SubSeq(s, 1, Len(s) - n) \in Seq(S)
         /\ Len(SubSeq(s, 1, Len(s) - n)) = Len(s) - n
<1>1. 1 \in 1 .. Len(s) + 1 /\ Len(s) - n \in 0 .. Len(s)
  OBVIOUS
<1>2. \A i \in 1 .. Len(s) - n : s[i] \in S
  BY ElementOfSeq
<1> QED
  BY <1>1, <1>2, SubSeqProperties

LEMMA PushType ==
  ASSUME NEW S, NEW s \in Seq(S), NEW e \in S
  PROVE  /\ Append(s, e) \in Seq(S) /\ Append(s, e) # <<>>
         /\ Len(Append(s, e)) = Len(s) + 1
         /\ Append(s, e)[Len(Append(s, e))] = e
BY AppendProperties

LEMMA LastType ==
  ASSUME NEW S, NEW s \in Seq(S), s # <<>>
  PROVE  Len(s) \in Nat /\ Len(s) >= 1 /\ s[Len(s)] \in S
BY EmptySeq, ElementOfSeq, LenProperties

LEMMA SetTopType ==
  ASSUME stack \in Seq(SoundPage), stack # <<>>, NEW page \in SoundPage, SetTop(page)
  PROVE  /\ stack' \in Seq(SoundPage) /\ stack' # <<>> /\ Len(stack') = Len(stack)
         /\ Top' = page
<1>1. 1 \in 1 .. Len(stack)
  BY LastType
<1>2. Below(1) \in Seq(SoundPage) /\ Len(Below(1)) = Len(stack) - 1
  BY <1>1, BelowType DEF Below
<1> QED
  BY <1>1, <1>2, PushType DEF SetTop, Top
-----------------------------------------------------------------------------
(* What a page's callbacks make of it.                                       *)
LEMMA NoRowsType == NoRows \in [Goods -> Nat] /\ \A g \in Goods : NoRows[g] = 0
BY DEF NoRows

LEMMA NewPageSound ==
  ASSUME count \in Int, NEW act \in {"cart", "channel", "detail"}, NEW g \in Goods \cup {0}
  PROVE  NewPage(act, g) \in SoundPage /\ NewPage(act, g).act = act
<1>1. NewPage(act, g) \in Page
  BY NoRowsType DEF NewPage, Page
<1>2. Listed(NewPage(act, g)) = {}
  BY NoRowsType DEF NewPage, Listed
<1> QED
  BY <1>1, <1>2 DEF SoundPage, Supported, NewPage

LEMMA ShowCountSound ==
  ASSUME NEW page \in SoundPage, NEW n \in Int
  PROVE  showCount(page, n) \in SoundPage /\ showCount(page, n).act = page.act
<1>1. showCount(page, n) \in Page
  BY NoRowsType DEF showCount, SoundPage, Page
<1>2. CASE n = 0
  <2>1. Listed(showCount(page, n)) = {}
    BY <1>2, NoRowsType DEF showCount, Listed, SoundPage, Page
  <2> QED
    BY <1>1, <2>1 DEF SoundPage, Supported, showCount, Page
<1>3. CASE n # 0
  <2>1. /\ showCount(page, n).rows = page.rows
        /\ showCount(page, n).mCartArray = page.mCartArray
        /\ showCount(page, n).mGoodsMap = page.mGoodsMap
        /\ showCount(page, n).act = page.act
    BY <1>3 DEF showCount, SoundPage, Page
  <2> QED
    BY <1>1, <2>1 DEF SoundPage, Supported, Listed, Known
<1> QED
  BY <1>2, <1>3

LEMMA ShowCartSound ==
  ASSUME NEW page \in SoundPage, cartDB \in [Goods -> Nat]
  PROVE  showCart(page) \in SoundPage /\ showCart(page).act = page.act
<1>1. showCart(page) \in Page
  BY DEF showCart, SoundPage, Page
<1>2. /\ showCart(page).mCartArray = cartDB
      /\ showCart(page).mGoodsMap = page.mGoodsMap \cup {g \in Goods : cartDB[g] > 0}
      /\ showCart(page).rows = IF cartDB = NoRows THEN page.rows ELSE cartDB
      /\ showCart(page).act = page.act
  BY DEF showCart, SoundPage, Page
<1>3. Supported(showCart(page))
  <2>1. CASE cartDB = NoRows
    BY <1>2, <2>1, NoRowsType DEF Supported, Listed, Known, SoundPage
  <2>2. CASE cartDB # NoRows
    BY <1>2, <2>2 DEF Supported, Listed, Known
  <2> QED
    BY <2>1, <2>2
<1> QED
  BY <1>1, <1>2, <1>3 DEF SoundPage

LEMMA CountedSound ==
  ASSUME NEW page \in SoundPage, count \in Int
  PROVE  Counted(page) \in SoundPage /\ Counted(page).act = page.act
<1>1. page.act \in {"cart", "channel", "detail"}
  BY DEF SoundPage, Page
<1>2. CASE page.act = "cart"
  BY <1>2, ShowCountSound DEF Counted
<1>3. CASE page.act = "channel"
  <2>1. Counted(page) = [page EXCEPT !.mCount = count]
    BY <1>3 DEF Counted
  <2>2. Counted(page) \in Page
    BY <2>1 DEF SoundPage, Page
  <2> QED
    BY <2>1, <2>2 DEF SoundPage, Page, Supported, Listed, Known
<1>4. CASE page.act = "detail"
  BY <1>4 DEF Counted
<1> QED
  BY <1>1, <1>2, <1>3, <1>4
-----------------------------------------------------------------------------
(* onResume: what is stored stays, and the page comes on top of those below. *)
(* Each step that brings a page to the top is of this form; the first page   *)
(* of a task is a new cart page.                                             *)
Opens(below, page) ==
  /\ below \in Seq(SoundPage) /\ Len(below) < MaxDepth
  /\ \A i \in 1 .. Len(below) : Carried(below[i])
  /\ page \in SoundPage /\ Carried(page)
  /\ stack = <<>> => page = NewPage("cart", 0)
  /\ Resume(below, page)
  /\ \E icons \in SUBSET (Goods \cup {NoRow}) : mIconMap' = LoadIcons(icons, page)
  /\ crashed' = Dereferences(page)
  /\ UNCHANGED <<durable, history>>

LEMMA RowsType ==
  ASSUME TypeOK
  PROVE  Rows \subseteq Goods /\ Len(goods) \in Nat /\ 0 \notin Rows
BY CartAssumption, LenProperties DEF TypeOK, Rows, Goods

LEMMA NoDereference ==
  ASSUME Referring, NEW page \in SoundPage, Carried(page)
  PROVE  Dereferences(page) = FALSE
<1>1. page.act \in {"cart", "channel", "detail"}
  BY DEF SoundPage, Page
<1>2. RowMissing = FALSE
  BY DEF RowMissing, Referring
<1>3. page.goods_id \in Rows \cup {0}
  BY DEF Carried
<1> QED
  BY <1>1, <1>2, <1>3 DEF Dereferences

LEMMA IconsType ==
  ASSUME TypeOK, NEW icons \in SUBSET (Goods \cup {NoRow}), NEW page
  PROVE  LoadIcons(icons, page) \in SUBSET (Goods \cup {NoRow})
BY RowsType DEF LoadIcons

LEMMA ResumeKeeps ==
  ASSUME IInv, NEW below, NEW page, Opens(below, page)
  PROVE  Core'
<1> DEFINE top == IF page.act = "cart" /\ ~first THEN showCart(Counted(page)) ELSE Counted(page)
<1>1. /\ UNCHANGED <<count, first, cartDB, goods, drifted, failed, cut>>
      /\ stack' = Append(below, top)
      /\ pc' = IF page.act = "cart" /\ first THEN [op |-> "download", next |-> 1] ELSE Idle
      /\ page \in SoundPage /\ below \in Seq(SoundPage) /\ Len(below) < MaxDepth
  BY DEF Opens, Resume, durable, history
<1>2. crashed' = FALSE /\ mIconMap' \in SUBSET (Goods \cup {NoRow})
  BY NoDereference, IconsType DEF Opens, IInv, Core
<1>3. top \in SoundPage
  BY <1>1, CountedSound, ShowCartSound DEF IInv, Core, TypeOK
<1>4. stack' \in Seq(SoundPage) /\ stack' # <<>> /\ Len(stack') <= MaxDepth
  <2> HIDE DEF top
  <2> QED
    BY <1>1, <1>3, PushType, LenProperties, CartAssumption
<1>5. pc' \in Callback /\ pc'.op \in {"idle", "download"}
      /\ (pc'.op = "download" => pc' = [op |-> "download", next |-> 1])
  BY <1>1 DEF Callback, Idle
<1>6. TypeOK'
  <2>1. stack' \in Seq(Page)
    BY <1>4, SeqMonotonic DEF SoundPage
  <2> QED
    BY <1>1, <1>2, <1>4, <1>5, <2>1 DEF IInv, Core, TypeOK
<1>7. Pages'
  BY <1>4, <1>5 DEF Pages
<1>8. Deleting' /\ Clearing'
  BY <1>5 DEF Deleting, Clearing, Running
<1>9. Downloading'
  <2>1. \A q \in Products : ~(q < 1)
    BY CartAssumption DEF Products
  <2> QED
    BY <1>5, <2>1 DEF Downloading, Running
<1>10. Complete' /\ NeverCrashes'
  BY <1>1, <1>2 DEF IInv, Core, Complete, Done, Saved, NeverCrashes, Rows
<1> QED
  BY <1>6, <1>7, <1>8, <1>9, <1>10 DEF Core

(* A page's callbacks show rows of the cart table or leave those it had.     *)
LEMMA CountedCarried ==
  ASSUME NEW page \in SoundPage, Carried(page), count \in Int
  PROVE  Carried(Counted(page))
<1>1. page \in Page /\ page.act \in {"cart", "channel", "detail"}
  BY DEF SoundPage, Page
<1>2. /\ Counted(page).goods_id = page.goods_id
      /\ Counted(page).rows \in {NoRows, page.rows}
  BY <1>1 DEF Counted, showCount, Page
<1> QED
  BY <1>2, NoRowsType DEF Carried, Listed

LEMMA ShowCartCarried ==
  ASSUME NEW page \in SoundPage, Carried(page), cartDB \in [Goods -> Nat],
         \A g \in Goods : cartDB[g] > 0 => g \in Rows
  PROVE  Carried(showCart(page))
<1>1. page \in Page
  BY DEF SoundPage
<1>2. /\ showCart(page).goods_id = page.goods_id
      /\ showCart(page).rows \in {cartDB, page.rows}
  BY <1>1 DEF showCart, Page
<1> QED
  BY <1>2 DEF Carried, Listed

LEMMA ResumeRefers ==
  ASSUME IInv, NEW below, NEW page, Opens(below, page)
  PROVE  Referring'
<1> DEFINE counted == Counted(page)
           top == IF page.act = "cart" /\ ~first THEN showCart(counted) ELSE counted
<1>1. /\ UNCHANGED <<cartDB, goods>>
      /\ stack' = Append(below, top) /\ pc'.op # "add"
      /\ page \in SoundPage /\ below \in Seq(SoundPage) /\ Carried(page)
      /\ \A i \in 1 .. Len(below) : Carried(below[i])
  BY DEF Opens, Resume, durable, Idle
<1>2. count \in Int /\ cartDB \in [Goods -> Nat] /\ \A g \in Goods : cartDB[g] > 0 => g \in Rows
  BY DEF IInv, Core, TypeOK, Referring
<1>3. counted \in SoundPage /\ Carried(counted)
  BY <1>1, <1>2, CountedSound, CountedCarried
<1>4. top \in SoundPage /\ Carried(top)
  <2> HIDE DEF counted
  <2> QED
    BY <1>2, <1>3, ShowCartSound, ShowCartCarried
<1> HIDE DEF top
<1>5. \A i \in 1 .. Len(stack') : Carried(stack'[i])
  BY <1>1, <1>4, AppendProperties, LenProperties
<1>6. Rows' = Rows
  BY <1>1 DEF Rows
<1> QED
  BY <1>1, <1>2, <1>5, <1>6 DEF Referring, Carried, Listed, Goods

LEMMA NewPageCarried ==
  ASSUME NEW act, NEW g \in Rows \cup {0}
  PROVE  Carried(NewPage(act, g))
BY NoRowsType DEF NewPage, Carried, Listed

LEMMA Second ==
  ASSUME NEW n \in Nat, n >= 1, n # 1
  PROVE  2 \in 1 .. n /\ n - 1 \in 1 .. n
OBVIOUS

(* The pages below the top ones are pages of the stack.                      *)
LEMMA BelowPages ==
  ASSUME stack \in Seq(SoundPage), NEW n \in 1 .. Len(stack),
         \A i \in 1 .. Len(stack) : Carried(stack[i])
  PROVE  /\ Below(n) \in Seq(SoundPage) /\ Len(Below(n)) = Len(stack) - n
         /\ \A i \in 1 .. Len(Below(n)) : Below(n)[i] = stack[i] /\ Carried(Below(n)[i])
<1>1. Len(stack) \in Nat /\ 1 \in 1 .. Len(stack) + 1 /\ Len(stack) - n \in 0 .. Len(stack)
  BY LenProperties
<1>2. Below(n) \in Seq(SoundPage) /\ Len(Below(n)) = Len(stack) - n
  BY BelowType DEF Below
<1>3. ASSUME NEW i \in 1 .. Len(stack) - n
      PROVE  Below(n)[i] = stack[i] /\ i \in 1 .. Len(stack)
  BY <1>1, SubSeqProperties DEF Below
<1> QED
  BY <1>2, <1>3

LEMMA EnterOpens ==
  ASSUME IInv, NEW below \in Seq(SoundPage), \A i \in 1 .. Len(below) : Carried(below[i]),
         NEW page \in SoundPage, Carried(page), stack = <<>> => page = NewPage("cart", 0),
         Enter(below, page)
  PROVE  Opens(below, page)
<1>1. mIconMap \in SUBSET (Goods \cup {NoRow})
  BY DEF IInv, Core, TypeOK
<1> QED
  BY <1>1 DEF Enter, Opens

Closes == stack' = <<>> /\ UNCHANGED <<durable, mIconMap, pc, crashed, history>>

LEMMA EnteringShape ==
  ASSUME IInv, Launch \/ GoChannel \/ GoCart \/ (\E g \in Goods : goDetail(g)) \/ Back
  PROVE  Closes \/ \E below, page : Opens(below, page)
<1>1. /\ count \in Int /\ stack \in Seq(SoundPage)
      /\ \A i \in 1 .. Len(stack) : Carried(stack[i])
  BY DEF IInv, Core, TypeOK, Pages, Referring
<1>2. CASE Launch
  <2>1. <<>> \in Seq(SoundPage) /\ \A i \in 1 .. Len(<<>>) : Carried(<<>>[i])
    BY EmptySeq
  <2>2. NewPage("cart", 0) \in SoundPage /\ Carried(NewPage("cart", 0))
    BY <1>1, NewPageSound, NewPageCarried
  <2> QED
    BY <1>2, <2>1, <2>2, EnterOpens DEF Launch
<1>3. ASSUME NEW act \in {"cart", "channel", "detail"}, NEW g \in Rows \cup {0},
             stack # <<>>, Enter(stack, NewPage(act, g))
      PROVE  \E below, page : Opens(below, page)
  <2>1. g \in Goods \cup {0}
    BY RowsType DEF IInv, Core
  <2>2. NewPage(act, g) \in SoundPage /\ Carried(NewPage(act, g))
    BY <1>1, <2>1, NewPageSound, NewPageCarried
  <2> QED
    BY <1>1, <1>3, <2>2, EnterOpens
<1>4. CASE GoChannel
  BY <1>3, <1>4 DEF GoChannel, AtTop
<1>5. CASE GoCart
  BY <1>3, <1>5 DEF GoCart, AtTop
<1>6. ASSUME NEW g \in Goods, goDetail(g) PROVE \E below, page : Opens(below, page)
  <2>1. stack # <<>>
    BY <1>6 DEF goDetail, AtTop
  <2>2. g \in Rows
    <3>1. Len(stack) \in 1 .. Len(stack)
      BY <1>1, <2>1, LastType
    <3>2. Carried(Top)
      BY <1>1, <3>1 DEF Top
    <3> QED
      BY <1>6, <3>2 DEF goDetail, Carried, Listed
  <2> QED
    BY <1>3, <1>6, <2>1, <2>2 DEF goDetail
<1>7. CASE Back
  <2>1. stack # <<>>
    BY <1>7 DEF Back
  <2>2. CASE Len(stack) = 1
    BY <1>7, <2>2 DEF Back, Closes
  <2>3. CASE Len(stack) # 1
    <3>1. Len(stack) \in Nat /\ Len(stack) >= 1
      BY <1>1, <2>1, LastType
    <3>2. 2 \in 1 .. Len(stack) /\ Len(stack) - 1 \in 1 .. Len(stack)
      BY <2>3, <3>1, Second
    <3>3. Below(2) \in Seq(SoundPage) /\ \A i \in 1 .. Len(Below(2)) : Carried(Below(2)[i])
      BY <1>1, <3>2, BelowPages
    <3>4. stack[Len(stack) - 1] \in SoundPage /\ Carried(stack[Len(stack) - 1])
      BY <1>1, <3>2, ElementOfSeq
    <3>5. Revive(stack[Len(stack) - 1]) \in SoundPage /\ Carried(Revive(stack[Len(stack) - 1]))
      <4>1. /\ stack[Len(stack) - 1].act \in {"cart", "channel", "detail"}
            /\ stack[Len(stack) - 1].goods_id \in Goods \cup {0}
            /\ stack[Len(stack) - 1].goods_id \in Rows \cup {0}
        BY <3>4 DEF SoundPage, Page, Carried
      <4> QED
        BY <1>1, <3>4, <4>1, NewPageSound, NewPageCarried DEF Revive
    <3>6. Enter(Below(2), Revive(stack[Len(stack) - 1]))
      BY <1>7, <2>3 DEF Back
    <3> QED
      BY <2>1, <3>3, <3>5, <3>6, EnterOpens
  <2> QED
    BY <2>2, <2>3
<1> QED
  BY <1>2, <1>4, <1>5, <1>6, <1>7

(* The pages of a reclaimed process have no rows.                            *)
AsleepPage(page) == [page EXCEPT !.mCount = 0, !.live = FALSE]

LEMMA ChangedPage ==
  ASSUME NEW page \in Page, NEW n \in Int, NEW live \in BOOLEAN
  PROVE  [page EXCEPT !.mCount = n, !.live = live] \in Page
BY DEF Page

LEMMA AsleepSound ==
  ASSUME NEW page \in SoundPage
  PROVE  AsleepPage(page) \in SoundPage /\ (Carried(page) => Carried(AsleepPage(page)))
<1>1. AsleepPage(page) \in Page
  <2>1. page \in Page /\ 0 \in Int /\ FALSE \in BOOLEAN
    BY DEF SoundPage
  <2>2. [page EXCEPT !.mCount = 0, !.live = FALSE] \in Page
    BY <2>1, ChangedPage
  <2> QED
    BY <2>2 DEF AsleepPage
<1>2. /\ AsleepPage(page).rows = page.rows /\ AsleepPage(page).mCartArray = page.mCartArray
      /\ AsleepPage(page).mGoodsMap = page.mGoodsMap /\ AsleepPage(page).goods_id = page.goods_id
  BY DEF AsleepPage, SoundPage, Page
<1> QED
  BY <1>1, <1>2 DEF SoundPage, Supported, Listed, Known, Carried

LEMMA AllAsleep ==
  ASSUME NEW n \in Nat, NEW f, f = [i \in 1 .. n |-> f[i]],
         \A i \in 1 .. n : f[i] \in SoundPage
  PROVE  f \in Seq(SoundPage) /\ Len(f) = n
<1>1. f \in [1 .. n -> SoundPage] /\ DOMAIN f = 1 .. n
  OBVIOUS
<1> QED
  BY <1>1, SeqDef, LenProperties

LEMMA ReclaimShape ==
  ASSUME IInv, Reclaim
  PROVE  \E below, page : Opens(below, page)
<1> DEFINE n == Len(stack) - 1
           asleep == [i \in 1 .. n |-> AsleepPage(NewPage(stack[i].act, stack[i].goods_id))]
           page == NewPage(Top.act, Top.goods_id)
<1>1. /\ count \in Int /\ stack \in Seq(SoundPage) /\ stack # <<>> /\ Len(stack) <= MaxDepth
      /\ \A i \in 1 .. Len(stack) : Carried(stack[i])
  BY DEF IInv, Core, TypeOK, Pages, Referring, Reclaim
<1>2. Len(stack) \in Nat /\ Len(stack) >= 1 /\ Top \in SoundPage /\ Len(stack) \in 1 .. Len(stack)
  BY <1>1, LastType DEF Top
<1>3. n \in Nat /\ n < MaxDepth /\ 1 .. n \subseteq 1 .. Len(stack)
  BY <1>1, <1>2, CartAssumption
<1>4. ASSUME NEW i \in 1 .. Len(stack)
      PROVE  /\ NewPage(stack[i].act, stack[i].goods_id) \in SoundPage
             /\ Carried(NewPage(stack[i].act, stack[i].goods_id))
  <2>1. stack[i] \in SoundPage /\ Carried(stack[i])
    BY <1>1, ElementOfSeq
  <2>2. /\ stack[i].act \in {"cart", "channel", "detail"} /\ stack[i].goods_id \in Goods \cup {0}
        /\ stack[i].goods_id \in Rows \cup {0}
    BY <2>1 DEF SoundPage, Page, Carried
  <2> QED
    BY <1>1, <2>2, NewPageSound, NewPageCarried
<1>5. \A i \in 1 .. n : asleep[i] \in SoundPage /\ Carried(asleep[i])
  BY <1>3, <1>4, AsleepSound
<1>6. asleep \in Seq(SoundPage) /\ Len(asleep) = n
  <2>1. asleep = [i \in 1 .. n |-> asleep[i]]
    OBVIOUS
  <2> HIDE DEF asleep, n
  <2> QED
    BY <1>3, <1>5, <2>1, AllAsleep
<1>7. page \in SoundPage /\ Carried(page)
  BY <1>2, <1>4 DEF Top
<1>8. page.act = Top.act /\ page.goods_id = Top.goods_id
  BY DEF NewPage
<1>9. /\ Resume(asleep, page) /\ UNCHANGED <<durable, history>>
      /\ mIconMap' = LoadIcons({}, Top) /\ crashed' = Dereferences(Top)
  BY DEF Reclaim, AsleepPage
<1>10. mIconMap' = LoadIcons({}, page) /\ crashed' = Dereferences(page)
  BY <1>8, <1>9 DEF LoadIcons, Dereferences
<1> HIDE DEF asleep, n, page
<1>11. {} \in SUBSET (Goods \cup {NoRow})
  OBVIOUS
<1>12. Opens(asleep, page)
  BY <1>1, <1>3, <1>5, <1>6, <1>7, <1>9, <1>10, <1>11 DEF Opens
<1> QED
  BY <1>12

LEMMA OpeningShape ==
  ASSUME IInv, Launch \/ GoChannel \/ GoCart \/ (\E g \in Goods : goDetail(g)) \/ Back \/ Reclaim
  PROVE  pc.op = "idle" /\ (Closes \/ \E below, page : Opens(below, page))
<1>1. pc.op = "idle"
  BY DEF Launch, GoChannel, GoCart, goDetail, Back, Reclaim, AtTop, Running
<1> QED
  BY <1>1, EnteringShape, ReclaimShape

LEMMA OpeningKeeps ==
  ASSUME IInv, Launch \/ GoChannel \/ GoCart \/ (\E g \in Goods : goDetail(g)) \/ Back \/ Reclaim
  PROVE  Core' /\ Referring'
<1>1. CASE Closes
  <2>1. /\ stack' = <<>> /\ pc'.op = "idle"
        /\ UNCHANGED <<count, first, cartDB, goods, mIconMap, pc, crashed, drifted, failed, cut>>
    BY <1>1, OpeningShape DEF Closes, durable, history
  <2>2. Len(stack') = 0 /\ stack' \in Seq(Page) /\ stack' \in Seq(SoundPage) /\ 0 <= MaxDepth
    BY <2>1, EmptySeq, CartAssumption
  <2>3. TypeOK' /\ Pages'
    BY <2>1, <2>2 DEF IInv, Core, TypeOK, Pages
  <2>4. Deleting' /\ Clearing' /\ Downloading'
    BY <2>1 DEF Deleting, Clearing, Downloading, Running
  <2>5. Complete' /\ NeverCrashes'
    BY <2>1 DEF IInv, Core, Complete, Done, Saved, NeverCrashes, Rows
  <2>6. Referring'
    BY <2>1, <2>2 DEF IInv, Referring, Rows
  <2> QED
    BY <2>3, <2>4, <2>5, <2>6 DEF Core
<1>2. ASSUME NEW below, NEW page, Opens(below, page)
      PROVE  Core' /\ Referring'
  BY <1>2, ResumeKeeps, ResumeRefers
<1> QED
  BY <1>1, <1>2, OpeningShape
-----------------------------------------------------------------------------
(* The steps of the first run's download.                                    *)
Entry == [product : Products, pictures : SUBSET Pictures]

LEMMA NextIsProduct ==
  ASSUME IInv, pc.op = "save"
  PROVE  pc.next \in Products /\ pc.next \in Nat \ {0}
<1>1. pc.next \in Products
  BY DEF IInv, Core, Pages, Callback
<1> QED
  BY <1>1, CartAssumption DEF Products

(* A page put in the place of the one on top refers to goods there are.      *)
LEMMA TopRefers ==
  ASSUME IInv, stack # <<>>, NEW page \in SoundPage, Carried(page), SetTop(page),
         UNCHANGED goods, \A g \in Goods : cartDB'[g] > 0 => g \in Rows,
         pc'.op = "add" => pc'.goods_id \in Rows
  PROVE  Referring'
<1>1. stack \in Seq(SoundPage) /\ \A i \in 1 .. Len(stack) : Carried(stack[i])
  BY DEF IInv, Core, Pages, Referring
<1>2. 1 \in 1 .. Len(stack) /\ Len(stack) \in Nat
  BY <1>1, LastType
<1>3. Below(1) \in Seq(SoundPage) /\ \A i \in 1 .. Len(Below(1)) : Carried(Below(1)[i])
  BY <1>1, <1>2, BelowPages
<1>4. \A i \in 1 .. Len(stack') : Carried(stack'[i])
  BY <1>3, AppendProperties, LenProperties DEF SetTop
<1>5. Rows' = Rows
  BY DEF Rows
<1> QED
  BY <1>4, <1>5 DEF Referring, Carried, Listed, Goods

LEMMA TopCarried ==
  ASSUME IInv, stack # <<>>
  PROVE  Carried(Top)
<1>1. Len(stack) \in 1 .. Len(stack)
  BY LastType DEF IInv, Core, Pages
<1> QED
  BY <1>1 DEF IInv, Referring, Top

LEMMA DownloadInsertKeeps ==
  ASSUME IInv, DownloadInsert
  PROVE  Core' /\ Referring'
<1>1. /\ pc.op = "download" /\ pc.next <= NProducts
      /\ UNCHANGED <<count, first, cartDB, stack, crashed, drifted, failed, cut>>
  BY DEF DownloadInsert, Running, history
<1>2. pc.next \in Nat \ {0} /\ pc.next \in Products /\ stack # <<>>
  BY <1>1, CartAssumption DEF IInv, Core, Pages, Callback, Products
<1>3. goods \in Seq(Entry) /\ Len(goods) \in Nat /\ Len(goods) <= MaxRows
  BY LenProperties DEF IInv, Core, TypeOK, Entry
<1>4. PICK row \in Goods \cup {NoRow} :
        /\ pc' = [op |-> "save", next |-> pc.next, row |-> row]
        /\ mIconMap' = mIconMap \cup {row}
        /\ goods' \in Seq(Entry) /\ Len(goods') <= MaxRows /\ Rows \subseteq Rows'
        /\ \A i \in Rows : goods'[i] = goods[i]
        /\ row = NoRow \/ (row \in Rows' /\ goods'[row].product = pc.next)
  <2>1. CASE mIconMap' = mIconMap \cup {NoRow} /\ UNCHANGED goods
             /\ pc' = [op |-> "save", next |-> pc.next, row |-> NoRow]
    BY <1>3, <2>1 DEF Rows
  <2>2. CASE /\ Len(goods) < MaxRows
             /\ goods' = Append(goods, [product |-> pc.next, pictures |-> {}])
             /\ mIconMap' = mIconMap \cup {Len(goods) + 1}
             /\ pc' = [op |-> "save", next |-> pc.next, row |-> Len(goods) + 1]
    <3> DEFINE e == [product |-> pc.next, pictures |-> {}]
    <3>1. e \in Entry /\ e.product = pc.next
      BY <1>2 DEF Entry
    <3> HIDE DEF e
    <3>2. /\ goods' \in Seq(Entry) /\ Len(goods') = Len(goods) + 1
          /\ goods'[Len(goods) + 1] = e /\ \A i \in Rows : goods'[i] = goods[i]
      BY <1>3, <2>2, <3>1, AppendProperties DEF Rows, e
    <3>3. Len(goods) + 1 \in Goods /\ Rows \subseteq Rows' /\ Len(goods) + 1 \in Rows'
      BY <1>3, <2>2, <3>2, CartAssumption DEF Goods, Rows
    <3>4. Len(goods') <= MaxRows
      BY <1>3, <2>2, <3>2, CartAssumption
    <3> QED
      BY <2>2, <3>1, <3>2, <3>3, <3>4
  <2> QED
    BY <2>1, <2>2 DEF DownloadInsert
<1>5. pc' \in Callback /\ pc'.op = "save" /\ pc'.row = row /\ pc'.next = pc.next
  BY <1>2, <1>4 DEF Callback
<1>6. TypeOK'
  BY <1>1, <1>4, <1>5 DEF IInv, Core, TypeOK, Entry
<1>7. Pages'
  BY <1>1, <1>2, <1>5 DEF IInv, Core, Pages
<1>8. Deleting' /\ Clearing'
  BY <1>5 DEF Deleting, Clearing, Running
<1>9. \A q \in Products : Done(q) => Done(q)'
  BY <1>1, <1>4 DEF Done, Saved
<1>10. Downloading'
  BY <1>1, <1>4, <1>5, <1>9 DEF IInv, Core, Downloading, Running
<1>11. Complete' /\ NeverCrashes'
  BY <1>1, <1>9 DEF IInv, Core, Complete, NeverCrashes
<1>12. Referring'
  <2>1. pc'.op # "add"
    BY <1>5
  <2> QED
    BY <1>1, <1>4, <2>1 DEF IInv, Referring, Carried, Listed, Goods
<1> QED
  BY <1>6, <1>7, <1>8, <1>10, <1>11, <1>12 DEF Core

LEMMA WithPictures ==
  ASSUME NEW r \in Entry, NEW w \in SUBSET Pictures
  PROVE  /\ [r EXCEPT !.pictures = w] \in Entry
         /\ [r EXCEPT !.pictures = w] = [product |-> r.product, pictures |-> w]
<1>1. \A x, y \in Entry : x.product = y.product /\ x.pictures = y.pictures => x = y
  BY DEF Entry
<1>2. /\ [r EXCEPT !.pictures = w].product = r.product
      /\ [r EXCEPT !.pictures = w].pictures = w
      /\ [r EXCEPT !.pictures = w] \in Entry
  BY DEF Entry
<1>3. [product |-> r.product, pictures |-> w] \in Entry
  BY DEF Entry
<1> QED
  BY <1>1, <1>2, <1>3

(* A save changes the pictures of the row at most, and what was complete of  *)
(* other products stays so.                                                  *)
LEMMA SaveShape ==
  ASSUME IInv, DownloadSave
  PROVE  /\ goods' \in Seq(Entry) /\ Len(goods') = Len(goods) /\ Rows' = Rows
         /\ \A i \in Rows : goods'[i].product = goods[i].product
         /\ failed' \in SUBSET Products
         /\ \A q \in Products : Done(q) \/ q = pc.next => Done(q)'
<1>1. PICK w \in SUBSET Pictures :
        /\ goods' = IF pc.row = NoRow THEN goods ELSE [goods EXCEPT ![pc.row].pictures = w]
        /\ failed' = IF pc.row # NoRow /\ w = Pictures THEN failed \ {pc.next}
                     ELSE failed \cup {pc.next}
  BY DEF DownloadSave
<1>2. /\ goods \in Seq(Entry) /\ failed \in SUBSET Products /\ Len(goods) \in Nat
      /\ pc.row = NoRow \/ (pc.row \in Rows /\ goods[pc.row].product = pc.next)
  BY LenProperties DEF IInv, Core, TypeOK, Entry, Downloading, DownloadSave, Running
<1>3. CASE pc.row = NoRow
  <2>1. goods' = goods /\ failed' = failed \cup {pc.next}
    BY <1>1, <1>3
  <2>2. \A q \in Products : Done(q) \/ q = pc.next => Done(q)'
    BY <2>1 DEF Done, Saved, Rows
  <2>3. failed' \in SUBSET Products
    BY <1>2, <2>1, NextIsProduct DEF DownloadSave, Running
  <2> QED
    BY <1>2, <2>1, <2>2, <2>3 DEF Rows
<1>4. CASE pc.row # NoRow
  <2> DEFINE n == pc.row
             e == [product |-> pc.next, pictures |-> w]
  <2>1. n \in 1 .. Len(goods) /\ goods[n] \in Entry /\ goods[n].product = pc.next
    BY <1>2, <1>4, ElementOfSeq DEF Rows
  <2>2. [goods[n] EXCEPT !.pictures = w] = e /\ e \in Entry
    BY <2>1, WithPictures
  <2>3. goods' = [goods EXCEPT ![n] = e]
    BY <1>1, <1>4, <2>2
  <2>4. e.product = pc.next /\ (w = Pictures => e = [product |-> pc.next, pictures |-> Pictures])
    OBVIOUS
  <2> HIDE DEF e, n
  <2>5. /\ goods' \in Seq(Entry) /\ Len(goods') = Len(goods)
        /\ \A i \in 1 .. Len(goods) : goods'[i] = IF i = n THEN e ELSE goods[i]
    BY <1>2, <2>1, <2>2, <2>3, ExceptSeq
  <2>6. Rows' = Rows /\ \A i \in Rows : goods'[i].product = goods[i].product
    BY <2>1, <2>4, <2>5 DEF Rows
  <2>7. failed' \in SUBSET Products
    BY <1>1, <1>2, NextIsProduct DEF DownloadSave, Running
  <2>8. ASSUME NEW q \in Products, Done(q) \/ q = pc.next
        PROVE  Done(q)'
    <3>1. CASE q = pc.next
      <4>1. CASE w = Pictures
        <5>1. goods'[n] = [product |-> q, pictures |-> Pictures] /\ n \in Rows'
          BY <2>1, <2>4, <2>5, <2>6, <3>1, <4>1 DEF Rows
        <5> QED
          BY <5>1 DEF Done, Saved
      <4>2. CASE w # Pictures
        BY <1>1, <3>1, <4>2 DEF Done
      <4> QED
        BY <4>1, <4>2
    <3>2. CASE q # pc.next /\ q \in failed
      BY <1>1, <3>2 DEF Done
    <3>3. CASE q # pc.next /\ Saved(q)
      <4>1. PICK i \in Rows : goods[i] = [product |-> q, pictures |-> Pictures]
        BY <3>3 DEF Saved
      <4>2. i # n
        BY <2>1, <3>3, <4>1
      <4>3. i \in Rows' /\ goods'[i] = [product |-> q, pictures |-> Pictures]
        BY <2>5, <2>6, <4>1, <4>2 DEF Rows
      <4> QED
        BY <4>3 DEF Done, Saved
    <3> QED
      BY <2>8, <3>1, <3>2, <3>3 DEF Done
  <2> QED
    BY <2>5, <2>6, <2>7, <2>8
<1> QED
  BY <1>3, <1>4

LEMMA DownloadSaveKeeps ==
  ASSUME IInv, DownloadSave
  PROVE  Core' /\ Referring'
<1>1. /\ pc.op = "save" /\ pc' = [op |-> "download", next |-> pc.next + 1]
      /\ UNCHANGED <<count, first, cartDB, mIconMap, stack, crashed, drifted, cut>>
  BY DEF DownloadSave, Running
<1>2. pc.next \in Nat \ {0} /\ stack # <<>>
  BY <1>1, NextIsProduct DEF IInv, Core, Pages
<1>3. pc' \in Callback /\ pc'.op = "download" /\ pc'.next = pc.next + 1
  BY <1>1, <1>2 DEF Callback
<1>4. TypeOK'
  BY <1>1, <1>3, SaveShape DEF IInv, Core, TypeOK, Entry
<1>5. Pages'
  BY <1>1, <1>2, <1>3 DEF IInv, Core, Pages
<1>6. Deleting' /\ Clearing'
  BY <1>3 DEF Deleting, Clearing, Running
<1>7. \A q \in Products : Done(q) \/ q = pc.next => Done(q)'
  BY SaveShape
<1>8. Downloading'
  <2>1. \A q \in Products : q < pc.next + 1 => q < pc.next \/ q = pc.next
    BY <1>2 DEF Products
  <2> QED
    BY <1>1, <1>3, <1>7, <2>1 DEF IInv, Core, Downloading, Running
<1>9. Complete' /\ NeverCrashes'
  BY <1>1, <1>7 DEF IInv, Core, Complete, NeverCrashes
<1>10. Referring'
  <2>1. Rows' = Rows /\ pc'.op # "add"
    BY <1>3, SaveShape
  <2> QED
    BY <1>1, <2>1 DEF IInv, Referring, Carried, Listed, Goods
<1> QED
  BY <1>4, <1>5, <1>6, <1>8, <1>9, <1>10 DEF Core

(* "first" is written when every product has been saved or has failed.       *)
LEMMA DownloadEndKeeps ==
  ASSUME IInv, DownloadEnd
  PROVE  Core' /\ Referring'
<1>1. /\ pc.op = "download" /\ pc.next > NProducts
      /\ first' = FALSE /\ SetTop(showCart(Top)) /\ pc' = Idle /\ crashed' = RowMissing
      /\ UNCHANGED <<count, cartDB, goods, mIconMap, drifted, failed, cut>>
  BY DEF DownloadEnd, Running, history
<1>2. stack \in Seq(SoundPage) /\ stack # <<>> /\ Len(stack) <= MaxDepth
  BY <1>1 DEF IInv, Core, Pages
<1>3. showCart(Top) \in SoundPage
  BY <1>2, LastType, ShowCartSound DEF IInv, Core, TypeOK, Top
<1>4. stack' \in Seq(SoundPage) /\ stack' # <<>> /\ Len(stack') = Len(stack)
  BY <1>1, <1>2, <1>3, SetTopType
<1>5. pc' \in Callback /\ pc'.op = "idle"
  BY <1>1 DEF Callback, Idle
<1>6. crashed' = FALSE
  BY <1>1 DEF IInv, Referring, RowMissing
<1>7. TypeOK' /\ Pages'
  <2>1. stack' \in Seq(Page)
    BY <1>4, SeqMonotonic DEF SoundPage
  <2> QED
    BY <1>1, <1>2, <1>4, <1>5, <1>6, <2>1 DEF IInv, Core, TypeOK, Pages
<1>8. Deleting' /\ Clearing' /\ Downloading'
  BY <1>5 DEF Deleting, Clearing, Downloading, Running
<1>9. \A q \in Products : Done(q)
  <2>1. pc.next \in Nat
    BY <1>1 DEF IInv, Core, Pages, Callback, Products
  <2>2. \A q \in Products : q < pc.next
    BY <1>1, <2>1, CartAssumption DEF Products
  <2> QED
    BY <1>1, <2>2 DEF IInv, Core, Downloading
<1>10. Complete' /\ NeverCrashes'
  BY <1>1, <1>6, <1>9 DEF Complete, NeverCrashes, Done, Saved, Rows
<1>11. Carried(showCart(Top))
  <2>1. Top \in SoundPage /\ Carried(Top)
    BY <1>2, LastType, TopCarried DEF Top
  <2> QED
    BY <2>1, ShowCartCarried DEF IInv, Core, TypeOK, Referring
<1>12. Referring'
  <2>1. pc'.op # "add" /\ UNCHANGED <<cartDB, goods>>
    BY <1>1, <1>5
  <2> QED
    BY <1>1, <1>2, <1>3, <1>11, <2>1, TopRefers DEF IInv, Referring
<1> QED
  BY <1>7, <1>8, <1>10, <1>12 DEF Core
-----------------------------------------------------------------------------
(* The steps of the other callbacks change the page on top at most.          *)
LEMMA WriteKeeps ==
  ASSUME IInv, UNCHANGED <<first, goods, mIconMap, failed>>, cut' \in BOOLEAN,
         count' \in Int, cartDB' \in [Goods -> Nat], drifted' \in BOOLEAN, crashed' = FALSE,
         pc' \in Callback, pc'.op \in {"idle", "add", "clear", "delete"},
         stack' \in Seq(SoundPage), Len(stack') <= MaxDepth, pc'.op # "idle" => stack' # <<>>,
         Deleting', Clearing'
  PROVE  Core'
<1>1. stack' \in Seq(Page)
  BY SeqMonotonic DEF SoundPage
<1>2. TypeOK' /\ Pages'
  BY <1>1 DEF IInv, Core, TypeOK, Pages
<1>3. Downloading'
  BY DEF Downloading, Running
<1>4. Complete' /\ NeverCrashes'
  BY DEF IInv, Core, Complete, Done, Saved, NeverCrashes, Rows
<1> QED
  BY <1>2, <1>3, <1>4 DEF IInv, Core

LEMMA TopWriteKeeps ==
  ASSUME IInv, stack # <<>>, NEW page \in SoundPage, SetTop(page),
         UNCHANGED <<first, goods, mIconMap, failed, cut>>,
         count' \in Int, cartDB' \in [Goods -> Nat], drifted' \in BOOLEAN, crashed' = FALSE,
         pc' \in Callback, pc'.op \in {"idle", "add", "clear", "delete"},
         Deleting', Clearing'
  PROVE  Core'
<1>1. stack' \in Seq(SoundPage) /\ stack' # <<>> /\ Len(stack') = Len(stack)
      /\ Len(stack) <= MaxDepth
  BY SetTopType DEF IInv, Core, Pages
<1> QED
  BY <1>1, WriteKeeps DEF IInv, Core, TypeOK

LEMMA EmptyPageSound ==
  ASSUME NEW page \in Page, page.rows = NoRows
  PROVE  page \in SoundPage
<1>1. Listed(page) = {}
  BY NoRowsType DEF Listed
<1> QED
  BY <1>1 DEF SoundPage, Supported

LEMMA TopSound ==
  ASSUME IInv, stack # <<>>
  PROVE  /\ Top \in SoundPage /\ Top \in Page /\ Supported(Top)
         /\ Top.rows \in [Goods -> Nat] /\ Top.mCartArray \in [Goods -> Nat]
         /\ Top.mCount \in Int /\ Top.mGoodsMap \in SUBSET Goods
<1>1. Top \in SoundPage
  BY LastType DEF IInv, Core, Pages, Top
<1> QED
  BY <1>1 DEF SoundPage, Page

LEMMA AddKeeps ==
  ASSUME IInv, (\E g \in Goods : AddCount(g)) \/ AddRow
  PROVE  Core'
<1>1. ASSUME NEW g \in Goods, AddCount(g) PROVE Core'
  <2> DEFINE page == [Top EXCEPT !.mCount = @ + 1]
  <2>1. /\ pc' = [op |-> "add", goods_id |-> g] /\ SetTop(page) /\ count' = Top.mCount + 1
        /\ UNCHANGED <<first, cartDB, goods, mIconMap, crashed, failed, cut>>
        /\ drifted' = (drifted \/ Top.mCount # count)
        /\ stack # <<>>
    BY <1>1 DEF AddCount, AtTop
  <2>2. Top \in SoundPage /\ Top \in Page /\ Supported(Top) /\ Top.mCount \in Int
    BY <2>1, TopSound
  <2>3. page \in Page
    BY <2>2 DEF Page
  <2>4. page \in SoundPage
    BY <2>2, <2>3 DEF SoundPage, Supported, Listed, Known, Page
  <2>5. pc' \in Callback /\ pc'.op = "add"
    BY <2>1 DEF Callback
  <2>6. Deleting' /\ Clearing'
    BY <2>5 DEF Deleting, Clearing, Running
  <2>7. count' \in Int /\ cartDB' \in [Goods -> Nat] /\ drifted' \in BOOLEAN /\ crashed' = FALSE
    BY <2>1, <2>2 DEF IInv, Core, TypeOK, NeverCrashes
  <2> HIDE DEF page
  <2> QED
    BY <2>1, <2>4, <2>5, <2>6, <2>7, TopWriteKeeps
<1>2. CASE AddRow
  <2>1. /\ pc.op = "add" /\ pc' = Idle
        /\ cartDB' \in {cartDB, [cartDB EXCEPT ![pc.goods_id] = @ + 1]}
        /\ drifted' \in {drifted, TRUE}
        /\ UNCHANGED <<count, first, goods, mIconMap, stack, crashed, failed, cut>>
    BY <1>2 DEF AddRow, Running
  <2>2. pc' \in Callback /\ pc'.op = "idle"
    BY <2>1 DEF Callback, Idle
  <2>3. Deleting' /\ Clearing'
    BY <2>2 DEF Deleting, Clearing, Running
  <2>4. cartDB' \in [Goods -> Nat]
    <3>1. pc.goods_id \in Goods /\ cartDB \in [Goods -> Nat]
      BY <2>1 DEF IInv, Core, TypeOK, Pages, Callback
    <3> QED
      BY <2>1, <3>1
  <2>5. drifted' \in BOOLEAN
    BY <2>1 DEF IInv, Core, TypeOK
  <2> QED
    BY <2>1, <2>2, <2>3, <2>4, <2>5, WriteKeeps DEF IInv, Core, TypeOK, Pages, NeverCrashes
<1> QED
  BY <1>1, <1>2

LEMMA ClearKeeps ==
  ASSUME IInv, ClearRows \/ ClearCount
  PROVE  Core'
<1>1. CASE ClearRows
  <2> DEFINE page == [Top EXCEPT !.rows = NoRows]
  <2>1. /\ stack # <<>> /\ SetTop(page) /\ cartDB' = NoRows /\ pc' = [op |-> "clear"]
        /\ UNCHANGED <<count, first, goods, mIconMap, crashed, drifted, failed, cut>>
    BY <1>1 DEF ClearRows, AtTop, history
  <2>2. Top \in Page
    BY <2>1, TopSound
  <2>3. page \in Page /\ page.rows = NoRows
    BY <2>2, NoRowsType DEF Page
  <2>4. page \in SoundPage
    <3> HIDE DEF page
    <3> QED
      BY <2>3, EmptyPageSound
  <2>5. Top' = page
    BY <2>1, <2>4, SetTopType DEF IInv, Core, Pages
  <2>6. pc' \in Callback /\ pc'.op = "clear"
    BY <2>1 DEF Callback
  <2>7. Deleting' /\ Clearing'
    BY <2>3, <2>5, <2>6 DEF Deleting, Clearing, Running, NoRows, Goods
  <2>8. count' \in Int /\ cartDB' \in [Goods -> Nat] /\ drifted' \in BOOLEAN /\ crashed' = FALSE
    BY <2>1, NoRowsType DEF IInv, Core, TypeOK, NeverCrashes
  <2> HIDE DEF page
  <2> QED
    BY <2>1, <2>4, <2>6, <2>7, <2>8, TopWriteKeeps
<1>2. CASE ClearCount
  <2> DEFINE page == [showCount(Top, 0) EXCEPT !.mGoodsMap = {}]
  <2>1. /\ pc.op = "clear" /\ SetTop(page) /\ count' = 0 /\ pc' = Idle
        /\ UNCHANGED <<first, cartDB, goods, mIconMap, crashed, drifted, failed, cut>>
    BY <1>2 DEF ClearCount, Running, history
  <2>2. stack # <<>>
    BY <2>1 DEF IInv, Core, Pages
  <2>3. showCount(Top, 0) \in Page /\ showCount(Top, 0).rows = NoRows
    <3>1. Top \in SoundPage /\ 0 \in Int
      BY <2>2, TopSound
    <3> QED
      BY <3>1, ShowCountSound DEF showCount, SoundPage, Page
  <2>4. page \in Page /\ page.rows = NoRows
    BY <2>3 DEF Page
  <2>5. page \in SoundPage
    <3> HIDE DEF page
    <3> QED
      BY <2>4, EmptyPageSound
  <2>6. pc' \in Callback /\ pc'.op = "idle"
    BY <2>1 DEF Callback, Idle
  <2>7. Deleting' /\ Clearing'
    BY <2>6 DEF Deleting, Clearing, Running
  <2>8. count' \in Int /\ cartDB' \in [Goods -> Nat] /\ drifted' \in BOOLEAN /\ crashed' = FALSE
    BY <2>1 DEF IInv, Core, TypeOK, NeverCrashes
  <2> HIDE DEF page
  <2> QED
    BY <2>1, <2>2, <2>5, <2>6, <2>7, <2>8, TopWriteKeeps
<1> QED
  BY <1>1, <1>2
-----------------------------------------------------------------------------
LEMMA DeleteRowKeeps ==
  ASSUME IInv, NEW g \in Goods, DeleteRow(g)
  PROVE  Core'
<1> DEFINE page == [Top EXCEPT !.rows[g] = 0, !.mCartArray[g] = 0]
<1>1. /\ stack # <<>> /\ SetTop(page) /\ cartDB' = Deleted(g) /\ Top.rows[g] > 0
      /\ pc' = [op |-> "delete", goods_id |-> g, left |-> Left(g)]
      /\ UNCHANGED <<count, first, goods, mIconMap, crashed, drifted, failed, cut>>
  BY DEF DeleteRow, AtTop, history
<1>2. /\ Top \in Page /\ Supported(Top)
      /\ Top.rows \in [Goods -> Nat] /\ Top.mCartArray \in [Goods -> Nat]
      /\ Top.mCount \in Int /\ Top.mGoodsMap \in SUBSET Goods
  BY <1>1, TopSound
<1>3. /\ page.rows = [Top.rows EXCEPT ![g] = 0]
      /\ page.mCartArray = [Top.mCartArray EXCEPT ![g] = 0]
      /\ page.mGoodsMap = Top.mGoodsMap
  BY <1>2 DEF Page
<1>4. page \in Page
  BY <1>2 DEF Page
<1> HIDE DEF page
<1>5. Known(Top) /\ g \in Top.mGoodsMap
  BY <1>1, <1>2 DEF Supported, Listed, Known
<1>6. Known(page) /\ page.rows[g] = 0 /\ page.mCartArray[g] = 0 /\ g \in page.mGoodsMap
  BY <1>2, <1>3, <1>5 DEF Known
<1>7. page \in SoundPage
  BY <1>4, <1>6 DEF SoundPage, Supported
<1>8. Left(g) \in Int
  BY <1>2 DEF Left
<1>9. /\ pc' \in Callback /\ pc'.op = "delete" /\ pc'.goods_id = g
  BY <1>1, <1>8 DEF Callback
<1>10. Top' = page
  BY <1>1, <1>7, SetTopType DEF IInv, Core, Pages
<1>11. Deleting' /\ Clearing'
  <2>1. Known(Top')
    BY <1>6, <1>10 DEF Known
  <2> QED
    BY <1>6, <1>9, <1>10, <2>1 DEF Deleting, Clearing, Running, Known, Goods
<1>12. count' \in Int /\ cartDB' \in [Goods -> Nat] /\ drifted' \in BOOLEAN /\ crashed' = FALSE
  BY <1>1 DEF IInv, Core, TypeOK, NeverCrashes, Deleted
<1> QED
  BY <1>1, <1>7, <1>9, <1>11, <1>12, TopWriteKeeps

(* Both look-ups after a deletion find their goods.                          *)
LEMMA DeleteCountKeeps ==
  ASSUME IInv, DeleteCount
  PROVE  Core'
<1> DEFINE rest == Top.mGoodsMap \ {pc.goods_id}
           shown == showCount(Top, pc.left)
           page == [shown EXCEPT !.mGoodsMap = @ \ {pc.goods_id}]
<1>1. /\ pc.op = "delete" /\ count' = pc.left /\ SetTop(page) /\ pc' = Idle
      /\ crashed' = (\/ pc.goods_id \notin Top.mGoodsMap
                     \/ \E g \in Goods \ rest : Top.mCartArray[g] > 0)
      /\ UNCHANGED <<first, cartDB, goods, mIconMap, drifted, failed, cut>>
  BY DEF DeleteCount, Running, history
<1>2. stack # <<>> /\ pc.left \in Int
  BY <1>1 DEF IInv, Core, Pages, Callback
<1>3. /\ Top \in SoundPage
      /\ Top.rows \in [Goods -> Nat] /\ Top.mCartArray \in [Goods -> Nat]
      /\ Top.mGoodsMap \in SUBSET Goods
  BY <1>2, TopSound
<1>4. /\ Known(Top) /\ pc.goods_id \in Top.mGoodsMap
      /\ Top.rows[pc.goods_id] = 0 /\ Top.mCartArray[pc.goods_id] = 0
  BY <1>1 DEF IInv, Core, Deleting, Running
<1>5. crashed' = FALSE
  BY <1>1, <1>3, <1>4 DEF Known
<1>6. shown \in SoundPage
  BY <1>2, <1>3, ShowCountSound
<1>7. /\ shown.rows \in {NoRows, Top.rows} /\ shown.mCartArray = Top.mCartArray
      /\ shown.mGoodsMap = Top.mGoodsMap
  BY <1>3 DEF showCount, SoundPage, Page
<1> HIDE DEF shown
<1>8. /\ page \in Page /\ page.rows = shown.rows /\ page.mCartArray = shown.mCartArray
      /\ page.mGoodsMap = rest
  BY <1>3, <1>6, <1>7 DEF SoundPage, Page
<1> HIDE DEF page
<1>9. page \in SoundPage
  <2>1. Known(page)
    BY <1>3, <1>4, <1>7, <1>8, NoRowsType DEF Known
  <2> QED
    BY <1>8, <2>1 DEF SoundPage, Supported
<1>10. pc' \in Callback /\ pc'.op = "idle"
  BY <1>1 DEF Callback, Idle
<1>11. Deleting' /\ Clearing'
  BY <1>10 DEF Deleting, Clearing, Running
<1>12. count' \in Int /\ cartDB' \in [Goods -> Nat] /\ drifted' \in BOOLEAN
  BY <1>1, <1>2 DEF IInv, Core, TypeOK
<1> QED
  BY <1>1, <1>2, <1>5, <1>9, <1>10, <1>11, <1>12, TopWriteKeeps

(* The process ends between any two writes.                                  *)
LEMMA KillKeeps ==
  ASSUME IInv, Kill
  PROVE  Core' /\ Referring'
<1>1. /\ stack' = <<>> /\ mIconMap' = {} /\ pc' = Idle /\ crashed' = FALSE
      /\ drifted' = (drifted \/ pc.op \in {"add", "clear", "delete"})
      /\ cut' = (cut \/ pc.op \in {"download", "save"})
      /\ UNCHANGED <<count, first, cartDB, goods, failed>>
  BY DEF Kill, durable
<1>2. stack' \in Seq(Page) /\ stack' \in Seq(SoundPage) /\ Len(stack') = 0 /\ 0 <= MaxDepth
  BY <1>1, EmptySeq, CartAssumption
<1>3. pc' \in Callback /\ pc'.op = "idle"
  BY <1>1 DEF Callback, Idle
<1>4. TypeOK' /\ Pages'
  BY <1>1, <1>2, <1>3 DEF IInv, Core, TypeOK, Pages
<1>5. Deleting' /\ Clearing' /\ Downloading'
  BY <1>3 DEF Deleting, Clearing, Downloading, Running
<1>6. Complete' /\ NeverCrashes'
  BY <1>1 DEF IInv, Core, Complete, Done, Saved, NeverCrashes, Rows
<1>7. Referring'
  BY <1>1, <1>2, <1>3 DEF IInv, Referring, Rows
<1> QED
  BY <1>4, <1>5, <1>6, <1>7 DEF Core

(* What the other callbacks refer to are goods there are.                    *)
LEMMA AddRefers ==
  ASSUME IInv, (\E g \in Goods : AddCount(g)) \/ AddRow
  PROVE  Referring'
<1>1. ASSUME NEW g \in Goods, AddCount(g) PROVE Referring'
  <2> DEFINE page == [Top EXCEPT !.mCount = @ + 1]
  <2>1. /\ pc' = [op |-> "add", goods_id |-> g] /\ SetTop(page)
        /\ UNCHANGED <<cartDB, goods>> /\ stack # <<>>
        /\ g \in Rows \/ g = Top.goods_id
    BY <1>1 DEF AddCount, AtTop
  <2>2. Top \in Page /\ Supported(Top) /\ Top.mCount \in Int /\ Carried(Top)
    BY <2>1, TopSound, TopCarried
  <2>3. page \in SoundPage /\ Carried(page)
    BY <2>2 DEF SoundPage, Supported, Listed, Known, Page, Carried
  <2>4. 0 \notin Goods
    BY DEF Goods
  <2>5. pc'.goods_id \in Rows
    BY <2>1, <2>2, <2>4 DEF Carried
  <2> HIDE DEF page
  <2> QED
    BY <2>1, <2>3, <2>5, TopRefers DEF IInv, Referring
<1>2. CASE AddRow
  <2>1. /\ pc.op = "add" /\ pc'.op = "idle" /\ UNCHANGED <<goods, stack>>
        /\ cartDB' \in {cartDB, [cartDB EXCEPT ![pc.goods_id] = @ + 1]}
    BY <1>2 DEF AddRow, Running, Idle
  <2>2. Rows' = Rows /\ cartDB \in [Goods -> Nat]
    BY <2>1 DEF IInv, Core, TypeOK, Rows
  <2>3. \A g \in Goods : cartDB'[g] > 0 => g \in Rows
    BY <2>1, <2>2 DEF IInv, Referring
  <2> QED
    BY <2>1, <2>2, <2>3 DEF IInv, Referring, Carried, Listed, Goods
<1> QED
  BY <1>1, <1>2

LEMMA ClearRefers ==
  ASSUME IInv, ClearRows \/ ClearCount
  PROVE  Referring'
<1> SUFFICES ASSUME NEW page \in Page, page.rows = NoRows, page.goods_id = Top.goods_id,
                    stack # <<>>, SetTop(page), UNCHANGED goods, cartDB' \in {cartDB, NoRows},
                    pc'.op # "add"
             PROVE  Referring'
  <2>1. stack # <<>>
    BY DEF ClearRows, ClearCount, AtTop, Running, IInv, Core, Pages
  <2>2. Top \in Page /\ 0 \in Int /\ Top \in SoundPage
    BY <2>1, TopSound
  <2>3. CASE ClearRows
    <3> DEFINE page == [Top EXCEPT !.rows = NoRows]
    <3>1. page \in Page /\ page.rows = NoRows /\ page.goods_id = Top.goods_id
      BY <2>2, NoRowsType DEF Page
    <3>2. SetTop(page) /\ UNCHANGED goods /\ cartDB' = NoRows /\ pc'.op # "add"
      BY <2>3 DEF ClearRows
    <3> HIDE DEF page
    <3> QED
      BY <2>1, <3>1, <3>2
  <2>4. CASE ClearCount
    <3> DEFINE shown == showCount(Top, 0)
               page == [shown EXCEPT !.mGoodsMap = {}]
    <3>1. shown \in Page /\ shown.rows = NoRows /\ shown.goods_id = Top.goods_id
      BY <2>2, ShowCountSound DEF showCount, SoundPage, Page
    <3> HIDE DEF shown
    <3>2. page \in Page /\ page.rows = NoRows /\ page.goods_id = Top.goods_id
      BY <3>1 DEF Page
    <3>3. SetTop(page) /\ UNCHANGED <<goods, cartDB>> /\ pc'.op # "add"
      BY <2>4 DEF ClearCount, Idle, shown
    <3> HIDE DEF page
    <3> QED
      BY <2>1, <3>2, <3>3
  <2> QED
    BY <2>3, <2>4
<1>1. page \in SoundPage
  BY EmptyPageSound
<1>2. Carried(page)
  BY TopCarried, NoRowsType DEF Carried, Listed
<1>3. \A g \in Goods : cartDB'[g] > 0 => g \in Rows
  BY NoRowsType DEF IInv, Referring
<1> QED
  BY <1>1, <1>2, <1>3, TopRefers

LEMMA DeleteRefers ==
  ASSUME IInv, (\E g \in Goods : DeleteRow(g)) \/ DeleteCount
  PROVE  Referring'
<1>1. ASSUME NEW g \in Goods, DeleteRow(g) PROVE Referring'
  <2> DEFINE page == [Top EXCEPT !.rows[g] = 0, !.mCartArray[g] = 0]
  <2>1. /\ stack # <<>> /\ SetTop(page) /\ cartDB' = Deleted(g) /\ Top.rows[g] > 0
        /\ UNCHANGED goods /\ pc'.op # "add"
    BY <1>1 DEF DeleteRow, AtTop
  <2>2. /\ Top \in Page /\ Supported(Top) /\ Carried(Top)
        /\ Top.rows \in [Goods -> Nat] /\ Top.mCartArray \in [Goods -> Nat]
        /\ Top.mGoodsMap \in SUBSET Goods /\ cartDB \in [Goods -> Nat]
    BY <2>1, TopSound, TopCarried DEF IInv, Core, TypeOK
  <2>3. /\ page \in Page /\ page.rows = [Top.rows EXCEPT ![g] = 0]
        /\ page.mCartArray = [Top.mCartArray EXCEPT ![g] = 0]
        /\ page.mGoodsMap = Top.mGoodsMap /\ page.goods_id = Top.goods_id
    BY <2>2 DEF Page
  <2> HIDE DEF page
  <2>4. Known(page)
    BY <2>1, <2>2, <2>3 DEF Supported, Listed, Known
  <2>5. page \in SoundPage /\ Carried(page)
    BY <2>2, <2>3, <2>4 DEF SoundPage, Supported, Carried, Listed
  <2>6. \A h \in Goods : cartDB'[h] > 0 => h \in Rows
    BY <2>1, <2>2 DEF Deleted, IInv, Referring
  <2> QED
    BY <2>1, <2>5, <2>6, TopRefers
<1>2. CASE DeleteCount
  <2> DEFINE shown == showCount(Top, pc.left)
             page == [shown EXCEPT !.mGoodsMap = @ \ {pc.goods_id}]
  <2>1. /\ pc.op = "delete" /\ SetTop(page) /\ UNCHANGED <<cartDB, goods>> /\ pc'.op # "add"
    BY <1>2 DEF DeleteCount, Running, Idle
  <2>2. stack # <<>> /\ pc.left \in Int
    BY <2>1 DEF IInv, Core, Pages, Callback
  <2>3. Top \in SoundPage /\ Carried(Top) /\ Top.mGoodsMap \in SUBSET Goods
    BY <2>2, TopSound, TopCarried
  <2>4. /\ shown \in Page /\ shown.rows \in {NoRows, Top.rows} /\ shown.goods_id = Top.goods_id
        /\ shown.mCartArray = Top.mCartArray /\ shown.mGoodsMap = Top.mGoodsMap
    BY <2>2, <2>3, ShowCountSound DEF showCount, SoundPage, Page
  <2> HIDE DEF shown
  <2>5. /\ page \in Page /\ page.rows = shown.rows /\ page.goods_id = Top.goods_id
        /\ page.mCartArray = Top.mCartArray /\ page.mGoodsMap = Top.mGoodsMap \ {pc.goods_id}
    BY <2>3, <2>4 DEF Page
  <2> HIDE DEF page
  <2>6. /\ Known(Top) /\ Top.rows \in [Goods -> Nat] /\ Top.mCartArray \in [Goods -> Nat]
        /\ Top.rows[pc.goods_id] = 0 /\ Top.mCartArray[pc.goods_id] = 0
    BY <2>1, <2>3 DEF IInv, Core, Deleting, Running, SoundPage, Page
  <2>7. Known(page)
    BY <2>4, <2>5, <2>6, NoRowsType DEF Known
  <2>8. page \in SoundPage /\ Carried(page)
    BY <2>3, <2>4, <2>5, <2>7, NoRowsType DEF SoundPage, Supported, Carried, Listed
  <2> QED
    BY <2>1, <2>2, <2>8, TopRefers DEF IInv, Referring
<1> QED
  BY <1>1, <1>2
-----------------------------------------------------------------------------
LEMMA InitOK == Init => IInv
<1> SUFFICES ASSUME Init PROVE IInv
  OBVIOUS
<1>1. /\ count = 0 /\ first = TRUE /\ cartDB = NoRows /\ goods = <<>>
      /\ mIconMap = {} /\ stack = <<>> /\ pc = Idle
      /\ crashed = FALSE /\ drifted = FALSE /\ failed = {} /\ cut = FALSE
  BY DEF Init
<1>2. /\ stack \in Seq(Page) /\ stack \in Seq(SoundPage) /\ Len(stack) = 0 /\ 0 <= MaxDepth
      /\ goods \in Seq([product : Products, pictures : SUBSET Pictures])
      /\ Len(goods) = 0 /\ 0 <= MaxRows
  BY <1>1, EmptySeq, CartAssumption
<1>3. pc \in Callback /\ pc.op = "idle"
  BY <1>1 DEF Callback, Idle
<1>4. TypeOK /\ Pages
  <2>1. cartDB \in [Goods -> Nat] /\ count \in Int /\ first \in BOOLEAN
    BY <1>1, NoRowsType
  <2>2. Len(stack) <= MaxDepth /\ Len(goods) <= MaxRows
    BY <1>2
  <2>3. /\ mIconMap \subseteq Goods \cup {NoRow} /\ failed \subseteq Products
        /\ crashed \in BOOLEAN /\ drifted \in BOOLEAN /\ cut \in BOOLEAN
    BY <1>1
  <2> QED
    BY <1>1, <1>2, <1>3, <2>1, <2>2, <2>3 DEF TypeOK, Pages
<1>5. Deleting /\ Clearing /\ Downloading
  BY <1>3 DEF Deleting, Clearing, Downloading, Running
<1>6. Complete /\ NeverCrashes
  BY <1>1 DEF Complete, NeverCrashes
<1>7. Referring
  BY <1>1, <1>2, <1>3, NoRowsType DEF Referring
<1> QED
  BY <1>4, <1>5, <1>6, <1>7 DEF IInv, Core

LEMMA NextKeeps == IInv /\ [Next]_vars => IInv'
<1> SUFFICES ASSUME IInv, [Next]_vars PROVE Core' /\ Referring'
  BY DEF IInv
<1>1. CASE Launch \/ GoChannel \/ GoCart \/ (\E g \in Goods : goDetail(g)) \/ Back \/ Reclaim
  BY <1>1, OpeningKeeps
<1>2. CASE DownloadInsert \/ DownloadSave \/ DownloadEnd
  BY <1>2, DownloadInsertKeeps, DownloadSaveKeeps, DownloadEndKeeps
<1>3. CASE (\E g \in Goods : AddCount(g)) \/ AddRow
  BY <1>3, AddKeeps, AddRefers
<1>4. CASE ClearRows \/ ClearCount
  BY <1>4, ClearKeeps, ClearRefers
<1>5. CASE (\E g \in Goods : DeleteRow(g)) \/ DeleteCount
  BY <1>5, DeleteRowKeeps, DeleteCountKeeps, DeleteRefers
<1>6. CASE Kill
  BY <1>6, KillKeeps
<1>7. CASE UNCHANGED vars
  <2>1. UNCHANGED <<count, first, cartDB, goods, mIconMap, stack, pc, crashed, drifted, failed, cut>>
    BY <1>7 DEF vars, durable, history
  <2>2. TypeOK' /\ Pages'
    BY <2>1 DEF IInv, Core, TypeOK, Pages
  <2>3. Deleting' /\ Clearing'
    BY <2>1 DEF IInv, Core, Deleting, Clearing, Running, Top, Known
  <2>4. Downloading' /\ Complete' /\ NeverCrashes'
    BY <2>1 DEF IInv, Core, Downloading, Running, Done, Saved, Rows, Complete, NeverCrashes
  <2>5. Referring'
    BY <2>1 DEF IInv, Referring, Carried, Listed, Rows
  <2> QED
    BY <2>2, <2>3, <2>4, <2>5 DEF Core
<1> QED
  BY <1>1, <1>2, <1>3, <1>4, <1>5, <1>6, <1>7 DEF Next

-----------------------------------------------------------------------------
(* The number of goods of a table of quantities.                             *)
Size(f) == FoldFunction(LAMBDA x, y : x + y, 0, f)
(* Induction by a least counterexample: a set of numbers has a least one,    *)
(* and a set of finite sets has one of the fewest elements.                  *)
LEMMA LeastNumber ==
  ASSUME NEW T, T \subseteq Nat, T # {}
  PROVE  \E x \in T : \A y \in T : x <= y
<1> DEFINE R == {ss \in Nat \X Nat : ss[1] < ss[2]}
<1>1. IsWellFoundedOn(R, Nat)
  BY NatLessThanWellFounded DEF OpToRel
<1>2. \A x, y \in Nat : y < x => <<y, x>> \in R
  OBVIOUS
<1> HIDE DEF R
<1>3. PICK x \in T : \A y \in T : <<y, x>> \notin R
  BY <1>1, WFMin
<1>4. \A y \in T : ~(y < x)
  BY <1>2, <1>3
<1> QED
  BY <1>3, <1>4

LEMMA FewestElements ==
  ASSUME NEW S, IsFiniteSet(S), NEW T, T \subseteq SUBSET S, T # {}
  PROVE  \E t \in T : \A u \in T : Cardinality(t) <= Cardinality(u)
<1> DEFINE N == {Cardinality(t) : t \in T}
<1>1. \A t \in T : Cardinality(t) \in Nat
  BY FS_Subset, FS_CardinalityType
<1>2. N \subseteq Nat /\ N # {}
  BY <1>1
<1> HIDE DEF N
<1>3. PICK n \in N : \A m \in N : n <= m
  BY <1>2, LeastNumber
<1> QED
  BY <1>3 DEF N

(* The sum over a set is the iteration of FoldFunction; it exists, since the *)
(* iteration on the sets of up to n elements does for every n.               *)
Any(t) == CHOOSE x \in t : TRUE
Sums(it, S, f) ==
  it = [t \in SUBSET S |-> IF t = {} THEN 0 ELSE f[Any(t)] + it[t \ {Any(t)}]]

LEMMA Smaller ==
  ASSUME NEW S, IsFiniteSet(S), NEW t \in SUBSET S, NEW x \in t
  PROVE  /\ t \ {x} \in SUBSET S /\ IsFiniteSet(t)
         /\ Cardinality(t) \in Nat /\ Cardinality(t \ {x}) \in Nat
         /\ Cardinality(t \ {x}) = Cardinality(t) - 1
<1>1. IsFiniteSet(t)
  BY FS_Subset
<1> QED
  BY <1>1, FS_RemoveElement, FS_CardinalityType

LEMMA SumExists ==
  ASSUME NEW S, IsFiniteSet(S), NEW f \in [S -> Nat]
  PROVE  \E it : Sums(it, S, f)
<1> DEFINE UpTo(n, g) ==
             \A t \in SUBSET S : Cardinality(t) <= n =>
               g[t] = IF t = {} THEN 0 ELSE f[Any(t)] + g[t \ {Any(t)}]
           Has(n) == \E g \in [SUBSET S -> Nat] : UpTo(n, g)
           Bad == {n \in Nat : ~Has(n)}
<1>1. \A t \in SUBSET S : t # {} => Any(t) \in t
  BY DEF Any
<1>2. \A t \in SUBSET S : Cardinality(t) \in Nat
  BY FS_Subset, FS_CardinalityType
<1>3. Bad = {}
  <2> SUFFICES ASSUME Bad # {} PROVE FALSE
    OBVIOUS
  <2>1. Bad \subseteq Nat
    OBVIOUS
  <2>2. PICK n \in Bad : \A m \in Bad : n <= m
    <3> HIDE DEF Bad
    <3> QED
      BY <2>1, LeastNumber
  <2>3. n # 0
    <3> DEFINE z == [t \in SUBSET S |-> 0]
    <3>1. UpTo(0, z)
      <4> SUFFICES ASSUME NEW t \in SUBSET S, Cardinality(t) <= 0
                   PROVE  t = {}
        OBVIOUS
      <4>1. IsFiniteSet(t) /\ Cardinality(t) = 0
        BY <1>2, FS_Subset
      <4> QED
        BY <4>1, FS_EmptySet
    <3>2. z \in [SUBSET S -> Nat]
      OBVIOUS
    <3>3. Has(0)
      BY <3>1, <3>2
    <3> HIDE DEF Has
    <3> QED
      BY <2>2, <3>3
  <2>4. n \in Nat /\ n - 1 \in Nat /\ ~Has(n)
    <3> HIDE DEF Has
    <3> QED
      BY <2>2, <2>3
  <2>5. Has(n - 1)
    <3> HIDE DEF Has
    <3> QED
      BY <2>2, <2>4
  <2>6. PICK g \in [SUBSET S -> Nat] : UpTo(n - 1, g)
    BY <2>5
  <2> DEFINE h == [t \in SUBSET S |-> IF Cardinality(t) = n
                                       THEN f[Any(t)] + g[t \ {Any(t)}] ELSE g[t]]
  <2>7. h \in [SUBSET S -> Nat]
    <3> SUFFICES ASSUME NEW t \in SUBSET S, Cardinality(t) = n
                 PROVE  f[Any(t)] + g[t \ {Any(t)}] \in Nat
      BY <2>6
    <3>1. t # {}
      BY <2>3, FS_EmptySet
    <3>2. Any(t) \in S /\ t \ {Any(t)} \in SUBSET S
      BY <1>1, <3>1
    <3>3. f[Any(t)] \in Nat /\ g[t \ {Any(t)}] \in Nat
      BY <2>6, <3>2
    <3> QED
      BY <3>3
  <2>8. UpTo(n, h)
    <3> SUFFICES ASSUME NEW t \in SUBSET S, Cardinality(t) <= n
                 PROVE  h[t] = IF t = {} THEN 0 ELSE f[Any(t)] + h[t \ {Any(t)}]
      OBVIOUS
    <3>1. CASE t = {}
      <4>1. Cardinality(t) = 0
        BY <3>1, FS_EmptySet
      <4>2. h[t] = g[t]
        BY <2>3, <4>1
      <4>3. g[t] = 0
        BY <2>4, <2>6, <3>1, <4>1
      <4> QED
        BY <3>1, <4>2, <4>3
    <3>2. CASE t # {}
      <4> DEFINE u == t \ {Any(t)}
      <4>1. /\ u \in SUBSET S /\ Cardinality(u) = Cardinality(t) - 1
            /\ Cardinality(t) \in Nat /\ Cardinality(u) \in Nat
        BY <1>1, <3>2, Smaller
      <4>2. h[u] = g[u]
        BY <2>4, <4>1
      <4>3. CASE Cardinality(t) = n
        BY <3>2, <4>2, <4>3
      <4>4. CASE Cardinality(t) # n
        <5>1. Cardinality(t) <= n - 1
          BY <2>4, <4>1, <4>4
        <5>2. h[t] = g[t]
          BY <4>4
        <5> HIDE DEF h
        <5> QED
          BY <2>6, <3>2, <4>2, <5>1, <5>2
      <4> QED
        BY <4>3, <4>4
    <3> QED
      BY <3>1, <3>2
  <2>9. Has(n)
    <3> HIDE DEF h, UpTo
    <3> QED
      BY <2>7, <2>8
  <2> HIDE DEF Has
  <2> QED
    BY <2>4, <2>9
<1>4. Cardinality(S) \in Nat /\ \A t \in SUBSET S : Cardinality(t) <= Cardinality(S)
  BY FS_Subset, FS_CardinalityType
<1>5. Has(Cardinality(S))
  <2> HIDE DEF Has
  <2> QED
    BY <1>3, <1>4
<1>6. PICK g \in [SUBSET S -> Nat] : UpTo(Cardinality(S), g)
  BY <1>5
<1>7. \A t \in SUBSET S : g[t] = IF t = {} THEN 0 ELSE f[Any(t)] + g[t \ {Any(t)}]
  BY <1>4, <1>6
<1>8. Sums(g, S, f)
  BY <1>6, <1>7 DEF Sums
<1> QED
  BY <1>8

LEMMA SizeIsSum ==
  ASSUME NEW S, IsFiniteSet(S), NEW f \in [S -> Nat]
  PROVE  \E it : Sums(it, S, f) /\ Size(f) = it[S]
<1> DEFINE it == CHOOSE it : Sums(it, S, f)
<1>1. DOMAIN f = S
  OBVIOUS
<1>2. Size(f) = it[S]
  BY <1>1 DEF Size, FoldFunction, FoldFunctionOnSet, MapThenFoldSet, Sums, Any
<1>3. Sums(it, S, f)
  BY SumExists
<1> HIDE DEF it
<1> QED
  BY <1>2, <1>3

LEMMA SumStep ==
  ASSUME NEW S, IsFiniteSet(S), NEW f \in [S -> Nat], NEW it, Sums(it, S, f)
  PROVE  /\ it[{}] = 0
         /\ \A t \in SUBSET S : t # {} => Any(t) \in t /\ it[t] = f[Any(t)] + it[t \ {Any(t)}]
<1>1. \A t \in SUBSET S : t # {} => Any(t) \in t
  BY DEF Any
<1>2. it[{}] = 0
  BY {} \in SUBSET S DEF Sums
<1>3. ASSUME NEW t \in SUBSET S, t # {}
      PROVE  it[t] = f[Any(t)] + it[t \ {Any(t)}]
  BY <1>3 DEF Sums
<1> QED
  BY <1>1, <1>2, <1>3

(* The sum is a number, and any element may be taken out first.              *)
LEMMA SumType ==
  ASSUME NEW S, IsFiniteSet(S), NEW f \in [S -> Nat], NEW it, Sums(it, S, f)
  PROVE  \A t \in SUBSET S : it[t] \in Nat
<1> DEFINE Bad == {t \in SUBSET S : it[t] \notin Nat}
<1> SUFFICES ASSUME Bad # {} PROVE FALSE
  OBVIOUS
<1>1. Bad \subseteq SUBSET S
  OBVIOUS
<1>2. PICK t \in Bad : \A u \in Bad : Cardinality(t) <= Cardinality(u)
  <2> HIDE DEF Bad
  <2> QED
    BY <1>1, FewestElements
<1>3. t \in SUBSET S /\ it[t] \notin Nat /\ t # {}
  <2>1. it[{}] = 0 /\ 0 \in Nat
    BY SumStep
  <2> QED
    BY <1>2, <2>1
<1> DEFINE x == Any(t)
<1>4. x \in t /\ it[t] = f[x] + it[t \ {x}]
  BY <1>3, SumStep
<1> HIDE DEF x
<1>5. t \ {x} \in SUBSET S /\ ~(Cardinality(t) <= Cardinality(t \ {x}))
  BY <1>3, <1>4, Smaller
<1>6. it[t \ {x}] \in Nat
  BY <1>2, <1>5
<1>7. f[x] \in Nat
  BY <1>3, <1>4
<1> QED
  BY <1>3, <1>4, <1>6, <1>7

LEMMA SumTake ==
  ASSUME NEW S, IsFiniteSet(S), NEW f \in [S -> Nat], NEW it, Sums(it, S, f)
  PROVE  \A t \in SUBSET S : \A x \in t : it[t] = f[x] + it[t \ {x}]
<1> DEFINE Bad == {t \in SUBSET S : ~ \A x \in t : it[t] = f[x] + it[t \ {x}]}
<1> SUFFICES ASSUME Bad # {} PROVE FALSE
  OBVIOUS
<1>1. Bad \subseteq SUBSET S
  OBVIOUS
<1>2. PICK t \in Bad : \A u \in Bad : Cardinality(t) <= Cardinality(u)
  <2> HIDE DEF Bad
  <2> QED
    BY <1>1, FewestElements
<1>3. PICK x \in t : it[t] # f[x] + it[t \ {x}]
  BY <1>2
<1>4. t \in SUBSET S /\ t # {}
  BY <1>2, <1>3
<1> DEFINE y == Any(t)
<1>5. y \in t /\ it[t] = f[y] + it[t \ {y}]
  BY <1>4, SumStep
<1> HIDE DEF y
<1>6. x # y
  BY <1>3, <1>5
<1>7. /\ t \ {x} \in SUBSET S /\ ~(Cardinality(t) <= Cardinality(t \ {x}))
      /\ t \ {y} \in SUBSET S /\ ~(Cardinality(t) <= Cardinality(t \ {y}))
  BY <1>4, <1>5, <1>3, Smaller
<1>8. \A u \in SUBSET S : ~(Cardinality(t) <= Cardinality(u)) =>
         \A z \in u : it[u] = f[z] + it[u \ {z}]
  BY <1>2
<1> HIDE DEF Bad
<1> DEFINE r == (t \ {x}) \ {y}
<1>9. it[t \ {x}] = f[y] + it[r]
  BY <1>5, <1>6, <1>7, <1>8
<1>10. it[t \ {y}] = f[x] + it[r]
  <2>1. (t \ {y}) \ {x} = r
    OBVIOUS
  <2>2. x \in t \ {y}
    BY <1>6
  <2> QED
    BY <2>1, <2>2, <1>7, <1>8
<1>11. f[x] \in Nat /\ f[y] \in Nat /\ it[r] \in Nat
  BY <1>4, <1>5, SumType
<1> HIDE DEF r
<1>12. it[t] = f[x] + it[t \ {x}]
  BY <1>5, <1>9, <1>10, <1>11
<1> QED
  BY <1>3, <1>12

(* Functions that agree on a set have the same sum over it.                  *)
LEMMA SumAgree ==
  ASSUME NEW S, IsFiniteSet(S), NEW f \in [S -> Nat], NEW h \in [S -> Nat],
         NEW it, Sums(it, S, f), NEW jt, Sums(jt, S, h),
         NEW U \in SUBSET S, \A x \in U : f[x] = h[x]
  PROVE  it[U] = jt[U]
<1> DEFINE Bad == {t \in SUBSET U : it[t] # jt[t]}
<1> SUFFICES ASSUME Bad # {} PROVE FALSE
  OBVIOUS
<1>1. Bad \subseteq SUBSET S
  OBVIOUS
<1>2. PICK t \in Bad : \A u \in Bad : Cardinality(t) <= Cardinality(u)
  <2> HIDE DEF Bad
  <2> QED
    BY <1>1, FewestElements
<1>3. t \in SUBSET S /\ t \in SUBSET U /\ it[t] # jt[t] /\ t # {}
  BY <1>2, SumStep
<1> DEFINE x == Any(t)
<1>4. x \in t /\ it[t] = f[x] + it[t \ {x}] /\ jt[t] = h[x] + jt[t \ {x}]
  BY <1>3, SumStep
<1> HIDE DEF x
<1>5. t \ {x} \in SUBSET U /\ ~(Cardinality(t) <= Cardinality(t \ {x}))
  BY <1>3, <1>4, Smaller
<1>6. it[t \ {x}] = jt[t \ {x}]
  BY <1>2, <1>5
<1> QED
  BY <1>3, <1>4, <1>6

(* What the cart needs of the number of goods: it is 0 of no goods only, and *)
(* changes with a row by as much as the row does.                            *)
LEMMA SizeChange ==
  ASSUME NEW S, IsFiniteSet(S), NEW f \in [S -> Nat], NEW g \in S, NEW n \in Nat
  PROVE  /\ Size(f) \in Nat
         /\ Size([f EXCEPT ![g] = n]) = Size(f) - f[g] + n
<1> DEFINE h == [f EXCEPT ![g] = n]
<1>1. h \in [S -> Nat] /\ h[g] = n /\ \A x \in S \ {g} : f[x] = h[x]
  OBVIOUS
<1> HIDE DEF h
<1>2. PICK it : Sums(it, S, f) /\ Size(f) = it[S]
  BY SizeIsSum
<1>3. PICK jt : Sums(jt, S, h) /\ Size(h) = jt[S]
  BY <1>1, SizeIsSum
<1>4. S \in SUBSET S /\ S \ {g} \in SUBSET S
  OBVIOUS
<1>5. it[S] = f[g] + it[S \ {g}] /\ jt[S] = h[g] + jt[S \ {g}]
  BY <1>1, <1>2, <1>3, <1>4, SumTake
<1>6. it[S \ {g}] = jt[S \ {g}]
  BY <1>1, <1>2, <1>3, <1>4, SumAgree
<1>7. it[S] \in Nat /\ it[S \ {g}] \in Nat /\ f[g] \in Nat
  BY <1>2, <1>4, SumType
<1>8. Size(h) = Size(f) - f[g] + n
  BY <1>1, <1>2, <1>3, <1>5, <1>6, <1>7
<1> QED
  BY <1>2, <1>7, <1>8 DEF h

LEMMA SizeZero ==
  ASSUME NEW S, IsFiniteSet(S), NEW f \in [S -> Nat]
  PROVE  Size(f) = 0 <=> \A g \in S : f[g] = 0
<1>1. PICK it : Sums(it, S, f) /\ Size(f) = it[S]
  BY SizeIsSum
<1>2. ASSUME Size(f) = 0, NEW g \in S
      PROVE  f[g] = 0
  <2>1. it[S] = f[g] + it[S \ {g}]
    BY <1>1, SumTake
  <2>2. it[S \ {g}] \in Nat /\ f[g] \in Nat
    BY <1>1, SumType
  <2>3. \A m, n \in Nat : 0 = m + n => m = 0
    OBVIOUS
  <2>4. 0 = f[g] + it[S \ {g}]
    BY <1>1, <1>2, <2>1, Zenon
  <2> QED
    BY <2>2, <2>3, <2>4, Zenon
<1>3. ASSUME \A g \in S : f[g] = 0
      PROVE  Size(f) = 0
  <2> DEFINE Bad == {t \in SUBSET S : it[t] # 0}
  <2> SUFFICES ASSUME Bad # {} PROVE FALSE
    BY <1>1
  <2>1. Bad \subseteq SUBSET S
    OBVIOUS
  <2>2. PICK t \in Bad : \A u \in Bad : Cardinality(t) <= Cardinality(u)
    <3> HIDE DEF Bad
    <3> QED
      BY <2>1, FewestElements
  <2>3. t \in SUBSET S /\ it[t] # 0 /\ t # {}
    BY <1>1, <2>2, SumStep
  <2> DEFINE x == Any(t)
  <2>4. x \in t /\ it[t] = f[x] + it[t \ {x}]
    <3> HIDE DEF Bad
    <3> QED
      BY <1>1, <2>3, SumStep
  <2> HIDE DEF x
  <2>5. t \ {x} \in SUBSET S /\ ~(Cardinality(t) <= Cardinality(t \ {x}))
    BY <2>3, <2>4, Smaller
  <2>6. it[t \ {x}] = 0 /\ f[x] = 0
    BY <1>3, <2>2, <2>3, <2>5
  <2> QED
    BY <2>3, <2>4, <2>6
<1> QED
  BY <1>2, <1>3
-----------------------------------------------------------------------------
(* Where the numbers agree.  Unless they drifted apart, "count" is the sum   *)
(* of the rows at every point of a callback but between the two writes of an *)
(* addition, when it is one ahead, and of a deletion or a clearing, when it  *)
(* is still to be written.                                                   *)
Balance ==
  ~drifted =>
    /\ pc.op \in {"idle", "download", "save"} => count = CartSize
    /\ pc.op = "add" => count = CartSize + 1
    /\ pc.op = "delete" => pc.left = CartSize

(* And what the page on top shows meanwhile: a cart page's mCartArray holds  *)
(* what the table records, of every goods in the table.                      *)
Recorded(page) == \A g \in Goods : cartDB[g] > 0 => page.mCartArray[g] = cartDB[g]
Shown ==
  /\ pc.op = "idle" /\ stack # <<>> =>
       /\ Top.act \in {"cart", "channel"} => Top.mCount = count
       /\ Top.act = "cart" /\ ~drifted => Top.rows = cartDB /\ Recorded(Top)
  /\ pc.op \in {"download", "save"} =>
       /\ Top.act = "cart" /\ Top.mCount = count
       /\ ~drifted /\ cartDB = NoRows => Top.rows = NoRows
  /\ pc.op = "add" => Top.act # "cart" /\ (Top.act = "channel" => Top.mCount = count)
  /\ pc.op = "clear" => Top.act = "cart" /\ cartDB = NoRows
  /\ pc.op = "delete" => Top.act = "cart" /\ (~drifted => Top.rows = cartDB /\ Recorded(Top))

Agree == IInv /\ Balance /\ Shown

LEMMA CartSizeIs == CartSize = Size(cartDB) /\ CartSize' = Size(cartDB')
BY DEF CartSize, Size, FoldFunction, FoldFunctionOnSet, MapThenFoldSet

LEMMA CartSizeFacts ==
  ASSUME cartDB \in [Goods -> Nat]
  PROVE  CartSize \in Nat /\ (CartSize = 0 <=> cartDB = NoRows)
<1>1. IsFiniteSet(Goods)
  BY FS_Interval, CartAssumption DEF Goods
<1>2. CartSize = Size(cartDB)
  BY CartSizeIs
<1>3. CartSize \in Nat
  <2>1. PICK it : Sums(it, Goods, cartDB) /\ Size(cartDB) = it[Goods]
    BY <1>1, SizeIsSum
  <2> QED
    BY <1>1, <1>2, <2>1, SumType
<1>4. (\A g \in Goods : cartDB[g] = 0) <=> cartDB = NoRows
  BY DEF NoRows
<1>5. Size(cartDB) = 0 <=> \A g \in Goods : cartDB[g] = 0
  BY <1>1, SizeZero
<1> QED
  BY <1>2, <1>3, <1>4, <1>5

(* A row set to n changes the number of goods by as much.                    *)
LEMMA CartSizeChange ==
  ASSUME cartDB \in [Goods -> Nat], NEW g \in Goods, NEW n \in Nat,
         cartDB' = [cartDB EXCEPT ![g] = n]
  PROVE  CartSize' = CartSize - cartDB[g] + n
<1>1. IsFiniteSet(Goods)
  BY FS_Interval, CartAssumption DEF Goods
<1>2. CartSize = Size(cartDB) /\ CartSize' = Size(cartDB')
  BY CartSizeIs
<1>3. Size([cartDB EXCEPT ![g] = n]) = Size(cartDB) - cartDB[g] + n
  BY <1>1, SizeChange
<1> QED
  BY <1>2, <1>3

LEMMA ShowCartPage ==
  ASSUME NEW page \in Page
  PROVE  /\ showCart(page).act = page.act /\ showCart(page).mCount = page.mCount
         /\ showCart(page).mCartArray = cartDB
         /\ showCart(page).rows = IF cartDB = NoRows THEN page.rows ELSE cartDB
BY DEF showCart, Page

LEMMA ShowCountPage ==
  ASSUME NEW page \in Page, NEW n \in Int
  PROVE  /\ showCount(page, n).act = page.act /\ showCount(page, n).mCount = n
         /\ showCount(page, n).mCartArray = page.mCartArray
         /\ showCount(page, n).mGoodsMap = page.mGoodsMap
         /\ showCount(page, n).rows = IF n = 0 THEN NoRows ELSE page.rows
BY DEF showCount, Page

(* A page that comes to the top reads the number and, a cart page, the rows. *)
LEMMA ResumeShows ==
  ASSUME Agree, pc.op = "idle", NEW below, NEW page, Opens(below, page)
  PROVE  Balance' /\ Shown'
<1> DEFINE counted == Counted(page)
           top == IF page.act = "cart" /\ ~first THEN showCart(counted) ELSE counted
<1>1. /\ UNCHANGED <<count, first, cartDB, goods, drifted>>
      /\ stack' = Append(below, top)
      /\ pc' = IF page.act = "cart" /\ first THEN [op |-> "download", next |-> 1] ELSE Idle
      /\ below \in Seq(SoundPage) /\ page \in SoundPage
  BY DEF Opens, Resume, durable, history
<1>2. count \in Int /\ cartDB \in [Goods -> Nat]
  BY DEF Agree, IInv, Core, TypeOK
<1>3. counted \in SoundPage /\ counted \in Page /\ counted.act = page.act /\ page \in Page
  BY <1>1, <1>2, CountedSound DEF SoundPage
<1>4. top \in SoundPage /\ top.act = page.act
  BY <1>2, <1>3, ShowCartSound
<1>5. Top' = top
  <2> HIDE DEF top
  <2> QED
    BY <1>1, <1>4, PushType DEF Top
<1>6. pc'.op = IF page.act = "cart" /\ first THEN "download" ELSE "idle"
  BY <1>1 DEF Idle
<1>7. CartSize' = CartSize
  BY <1>1, CartSizeIs
<1>8. ~drifted => count = CartSize
  BY DEF Agree, Balance
<1>9. Balance'
  BY <1>1, <1>6, <1>7, <1>8 DEF Balance
<1>10. ~drifted /\ cartDB = NoRows => count = 0
  BY <1>2, <1>8, CartSizeFacts
<1>11. page.act \in {"cart", "channel"} => counted.mCount = count
  <2>1. CASE page.act = "cart"
    BY <1>2, <1>3, <2>1, ShowCountPage DEF Counted
  <2>2. CASE page.act = "channel"
    BY <1>3, <2>2 DEF Counted, Page
  <2> QED
    BY <2>1, <2>2
<1>12. page.act = "cart" /\ count = 0 => counted.rows = NoRows
  BY <1>2, <1>3, ShowCountPage DEF Counted
<1> HIDE DEF counted
<1>13. page.act \in {"cart", "channel"} => top.mCount = count
  BY <1>3, <1>11, ShowCartPage
<1>14. page.act = "cart" /\ ~first =>
         /\ top.mCartArray = cartDB
         /\ ~drifted => top.rows = cartDB
  BY <1>3, <1>10, <1>12, ShowCartPage
<1>15. page.act = "cart" /\ first => (~drifted /\ cartDB = NoRows => top.rows = NoRows)
  BY <1>10, <1>12
<1> HIDE DEF top
<1>16. Shown'
  <2>1. CASE page.act = "cart" /\ first
    BY <1>1, <1>4, <1>5, <1>6, <1>13, <1>15, <2>1 DEF Shown, NoRows, Goods
  <2>2. CASE ~(page.act = "cart" /\ first)
    <3>1. pc'.op = "idle"
      BY <1>6, <2>2
    <3>2. Top'.act \in {"cart", "channel"} => Top'.mCount = count'
      BY <1>1, <1>4, <1>5, <1>13
    <3>3. Top'.act = "cart" /\ ~drifted' =>
            Top'.rows = cartDB' /\ \A g \in Goods : cartDB'[g] > 0 => Top'.mCartArray[g] = cartDB'[g]
      BY <1>1, <1>4, <1>5, <1>14, <2>2
    <3> QED
      BY <3>1, <3>2, <3>3 DEF Shown, Recorded, Goods
  <2> QED
    BY <2>1, <2>2
<1> QED
  BY <1>9, <1>16

LEMMA OpeningShows ==
  ASSUME Agree,
         Launch \/ GoChannel \/ GoCart \/ (\E g \in Goods : goDetail(g)) \/ Back \/ Reclaim
  PROVE  Balance' /\ Shown'
<1>1. IInv
  BY DEF Agree
<1>2. pc.op = "idle" /\ (Closes \/ \E below, page : Opens(below, page))
  BY <1>1, OpeningShape
<1>3. CASE Closes
  <2>1. stack' = <<>> /\ UNCHANGED <<count, cartDB, pc, drifted>>
    BY <1>3 DEF Closes, durable, history
  <2>2. CartSize' = CartSize
    BY <2>1, CartSizeIs
  <2> QED
    BY <1>2, <2>1, <2>2 DEF Agree, Balance, Shown
<1>4. ASSUME NEW below, NEW page, Opens(below, page)
      PROVE  Balance' /\ Shown'
  BY <1>2, <1>4, ResumeShows
<1> QED
  BY <1>2, <1>3, <1>4

(* The steps of the first run's download write neither number nor rows; the  *)
(* last of them shows the rows.                                              *)
LEMMA DownloadShows ==
  ASSUME Agree, DownloadInsert \/ DownloadSave \/ DownloadEnd
  PROVE  Balance' /\ Shown'
<1>1. UNCHANGED <<count, cartDB, drifted>> /\ pc.op \in {"download", "save"}
  BY DEF DownloadInsert, DownloadSave, DownloadEnd, Running, history
<1>2. CartSize' = CartSize
  BY <1>1, CartSizeIs
<1>3. pc'.op \in {"download", "save", "idle"}
  BY DEF DownloadInsert, DownloadSave, DownloadEnd, Idle
<1>4. Balance'
  BY <1>1, <1>2, <1>3 DEF Agree, Balance
<1>5. CASE DownloadInsert \/ DownloadSave
  <2>1. stack' = stack /\ pc'.op \in {"download", "save"}
    BY <1>5 DEF DownloadInsert, DownloadSave
  <2> QED
    BY <1>1, <1>4, <2>1 DEF Agree, Shown, Top
<1>6. CASE DownloadEnd
  <2>1. pc' = Idle /\ pc'.op = "idle" /\ SetTop(showCart(Top))
    BY <1>6 DEF DownloadEnd, Idle
  <2>2. IInv /\ stack # <<>> /\ stack \in Seq(SoundPage) /\ cartDB \in [Goods -> Nat]
    BY <1>1 DEF Agree, IInv, Core, Pages, TypeOK
  <2>3. Top \in SoundPage /\ Top \in Page
    BY <2>2, TopSound
  <2>4. showCart(Top) \in SoundPage
    BY <2>2, <2>3, ShowCartSound
  <2>5. Top' = showCart(Top)
    BY <2>1, <2>2, <2>4, SetTopType
  <2>6. /\ Top'.act = "cart" /\ Top'.mCount = count /\ Top'.mCartArray = cartDB
        /\ Top'.rows = IF cartDB = NoRows THEN Top.rows ELSE cartDB
    BY <1>1, <2>3, <2>5, ShowCartPage DEF Agree, Shown
  <2>7. ~drifted => Top'.rows = cartDB
    BY <1>1, <2>6 DEF Agree, Shown
  <2> QED
    BY <1>1, <1>4, <2>1, <2>6, <2>7 DEF Shown, Recorded, Goods
<1> QED
  BY <1>4, <1>5, <1>6

(* An addition is one ahead between its two writes.                          *)
LEMMA AddShows ==
  ASSUME Agree, (\E g \in Goods : AddCount(g)) \/ AddRow
  PROVE  Balance' /\ Shown'
<1>1. IInv /\ cartDB \in [Goods -> Nat] /\ count \in Int
  BY DEF Agree, IInv, Core, TypeOK
<1>2. ASSUME NEW g \in Goods, AddCount(g) PROVE Balance' /\ Shown'
  <2> DEFINE page == [Top EXCEPT !.mCount = @ + 1]
  <2>1. /\ pc' = [op |-> "add", goods_id |-> g] /\ SetTop(page) /\ count' = Top.mCount + 1
        /\ UNCHANGED cartDB
        /\ drifted' = (drifted \/ Top.mCount # count)
        /\ stack # <<>> /\ pc.op = "idle" /\ Top.act \in {"channel", "detail"}
    BY <1>2 DEF AddCount, AtTop, Running
  <2>2. Top \in SoundPage /\ Top \in Page /\ Supported(Top) /\ Top.mCount \in Int
    BY <1>1, <2>1, TopSound
  <2>3. page \in Page /\ page.act = Top.act /\ page.mCount = Top.mCount + 1
    BY <2>2 DEF Page
  <2>4. page \in SoundPage
    BY <2>2, <2>3 DEF SoundPage, Supported, Listed, Known, Page
  <2> HIDE DEF page
  <2>5. Top' = page
    BY <1>1, <2>1, <2>4, SetTopType DEF IInv, Core, Pages
  <2>6. pc'.op = "add"
    BY <2>1
  <2>7. CartSize' = CartSize
    BY <2>1, CartSizeIs
  <2>8. Balance'
    <3>1. ~drifted' => count' = CartSize' + 1
      BY <2>1, <2>7 DEF Agree, Balance
    <3> QED
      BY <2>6, <3>1 DEF Balance
  <2>9. Shown'
    BY <2>1, <2>3, <2>5, <2>6 DEF Shown
  <2> QED
    BY <2>8, <2>9
<1>3. CASE AddRow
  <2>1. /\ pc.op = "add" /\ pc' = Idle /\ pc'.op = "idle" /\ UNCHANGED <<count, stack>>
        /\ \/ cartDB' = [cartDB EXCEPT ![pc.goods_id] = @ + 1] /\ UNCHANGED drifted
           \/ drifted' = TRUE /\ UNCHANGED cartDB
    BY <1>3 DEF AddRow, Running, Idle
  <2>2. pc.goods_id \in Goods
    BY <1>1, <2>1 DEF IInv, Core, Pages, Callback
  <2>3. cartDB[pc.goods_id] + 1 \in Nat /\ cartDB[pc.goods_id] \in Nat
    BY <1>1, <2>2
  <2>4. ASSUME ~drifted'
        PROVE  CartSize' = CartSize + 1 /\ ~drifted
    <3>1. cartDB' = [cartDB EXCEPT ![pc.goods_id] = cartDB[pc.goods_id] + 1] /\ ~drifted
      BY <2>1, <2>4
    <3>2. CartSize' = CartSize - cartDB[pc.goods_id] + (cartDB[pc.goods_id] + 1)
      BY <1>1, <2>2, <2>3, <3>1, CartSizeChange
    <3> QED
      BY <1>1, <2>3, <3>1, <3>2, CartSizeFacts
  <2>5. Balance'
    BY <2>1, <2>4 DEF Agree, Balance
  <2>6. Shown'
    BY <2>1 DEF Agree, Shown, Top
  <2> QED
    BY <2>5, <2>6
<1> QED
  BY <1>2, <1>3

LEMMA ClearShows ==
  ASSUME Agree, ClearRows \/ ClearCount
  PROVE  Balance' /\ Shown'
<1>1. CASE ClearRows
  <2> DEFINE page == [Top EXCEPT !.rows = NoRows]
  <2>1. /\ stack # <<>> /\ SetTop(page) /\ cartDB' = NoRows /\ pc' = [op |-> "clear"]
        /\ Top.act = "cart"
    BY <1>1 DEF ClearRows, AtTop
  <2>2. Top \in Page
    BY <2>1, TopSound DEF Agree
  <2>3. page \in Page /\ page.rows = NoRows /\ page.act = Top.act
    BY <2>2, NoRowsType DEF Page
  <2> HIDE DEF page
  <2>4. Top' = page
    BY <2>1, <2>3, EmptyPageSound, SetTopType DEF Agree, IInv, Core, Pages
  <2>5. pc'.op = "clear"
    BY <2>1
  <2>6. Balance'
    BY <2>5 DEF Balance
  <2>7. Shown'
    BY <2>1, <2>3, <2>4, <2>5 DEF Shown, NoRows, Goods
  <2> QED
    BY <2>6, <2>7
<1>2. CASE ClearCount
  <2> DEFINE page == [showCount(Top, 0) EXCEPT !.mGoodsMap = {}]
  <2>1. /\ pc.op = "clear" /\ SetTop(page) /\ count' = 0 /\ pc' = Idle /\ pc'.op = "idle"
        /\ UNCHANGED cartDB
    BY <1>2 DEF ClearCount, Running, Idle
  <2>2. stack # <<>> /\ IInv /\ cartDB = NoRows /\ cartDB \in [Goods -> Nat]
    BY <2>1 DEF Agree, IInv, Core, Pages, Shown, TypeOK
  <2>3. /\ showCount(Top, 0) \in Page /\ showCount(Top, 0).rows = NoRows
        /\ showCount(Top, 0).mCount = 0
    <3>1. Top \in SoundPage /\ Top \in Page /\ 0 \in Int
      BY <2>2, TopSound
    <3> QED
      BY <3>1, ShowCountSound, ShowCountPage DEF SoundPage
  <2>4. page \in Page /\ page.rows = NoRows /\ page.mCount = 0
    BY <2>3 DEF Page
  <2> HIDE DEF page
  <2>5. Top' = page
    BY <2>1, <2>2, <2>4, EmptyPageSound, SetTopType DEF IInv, Core, Pages
  <2>6. CartSize' = 0
    BY <2>1, <2>2, CartSizeFacts, CartSizeIs
  <2>7. Balance'
    BY <2>1, <2>6 DEF Balance
  <2>8. \A g \in Goods : ~(cartDB[g] > 0)
    BY <2>2, NoRowsType
  <2>9. Shown'
    BY <2>1, <2>2, <2>4, <2>5, <2>8 DEF Shown, Recorded, Goods
  <2> QED
    BY <2>7, <2>9
<1> QED
  BY <1>1, <1>2

(* A deletion takes off what the page knows of the row, which is what the    *)
(* table records.                                                            *)
LEMMA DeleteRowShows ==
  ASSUME Agree, NEW g \in Goods, DeleteRow(g)
  PROVE  Balance' /\ Shown'
<1> DEFINE page == [Top EXCEPT !.rows[g] = 0, !.mCartArray[g] = 0]
<1>1. /\ IInv /\ stack # <<>> /\ SetTop(page) /\ cartDB' = [cartDB EXCEPT ![g] = 0]
      /\ Top.rows[g] > 0 /\ Top.act = "cart" /\ pc.op = "idle"
      /\ pc' = [op |-> "delete", goods_id |-> g, left |-> Left(g)]
      /\ UNCHANGED <<count, drifted>>
  BY DEF DeleteRow, AtTop, Deleted, Running, Agree, history
<1>2. /\ Top \in Page /\ Supported(Top)
      /\ Top.rows \in [Goods -> Nat] /\ Top.mCartArray \in [Goods -> Nat]
      /\ Top.mGoodsMap \in SUBSET Goods /\ cartDB \in [Goods -> Nat] /\ count \in Int
  BY <1>1, TopSound DEF IInv, Core, TypeOK
<1>3. /\ page.rows = [Top.rows EXCEPT ![g] = 0]
      /\ page.mCartArray = [Top.mCartArray EXCEPT ![g] = 0]
      /\ page.mGoodsMap = Top.mGoodsMap /\ page.act = Top.act
  BY <1>2 DEF Page
<1>4. page \in Page
  BY <1>2 DEF Page
<1> HIDE DEF page
<1>5. Known(page)
  BY <1>1, <1>2, <1>3 DEF Known, Supported, Listed
<1>6. Top' = page
  BY <1>1, <1>4, <1>5, SetTopType DEF IInv, Core, Pages, SoundPage, Supported
<1>7. pc'.op = "delete" /\ pc'.left = Left(g)
  BY <1>1
<1>8. ASSUME ~drifted
      PROVE  /\ Top.mCount = count /\ Top.rows = cartDB /\ Recorded(Top) /\ count = CartSize
  BY <1>1, <1>8 DEF Agree, Shown, Balance
<1>9. ASSUME ~drifted
      PROVE  Left(g) = CartSize'
  <2>1. cartDB[g] > 0 /\ cartDB[g] \in Nat /\ Top.mCartArray[g] = cartDB[g]
    BY <1>1, <1>2, <1>8, <1>9 DEF Recorded
  <2>2. Left(g) = count - cartDB[g]
    BY <1>8, <1>9, <2>1 DEF Left
  <2>3. 0 \in Nat /\ CartSize \in Nat
    BY <1>2, CartSizeFacts
  <2>4. CartSize' = CartSize - cartDB[g] + 0
    BY <1>1, <1>2, <2>3, CartSizeChange
  <2> QED
    BY <1>8, <1>9, <2>1, <2>2, <2>3, <2>4
<1>10. Balance'
  BY <1>1, <1>7, <1>9 DEF Balance
<1>11. ASSUME ~drifted
       PROVE  /\ page.rows = cartDB'
              /\ \A h \in Goods : cartDB'[h] > 0 => page.mCartArray[h] = cartDB'[h]
  BY <1>1, <1>2, <1>3, <1>8, <1>11 DEF Recorded
<1>12. Shown'
  BY <1>1, <1>3, <1>6, <1>7, <1>11 DEF Shown, Recorded, Goods
<1> QED
  BY <1>10, <1>12

LEMMA DeleteCountShows ==
  ASSUME Agree, DeleteCount
  PROVE  Balance' /\ Shown'
<1> DEFINE shown == showCount(Top, pc.left)
           page == [shown EXCEPT !.mGoodsMap = @ \ {pc.goods_id}]
<1>1. /\ IInv /\ pc.op = "delete" /\ count' = pc.left /\ SetTop(page)
      /\ pc' = Idle /\ pc'.op = "idle" /\ UNCHANGED <<cartDB, drifted>>
  BY DEF DeleteCount, Running, Idle, Agree, history
<1>2. stack # <<>> /\ pc.left \in Int /\ cartDB \in [Goods -> Nat]
  BY <1>1 DEF IInv, Core, Pages, Callback, TypeOK
<1>3. Top \in SoundPage /\ Top \in Page /\ Top.mGoodsMap \in SUBSET Goods
  BY <1>1, <1>2, TopSound
<1>4. Known(Top)
  BY <1>1 DEF IInv, Core, Deleting, Running
<1>5. shown \in SoundPage /\ shown \in Page
  BY <1>2, <1>3, ShowCountSound DEF SoundPage
<1>6. /\ shown.act = Top.act /\ shown.mCount = pc.left /\ shown.mCartArray = Top.mCartArray
      /\ shown.rows = IF pc.left = 0 THEN NoRows ELSE Top.rows
  BY <1>2, <1>3, ShowCountPage
<1>7. shown.mGoodsMap = Top.mGoodsMap
  BY <1>3 DEF showCount, Page
<1> HIDE DEF shown
<1>8. /\ page \in Page /\ page.rows = shown.rows /\ page.mCartArray = shown.mCartArray
      /\ page.mGoodsMap = Top.mGoodsMap \ {pc.goods_id}
      /\ page.act = shown.act /\ page.mCount = shown.mCount
  BY <1>3, <1>5, <1>7 DEF Page
<1> HIDE DEF page
<1>9. /\ Top.rows \in [Goods -> Nat] /\ Top.mCartArray \in [Goods -> Nat]
      /\ Top.rows[pc.goods_id] = 0 /\ Top.mCartArray[pc.goods_id] = 0
  BY <1>1, <1>3 DEF IInv, Core, Deleting, Running, Page
<1>10. page \in SoundPage
  <2>1. Known(page)
    BY <1>4, <1>6, <1>8, <1>9, NoRowsType DEF Known
  <2> QED
    BY <1>8, <2>1 DEF SoundPage, Supported
<1>11. Top' = page
  BY <1>1, <1>2, <1>10, SetTopType DEF IInv, Core, Pages
<1>12. CartSize' = CartSize
  BY <1>1, CartSizeIs
<1>13. Balance'
  BY <1>1, <1>12 DEF Agree, Balance
<1>14. Top.act = "cart" /\ (~drifted => Top.rows = cartDB /\ Recorded(Top))
  BY <1>1 DEF Agree, Shown
<1>15. ~drifted /\ pc.left = 0 => cartDB = NoRows
  BY <1>1, <1>2, CartSizeFacts DEF Agree, Balance
<1>16. ~drifted => page.rows = cartDB
  BY <1>6, <1>8, <1>14, <1>15
<1>17. Shown'
  BY <1>1, <1>6, <1>8, <1>11, <1>14, <1>16 DEF Shown, Recorded, Goods
<1> QED
  BY <1>13, <1>17

LEMMA AgreeInit == Init => Agree
<1> SUFFICES ASSUME Init PROVE Agree
  OBVIOUS
<1>1. count = 0 /\ cartDB = NoRows /\ stack = <<>> /\ pc = Idle /\ pc.op = "idle"
  BY DEF Init, Idle
<1>2. CartSize = 0
  BY <1>1, NoRowsType, CartSizeFacts
<1> QED
  BY <1>1, <1>2, InitOK DEF Agree, Balance, Shown

LEMMA AgreeNext == Agree /\ [Next]_vars => Agree'
<1> SUFFICES ASSUME Agree, [Next]_vars PROVE Agree'
  OBVIOUS
<1>1. IInv'
  BY NextKeeps DEF Agree
<1>2. CASE Launch \/ GoChannel \/ GoCart \/ (\E g \in Goods : goDetail(g)) \/ Back \/ Reclaim
  BY <1>1, <1>2, OpeningShows DEF Agree
<1>3. CASE DownloadInsert \/ DownloadSave \/ DownloadEnd
  BY <1>1, <1>3, DownloadShows DEF Agree
<1>4. CASE (\E g \in Goods : AddCount(g)) \/ AddRow
  BY <1>1, <1>4, AddShows DEF Agree
<1>5. CASE ClearRows \/ ClearCount
  BY <1>1, <1>5, ClearShows DEF Agree
<1>6. CASE (\E g \in Goods : DeleteRow(g)) \/ DeleteCount
  BY <1>1, <1>6, DeleteRowShows, DeleteCountShows DEF Agree
<1>7. CASE Kill
  <2>1. /\ stack' = <<>> /\ pc' = Idle /\ pc'.op = "idle"
        /\ drifted' = (drifted \/ pc.op \in {"add", "clear", "delete"})
        /\ UNCHANGED <<count, cartDB>>
    BY <1>7 DEF Kill, durable, Idle
  <2>2. CartSize' = CartSize
    BY <2>1, CartSizeIs
  <2>3. pc.op \in {"idle", "download", "save", "add", "clear", "delete"}
    BY DEF Agree, IInv, Core, TypeOK
  <2>4. Balance'
    BY <2>1, <2>2, <2>3 DEF Agree, Balance
  <2> QED
    BY <1>1, <2>1, <2>4 DEF Agree, Shown
<1>8. CASE UNCHANGED vars
  <2>1. UNCHANGED <<count, cartDB, stack, pc, drifted>>
    BY <1>8 DEF vars, durable, history
  <2>2. CartSize' = CartSize
    BY <2>1, CartSizeIs
  <2> QED
    BY <1>1, <2>1, <2>2 DEF Agree, Balance, Shown, Top, Recorded
<1> QED
  BY <1>2, <1>3, <1>4, <1>5, <1>6, <1>7, <1>8 DEF Next
-----------------------------------------------------------------------------
(* Until "first" is written the cart page that downloads is the only page    *)
(* and the cart is empty.                                                    *)
Alone ==
  /\ pc.op \in {"download", "save"} => first
  /\ first => /\ cartDB = NoRows
              /\ stack = <<>> \/ (pc.op \in {"download", "save"} /\ Top.rows = NoRows)

(* A first run that was not cut short finds no goods, and inserts the        *)
(* products in their order.                                                  *)
Single ==
  ~cut =>
    /\ \A i, j \in Rows : goods[i].product = goods[j].product => i = j
    /\ first /\ pc.op \notin {"download", "save"} => Rows = {}
    /\ pc.op = "download" => \A i \in Rows : goods[i].product < pc.next
    /\ pc.op = "save" => \A i \in Rows : goods[i].product <= pc.next

(* Every thumbnail that was saved of the goods on a cart page's screen is in *)
(* the icon map: only a cart page makes rows, after it has read them back.   *)
Pictured(page) ==
  \A g \in Rows : page.rows[g] > 0 /\ "thumb" \in goods[g].pictures => g \in mIconMap
Iconed ==
  pc.op \in {"idle", "clear", "delete"} /\ stack # <<>> /\ Top.act = "cart" => Pictured(Top)

Run == Alone /\ Single /\ Iconed

LEMMA RowsUnchanged ==
  ASSUME UNCHANGED goods
  PROVE  Rows' = Rows
BY DEF Rows

LEMMA OpeningRun ==
  ASSUME Agree, Run, NEW below, NEW page, pc.op = "idle", Opens(below, page)
  PROVE  Run'
<1> DEFINE counted == Counted(page)
           top == IF page.act = "cart" /\ ~first THEN showCart(counted) ELSE counted
<1>1. /\ UNCHANGED <<count, first, cartDB, goods, cut>>
      /\ stack' = Append(below, top)
      /\ pc' = IF page.act = "cart" /\ first THEN [op |-> "download", next |-> 1] ELSE Idle
      /\ below \in Seq(SoundPage) /\ page \in SoundPage
      /\ stack = <<>> => page = NewPage("cart", 0)
  BY DEF Opens, Resume, durable, history
<1>2. count \in Int /\ cartDB \in [Goods -> Nat] /\ Rows \subseteq Goods /\ TypeOK
  BY RowsType DEF Agree, IInv, Core, TypeOK
<1>3. counted \in SoundPage /\ counted.act = page.act
  BY <1>1, <1>2, CountedSound
<1>4. top \in SoundPage /\ top.act = page.act
  BY <1>2, <1>3, ShowCartSound
<1>5. Top' = top /\ stack' # <<>>
  <2> HIDE DEF top
  <2> QED
    BY <1>1, <1>4, PushType DEF Top
<1>6. /\ pc'.op = IF page.act = "cart" /\ first THEN "download" ELSE "idle"
      /\ (pc'.op = "download" => pc'.next = 1)
  BY <1>1 DEF Idle
<1>7. ASSUME first
      PROVE  page = NewPage("cart", 0) /\ cartDB = NoRows
  BY <1>1, <1>7 DEF Run, Alone
<1>8. Alone'
  <2>1. ASSUME first PROVE top.rows = NoRows /\ page.act = "cart"
    <3>1. page.act = "cart" /\ page.rows = NoRows /\ page \in Page
      BY <1>1, <1>7, <2>1 DEF NewPage, SoundPage
    <3>2. Counted(page) = showCount(page, count)
      BY <3>1 DEF Counted
    <3>3. counted.rows = NoRows
      BY <1>2, <3>1, <3>2, ShowCountPage
    <3> QED
      BY <2>1, <3>1, <3>3
  <2> HIDE DEF top
  <2>2. first => cartDB' = cartDB /\ pc'.op = "download" /\ Top'.rows = NoRows
    BY <1>1, <1>5, <1>6, <2>1
  <2>3. pc'.op \in {"download", "save"} => first
    BY <1>6
  <2> QED
    BY <1>1, <1>7, <2>2, <2>3 DEF Alone, NoRows, Goods
<1>9. Single'
  BY <1>1, <1>6, RowsUnchanged DEF Run, Single
<1>10. Iconed'
  <2> SUFFICES ASSUME page.act = "cart", ~first PROVE Pictured(Top)'
    BY <1>4, <1>5, <1>6 DEF Iconed
  <2>1. \A g \in Rows : "thumb" \in goods[g].pictures => g \in mIconMap'
    BY DEF Opens, LoadIcons
  <2> QED
    BY <1>1, <2>1, RowsUnchanged DEF Pictured
<1> QED
  BY <1>8, <1>9, <1>10 DEF Run

LEMMA DownloadingRun ==
  ASSUME Agree, Run, DownloadInsert \/ DownloadSave \/ DownloadEnd
  PROVE  Run'
<1>1. /\ IInv /\ TypeOK /\ pc.op \in {"download", "save"} /\ first /\ cartDB = NoRows
      /\ stack # <<>> /\ Top.rows = NoRows
  BY DEF Agree, IInv, Core, Pages, Run, Alone, DownloadInsert, DownloadSave, DownloadEnd, Running
<1>2. goods \in Seq(Entry) /\ Len(goods) \in Nat /\ pc.next \in Nat
  BY <1>1, LenProperties DEF IInv, Core, TypeOK, Entry, Pages, Callback, Products
<1>3. \A i \in Rows : goods[i].product \in Nat
  <2>1. \A i \in Rows : goods[i] \in Entry
    BY <1>2, ElementOfSeq DEF Rows
  <2> QED
    BY <2>1, CartAssumption DEF Entry, Products
<1>4. CASE DownloadInsert
  <2>1. /\ pc.op = "download" /\ pc'.op = "save" /\ pc'.next = pc.next
        /\ UNCHANGED <<first, cartDB, stack, cut>>
        /\ \/ UNCHANGED goods
           \/ goods' = Append(goods, [product |-> pc.next, pictures |-> {}])
    BY <1>4 DEF DownloadInsert, Running, history
  <2>2. Alone' /\ Iconed'
    BY <1>1, <2>1 DEF Run, Alone, Iconed, Top, NoRows, Goods
  <2>3. Single'
    <3> SUFFICES ASSUME ~cut
                 PROVE  /\ \A i, j \in Rows' : goods'[i].product = goods'[j].product => i = j
                        /\ \A i \in Rows' : goods'[i].product <= pc.next
      BY <2>1 DEF Single
    <3>1. /\ \A i, j \in Rows : goods[i].product = goods[j].product => i = j
          /\ \A i \in Rows : goods[i].product < pc.next
      BY <2>1 DEF Run, Single
    <3>2. CASE UNCHANGED goods
      BY <1>2, <1>3, <3>1, <3>2, RowsUnchanged
    <3>3. CASE goods' = Append(goods, [product |-> pc.next, pictures |-> {}])
      <4> DEFINE e == [product |-> pc.next, pictures |-> {}]
                 n == Len(goods) + 1
      <4>1. e.product = pc.next
        OBVIOUS
      <4> HIDE DEF e
      <4>2. Len(goods') = n /\ goods'[n] = e /\ \A i \in Rows : goods'[i] = goods[i]
        BY <1>2, <3>3, AppendProperties DEF Rows, e
      <4>3. Rows' = Rows \cup {n} /\ n \notin Rows
        BY <1>2, <4>2 DEF Rows
      <4>4. \A i \in Rows : goods'[i].product = goods[i].product /\ goods'[i].product < pc.next
        BY <3>1, <4>2
      <4> HIDE DEF n
      <4> QED
        BY <1>2, <1>3, <3>1, <4>1, <4>2, <4>3, <4>4
    <3> QED
      BY <2>1, <3>2, <3>3
  <2> QED
    BY <2>2, <2>3 DEF Run
<1>5. CASE DownloadSave
  <2>1. /\ pc.op = "save" /\ pc'.op = "download" /\ pc'.next = pc.next + 1
        /\ UNCHANGED <<first, cartDB, stack, cut>>
    BY <1>5 DEF DownloadSave, Running
  <2>2. Alone' /\ Iconed'
    BY <1>1, <2>1 DEF Run, Alone, Iconed, Top, NoRows, Goods
  <2>3. Rows' = Rows /\ \A i \in Rows : goods'[i].product = goods[i].product
    BY <1>1, <1>5, SaveShape
  <2>4. \A m \in Nat : m <= pc.next => m < pc.next + 1
    BY <1>2
  <2>5. Single'
    BY <1>3, <2>1, <2>3, <2>4 DEF Run, Single
  <2> QED
    BY <2>2, <2>5 DEF Run
<1>6. CASE DownloadEnd
  <2>1. /\ pc'.op = "idle" /\ first' = FALSE /\ SetTop(showCart(Top))
        /\ UNCHANGED <<cartDB, goods, mIconMap, cut>>
    BY <1>6 DEF DownloadEnd, Idle, history
  <2>2. stack \in Seq(SoundPage) /\ Top \in SoundPage /\ Top \in Page /\ cartDB \in [Goods -> Nat]
    BY <1>1, TopSound DEF IInv, Core, Pages, TypeOK
  <2>3. showCart(Top) \in SoundPage /\ showCart(Top).rows = NoRows
    BY <1>1, <2>2, ShowCartSound, ShowCartPage
  <2>4. Top' = showCart(Top)
    BY <1>1, <2>1, <2>2, <2>3, SetTopType
  <2>5. Alone'
    BY <2>1 DEF Alone
  <2>6. Iconed'
    <3>1. \A g \in Rows' : ~(Top'.rows[g] > 0)
      BY <1>1, <2>1, <2>3, <2>4, NoRowsType, RowsType, RowsUnchanged
    <3> QED
      BY <3>1 DEF Iconed, Pictured
  <2>7. Single'
    BY <2>1, RowsUnchanged DEF Run, Single
  <2> QED
    BY <2>5, <2>6, <2>7 DEF Run
<1> QED
  BY <1>4, <1>5, <1>6

(* The other callbacks run when "first" is written, and take rows off a page *)
(* at most.                                                                  *)
LEMMA CallbackRun ==
  ASSUME Agree, Run, ~first, pc'.op \notin {"download", "save"},
         UNCHANGED <<first, goods, mIconMap, cut>>, stack # <<>>,
         \/ stack' = stack /\ Top.act # "cart"
         \/ \E page \in SoundPage : /\ SetTop(page)
                                    /\ page.act = Top.act
                                    /\ Iconed
                                    /\ pc.op \in {"idle", "clear", "delete"}
                                    /\ \A g \in Goods : page.rows[g] > 0 => Top.rows[g] > 0
  PROVE  Run'
<1>1. Alone'
  BY DEF Alone
<1>2. Single'
  BY RowsUnchanged DEF Run, Single
<1>3. Iconed'
  <2>1. CASE stack' = stack /\ Top.act # "cart"
    BY <2>1 DEF Iconed, Top
  <2>2. ASSUME NEW page \in SoundPage, SetTop(page), page.act = Top.act,
               pc.op \in {"idle", "clear", "delete"},
               \A g \in Goods : page.rows[g] > 0 => Top.rows[g] > 0
        PROVE  Iconed'
    <3>1. Top' = page
      BY <2>2, SetTopType DEF Agree, IInv, Core, Pages
    <3>2. Rows \subseteq Goods
      BY RowsType DEF Agree, IInv, Core
    <3>3. Top'.act = "cart" => Pictured(Top)
      BY <2>2, <3>1 DEF Run, Iconed
    <3>4. Pictured(Top) => Pictured(Top)'
      BY <2>2, <3>1, <3>2, RowsUnchanged DEF Pictured
    <3> QED
      BY <3>3, <3>4 DEF Iconed
  <2> QED
    BY <2>1, <2>2
<1> QED
  BY <1>1, <1>2, <1>3 DEF Run

LEMMA OtherRun ==
  ASSUME Agree, Run,
         \/ \E g \in Goods : AddCount(g) \/ DeleteRow(g)
         \/ AddRow \/ ClearRows \/ ClearCount \/ DeleteCount
  PROVE  Run'
<1>1. /\ stack # <<>> /\ IInv /\ TypeOK /\ pc.op \notin {"download", "save"}
      /\ UNCHANGED <<first, goods, mIconMap, cut>>
  BY DEF AddCount, AddRow, ClearRows, ClearCount, DeleteRow, DeleteCount, AtTop, Running,
         Agree, IInv, Core, Pages, history
<1>2. ~first
  BY <1>1 DEF Run, Alone
<1>3. pc'.op \notin {"download", "save"}
  <2>1. ASSUME NEW g \in Goods, AddCount(g) \/ DeleteRow(g) PROVE pc'.op \notin {"download", "save"}
    <3>1. pc' = [op |-> "add", goods_id |-> g]
          \/ pc' = [op |-> "delete", goods_id |-> g, left |-> Left(g)]
      BY <2>1 DEF AddCount, DeleteRow
    <3> QED
      BY <3>1
  <2>2. ASSUME AddRow \/ ClearRows \/ ClearCount \/ DeleteCount
        PROVE  pc'.op \notin {"download", "save"}
    <3>1. pc' = Idle \/ pc' = [op |-> "clear"]
      BY <2>2 DEF AddRow, ClearRows, ClearCount, DeleteCount
    <3> QED
      BY <3>1 DEF Idle
  <2> QED
    BY <2>1, <2>2
<1>4. /\ Top \in SoundPage /\ Top \in Page /\ Supported(Top) /\ Top.mCount \in Int
      /\ Top.rows \in [Goods -> Nat] /\ Top.mCartArray \in [Goods -> Nat]
      /\ Top.mGoodsMap \in SUBSET Goods
  BY <1>1, TopSound
<1>5. ASSUME NEW page \in Page, SetTop(page), page.act = Top.act, page.rows = NoRows,
             pc.op \in {"idle", "clear", "delete"}
      PROVE  Run'
  <2>1. page \in SoundPage /\ \A g \in Goods : ~(page.rows[g] > 0)
    BY <1>5, EmptyPageSound, NoRowsType
  <2> QED
    BY <1>1, <1>2, <1>3, <1>5, <2>1, CallbackRun DEF Run
<1>6. ASSUME NEW g \in Goods, AddCount(g) PROVE Run'
  <2> DEFINE page == [Top EXCEPT !.mCount = @ + 1]
  <2>1. SetTop(page) /\ pc.op = "idle"
    BY <1>6 DEF AddCount, AtTop, Running
  <2>2. page \in SoundPage /\ page.act = Top.act /\ page.rows = Top.rows
    BY <1>4 DEF SoundPage, Supported, Listed, Known, Page
  <2> HIDE DEF page
  <2> QED
    BY <1>1, <1>2, <1>3, <2>1, <2>2, CallbackRun DEF Run
<1>7. CASE AddRow
  <2>1. stack' = stack /\ Top.act # "cart"
    BY <1>7 DEF AddRow, Running, Agree, Shown
  <2> QED
    BY <1>1, <1>2, <1>3, <2>1, CallbackRun
<1>8. CASE ClearRows
  <2> DEFINE page == [Top EXCEPT !.rows = NoRows]
  <2>1. SetTop(page) /\ pc.op = "idle"
    BY <1>8 DEF ClearRows, AtTop, Running
  <2>2. page \in Page /\ page.act = Top.act /\ page.rows = NoRows
    BY <1>4, NoRowsType DEF Page
  <2> HIDE DEF page
  <2> QED
    BY <1>5, <2>1, <2>2
<1>9. CASE ClearCount
  <2> DEFINE shown == showCount(Top, 0)
             page == [shown EXCEPT !.mGoodsMap = {}]
  <2>1. SetTop(page) /\ pc.op = "clear"
    BY <1>9 DEF ClearCount, Running
  <2>2. shown \in Page /\ shown.act = Top.act /\ shown.rows = NoRows
    <3>1. shown \in SoundPage /\ shown.act = Top.act
      BY <1>4, ShowCountSound
    <3>2. shown.rows = NoRows
      BY <1>4, ShowCountPage
    <3> QED
      BY <3>1, <3>2 DEF SoundPage
  <2> HIDE DEF shown
  <2>3. page \in Page /\ page.act = Top.act /\ page.rows = NoRows
    BY <2>2 DEF Page
  <2> HIDE DEF page
  <2> QED
    BY <1>5, <2>1, <2>3
<1>10. ASSUME NEW g \in Goods, DeleteRow(g) PROVE Run'
  <2> DEFINE page == [Top EXCEPT !.rows[g] = 0, !.mCartArray[g] = 0]
  <2>1. SetTop(page) /\ pc.op = "idle" /\ Top.rows[g] > 0
    BY <1>10 DEF DeleteRow, AtTop, Running
  <2>2. /\ page \in Page /\ page.act = Top.act /\ page.rows = [Top.rows EXCEPT ![g] = 0]
        /\ page.mCartArray = [Top.mCartArray EXCEPT ![g] = 0]
        /\ page.mGoodsMap = Top.mGoodsMap
    BY <1>4 DEF Page
  <2> HIDE DEF page
  <2>3. Known(page)
    BY <1>4, <2>1, <2>2 DEF Supported, Listed, Known
  <2>4. page \in SoundPage /\ \A h \in Goods : page.rows[h] > 0 => Top.rows[h] > 0
    BY <1>4, <2>2, <2>3 DEF SoundPage, Supported
  <2> QED
    BY <1>1, <1>2, <1>3, <2>1, <2>2, <2>4, CallbackRun DEF Run
<1>11. CASE DeleteCount
  <2> DEFINE shown == showCount(Top, pc.left)
             page == [shown EXCEPT !.mGoodsMap = @ \ {pc.goods_id}]
  <2>1. SetTop(page) /\ pc.op = "delete" /\ pc.left \in Int
    BY <1>1, <1>11 DEF DeleteCount, Running, IInv, Core, Pages, Callback
  <2>2. /\ shown \in Page /\ shown.act = Top.act /\ shown.rows \in {NoRows, Top.rows}
        /\ shown.mCartArray = Top.mCartArray /\ shown.mGoodsMap = Top.mGoodsMap
    <3>1. shown \in SoundPage
      BY <1>4, <2>1, ShowCountSound
    <3>2. /\ shown.act = Top.act /\ shown.rows \in {NoRows, Top.rows}
          /\ shown.mCartArray = Top.mCartArray /\ shown.mGoodsMap = Top.mGoodsMap
      BY <1>4, <2>1, ShowCountPage
    <3> QED
      BY <3>1, <3>2 DEF SoundPage
  <2> HIDE DEF shown
  <2>3. /\ page \in Page /\ page.act = Top.act /\ page.rows = shown.rows
        /\ page.mCartArray = Top.mCartArray /\ page.mGoodsMap = Top.mGoodsMap \ {pc.goods_id}
    BY <1>4, <2>2 DEF Page
  <2> HIDE DEF page
  <2>4. /\ Known(Top) /\ Top.rows[pc.goods_id] = 0 /\ Top.mCartArray[pc.goods_id] = 0
    BY <1>1, <2>1 DEF IInv, Core, Deleting, Running
  <2>5. Known(page)
    BY <1>4, <2>2, <2>3, <2>4, NoRowsType DEF Known
  <2>6. page \in SoundPage /\ \A h \in Goods : page.rows[h] > 0 => Top.rows[h] > 0
    BY <1>4, <2>2, <2>3, <2>5, NoRowsType DEF SoundPage, Supported
  <2> QED
    BY <1>1, <1>2, <1>3, <2>1, <2>3, <2>6, CallbackRun DEF Run
<1> QED
  BY <1>6, <1>7, <1>8, <1>9, <1>10, <1>11

LEMMA RunInit == Init => Run
<1> SUFFICES ASSUME Init PROVE Run
  OBVIOUS
<1>1. /\ first = TRUE /\ cartDB = NoRows /\ goods = <<>> /\ stack = <<>>
      /\ pc.op = "idle" /\ Rows = {}
  BY DEF Init, Idle, Rows
<1> QED
  BY <1>1 DEF Run, Alone, Single, Iconed

LEMMA RunNext == Agree /\ Run /\ [Next]_vars => Run'
<1> SUFFICES ASSUME Agree, Run, [Next]_vars PROVE Run'
  OBVIOUS
<1>1. CASE Launch \/ GoChannel \/ GoCart \/ (\E g \in Goods : goDetail(g)) \/ Back \/ Reclaim
  <2>1. pc.op = "idle" /\ (Closes \/ \E below, page : Opens(below, page))
    BY <1>1, OpeningShape DEF Agree
  <2>2. CASE Closes
    <3>1. stack' = <<>> /\ UNCHANGED <<first, cartDB, goods, pc, cut>>
      BY <2>2 DEF Closes, durable, history
    <3>2. Alone' /\ Iconed'
      BY <2>1, <3>1 DEF Run, Alone, Iconed
    <3>3. Single'
      BY <2>1, <3>1, RowsUnchanged DEF Run, Single
    <3> QED
      BY <3>2, <3>3 DEF Run
  <2>3. ASSUME NEW below, NEW page, Opens(below, page)
        PROVE  Run'
    BY <2>1, <2>3, OpeningRun
  <2> QED
    BY <2>1, <2>2, <2>3
<1>2. CASE DownloadInsert \/ DownloadSave \/ DownloadEnd
  BY <1>2, DownloadingRun
<1>3. CASE \/ \E g \in Goods : AddCount(g) \/ DeleteRow(g)
           \/ AddRow \/ ClearRows \/ ClearCount \/ DeleteCount
  BY <1>3, OtherRun
<1>4. CASE Kill
  <2>1. /\ stack' = <<>> /\ pc'.op = "idle" /\ UNCHANGED <<first, cartDB, goods>>
        /\ cut' = (cut \/ pc.op \in {"download", "save"})
    BY <1>4 DEF Kill, Idle, durable
  <2>2. Alone' /\ Iconed'
    BY <2>1 DEF Run, Alone, Iconed, NoRows, Goods
  <2>3. Single'
    BY <2>1, RowsUnchanged DEF Run, Single
  <2> QED
    BY <2>2, <2>3 DEF Run
<1>5. CASE UNCHANGED vars
  <2>1. UNCHANGED <<first, cartDB, goods, mIconMap, stack, pc, cut>>
    BY <1>5 DEF vars, durable, history
  <2> QED
    BY <2>1, RowsUnchanged DEF Run, Alone, Single, Iconed, Pictured, Top
<1> QED
  BY <1>1, <1>2, <1>3, <1>4, <1>5 DEF Next
-----------------------------------------------------------------------------
LEMMA CartInvariant == Spec => []IInv
BY InitOK, NextKeeps, PTL DEF Spec

LEMMA AgreeAlways == Spec => []Agree
BY AgreeInit, AgreeNext, PTL DEF Spec

LEMMA RunAlways == Spec => []Run
BY RunInit, RunNext, AgreeAlways, PTL DEF Spec

(* The cart's variables keep their types, and no more pages or rows than the *)
(* bounds allow are made.                                                    *)
THEOREM CartType == Spec => []TypeOK
BY CartInvariant, PTL DEF IInv, Core

(* No callback looks up goods its page does not know: a deletion and the sum *)
(* that follows it find every entry of mCartArray in mGoodsMap, whatever     *)
(* other pages wrote, and however the page came to the top.                  *)
THEOREM CartNeverCrashes == Spec => []NeverCrashes
BY CartInvariant, PTL DEF IInv, Core

(* "first" is false only when every product has its row and its pictures, or *)
(* they could not be written, also when earlier first runs were cut short    *)
(* between any two writes; and a second row of a product is the work of a    *)
(* first run that was cut short.                                             *)
THEOREM CartCatalogueComplete == Spec => []CatalogueComplete
<1>1. IInv /\ Run => CatalogueComplete
  <2> SUFFICES ASSUME IInv, Run, ~first PROVE
        /\ \A p \in Products \ failed : Saved(p)
        /\ ~cut => \A i, j \in Rows : goods[i].product = goods[j].product => i = j
    BY DEF CatalogueComplete, Saved
  <2>1. \A p \in Products \ failed : Saved(p)
    BY DEF IInv, Core, Complete, Done
  <2> QED
    BY <2>1 DEF Run, Single
<1> QED
  BY <1>1, CartInvariant, RunAlways, PTL

(* Between callbacks the badge's number is the sum over the rows of the cart *)
(* table, however many goods and pages there are, unless an addition started *)
(* from an outdated mCount or the process ended between two writes.          *)
THEOREM CartCountIsSum == Spec => []CountIsSumUnlessDrifted
<1>1. Agree => CountIsSumUnlessDrifted
  BY DEF Agree, Balance, CountIsSumUnlessDrifted, Running
<1> QED
  BY <1>1, AgreeAlways, PTL

(* Between callbacks the page on top shows what is stored, whatever the      *)
(* pages above it wrote before they were left, and although an empty query   *)
(* leaves the rows on screen as they are: showCount has emptied the list.    *)
THEOREM CartTopShows == Spec => []TopShowsCart
<1>1. Agree /\ Run => TopShowsCart
  BY DEF Agree, Shown, Run, Iconed, Pictured, TopShowsCart, Running
<1> QED
  BY <1>1, AgreeAlways, RunAlways, PTL
=============================================================================
