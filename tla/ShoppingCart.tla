----------------------------- MODULE ShoppingCart -----------------------------
(***************************************************************************)
(* The shopping cart of the storage module: ShoppingCartActivity,          *)
(* ShoppingChannelActivity and ShoppingDetailActivity over two databases   *)
(* (CartDBHelper, GoodsDBHelper) and the shared parameters "count" and     *)
(* "first".  Every startActivity pushes a new page on the task's stack,    *)
(* and each page keeps its own copy mCount of the number of goods.  The    *)
(* main thread runs one callback at a time; a callback that makes several  *)
(* durable writes is one action per write, because the process may end     *)
(* between two of them.                                                    *)
(***************************************************************************)
EXTENDS Integers, Sequences, Functions

CONSTANTS NProducts,  \* length of GoodsInfo.getDefaultList()
          MayEnd,     \* whether the process may end
          MayFail,    \* what the storage may fail to write: rows, picture files
          MaxRows,    \* bound: rows of the goods table
          MaxCount,   \* bound: absolute value of mCount, quantity of a row
          MaxDepth    \* bound: pages on the stack

ASSUME CartAssumption == /\ NProducts \in Nat \ {0} /\ MayEnd \in BOOLEAN
                         /\ MayFail \subseteq {"row", "thumb", "pic"}
                         /\ MaxRows \in Nat /\ MaxCount \in Nat /\ MaxDepth \in Nat

VARIABLES count,    \* shared parameter "count"
          first,    \* shared parameter "first"
          cartDB,   \* table cart_info: goods_id -> count, 0 when there is no row
          goods,    \* table goods_info in the order of its row numbers
          mIconMap, \* row numbers whose thumbnail MainApplication holds
          stack,    \* the task's pages, top last
          pc,       \* the callback under way
          crashed,  \* a callback threw
          drifted,  \* history: an update of "count" and of the rows went apart
          failed,   \* history: products whose last row or pictures could not be written
          cut       \* history: the process ended during a first run

durable == <<count, first, cartDB, goods>>
history == <<drifted, failed, cut>>
vars == <<durable, mIconMap, stack, pc, crashed, history>>

Products == 1..NProducts
Goods == 1..MaxRows
Pictures == {"thumb", "pic"}  \* the picture files a row names and that are whole
NoRow == -1                   \* what insert returns when it fails
NoRows == [g \in Goods |-> 0]

\* mCount of a page; the goods of a detail page; and of a cart page its rows on
\* screen (ll_cart with mCartGoods), mCartArray and the keys of mGoodsMap.
\* A page is live unless the process ended since it was made.
Page == [act : {"cart", "channel", "detail"}, mCount : Int, goods_id : Goods \cup {0},
         rows : [Goods -> Nat], mCartArray : [Goods -> Nat], mGoodsMap : SUBSET Goods,
         live : BOOLEAN]

NewPage(act, g) ==
    [act |-> act, mCount |-> count, goods_id |-> g, rows |-> NoRows,
     mCartArray |-> NoRows, mGoodsMap |-> {}, live |-> TRUE]

Idle == [op |-> "idle"]
Running(op) == pc.op = op

Top == stack[Len(stack)]
Below(n) == SubSeq(stack, 1, Len(stack) - n)
AtTop(act) == Running("idle") /\ stack # <<>> /\ Top.act = act /\ ~crashed
SetTop(page) == stack' = Append(Below(1), page)
Rows == 1..Len(goods)
CartSize == FoldFunction(LAMBDA x, y : x + y, 0, cartDB)

-----------------------------------------------------------------------------
\* Mutant: the list stays when there are no goods.
ShowCountOnly(page, n) == [page EXCEPT !.mCount = n]

\* showCount: without goods the list is emptied.
showCount(page, n) == [page EXCEPT !.mCount = n, !.rows = IF n = 0 THEN NoRows ELSE @]

\* Mutant: only the goods of the last query are known.
ShowCartForgetting(page) ==
    [page EXCEPT !.mCartArray = cartDB,
                 !.rows = IF cartDB = NoRows THEN @ ELSE cartDB,
                 !.mGoodsMap = {g \in Goods : cartDB[g] > 0}]

\* showCart: an empty query leaves the rows on screen as they are.
showCart(page) ==
    [page EXCEPT !.mCartArray = cartDB,
                 !.rows = IF cartDB = NoRows THEN @ ELSE cartDB,
                 !.mGoodsMap = @ \cup {g \in Goods : cartDB[g] > 0}]

\* A cart or channel page reads "count" in onResume, a detail page in onCreate.
Counted(page) == CASE page.act = "cart"    -> showCount(page, count)
                   [] page.act = "channel" -> [page EXCEPT !.mCount = count]
                   [] page.act = "detail"  -> page

\* onResume of a page over the pages below it.
Resume(below, page) ==
    /\ stack' = Append(below, IF page.act = "cart" /\ ~first
                              THEN showCart(Counted(page)) ELSE Counted(page))
    /\ pc' = IF page.act = "cart" /\ first THEN [op |-> "download", next |-> 1] ELSE Idle

\* downloadGoods of a later run reads every row's thumbnail back; one that is
\* not there replaces the bitmap by null.
LoadIcons(icons, page) ==
    IF page.act = "cart" /\ ~first
    THEN (icons \ Rows) \cup {g \in Rows : "thumb" \in goods[g].pictures} ELSE icons

\* showCart and showDetail read the goods of a row number without a test for null.
RowMissing == \E g \in Goods \ Rows : cartDB[g] > 0
Dereferences(page) == CASE page.act = "cart"    -> ~first /\ RowMissing
                        [] page.act = "channel" -> FALSE
                        [] page.act = "detail"  -> page.goods_id \notin Rows \cup {0}

Enter(below, page) ==
    /\ Len(below) < MaxDepth
    /\ Resume(below, page)
    /\ mIconMap' = LoadIcons(mIconMap, page)
    /\ crashed' = Dereferences(page)
    /\ UNCHANGED <<durable, history>>

Launch == /\ stack = <<>> /\ Running("idle") /\ ~crashed
          /\ Enter(<<>>, NewPage("cart", 0))

GoChannel == AtTop("cart") /\ Enter(stack, NewPage("channel", 0))

GoCart == (AtTop("channel") \/ AtTop("detail")) /\ Enter(stack, NewPage("cart", 0))

goDetail(g) == /\ \/ AtTop("channel") /\ g \in Rows
                  \/ AtTop("cart") /\ Top.rows[g] > 0
               /\ Enter(stack, NewPage("detail", g))

\* Back, and finish() of the return menu; a page of an earlier process is made
\* anew when it comes to the top.
Revive(page) == IF page.live THEN page ELSE NewPage(page.act, page.goods_id)

Back == /\ Running("idle") /\ stack # <<>> /\ ~crashed
        /\ IF Len(stack) = 1
           THEN stack' = <<>> /\ UNCHANGED <<durable, mIconMap, pc, crashed, history>>
           ELSE Enter(Below(2), Revive(stack[Len(stack) - 1]))

-----------------------------------------------------------------------------
\* Mutant: "first" is written before the goods are.
FirstWrittenEarly ==
    /\ Running("download") /\ pc.next <= NProducts
    /\ \/ /\ Len(goods) < MaxRows
          /\ goods' = Append(goods, [product |-> pc.next, pictures |-> {}])
          /\ mIconMap' = mIconMap \cup {Len(goods) + 1}
          /\ pc' = [op |-> "save", next |-> pc.next, row |-> Len(goods) + 1]
       \/ /\ "row" \in MayFail
          /\ mIconMap' = mIconMap \cup {NoRow}
          /\ pc' = [op |-> "save", next |-> pc.next, row |-> NoRow]
          /\ UNCHANGED goods
    /\ first' = FALSE
    /\ UNCHANGED <<count, cartDB, stack, crashed, history>>

\* The first run's downloadGoods: for each product a row, then its pictures
\* and the row again with their paths; then "first", then showCart.  It goes
\* on with whatever row number insert returned.
DownloadInsert ==
    /\ Running("download") /\ pc.next <= NProducts
    /\ \/ /\ Len(goods) < MaxRows
          /\ goods' = Append(goods, [product |-> pc.next, pictures |-> {}])
          /\ mIconMap' = mIconMap \cup {Len(goods) + 1}
          /\ pc' = [op |-> "save", next |-> pc.next, row |-> Len(goods) + 1]
       \/ /\ "row" \in MayFail
          /\ mIconMap' = mIconMap \cup {NoRow}
          /\ pc' = [op |-> "save", next |-> pc.next, row |-> NoRow]
          /\ UNCHANGED goods
    /\ UNCHANGED <<count, first, cartDB, stack, crashed, history>>

\* saveImage swallows what goes wrong, and the update of a row that was not
\* inserted changes none.  An update that throws ends the process: Kill.
DownloadSave ==
    /\ Running("save")
    /\ \E written \in {w \in SUBSET Pictures : Pictures \ w \subseteq MayFail} :
         /\ goods' = IF pc.row = NoRow THEN goods
                     ELSE [goods EXCEPT ![pc.row].pictures = written]
         /\ failed' = IF pc.row # NoRow /\ written = Pictures THEN failed \ {pc.next}
                      ELSE failed \cup {pc.next}
    /\ pc' = [op |-> "download", next |-> pc.next + 1]
    /\ UNCHANGED <<count, first, cartDB, mIconMap, stack, crashed, drifted, cut>>

DownloadEnd ==
    /\ Running("download") /\ pc.next > NProducts
    /\ first' = FALSE
    /\ SetTop(showCart(Top))
    /\ pc' = Idle
    /\ crashed' = RowMissing
    /\ UNCHANGED <<count, cartDB, goods, mIconMap, history>>

-----------------------------------------------------------------------------
\* addToCart, first half: the page's own number plus one becomes "count".
AddCount(g) ==
    /\ \/ AtTop("channel") /\ g \in Rows
       \/ AtTop("detail") /\ g = Top.goods_id
    /\ Top.mCount < MaxCount /\ Top.mCount > -MaxCount /\ cartDB[g] < MaxCount
    /\ SetTop([Top EXCEPT !.mCount = @ + 1])
    /\ count' = Top.mCount + 1
    /\ pc' = [op |-> "add", goods_id |-> g]
    /\ drifted' = (drifted \/ Top.mCount # count)
    /\ UNCHANGED <<first, cartDB, goods, mIconMap, crashed, failed, cut>>

\* addToCart, second half: the row of the goods is updated or inserted, and an
\* insert that fails is not noticed.
AddRow ==
    /\ Running("add")
    /\ \/ cartDB' = [cartDB EXCEPT ![pc.goods_id] = @ + 1] /\ UNCHANGED drifted
       \/ /\ "row" \in MayFail /\ cartDB[pc.goods_id] = 0
          /\ drifted' = TRUE /\ UNCHANGED cartDB
    /\ pc' = Idle
    /\ UNCHANGED <<count, first, goods, mIconMap, stack, crashed, failed, cut>>

\* The clear menu: the rows, then "count" and the page.
ClearRows ==
    /\ AtTop("cart")
    /\ cartDB' = NoRows
    /\ SetTop([Top EXCEPT !.rows = NoRows])
    /\ pc' = [op |-> "clear"]
    /\ UNCHANGED <<count, first, goods, mIconMap, crashed, history>>

ClearCount ==
    /\ Running("clear")
    /\ count' = 0
    /\ SetTop([showCount(Top, 0) EXCEPT !.mGoodsMap = {}])
    /\ pc' = Idle
    /\ UNCHANGED <<first, cartDB, goods, mIconMap, crashed, history>>

\* Mutant: the number goes down by one, whatever the row's quantity was.
LeftByOne(g) == Top.mCount - 1

\* left_count: the mCartArray entry's quantity, else the row's, is taken off.
Left(g) == Top.mCount - (IF Top.mCartArray[g] > 0 THEN Top.mCartArray[g] ELSE Top.rows[g])

\* Mutant: what the screen shows is taken off the record.
Decreased(g) == [cartDB EXCEPT ![g] = @ - Top.rows[g]]

Deleted(g) == [cartDB EXCEPT ![g] = 0]

\* The delete menu of a row: the record, then "count" and the page.
DeleteRow(g) ==
    /\ AtTop("cart") /\ Top.rows[g] > 0
    /\ cartDB' = Deleted(g)
    /\ pc' = [op |-> "delete", goods_id |-> g, left |-> Left(g)]
    /\ SetTop([Top EXCEPT !.rows[g] = 0, !.mCartArray[g] = 0])
    /\ UNCHANGED <<count, first, goods, mIconMap, crashed, history>>

\* The toast names the goods and the total price reads every mCartArray entry:
\* both look the goods up in mGoodsMap without a test for null.
DeleteCount ==
    /\ Running("delete")
    /\ count' = pc.left
    /\ SetTop([showCount(Top, pc.left) EXCEPT !.mGoodsMap = @ \ {pc.goods_id}])
    /\ crashed' = (\/ pc.goods_id \notin Top.mGoodsMap
                   \/ \E g \in Goods \ (Top.mGoodsMap \ {pc.goods_id}) : Top.mCartArray[g] > 0)
    /\ pc' = Idle
    /\ UNCHANGED <<first, cartDB, goods, mIconMap, history>>

-----------------------------------------------------------------------------
\* The process ends in the foreground: the stack is gone.
Kill ==
    /\ MayEnd /\ stack # <<>>
    /\ stack' = <<>> /\ mIconMap' = {} /\ pc' = Idle /\ crashed' = FALSE
    /\ drifted' = (drifted \/ pc.op \in {"add", "clear", "delete"})
    /\ cut' = (cut \/ pc.op \in {"download", "save"})
    /\ UNCHANGED <<durable, failed>>

\* The system reclaims the process in the background and the user comes back:
\* the top page is made anew, the others when they come to the top.
Reclaim ==
    /\ MayEnd /\ Running("idle") /\ stack # <<>> /\ ~crashed
    /\ Resume([i \in 1..Len(stack) - 1 |-> [NewPage(stack[i].act, stack[i].goods_id)
                                             EXCEPT !.mCount = 0, !.live = FALSE]],
              NewPage(Top.act, Top.goods_id))
    /\ mIconMap' = LoadIcons({}, Top)
    /\ crashed' = Dereferences(Top)
    /\ UNCHANGED <<durable, history>>

Init == /\ count = 0 /\ first = TRUE /\ cartDB = NoRows /\ goods = <<>>
        /\ mIconMap = {} /\ stack = <<>> /\ pc = Idle
        /\ crashed = FALSE /\ drifted = FALSE /\ failed = {} /\ cut = FALSE

Next == \/ Launch \/ GoChannel \/ GoCart \/ \E g \in Goods : goDetail(g) \/ Back
        \/ DownloadInsert \/ DownloadSave \/ DownloadEnd
        \/ \E g \in Goods : AddCount(g) \/ DeleteRow(g)
        \/ AddRow \/ ClearRows \/ ClearCount \/ DeleteCount
        \/ Kill \/ Reclaim

Spec == Init /\ [][Next]_vars

-----------------------------------------------------------------------------
TypeOK ==
    /\ count \in Int /\ first \in BOOLEAN
    /\ cartDB \in [Goods -> Nat]
    /\ goods \in Seq([product : Products, pictures : SUBSET Pictures]) /\ Len(goods) <= MaxRows
    /\ mIconMap \subseteq Goods \cup {NoRow}
    /\ stack \in Seq(Page) /\ Len(stack) <= MaxDepth
    /\ pc.op \in {"idle", "download", "save", "add", "clear", "delete"}
    /\ crashed \in BOOLEAN /\ drifted \in BOOLEAN /\ cut \in BOOLEAN
    /\ failed \subseteq Products

\* Between callbacks the badge's number is the number of goods in the cart,
\* unless an addition started from an outdated mCount, its row could not be
\* inserted, or the process ended between the two writes of one callback.
CountIsSumUnlessDrifted == Running("idle") /\ ~drifted => count = CartSize

\* The page on top shows what is stored: a cart or channel page the number, and
\* a cart page the rows with every thumbnail that was saved, whatever pages
\* above it changed before and whichever process loaded them.
TopShowsCart ==
    Running("idle") /\ stack # <<>> =>
        /\ Top.act \in {"cart", "channel"} => Top.mCount = count
        /\ Top.act = "cart" =>
             /\ ~drifted => Top.rows = cartDB
             /\ \A g \in Rows : Top.rows[g] > 0 /\ "thumb" \in goods[g].pictures => g \in mIconMap

\* No callback dereferences goods that mGoodsMap or the table lacks, even with
\* rows that are left over on a page, after the numbers have drifted apart, and
\* when goods could not be inserted.
NeverCrashes == ~crashed

\* Once "first" is false every product has a row with both pictures, also when
\* earlier first runs were cut short; but for those whose row or pictures could
\* not be written, which no later run makes up for.  No product has two rows
\* unless a first run was cut short.
CatalogueComplete ==
    ~first =>
        /\ \A p \in Products \ failed :
             \E i \in Rows : goods[i] = [product |-> p, pictures |-> Pictures]
        /\ ~cut => \A i, j \in Rows : goods[i].product = goods[j].product => i = j

=============================================================================
