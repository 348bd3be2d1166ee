------------------------------- MODULE PageTree -------------------------------
(***************************************************************************)
(* How the native library finds a page of a PDF file (pdf_pagetree.c) over *)
(* the objects it has read (pdf_xref.c, obj_simple.c).  A file states in   *)
(* /Count how many pages each subtree has, and is often wrong;             *)
(* pdf_getpagecount corrects the objects in memory, pdf_getpageobject      *)
(* trusts them to skip subtrees and hands down what a page inherits, and   *)
(* every page is opened after a flush of the objects nobody keeps.         *)
(* Cyclic page trees, on which both functions do not end, are left out.    *)
(***************************************************************************)
EXTENDS Integers, Sequences, FiniteSets, SequencesExt

CONSTANTS
  Node,      \* the numbers of the tree's objects
  Root,      \* the one the catalog names
  Tree,      \* the trees to look at: the Kids of each "Pages" node
  Missing,   \* the nodes the file has no dictionary for
  Counts,    \* what a file may state in /Count, 0 when it states nothing
  Box,       \* the page boxes
  Unfit,     \* those that are no array, or not 1 by 1 at least
  Boxed,     \* the nodes that may state one
  Spoiled,   \* the pages whose contents cannot be loaded or interpreted
  NoBox, Nobody, MaxPages

ASSUME NodeAssumption == Root \in Node /\ Nobody \notin Node /\ NoBox \notin Box
ASSUME PageAssumption == Unfit \subseteq Box /\ Spoiled \subseteq Node
ASSUME CountsAssumption == Counts \subseteq Nat /\ MaxPages \in Nat

(* No cycle: every set of nodes has one with no kid in it, and one that is   *)
(* nobody's kid in it.                                                       *)
Acyclic(t) ==
  \A S \in SUBSET Node : S # {} =>
    /\ \E n \in S : n \in DOMAIN t => \A i \in DOMAIN t[n] : t[n][i] \notin S
    /\ \E n \in S : \A m \in S \cap DOMAIN t : n \notin ToSet(t[m])

ASSUME TreeAssumption ==
  \A t \in Tree :
    /\ DOMAIN t \subseteq Node \ Missing /\ \A n \in DOMAIN t : t[n] \in Seq(Node)
    /\ Acyclic(t)

VARIABLES
  kids,    \* in the file: the kids of each "Pages" node
  stated,  \* in the file: the /Count of each of them
  box,     \* in the file: the /MediaBox of each node (or the /CropBox, which
           \* is inherited alike and is used instead when a page has one)
  open,    \* whether the document is open
  count,   \* in memory: the /Count
  own,     \* in memory: the /MediaBox
  kept,    \* the objects an indirect reference was resolved to, and so keeps
  total,   \* what pdf_getpagecount returned
  answer   \* the last page asked for and what was found

file == <<kids, stated, box>>
vars == <<file, open, count, own, kept, total, answer>>

Boxes == Box \cup {NoBox}
Asked(no, n, b) == [no |-> no, node |-> n, box |-> b]

Init ==
  /\ kids \in Tree
  /\ stated \in [DOMAIN kids -> Counts]
  /\ \E f \in [Boxed -> Boxes] :
       box = [n \in Node |-> IF n \in Boxed THEN f[n] ELSE NoBox]
  /\ open = FALSE
  /\ count = stated /\ own = box /\ kept = {}
  /\ total = 0 /\ answer = Asked(0, Nobody, NoBox)
-----------------------------------------------------------------------------
SumOver(c, s) == FoldLeft(LAMBDA sum, k : sum + c[k], 0, s)

(* getpagecount of a node: a missing one has no page, one of type "Page" is  *)
(* a page, and one of type "Pages" has its kids' pages, whatever it states.  *)
Counted(t, n) ==
  LET c[m \in Node] ==
        IF m \in Missing THEN 0
        ELSE IF m \notin DOMAIN t THEN 1
        ELSE SumOver(c, t[m])
  IN  c[n]

(* pdf_resolveindirect keeps the object it loaded.                           *)
ResolvedUnkept(held) == {}  \* mutant: without fz_keepobj
Resolved(held) == held \cup Node

(* pdf_getpagecount: corrects each /Count it finds wrong.                    *)
CorrectedRoot(c) ==  \* mutant: only the root's /Count is corrected
  [n \in DOMAIN c |-> IF n = Root THEN Counted(kids, n) ELSE c[n]]
CorrectedAll(c) ==   \* mutant: pages are given a /Count too
  [n \in Node |-> Counted(kids, n)]
Corrected(c) ==
  [n \in DOMAIN c |-> IF c[n] # Counted(kids, n) THEN Counted(kids, n) ELSE c[n]]

CountPages ==
  /\ total' = Counted(kids, Root)
  /\ count' = Corrected(count)
  /\ kept' = Resolved(kept)

(* readBook opens the document and asks for its page count at once; the      *)
(* decoding service asks again before it opens the page that follows.        *)
Open ==
  /\ ~open
  /\ open' = TRUE
  /\ CountPages
  /\ UNCHANGED <<file, own, answer>>

getPageCount ==
  /\ open
  /\ CountPages
  /\ UNCHANGED <<file, open, own, answer>>

(* pdf_flushxref(xref, 0): an object only the table refers to is forgotten,  *)
(* and read from the file when it is needed again.                           *)
Flushed(mem, disk) == [n \in DOMAIN mem |-> IF n \in kept THEN mem[n] ELSE disk[n]]

(* getpageobject: a subtree that ends before the page is skipped, and what a *)
(* node says of itself is handed down in place of what it inherits.          *)
SkipsLast(seen, cn, no) == seen + cn <= no   \* mutant: the last page's subtree too
Skips(seen, cn, no) == seen + cn < no
TopmostBox(b, inherit) == IF inherit # NoBox THEN inherit ELSE b  \* mutant: the root's wins
Nearer(b, inherit) == IF b # NoBox THEN b ELSE inherit

(* Where a search stands: the pages seen, then the node to look at and what  *)
(* it inherits, or the page found and its box.                               *)
At(seen, n, b) == [seen |-> seen, node |-> n, box |-> b]
Place == [seen : Nat, node : Node, box : Boxes]

(* The kids one after the other, until one has the page.                     *)
FirstIn(g, seen, inherit, s) ==
  FoldLeft(LAMBDA at, k : IF at.node # Nobody THEN at ELSE g[At(at.seen, k, inherit)],
           At(seen, Nobody, NoBox), s)

(* From the root down, with the counts c and the boxes o.                    *)
Found(no, c, o) ==
  LET g[x \in Place] ==
        LET mine == Nearer(o[x.node], x.box) IN
        IF x.node \in Missing THEN At(x.seen, Nobody, NoBox)
        ELSE IF x.node \notin DOMAIN kids
        THEN IF x.seen + 1 = no THEN At(x.seen + 1, x.node, mine)
                                ELSE At(x.seen + 1, Nobody, NoBox)
        ELSE IF Skips(x.seen, c[x.node], no)
        THEN At(x.seen + c[x.node], Nobody, NoBox)
        ELSE FirstIn(g, x.seen, mine, kids[x.node])
  IN  g[At(0, Root, NoBox)]

(* pdf_loadpage throws for a page without a box, with an unfit one, or with  *)
(* contents that cannot be loaded.                                           *)
Loads(n, b) == b \in Box \ Unfit /\ n \notin Spoiled

(* PdfPage_open: the flush, the page with what it inherits written into it,  *)
(* which stays there, and pdf_loadpage, which may throw after that.          *)
PageOpen(no) ==
  /\ open
  /\ LET c == Flushed(count, stated)
         o == Flushed(own, box)
         f == Found(no, c, o)
     IN  /\ count' = c
         /\ own' = IF f.node = Nobody THEN o ELSE [o EXCEPT ![f.node] = f.box]
         /\ answer' = Asked(no, IF Loads(f.node, f.box) THEN f.node ELSE Nobody, f.box)
  /\ kept' = Resolved(kept)
  /\ UNCHANGED <<file, open, total>>

(* pdf_closexref forgets every object.                                       *)
Close ==
  /\ open
  /\ open' = FALSE
  /\ count' = stated /\ own' = box /\ kept' = {}
  /\ total' = 0 /\ answer' = Asked(0, Nobody, NoBox)
  /\ UNCHANGED file

Next ==
  \/ Open \/ getPageCount \/ Close
  \/ \E no \in 1 .. MaxPages : PageOpen(no)

Spec == Init /\ [][Next]_vars
-----------------------------------------------------------------------------
(* PROPERTIES                                                                *)

TypeOK ==
  /\ kids \in Tree /\ stated \in [DOMAIN kids -> Counts] /\ box \in [Node -> Boxes]
  /\ open \in BOOLEAN
  /\ DOMAIN count = DOMAIN kids /\ \A n \in DOMAIN kids : count[n] \in Nat
  /\ own \in [Node -> Boxes]
  /\ kept \subseteq Node /\ total \in Nat
  /\ answer \in [no : 0 .. MaxPages, node : Node \cup {Nobody}, box : Boxes]

(* What the file means, whatever it states: its pages in reading order, and  *)
(* the box of a page, its own or the nearest one above it.                   *)
PagesUnder(t, n) ==
  LET p[m \in Node] ==
        IF m \in Missing THEN <<>>
        ELSE IF m \notin DOMAIN t THEN <<m>>
        ELSE FlattenSeq([i \in DOMAIN t[m] |-> p[t[m][i]]])
  IN  p[n]
PagesOf == PagesUnder(kids, Root)
Above(t, n) == {m \in DOMAIN t : n \in ToSet(t[m])}
Nearest(t, given) ==
  LET b[m \in Node] ==
        IF given[m] # NoBox \/ Above(t, m) = {} THEN given[m]
        ELSE b[CHOOSE a \in Above(t, m) : TRUE]
  IN  b
BoxOf == Nearest(kids, box)

(* A box is inherited from the only node above, and the root has none above. *)
OneParent(t) ==
  /\ \A m, n \in DOMAIN t : ToSet(t[m]) \cap ToSet(t[n]) \subseteq Missing \/ m = n
  /\ \A m \in DOMAIN t : Root \notin ToSet(t[m])

(* The page opened is the page asked for, in reading order, although whole   *)
(* subtrees are skipped by counts the file states wrongly.                   *)
PageIsTheNth ==
  answer.node # Nobody => answer.no <= Len(PagesOf) /\ answer.node = PagesOf[answer.no]

(* Of the pages the count promises exactly those do not open whose own or    *)
(* nearest inherited box is missing or unfit, or whose contents are spoiled. *)
Opens(n) == Loads(n, BoxOf[n])
PromisedPagesOpen ==
  answer.no \in 1 .. total => (answer.node = Nobody <=> ~Opens(PagesOf[answer.no]))

(* The page has its own box or the nearest inherited one, after any other    *)
(* pages were opened and written into.                                       *)
BoxIsNearest == answer.node # Nobody => answer.box = BoxOf[answer.node]

(* While the document is open the counts in memory stay the ones last        *)
(* corrected: no flush brings back what the file states.                     *)
CorrectionsStay == open => \A n \in DOMAIN kids : count[n] = Counted(kids, n)
=============================================================================
