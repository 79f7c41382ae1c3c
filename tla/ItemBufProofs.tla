--------------------------- MODULE ItemBufProofs ---------------------------
(***************************************************************************)
(* Proofs about the no-split and allow-split buffers (ItemBuf), for any    *)
(* size of the storage, any lengths and any number of items.               *)
(*                                                                         *)
(* What HeldIntact and UnreadIntact say of words in the memory the code    *)
(* finds by walking from header to header.  The invariant names the        *)
(* headers: a chain of nodes, in the order they were written, on which the *)
(* three pointers lie.  A send adds nodes to its end, a receive moves the  *)
(* read pointer along it, and a return drops nodes from its front.         *)
(***************************************************************************)
EXTENDS ItemBuf, FiniteSetTheorems, WellFoundedInduction, TLAPS

USE ItemAssumption DEF rbHEADER_SIZE

\* A header in the storage area and what follows it: an item ("whole", or the last
\* part of a split one), the first part of a split item, or a dummy.  item and off
\* say which words of which item it holds; of a dummy, which are to follow it.
Node == [pos : 0 .. (xSize - rbHEADER_SIZE), len : Nat, kind : {"whole", "split", "dummy"},
         item : Nat, off : Nat]
End(x) == x.pos + rbHEADER_SIZE + x.len
PartOf(x) == [ptr |-> x.pos + rbHEADER_SIZE, len |-> x.len, split |-> x.kind = "split",
              item |-> x.item, off |-> x.off]
FlagsOf(x, returned) ==
    IF x.kind = "dummy" THEN {"dummy"}
    ELSE IF returned THEN {"free"}
    ELSE IF x.kind = "split" THEN {"split"} ELSE {}

\* The headers in use are a chain c[b], ..., c[n], numbered in the order they were
\* written; c[n + 1] is where the next one goes.  From number w on they lie in front
\* of the others, the write pointer having passed the tail.
Layout(c, b, n, w) ==
    /\ \A i \in b .. n, j \in b .. (n + 1) :
          i < j /\ (i < w <=> j < w) => End(c[i]) <= c[j].pos /\ c[i].pos + (j - i) <= c[j].pos
    /\ \A i \in b .. n :
          /\ End(c[i]) <= xSize
          /\ c[i + 1].pos = IF c[i].kind = "dummy" THEN 0 ELSE WrapPtr(End(c[i]))
          /\ c[i].kind # "whole" => i + 1 = w /\ i < n
          /\ c[i].kind = "dummy" => c[i].len = 0
    /\ w <= n + 1 => c[n + 1].pos <= c[b].pos

\* m is a storage area, word by word.
IsMemory(m) == m = [y \in Cells |-> m[y]]

\* The memory m holds the header and the data of x.
Stored(m, x, returned) ==
    /\ m[x.pos] = LenWord(x.len)
    /\ m[x.pos + 1] = FlagsWord(FlagsOf(x, returned))
    /\ x.kind # "dummy" =>
          \A k \in 0 .. (x.len - 1) : m[x.pos + rbHEADER_SIZE + k] = DataWord(x.item, x.off + k)

\* It holds the chain, of which the parts H before number r are with the application
\* and the others before r were returned.
Contents(c, b, r, n, m, H) ==
    /\ \A i \in b .. n : Stored(m, c[i], i < r /\ PartOf(c[i]) \notin H)
    /\ \A h \in H : \E i \in b .. (r - 1) : c[i].kind # "dummy" /\ h = PartOf(c[i])

\* The item and offset that follow x.
DueRec(x) == [item |-> x.item, off |-> x.off]
Following(x) ==
    IF x.kind = "dummy" THEN DueRec(x)
    ELSE IF x.kind = "split" THEN [item |-> x.item, off |-> x.off + x.len]
    ELSE [item |-> x.item + 1, off |-> 0]

\* The parts are those of the items sent, whose lengths are S, in order.
InOrder(c, b, n, S) ==
    /\ \A i \in b .. n :
          /\ c[i].item \in 1 .. Len(S)
          /\ DueRec(c[i + 1]) = Following(c[i])
          /\ c[i].kind = "whole" => c[i].off + c[i].len = S[c[i].item]
    /\ c[n + 1].item = Len(S) + 1 /\ c[n + 1].off = 0

\* How many parts there are from number r on: a dummy is none.
DummyAhead(c, r, n, w) == w <= n + 1 /\ r < w /\ c[w - 1].kind = "dummy"
PartsFrom(c, r, n, w) == n + 1 - r - (IF DummyAhead(c, r, n, w) THEN 1 ELSE 0)

\* The chain as the buffer has it: the free pointer is at number a, the read pointer
\* at r.  Once a full buffer was read to its end, the first return finds all three
\* together and takes it for empty: then nothing is in use although the other parts,
\* from b on, are still there and held (ringbuf.c:457).
Bounds(c, b, a, r, n, w) ==
    /\ c \in [Nat -> Node]
    /\ b \in Nat /\ a \in Nat /\ r \in Nat /\ n \in Nat /\ w \in Nat
    /\ b <= a /\ a <= r /\ r <= n + 1 /\ b < w
Pointers(c, a, r, n, w) ==
    /\ pucFree = c[a].pos /\ pucRead = c[r].pos /\ pucWrite = c[n + 1].pos
    /\ due = DueRec(c[r])
    /\ xItemsWaiting = PartsFrom(c, r, n, w)
    /\ full <=> a <= n /\ pucWrite = pucFree
Chain(c, b, a, r, n, w) ==
    /\ Bounds(c, b, a, r, n, w)
    /\ Layout(c, b, n, w)
    /\ Contents(c, b, r, n, mem, held)
    /\ InOrder(c, b, n, sizes)
    /\ Pointers(c, a, r, n, w)
    /\ b = a \/ (a = n + 1 /\ use = "batch" /\ held # {})
    /\ a < r => held # {}

ItemTypes ==
    /\ AllowSplit \in BOOLEAN /\ use \in {"one", "batch"}
    /\ full \in BOOLEAN
    /\ IsMemory(mem)
    /\ sizes \in Seq(Nat)
    /\ use = "one" => held = {} \/ \E h : held = {h}

\* The inductive invariant.
IInv == ItemTypes /\ \E c, b, a, r, n, w : Chain(c, b, a, r, n, w)

\* The applications it holds for: while several parts are held nothing is sent.
SendsBetweenBatches == Uses \subseteq {"one", "batch"}

----------------------------------------------------------------------------
(* Nodes. *)

\* The fields of the nodes of a chain.
LEMMA NodeTypes ==
  ASSUME NEW c \in [Nat -> Node], NEW i \in Nat
  PROVE  /\ c[i] \in Node
         /\ c[i].pos \in Nat /\ c[i].pos <= xSize - 2 /\ c[i].len \in Nat
         /\ c[i].item \in Nat /\ c[i].off \in Nat
         /\ c[i].kind \in {"whole", "split", "dummy"}
         /\ End(c[i]) = c[i].pos + 2 + c[i].len
<1>1. c[i] \in Node
  OBVIOUS
<1> QED BY <1>1 DEF Node, End

----------------------------------------------------------------------------
(* Memory. *)

\* m2 is m with a header and data at p (ringbuf.c:222, :274).
PutNode(m, p, len, flags, item, off, m2) ==
    m2 = PutData(PutHeader(m, p, len, flags), p + rbHEADER_SIZE, item, off, len)

\* The header and the data are there and nothing else is written.
NodeWritten(m, p, len, flags, item, off, m2) ==
    /\ IsMemory(m2)
    /\ m2[p] = LenWord(len) /\ m2[p + 1] = FlagsWord(flags)
    /\ \A k \in 0 .. (len - 1) : m2[p + rbHEADER_SIZE + k] = DataWord(item, off + k)
    /\ \A y \in Cells : y < p \/ y >= p + rbHEADER_SIZE + len => m2[y] = m[y]

\* Writing a header and the data behind it writes these words and no others.
LEMMA Written ==
  ASSUME NEW m, IsMemory(m), NEW p \in Nat, NEW len \in Nat,
         p + rbHEADER_SIZE + len <= xSize, NEW item \in Nat, NEW off \in Nat, NEW flags,
         NEW m2, PutNode(m, p, len, flags, item, off, m2)
  PROVE  NodeWritten(m, p, len, flags, item, off, m2)
<1> DEFINE m1 == PutHeader(m, p, len, flags)
<1>1. p \in Cells /\ p + 1 \in Cells
  BY DEF Cells
<1>2. m1 = [y \in Cells |-> IF y = p + 1 THEN FlagsWord(flags) ELSE IF y = p THEN LenWord(len) ELSE m[y]]
  <2>1. [m EXCEPT ![p] = LenWord(len)] = [y \in Cells |-> IF y = p THEN LenWord(len) ELSE m[y]]
    BY DEF IsMemory
  <2> QED BY <2>1 DEF PutHeader
<1> HIDE DEF m1
<1>3. m2 = [y \in Cells |-> IF p + 2 <= y /\ y < p + 2 + len THEN DataWord(item, off + y - (p + 2)) ELSE m1[y]]
  BY DEF PutData, PutNode, m1
<1>4. IsMemory(m2)
  BY <1>3 DEF IsMemory
<1>5. m2[p] = LenWord(len) /\ m2[p + 1] = FlagsWord(flags)
  BY <1>1, <1>2, <1>3
<1>6. ASSUME NEW k \in 0 .. (len - 1)
      PROVE  m2[p + 2 + k] = DataWord(item, off + k)
  <2>1. p + 2 + k \in Cells /\ off + (p + 2 + k) - (p + 2) = off + k
    BY DEF Cells
  <2>2. m2[p + 2 + k] = DataWord(item, off + (p + 2 + k) - (p + 2))
    BY <1>3, <2>1
  <2> QED BY <2>1, <2>2
<1>7. ASSUME NEW y \in Cells, y < p \/ y >= p + 2 + len
      PROVE  m2[y] = m[y]
  <2>1. m2[y] = m1[y]
    BY <1>3, <1>7 DEF Cells
  <2>2. m1[y] = m[y]
    BY <1>2, <1>7 DEF Cells
  <2> QED BY <2>1, <2>2
<1> QED BY <1>4, <1>5, <1>6, <1>7 DEF NodeWritten

\* Who writes elsewhere leaves a node as it was.
LEMMA StoredFrame ==
  ASSUME NEW x \in Node, NEW m, NEW m2, NEW returned, Stored(m, x, returned),
         \A y \in x.pos .. (End(x) - 1) : m2[y] = m[y]
  PROVE  Stored(m2, x, returned)
<1>1. x.pos \in Nat /\ x.len \in Nat /\ End(x) = x.pos + 2 + x.len
  BY DEF Node, End
<1>2. m2[x.pos] = m[x.pos] /\ m2[x.pos + 1] = m[x.pos + 1]
  BY <1>1
<1>3. ASSUME NEW k \in 0 .. (x.len - 1) PROVE m2[x.pos + 2 + k] = m[x.pos + 2 + k]
  BY <1>1
<1> QED BY <1>2, <1>3 DEF Stored

----------------------------------------------------------------------------
(* The layout. *)

\* Nodes of the chain do not overlap, and the pointers pass over one after another.
LEMMA Apart ==
  ASSUME NEW c \in [Nat -> Node], NEW b \in Nat, NEW n \in Nat, NEW w \in Nat, b < w,
         Layout(c, b, n, w), NEW i \in b .. n, NEW j \in b .. n, i # j
  PROVE  End(c[i]) <= c[j].pos \/ End(c[j]) <= c[i].pos
<1>1. \A t \in b .. (n + 1) : c[t] \in Node /\ c[t].pos \in Nat /\ c[t].len \in Nat
  BY NodeTypes
<1>2. ASSUME NEW s \in b .. n, NEW t \in b .. n, s < w, ~(t < w)
      PROVE  End(c[t]) <= c[s].pos
  <2>1. End(c[t]) <= c[n + 1].pos
    BY <1>2 DEF Layout
  <2>2. c[n + 1].pos <= c[b].pos
    BY <1>2 DEF Layout
  <2>3. c[b].pos <= c[s].pos
    <3>1. CASE s = b
      BY <1>1, <3>1
    <3>2. CASE b < s
      <4>1. End(c[b]) <= c[s].pos
        BY <1>2, <3>2 DEF Layout
      <4> QED BY <1>1, <4>1 DEF End
    <3> QED BY <3>1, <3>2
  <2> QED BY <1>1, <2>1, <2>2, <2>3 DEF End
<1>3. CASE i < w <=> j < w
  BY <1>3 DEF Layout
<1> QED BY <1>2, <1>3

\* Two positions of the chain are one only after a full round.
LEMMA SamePlace ==
  ASSUME NEW c \in [Nat -> Node], NEW b \in Nat, NEW n \in Nat, NEW w \in Nat, b < w,
         Layout(c, b, n, w), NEW i \in b .. n, NEW j \in b .. (n + 1), i < j,
         c[i].pos = c[j].pos
  PROVE  i = b /\ j = n + 1 /\ w <= n + 1
<1>1. \A t \in b .. (n + 1) : c[t] \in Node /\ c[t].pos \in Nat /\ c[t].len \in Nat
  BY NodeTypes
<1>2. i < w /\ ~(j < w)
  <2>1. SUFFICES ASSUME i < w <=> j < w PROVE FALSE
    OBVIOUS
  <2>2. End(c[i]) <= c[j].pos
    BY <2>1 DEF Layout
  <2> QED BY <1>1, <2>2 DEF End
<1>3. c[n + 1].pos <= c[b].pos
  BY <1>2 DEF Layout
<1>4. j = n + 1
  <2>1. SUFFICES ASSUME j \in b .. n PROVE FALSE
    OBVIOUS
  <2> QED BY <1>1, <2>1, Apart DEF End
<1>5. i = b
  <2>1. SUFFICES ASSUME b < i PROVE FALSE
    OBVIOUS
  <2>2. End(c[b]) <= c[i].pos
    BY <1>2, <2>1 DEF Layout
  <2> QED BY <1>1, <1>3, <1>4, <2>2 DEF End
<1> QED BY <1>2, <1>4, <1>5

\* Where the nodes in front of the others start, in the chain from number b on: with
\* the last node before the tail gone there are no such nodes any more.
Lap(b, n, w) == IF b < w THEN w ELSE n + 2

\* The chain without its first nodes, which were returned, is a chain.
LEMMA LayoutFrom ==
  ASSUME NEW c \in [Nat -> Node], NEW b \in Nat, NEW n \in Nat, NEW w \in Nat, b < w,
         Layout(c, b, n, w), NEW b2 \in b .. (n + 1)
  PROVE  Layout(c, b2, n, Lap(b2, n, w))
<1>1. CASE ~(b2 < w)
  <2>1. Lap(b2, n, w) = n + 2
    BY <1>1 DEF Lap
  <2>2. ASSUME NEW i \in b2 .. n, NEW j \in b2 .. (n + 1), i < j
        PROVE  End(c[i]) <= c[j].pos /\ c[i].pos + (j - i) <= c[j].pos
    BY <1>1, <2>2 DEF Layout
  <2>3. ASSUME NEW i \in b2 .. n
        PROVE  /\ End(c[i]) <= xSize
               /\ c[i + 1].pos = IF c[i].kind = "dummy" THEN 0 ELSE WrapPtr(End(c[i]))
               /\ c[i].kind = "whole"
    BY <1>1 DEF Layout
  <2> QED BY <2>1, <2>2, <2>3 DEF Layout
<1>2. CASE b2 < w
  <2>1. ASSUME w <= n + 1 PROVE c[n + 1].pos <= c[b2].pos
    <3>1. CASE b2 = b
      BY <2>1, <3>1 DEF Layout
    <3>2. CASE b < b2
      <4>1. c[b].pos + (b2 - b) <= c[b2].pos
        BY <1>2, <2>1, <3>2 DEF Layout
      <4>2. c[n + 1].pos <= c[b].pos
        BY <2>1 DEF Layout
      <4>3. c[b].pos \in Nat /\ c[b2].pos \in Nat /\ c[n + 1].pos \in Nat
        BY NodeTypes
      <4> QED BY <4>1, <4>2, <4>3
    <3> QED BY <3>1, <3>2
  <2>2. Lap(b2, n, w) = w
    BY <1>2 DEF Lap
  <2>3. ASSUME NEW i \in b2 .. n
        PROVE  i \in b .. n
    OBVIOUS
  <2>4. ASSUME NEW j \in b2 .. (n + 1)
        PROVE  j \in b .. (n + 1)
    OBVIOUS
  <2> QED BY <2>1, <2>2, <2>3, <2>4 DEF Layout
<1> QED BY <1>1, <1>2

\* Where the nodes at the head start, if there is one more behind the others.
NextLap(c2, n, w) == IF w <= n + 1 THEN w ELSE IF c2[n + 2].pos = 0 THEN n + 2 ELSE n + 3

\* c2 is the chain c with one more node, of length len.
WithNode(c, b, n, len, c2) ==
    /\ \A i \in b .. n : c2[i] = c[i]
    /\ c2[n + 1].pos = c[n + 1].pos /\ c2[n + 1].len = len /\ c2[n + 1].kind = "whole"
    /\ c2[n + 2].pos = WrapPtr(c[n + 1].pos + rbHEADER_SIZE + len)

\* One more node, with room for it before the tail and before the first one
\* (ringbuf.c:222-234).
LEMMA LayoutAppend ==
  ASSUME NEW c \in [Nat -> Node], NEW b \in Nat, NEW n \in Nat, NEW w \in Nat,
         b <= n + 1, b < w, Layout(c, b, n, w), NEW len \in Nat,
         c[n + 1].pos + rbHEADER_SIZE + len <= xSize,
         w <= n + 1 => c[n + 1].pos + rbHEADER_SIZE + len <= c[b].pos,
         NEW c2 \in [Nat -> Node], WithNode(c, b, n, len, c2),
         NEW w2, w2 = NextLap(c2, n, w)
  PROVE  w2 \in Nat /\ b < w2 /\ Layout(c2, b, n + 1, w2)
<1> DEFINE p == c[n + 1].pos
           q == c2[n + 2].pos
<1>0. /\ \A i \in b .. n : c2[i] = c[i]
      /\ c2[n + 1].pos = c[n + 1].pos /\ c2[n + 1].len = len /\ c2[n + 1].kind = "whole"
      /\ c2[n + 2].pos = WrapPtr(c[n + 1].pos + 2 + len)
  BY DEF WithNode
<1> USE <1>0 DEF NextLap
<1>1. w2 \in Nat /\ b < w2
  OBVIOUS
<1>2. \A t \in Nat : /\ c[t].pos \in Nat /\ c[t].pos <= xSize - 2 /\ c[t].len \in Nat
                     /\ End(c[t]) = c[t].pos + 2 + c[t].len
  BY NodeTypes
<1>3. \A t \in Nat : /\ c2[t].pos \in Nat /\ c2[t].pos <= xSize - 2 /\ c2[t].len \in Nat
                     /\ End(c2[t]) = c2[t].pos + 2 + c2[t].len
  BY NodeTypes
<1>4. \A i \in b .. (n + 1) : c2[i].pos = c[i].pos
  OBVIOUS
<1>5. \A i \in b .. n : End(c2[i]) = End(c[i])
  OBVIOUS
<1>6. End(c2[n + 1]) = p + 2 + len
  BY <1>3
<1>7. q = 0 \/ q = p + 2 + len
  BY DEF WrapPtr
<1>8. w <= n + 1 => q = p + 2 + len
  BY <1>2, <1>7 DEF WrapPtr
<1> DEFINE Far(i, j) == End(c2[i]) <= c2[j].pos /\ c2[i].pos + (j - i) <= c2[j].pos
<1>9. ASSUME NEW i \in b .. (n + 1), NEW j \in b .. (n + 2), i < j, i < w2 <=> j < w2
      PROVE  Far(i, j)
  <2>1. CASE j <= n + 1
    <3>1. i < w <=> j < w
      BY <1>9, <2>1
    <3>2. End(c[i]) <= c[j].pos /\ c[i].pos + (j - i) <= c[j].pos
      BY <1>9, <2>1, <3>1 DEF Layout
    <3> QED BY <1>4, <1>5, <1>9, <2>1, <3>2
  <2>2. CASE j = n + 2 /\ i = n + 1
    <3>1. q = p + 2 + len
      BY <1>7, <1>8, <1>9, <2>2
    <3> QED BY <1>2, <1>4, <1>6, <2>2, <3>1
  <2>3. CASE j = n + 2 /\ i <= n
    <3>1. q = p + 2 + len
      BY <1>7, <1>8, <1>9, <2>3
    <3>2. i < w <=> n + 1 < w
      BY <1>9, <2>3
    <3>3. End(c[i]) <= p /\ c[i].pos + (n + 1 - i) <= p
      BY <2>3, <3>2 DEF Layout
    <3> QED BY <1>2, <1>4, <1>5, <2>3, <3>1, <3>3
  <2> QED BY <1>9, <2>1, <2>2, <2>3
<1>10. ASSUME NEW i \in b .. (n + 1)
       PROVE  /\ End(c2[i]) <= xSize
              /\ c2[i + 1].pos = IF c2[i].kind = "dummy" THEN 0 ELSE WrapPtr(End(c2[i]))
              /\ c2[i].kind # "whole" => i + 1 = w2 /\ i < n + 1
              /\ c2[i].kind = "dummy" => c2[i].len = 0
  <2>1. CASE i = n + 1
    BY <1>6, <2>1
  <2>2. CASE i <= n
    <3>1. /\ End(c[i]) <= xSize
          /\ c[i + 1].pos = IF c[i].kind = "dummy" THEN 0 ELSE WrapPtr(End(c[i]))
          /\ c[i].kind # "whole" => i + 1 = w /\ i < n
          /\ c[i].kind = "dummy" => c[i].len = 0
      BY <2>2 DEF Layout
    <3>2. c2[i] = c[i] /\ c2[i + 1].pos = c[i + 1].pos
      BY <1>4, <2>2
    <3> QED BY <2>2, <3>1, <3>2
  <2> QED BY <2>1, <2>2
<1>11. w2 <= n + 2 => q <= c2[b].pos
  BY <1>2, <1>4, <1>8
<1> HIDE DEF Far
<1> QED BY <1>1, <1>9, <1>10, <1>11 DEF Layout, Far

\* c2 is the chain c with two more nodes, of lengths first and rest, the second at the
\* head.
WithTwoNodes(c, b, n, first, rest, c2) ==
    /\ \A i \in b .. n : c2[i] = c[i]
    /\ c2[n + 1].pos = c[n + 1].pos /\ c2[n + 1].len = first
    /\ \/ c2[n + 1].kind = "dummy" /\ first = 0
       \/ c2[n + 1].kind = "split" /\ c[n + 1].pos + rbHEADER_SIZE + first = xSize
    /\ c2[n + 2].pos = 0 /\ c2[n + 2].len = rest /\ c2[n + 2].kind = "whole"
    /\ c2[n + 3].pos = WrapPtr(rbHEADER_SIZE + rest)

\* Two more nodes: what is left up to the tail, and the item from the head on, with
\* room before the first one (ringbuf.c:215, :252).
LEMMA LayoutWrap ==
  ASSUME NEW c \in [Nat -> Node], NEW b \in Nat, NEW n \in Nat, NEW w \in Nat,
         b <= n + 1, b < w, Layout(c, b, n, w), n + 1 < w, NEW first \in Nat, NEW rest \in Nat,
         c[n + 1].pos + rbHEADER_SIZE + first <= xSize, rbHEADER_SIZE + rest <= c[b].pos,
         NEW c2 \in [Nat -> Node], WithTwoNodes(c, b, n, first, rest, c2)
  PROVE  Layout(c2, b, n + 2, n + 2)
<1>0. /\ \A i \in b .. n : c2[i] = c[i]
      /\ c2[n + 1].pos = c[n + 1].pos /\ c2[n + 1].len = first
      /\ \/ c2[n + 1].kind = "dummy" /\ first = 0
         \/ c2[n + 1].kind = "split" /\ c[n + 1].pos + 2 + first = xSize
      /\ c2[n + 2].pos = 0 /\ c2[n + 2].len = rest /\ c2[n + 2].kind = "whole"
      /\ c2[n + 3].pos = 2 + rest
  <2>1. c[b].pos \in Nat /\ c[b].pos <= xSize - 2
    BY NodeTypes
  <2>2. WrapPtr(2 + rest) = 2 + rest
    BY <2>1 DEF WrapPtr
  <2> QED BY <2>2 DEF WithTwoNodes
<1> USE <1>0
<1>1. \A t \in Nat : /\ c[t].pos \in Nat /\ c[t].pos <= xSize - 2 /\ c[t].len \in Nat
                     /\ End(c[t]) = c[t].pos + 2 + c[t].len
  BY NodeTypes
<1>2. \A t \in Nat : /\ c2[t].pos \in Nat /\ c2[t].pos <= xSize - 2 /\ c2[t].len \in Nat
                     /\ End(c2[t]) = c2[t].pos + 2 + c2[t].len
  BY NodeTypes
<1>3. \A i \in b .. (n + 1) : c2[i].pos = c[i].pos
  OBVIOUS
<1>4. \A i \in b .. n : End(c2[i]) = End(c[i])
  OBVIOUS
<1>5. WrapPtr(End(c2[n + 1])) = 0 \/ c2[n + 1].kind = "dummy"
  BY <1>2 DEF WrapPtr
<1>6. End(c2[n + 1]) <= xSize
  BY <1>2
<1>7. End(c2[n + 2]) = 2 + rest /\ WrapPtr(2 + rest) = 2 + rest
  BY <1>1, <1>2 DEF WrapPtr
<1> DEFINE Far(i, j) == End(c2[i]) <= c2[j].pos /\ c2[i].pos + (j - i) <= c2[j].pos
<1>8. ASSUME NEW i \in b .. (n + 2), NEW j \in b .. (n + 3), i < j, i < n + 2 <=> j < n + 2
      PROVE  Far(i, j)
  <2>1. CASE j <= n + 1
    <3>1. End(c[i]) <= c[j].pos /\ c[i].pos + (j - i) <= c[j].pos
      BY <1>8, <2>1 DEF Layout
    <3> QED BY <1>3, <1>4, <1>8, <2>1, <3>1
  <2>2. CASE ~(j <= n + 1)
    <3>1. i = n + 2 /\ j = n + 3
      BY <1>8, <2>2
    <3> QED BY <1>7, <3>1
  <2> QED BY <2>1, <2>2
<1>9. ASSUME NEW i \in b .. (n + 2)
      PROVE  /\ End(c2[i]) <= xSize
             /\ c2[i + 1].pos = IF c2[i].kind = "dummy" THEN 0 ELSE WrapPtr(End(c2[i]))
             /\ c2[i].kind # "whole" => i + 1 = n + 2 /\ i < n + 2
             /\ c2[i].kind = "dummy" => c2[i].len = 0
  <2>1. CASE i = n + 1
    BY <1>5, <1>6, <2>1
  <2>2. CASE i = n + 2
    <3>1. 2 + rest <= xSize
      BY <1>1
    <3> QED BY <1>7, <2>2, <3>1
  <2>3. CASE i <= n
    <3>1. /\ End(c[i]) <= xSize
          /\ c[i + 1].pos = IF c[i].kind = "dummy" THEN 0 ELSE WrapPtr(End(c[i]))
          /\ c[i].kind # "whole" => i + 1 = w /\ i < n
          /\ c[i].kind = "dummy" => c[i].len = 0
      BY <2>3 DEF Layout
    <3>2. c2[i] = c[i] /\ c2[i + 1].pos = c[i + 1].pos
      BY <1>3, <2>3
    <3> QED BY <2>3, <3>1, <3>2
  <2> QED BY <2>1, <2>2, <2>3
<1>10. c2[n + 3].pos <= c2[b].pos
  BY <1>3
<1> HIDE DEF Far
<1> QED BY <1>8, <1>9, <1>10 DEF Layout, Far

\* Before the write pointer passed the tail it is behind the first node.
LEMMA LayoutTail ==
  ASSUME NEW c \in [Nat -> Node], NEW b \in Nat, NEW n \in Nat, NEW w \in Nat, b <= n + 1,
         b < w, Layout(c, b, n, w), n + 1 < w
  PROVE  c[b].pos <= c[n + 1].pos
<1>1. c[b].pos \in Nat /\ c[n + 1].pos \in Nat
  BY NodeTypes
<1>2. CASE b = n + 1
  BY <1>1, <1>2
<1>3. CASE b # n + 1
  <2>1. c[b].pos + (n + 1 - b) <= c[n + 1].pos
    BY <1>3 DEF Layout
  <2> QED BY <1>1, <1>3, <2>1
<1> QED BY <1>2, <1>3

\* Nothing of the chain lies where the next nodes go.
LEMMA Room ==
  ASSUME NEW c \in [Nat -> Node], NEW b \in Nat, NEW n \in Nat, NEW w \in Nat, b < w,
         Layout(c, b, n, w), NEW i \in b .. n
  PROVE  /\ n + 1 < w => End(c[i]) <= c[n + 1].pos /\ c[b].pos <= c[i].pos
         /\ w <= n + 1 => End(c[i]) <= c[n + 1].pos \/ c[b].pos <= c[i].pos
<1>1. c[b].pos \in Nat /\ c[i].pos \in Nat
  BY NodeTypes
<1>2. i < w => c[b].pos <= c[i].pos
  <2>1. CASE i = b
    BY <1>1, <2>1
  <2>2. CASE b < i
    <3>1. i < w => c[b].pos + (i - b) <= c[i].pos
      BY <2>2 DEF Layout
    <3> QED BY <1>1, <2>2, <3>1
  <2> QED BY <2>1, <2>2
<1>3. (i < w <=> n + 1 < w) => End(c[i]) <= c[n + 1].pos
  BY DEF Layout
<1> QED BY <1>2, <1>3

\* The memory m2 has the nodes of c as m has them, and those of c2 after number n.
Stores(c, b, n, m, c2, n2, m2) ==
    /\ \A i \in b .. n : c2[i] = c[i]
    /\ \A i \in b .. n : \A y \in c[i].pos .. (End(c[i]) - 1) : m2[y] = m[y]
    /\ \A i \in (n + 1) .. n2 : Stored(m2, c2[i], FALSE)

\* New nodes, stored where the others are not, and not yet read.
LEMMA ContentsAppend ==
  ASSUME NEW c \in [Nat -> Node], NEW b \in Nat, NEW r \in Nat, NEW n \in Nat, NEW m, NEW H,
         r <= n + 1, Contents(c, b, r, n, m, H),
         NEW c2 \in [Nat -> Node], NEW n2 \in Nat, n <= n2, NEW m2,
         Stores(c, b, n, m, c2, n2, m2)
  PROVE  Contents(c2, b, r, n2, m2, H)
<1> USE DEF Stores
<1>1. ASSUME NEW i \in b .. n2
      PROVE  Stored(m2, c2[i], i < r /\ PartOf(c2[i]) \notin H)
  <2>1. CASE i <= n
    <3>1. i \in b .. n /\ c2[i] = c[i] /\ c[i] \in Node
      BY <2>1
    <3>2. Stored(m, c[i], i < r /\ PartOf(c[i]) \notin H)
      BY <3>1 DEF Contents
    <3>3. \A y \in c[i].pos .. (End(c[i]) - 1) : m2[y] = m[y]
      BY <3>1
    <3>4. Stored(m2, c[i], i < r /\ PartOf(c[i]) \notin H)
      BY <3>1, <3>2, <3>3, StoredFrame
    <3> QED BY <3>1, <3>4
  <2>2. CASE ~(i <= n)
    <3>1. Stored(m2, c2[i], FALSE)
      <4>1. i \in (n + 1) .. n2
        BY <2>2
      <4> QED BY <4>1
    <3>2. ~(i < r)
      BY <2>2
    <3> QED BY <3>1, <3>2 DEF Stored, FlagsOf
  <2> QED BY <2>1, <2>2
<1>2. ASSUME NEW h \in H
      PROVE  \E i \in b .. (r - 1) : c2[i].kind # "dummy" /\ h = PartOf(c2[i])
  <2>1. PICK i \in b .. (r - 1) : c[i].kind # "dummy" /\ h = PartOf(c[i])
    BY DEF Contents
  <2>2. c2[i] = c[i]
    OBVIOUS
  <2> QED BY <2>1, <2>2
<1> QED BY <1>1, <1>2 DEF Contents

\* One more item, in one or two nodes.
LEMMA InOrderAppend ==
  ASSUME NEW c \in [Nat -> Node], NEW b \in Nat, NEW n \in Nat, NEW S \in Seq(Nat),
         b <= n + 1, InOrder(c, b, n, S), NEW k \in Nat,
         NEW c2 \in [Nat -> Node], \A i \in b .. n : c2[i] = c[i],
         c2[n + 1].item = Len(S) + 1, c2[n + 1].off = 0,
         NEW n2 \in {n + 1, n + 2},
         n2 = n + 1 => c2[n + 1].kind = "whole" /\ c2[n + 1].len = k,
         n2 = n + 2 =>
            /\ c2[n + 1].kind \in {"split", "dummy"}
            /\ c2[n + 1].kind = "dummy" => c2[n + 1].len = 0
            /\ c2[n + 2].item = Len(S) + 1 /\ c2[n + 2].off = c2[n + 1].len
            /\ c2[n + 2].kind = "whole" /\ c2[n + 2].off + c2[n + 2].len = k,
         c2[n2 + 1].item = Len(S) + 2, c2[n2 + 1].off = 0
  PROVE  InOrder(c2, b, n2, Append(S, k))
<1> DEFINE S2 == Append(S, k)
<1>1. /\ Len(S2) = Len(S) + 1 /\ Len(S) \in Nat
      /\ S2[Len(S) + 1] = k /\ \A x \in 1 .. Len(S) : S2[x] = S[x]
  OBVIOUS
<1> HIDE DEF S2
<1>2. c[n + 1].item = Len(S) + 1 /\ c[n + 1].off = 0
  BY DEF InOrder
<1>3. ASSUME NEW i \in b .. n
      PROVE  /\ c2[i].item \in 1 .. Len(S2)
             /\ DueRec(c2[i + 1]) = Following(c2[i])
             /\ c2[i].kind = "whole" => c2[i].off + c2[i].len = S2[c2[i].item]
  <2>1. /\ c[i].item \in 1 .. Len(S)
        /\ DueRec(c[i + 1]) = Following(c[i])
        /\ c[i].kind = "whole" => c[i].off + c[i].len = S[c[i].item]
    BY DEF InOrder
  <2>2. c2[i] = c[i]
    OBVIOUS
  <2>3. DueRec(c2[i + 1]) = DueRec(c[i + 1])
    <3>1. CASE i = n
      BY <1>2, <3>1 DEF DueRec
    <3>2. CASE i < n
      BY <3>2
    <3> QED BY <3>1, <3>2
  <2> QED BY SMTT(30), <1>1, <2>1, <2>2, <2>3
<1>4. ASSUME NEW i \in (n + 1) .. n2
      PROVE  /\ c2[i].item \in 1 .. Len(S2)
             /\ DueRec(c2[i + 1]) = Following(c2[i])
             /\ c2[i].kind = "whole" => c2[i].off + c2[i].len = S2[c2[i].item]
  <2>1. CASE n2 = n + 1
    <3>1. i = n + 1 /\ i + 1 = n2 + 1
      BY <2>1
    <3> QED BY <1>1, <2>1, <3>1 DEF DueRec, Following
  <2>2. CASE n2 = n + 2 /\ i = n + 1
    <3>1. 0 + c2[n + 1].len = c2[n + 1].len
      <4>1. \A t \in Nat : c2[t].len \in Nat
        BY NodeTypes
      <4> QED BY <4>1
    <3>2. DueRec(c2[n + 2]) = Following(c2[n + 1])
      BY <2>2, <3>1 DEF DueRec, Following
    <3>3. i + 1 = n + 2
      BY <2>2
    <3> QED BY <1>1, <2>2, <3>2, <3>3
  <2>3. CASE n2 = n + 2 /\ i = n + 2
    <3>1. i + 1 = n2 + 1
      BY <2>3
    <3> QED BY <1>1, <2>3, <3>1 DEF DueRec, Following
  <2> QED BY <2>1, <2>2, <2>3
<1>5. ASSUME NEW i \in b .. n2
      PROVE  i \in b .. n \/ i \in (n + 1) .. n2
  OBVIOUS
<1>6. c2[n2 + 1].item = Len(S2) + 1
  BY <1>1
<1> QED BY <1>3, <1>4, <1>5, <1>6 DEF InOrder, S2

----------------------------------------------------------------------------
(* Reading. *)

\* The part a read at number s returns is the next one: number s, or the one at the
\* head when s is a dummy.
Taken(c, s) == IF c[s].kind = "dummy" THEN s + 1 ELSE s

\* There is one if the count says so.
LEMMA PartTaken ==
  ASSUME NEW c \in [Nat -> Node], NEW b \in Nat, NEW n \in Nat, NEW w \in Nat, b < w,
         Layout(c, b, n, w), NEW s \in b .. (n + 1), PartsFrom(c, s, n, w) > 0,
         NEW t, t = Taken(c, s)
  PROVE  /\ s <= n /\ t \in s .. n /\ c[t].kind # "dummy"
         /\ PartsFrom(c, t + 1, n, w) = PartsFrom(c, s, n, w) - 1
         /\ c[s].kind = "dummy" => c[t].kind = "whole" /\ c[t].pos = 0 /\ s + 1 = w
         /\ c[t].kind = "split" => t + 1 <= n /\ PartsFrom(c, t + 1, n, w) > 0
<1>1. s <= n
  BY DEF PartsFrom
<1>2. \A i \in b .. n :
          /\ c[i + 1].pos = IF c[i].kind = "dummy" THEN 0 ELSE WrapPtr(End(c[i]))
          /\ c[i].kind # "whole" => i + 1 = w /\ i < n
  BY DEF Layout
<1>3. CASE c[s].kind = "dummy"
  <2>1. t = s + 1 /\ s + 1 = w /\ s < n /\ c[s + 1].pos = 0
    BY <1>1, <1>2, <1>3 DEF Taken
  <2>2. c[t].kind = "whole"
    BY <1>2, <2>1
  <2>3. DummyAhead(c, s, n, w) /\ ~DummyAhead(c, t + 1, n, w)
    <3>1. w - 1 = s
      BY <2>1
    <3> QED BY <1>3, <2>1, <3>1 DEF DummyAhead
  <2> QED BY <2>1, <2>2, <2>3 DEF PartsFrom
<1>4. CASE c[s].kind # "dummy"
  <2>1. t = s
    BY <1>4 DEF Taken
  <2>2. DummyAhead(c, s, n, w) <=> DummyAhead(c, s + 1, n, w)
    <3>1. s < w /\ ~(s + 1 < w) => w - 1 = s
      OBVIOUS
    <3> QED BY <1>4, <3>1 DEF DummyAhead
  <2>3. PartsFrom(c, s + 1, n, w) = PartsFrom(c, s, n, w) - 1
    BY <2>2 DEF PartsFrom
  <2>4. ASSUME c[s].kind = "split" PROVE s + 1 <= n /\ PartsFrom(c, s + 1, n, w) > 0
    <3>1. s + 1 = w /\ s < n
      BY <1>1, <1>2, <2>4
    <3>2. ~DummyAhead(c, s + 1, n, w)
      BY <3>1 DEF DummyAhead
    <3> QED BY <3>1, <3>2 DEF PartsFrom
  <2> QED BY <1>1, <1>4, <2>1, <2>3, <2>4
<1> QED BY <1>3, <1>4

\* What prvGetItemDefault finds there (ringbuf.c:348-370).
LEMMA PartRead ==
  ASSUME NEW c \in [Nat -> Node], NEW b \in Nat, NEW n \in Nat, NEW w \in Nat, b < w,
         Layout(c, b, n, w), NEW r \in Nat, NEW H, Contents(c, b, r, n, mem, H),
         InOrder(c, b, n, sizes),
         NEW s \in b .. (n + 1), r <= s, PartsFrom(c, s, n, w) > 0, NEW t, t = Taken(c, s),
         NEW g, g = GetAt(c[s].pos), NEW d, d = DueRec(c[s])
  PROVE  /\ g.item = c[t].pos + rbHEADER_SIZE /\ g.len = c[t].len
         /\ g.split = (c[t].kind = "split") /\ g.read = c[t + 1].pos
         /\ d = DueRec(c[t]) /\ DueAfter(g, d) = DueRec(c[t + 1])
         /\ Part(g, d) = PartOf(c[t])
         /\ Readable(c[s].pos)
<1>1. /\ s <= n /\ t \in s .. n /\ c[t].kind # "dummy"
      /\ c[s].kind = "dummy" => c[t].kind = "whole" /\ c[t].pos = 0
  BY PartTaken
<1>2. \A i \in Nat : c[i].pos \in Nat /\ c[i].len \in Nat /\ End(c[i]) = c[i].pos + 2 + c[i].len
  BY NodeTypes
<1>3. Stored(mem, c[s], FALSE) /\ Stored(mem, c[t], FALSE)
  <2>1. s \in b .. n /\ t \in b .. n /\ ~(s < r) /\ ~(t < r)
    BY <1>1
  <2> QED BY <2>1 DEF Contents, Stored, FlagsOf
<1>4. /\ mem[c[s].pos].tag = "len" /\ mem[c[s].pos + 1].tag = "flags"
      /\ ItemFlags(mem, c[s].pos) = FlagsOf(c[s], FALSE)
      /\ mem[c[t].pos].tag = "len" /\ mem[c[t].pos + 1].tag = "flags"
      /\ ItemFlags(mem, c[t].pos) = FlagsOf(c[t], FALSE)
      /\ ItemLen(mem, c[t].pos) = c[t].len
  BY <1>3 DEF Stored, LenWord, FlagsWord, ItemFlags, ItemLen
<1>5. /\ ("dummy" \in FlagsOf(c[s], FALSE)) = (c[s].kind = "dummy")
      /\ ("split" \in FlagsOf(c[t], FALSE)) = (c[t].kind = "split")
  BY DEF FlagsOf
<1>6. (IF "dummy" \in ItemFlags(mem, c[s].pos) THEN 0 ELSE c[s].pos) = c[t].pos
  BY <1>1, <1>4, <1>5 DEF Taken
<1> DEFINE q == IF "dummy" \in ItemFlags(mem, c[s].pos) THEN 0 ELSE c[s].pos
<1>8. g = [item |-> q + 2, len |-> ItemLen(mem, q), split |-> "split" \in ItemFlags(mem, q),
           read |-> WrapPtr(q + 2 + ItemLen(mem, q))]
  BY DEF GetAt
<1>9. q = c[t].pos
  BY <1>6
<1> HIDE DEF q
<1>10. g.item = c[t].pos + 2 /\ g.len = c[t].len /\ g.split = (c[t].kind = "split")
  <2>1. ("split" \in ItemFlags(mem, q)) = (c[t].kind = "split")
    BY <1>4, <1>5, <1>9, Zenon
  <2>2. g.item = q + 2 /\ g.len = ItemLen(mem, q)
    BY <1>8
  <2>3. g.split = ("split" \in ItemFlags(mem, q))
    <3> DEFINE x == "split" \in ItemFlags(mem, q)
               y == ItemLen(mem, q)
    <3>1. g = [item |-> q + 2, len |-> y, split |-> x, read |-> WrapPtr(q + 2 + y)]
      BY <1>8, Zenon
    <3> HIDE DEF x, y
    <3>2. g.split = x
      BY <3>1
    <3> QED BY <3>2 DEF x
  <2>4. g.split = (c[t].kind = "split")
    BY <2>1, <2>3, Zenon
  <2> QED BY <1>4, <1>9, <2>2, <2>4
<1>11. g.read = c[t + 1].pos
  <2>1. c[t + 1].pos = WrapPtr(End(c[t]))
    BY <1>1 DEF Layout
  <2>2. g.read = WrapPtr(q + 2 + ItemLen(mem, q))
    BY <1>8
  <2>3. t \in Nat
    BY <1>1
  <2> QED BY <1>2, <1>4, <1>9, <2>1, <2>2, <2>3
<1>12. d = DueRec(c[t])
  <2>1. DueRec(c[s + 1]) = Following(c[s])
    BY <1>1 DEF InOrder
  <2>2. c[s].kind = "dummy" => DueRec(c[s + 1]) = DueRec(c[s])
    BY <2>1 DEF Following
  <2> QED BY <2>2 DEF Taken
<1>13. DueRec(c[t + 1]) = Following(c[t])
  BY <1>1 DEF InOrder
<1>14. DueAfter(g, d) = Following(c[t])
  <2>1. d.item = c[t].item /\ d.off = c[t].off
    BY <1>12 DEF DueRec
  <2>2. CASE c[t].kind = "split"
    <3>1. g.split
      BY <1>10, <2>2
    <3> QED BY <1>10, <2>1, <2>2, <3>1 DEF DueAfter, Following
  <2>3. CASE c[t].kind # "split"
    <3>1. ~g.split
      BY <1>10, <2>3
    <3> QED BY <1>1, <2>1, <2>3, <3>1 DEF DueAfter, Following
  <2> QED BY <2>2, <2>3
<1>15. Part(g, d) = PartOf(c[t])
  BY <1>10, <1>12 DEF Part, PartOf, DueRec
<1>16. Readable(c[s].pos)
  BY <1>1, <1>4, <1>5 DEF Readable, IsHeader
<1> QED BY <1>10, <1>11, <1>12, <1>13, <1>14, <1>15, <1>16

\* The part passes to the application.
LEMMA ContentsRead ==
  ASSUME NEW c \in [Nat -> Node], NEW b \in Nat, NEW n \in Nat, NEW w \in Nat, b < w,
         Layout(c, b, n, w), NEW r \in Nat, b <= r, NEW m, NEW H, Contents(c, b, r, n, m, H),
         NEW t \in r .. n, t = Taken(c, r), c[t].kind # "dummy"
  PROVE  Contents(c, b, t + 1, n, m, H \cup {PartOf(c[t])})
<1> DEFINE H2 == H \cup {PartOf(c[t])}
<1>1. \A i \in Nat : c[i].pos \in Nat
  BY NodeTypes
<1>2. ASSUME NEW i \in b .. n, PartOf(c[i]) = PartOf(c[t])
      PROVE  i = t
  <2>1. c[i].pos + 2 = c[t].pos + 2
    BY <1>2 DEF PartOf
  <2>2. c[i].pos = c[t].pos
    BY <1>1, <2>1
  <2>3. ~(i < t)
    BY <2>2, SamePlace
  <2>4. ~(t < i)
    BY <2>2, SamePlace
  <2> QED BY <2>3, <2>4
<1>3. ASSUME NEW i \in b .. n
      PROVE  Stored(m, c[i], i < t + 1 /\ PartOf(c[i]) \notin H2)
  <2>1. Stored(m, c[i], i < r /\ PartOf(c[i]) \notin H)
    BY DEF Contents
  <2>2. CASE i = t
    <3>1. PartOf(c[i]) \in H2 /\ ~(i < r)
      BY <2>2
    <3> QED BY <2>1, <3>1 DEF Stored, FlagsOf
  <2>3. CASE i # t /\ c[i].kind = "dummy"
    BY <2>1, <2>3 DEF Stored, FlagsOf
  <2>4. CASE i # t /\ c[i].kind # "dummy"
    <3>1. i < r <=> i < t + 1
      BY <2>4 DEF Taken
    <3>2. PartOf(c[i]) \in H2 <=> PartOf(c[i]) \in H
      BY <1>2, <2>4
    <3> QED BY <2>1, <3>1, <3>2 DEF Stored, FlagsOf
  <2> QED BY <2>2, <2>3, <2>4
<1>4. ASSUME NEW h \in H2
      PROVE  \E i \in b .. t : c[i].kind # "dummy" /\ h = PartOf(c[i])
  <2>1. CASE h = PartOf(c[t])
    BY <2>1
  <2>2. CASE h \in H
    <3>1. PICK i \in b .. (r - 1) : c[i].kind # "dummy" /\ h = PartOf(c[i])
      BY <2>2 DEF Contents
    <3>2. i \in b .. t
      OBVIOUS
    <3> QED BY <3>1, <3>2
  <2> QED BY <2>1, <2>2
<1>5. (t + 1) - 1 = t
  OBVIOUS
<1> QED BY <1>3, <1>4, <1>5 DEF Contents

----------------------------------------------------------------------------
(* Returning. *)

\* A set of natural numbers that is not empty has a least element.
LEMMA LeastNat ==
  ASSUME NEW T, T \subseteq Nat, T # {}
  PROVE  \E x \in T : \A y \in T : x <= y
<1> DEFINE R == {p \in Nat \X Nat : p[1] < p[2]}
<1>1. IsWellFoundedOn(R, Nat)
  BY NatLessThanWellFounded DEF OpToRel
<1>2. \A x, y \in Nat : <<y, x>> \notin R => x <= y
  OBVIOUS
<1> HIDE DEF R
<1>3. \E x \in T : \A y \in T : <<y, x>> \notin R
  BY <1>1, WFMin, Zenon
<1> QED BY <1>2, <1>3, Zenon

\* The part returned is marked free and everything else is left (ringbuf.c:424).
LEMMA Marked ==
  ASSUME NEW c \in [Nat -> Node], NEW b \in Nat, NEW n \in Nat, NEW w \in Nat, b < w,
         Layout(c, b, n, w), NEW r \in Nat, r <= n + 1, NEW m, IsMemory(m),
         NEW H, Contents(c, b, r, n, m, H), NEW h \in H, NEW m1, m1 = MarkFree(m, h)
  PROVE  /\ IsMemory(m1)
         /\ Contents(c, b, r, n, m1, H \ {h})
<1>1. PICK i \in b .. (r - 1) : c[i].kind # "dummy" /\ h = PartOf(c[i])
  BY DEF Contents
<1>2. \A t \in Nat : /\ c[t].pos \in Nat /\ c[t].pos <= xSize - 2 /\ c[t].len \in Nat
                     /\ End(c[t]) = c[t].pos + 2 + c[t].len
  BY NodeTypes
<1>3. i \in b .. n /\ i < r
  OBVIOUS
<1>4. h.ptr - 1 = c[i].pos + 1
  <2>1. h.ptr = c[i].pos + 2
    BY <1>1 DEF PartOf
  <2> QED BY <1>2, <2>1
<1> DEFINE u == c[i].pos + 1
           f == (m[u].flags \ {"split"}) \cup {"free"}
<1>5. u \in Cells
  BY <1>2 DEF Cells
<1>6. m1 = [m EXCEPT ![u] = FlagsWord(f)]
  BY <1>4 DEF MarkFree
<1>7. Stored(m, c[i], FALSE)
  BY <1>1, <1>3 DEF Contents, Stored, FlagsOf
<1>8. f = {"free"}
  BY <1>1, <1>7 DEF Stored, FlagsOf, FlagsWord
<1> HIDE DEF u, f
<1>9. m1[u] = FlagsWord({"free"}) /\ \A y \in Cells : y # u => m1[y] = m[y]
  BY <1>5, <1>6, <1>8 DEF IsMemory
<1>10. IsMemory(m1)
  BY <1>6 DEF IsMemory
<1>11. Stored(m1, c[i], TRUE)
  <2>1. c[i].pos \in Cells /\ c[i].pos # u
    BY <1>2 DEF Cells, u
  <2>2. ASSUME NEW k \in 0 .. (c[i].len - 1)
        PROVE  c[i].pos + 2 + k \in Cells /\ c[i].pos + 2 + k # u
    <3>1. End(c[i]) <= xSize
      BY <1>3 DEF Layout
    <3>2. c[i].pos \in Nat /\ c[i].len \in Nat /\ End(c[i]) = c[i].pos + 2 + c[i].len
      BY <1>2
    <3>3. k \in Nat /\ k < c[i].len
      BY <3>2
    <3>4. c[i].pos + 2 + k \in Cells
      <4> DEFINE e == End(c[i])
                 v == c[i].pos
                 l == c[i].len
      <4>1. v \in Nat /\ l \in Nat /\ e = v + 2 + l /\ e <= xSize
        BY <3>1, <3>2
      <4> HIDE DEF e, v, l
      <4>2. v + 2 + k \in Cells
        BY <3>3, <4>1 DEF Cells, l
      <4> QED BY <4>2 DEF v
    <3>5. c[i].pos + 2 + k # u
      BY <3>2, <3>3 DEF u
    <3> QED BY <3>4, <3>5
  <2> QED BY <1>1, <1>7, <1>9, <2>1, <2>2 DEF Stored, FlagsOf, u
<1>12. ASSUME NEW j \in b .. n
       PROVE  Stored(m1, c[j], j < r /\ PartOf(c[j]) \notin H \ {h})
  <2>1. CASE j = i
    BY <1>1, <1>3, <1>11, <2>1
  <2>2. CASE j # i
    <3>1. Stored(m, c[j], j < r /\ PartOf(c[j]) \notin H)
      BY DEF Contents
    <3>2. End(c[j]) <= c[i].pos \/ End(c[i]) <= c[j].pos
      BY <1>3, <2>2, Apart
    <3>3. End(c[j]) <= xSize
      BY DEF Layout
    <3>4. ASSUME NEW y \in c[j].pos .. (End(c[j]) - 1) PROVE m1[y] = m[y]
      <4>1. y \in Cells /\ y # u
        <5>1. /\ c[i].pos \in Nat /\ End(c[i]) >= c[i].pos + 2 /\ End(c[i]) \in Nat
              /\ c[j].pos \in Nat /\ End(c[j]) \in Nat
          BY <1>2
        <5>2. y \in Nat /\ c[j].pos <= y /\ y < End(c[j])
          BY <5>1
        <5>3. y \in Cells
          BY <3>3, <5>1, <5>2 DEF Cells
        <5>4. y # u
          BY <3>2, <5>1, <5>2 DEF u
        <5> QED BY <5>3, <5>4
      <4> QED BY <1>9, <4>1
    <3>5. Stored(m1, c[j], j < r /\ PartOf(c[j]) \notin H)
      BY <3>1, <3>4, StoredFrame
    <3>6. PartOf(c[j]) # h
      <4>1. c[j].pos # c[i].pos
        BY <1>2, <3>2
      <4>2. c[j].pos \in Nat /\ c[i].pos \in Nat
        BY <1>2
      <4>3. c[j].pos + 2 # c[i].pos + 2
        BY <4>1, <4>2
      <4> QED BY <1>1, <4>3 DEF PartOf
    <3> QED BY <3>5, <3>6
  <2> QED BY <2>1, <2>2
<1>13. \A k \in H \ {h} : \E j \in b .. (r - 1) : c[j].kind # "dummy" /\ k = PartOf(c[j])
  BY DEF Contents
<1> QED BY <1>10, <1>12, <1>13 DEF Contents

\* Whether the loop passes over a node, and where it goes (ringbuf.c:435-450).
LEMMA Passes ==
  ASSUME NEW c \in [Nat -> Node], NEW b \in Nat, NEW n \in Nat, NEW w \in Nat, b < w,
         Layout(c, b, n, w), NEW r \in Nat, NEW m, NEW H, Contents(c, b, r, n, m, H),
         NEW i \in b .. n
  PROVE  /\ AdvanceOnce(m, c[i].pos) = c[i + 1].pos
         /\ "dummy" \in ItemFlags(m, c[i].pos) <=> c[i].kind = "dummy"
         /\ Skippable(m, c[i].pos)
              <=> c[i].pos # pucRead /\ (c[i].kind = "dummy" \/ (i < r /\ PartOf(c[i]) \notin H))
<1>1. c[i].pos \in Nat /\ c[i].len \in Nat /\ End(c[i]) = c[i].pos + 2 + c[i].len
  BY NodeTypes
<1> DEFINE q == i < r /\ PartOf(c[i]) \notin H
<1>2. Stored(m, c[i], q)
  BY DEF Contents
<1> HIDE DEF q
<1>3. ItemLen(m, c[i].pos) = c[i].len /\ ItemFlags(m, c[i].pos) = FlagsOf(c[i], q)
  BY <1>2 DEF Stored, ItemLen, ItemFlags, LenWord, FlagsWord
<1>4. /\ "dummy" \in FlagsOf(c[i], q) <=> c[i].kind = "dummy"
      /\ FlagsOf(c[i], q) \cap {"free", "dummy"} # {} <=> c[i].kind = "dummy" \/ q
  BY DEF FlagsOf
<1>5. c[i + 1].pos = IF c[i].kind = "dummy" THEN 0 ELSE WrapPtr(End(c[i]))
  BY DEF Layout
<1>6. c[i].pos + c[i].len + 2 = End(c[i])
  BY <1>1
<1>7. AdvanceOnce(m, c[i].pos) = c[i + 1].pos
  <2>1. CASE c[i].kind = "dummy"
    <3>1. WrapPtr(0) = 0
      BY DEF WrapPtr
    <3> QED BY <1>3, <1>4, <1>5, <2>1, <3>1 DEF AdvanceOnce
  <2>2. CASE c[i].kind # "dummy"
    BY <1>3, <1>4, <1>5, <1>6, <2>2 DEF AdvanceOnce
  <2> QED BY <2>1, <2>2
<1>8. Skippable(m, c[i].pos) <=> c[i].pos # pucRead /\ (c[i].kind = "dummy" \/ q)
  BY <1>3, <1>4, Zenon DEF Skippable
<1> QED BY <1>3, <1>4, <1>7, <1>8 DEF q

\* The chain has fewer nodes than the storage has words.
LEMMA ShortWalk ==
  ASSUME NEW c \in [Nat -> Node], NEW b \in Nat, NEW n \in Nat, NEW w \in Nat, b < w,
         Layout(c, b, n, w), NEW a \in b .. (n + 1), NEW stop \in a .. (n + 1)
  PROVE  stop - a <= xSize
<1>1. \A t \in Nat : c[t].pos \in Nat /\ c[t].pos <= xSize - 2
  BY NodeTypes
<1>2. \A i \in b .. n, j \in b .. (n + 1) :
         i < j /\ (i < w <=> j < w) => c[i].pos + (j - i) <= c[j].pos
  BY DEF Layout
<1>3. \A i \in b .. (n + 1), j \in b .. (n + 1) :
         i <= j /\ (i < w <=> j < w) => c[i].pos + (j - i) <= c[j].pos
  <2>1. SUFFICES ASSUME NEW i \in b .. (n + 1), NEW j \in b .. (n + 1), i <= j, i < w <=> j < w
                 PROVE  c[i].pos + (j - i) <= c[j].pos
    OBVIOUS
  <2>2. CASE i = j
    BY <1>1, <2>2
  <2>3. CASE i < j
    <3>1. i \in b .. n
      BY <2>3
    <3> QED BY <1>2, <2>1, <2>3, <3>1
  <2> QED BY <2>1, <2>2, <2>3
<1>4. a \in b .. (n + 1) /\ stop \in b .. (n + 1) /\ a <= stop
  OBVIOUS
<1>5. CASE a < w <=> stop < w
  <2>1. c[a].pos + (stop - a) <= c[stop].pos
    BY <1>3, <1>4, <1>5
  <2> QED BY <1>1, <2>1
<1>6. CASE a < w /\ ~(stop < w)
  <2>1. w - 1 \in b .. (n + 1) /\ w \in b .. (n + 1) /\ n + 1 \in b .. (n + 1) /\ b \in b .. (n + 1)
    BY <1>4, <1>6
  <2>2. c[a].pos + (w - 1 - a) <= c[w - 1].pos
    BY <1>3, <1>4, <1>6, <2>1
  <2>3. c[w].pos + (stop - w) <= c[stop].pos
    BY <1>3, <1>4, <1>6, <2>1
  <2>4. c[stop].pos + (n + 1 - stop) <= c[n + 1].pos
    BY <1>3, <1>4, <1>6, <2>1
  <2>5. c[n + 1].pos <= c[b].pos
    BY <2>1 DEF Layout
  <2>6. c[b].pos + (a - b) <= c[a].pos
    BY <1>3, <1>4, <1>6, <2>1
  <2>7. \A t \in {a, b, w - 1, w, stop, n + 1} : c[t].pos \in Nat /\ c[t].pos <= xSize - 2
    BY <1>1, <1>6
  <2> QED BY <1>4, <1>6, <2>2, <2>3, <2>4, <2>5, <2>6, <2>7
<1> QED BY <1>4, <1>5, <1>6

\* The loop passes over the nodes from number a on and not over number stop.
PassesTo(c, m, a, stop) ==
    /\ \A s \in a .. (stop - 1) : Skippable(m, c[s].pos)
    /\ ~Skippable(m, c[stop].pos)

\* The loop goes from node to node and stops at the first it cannot pass over.
LEMMA Walk ==
  ASSUME NEW c \in [Nat -> Node], NEW b \in Nat, NEW n \in Nat, NEW w \in Nat, b < w,
         Layout(c, b, n, w), NEW r \in Nat, NEW m, NEW H, Contents(c, b, r, n, m, H),
         r <= n + 1, NEW a \in Nat, b <= a, NEW stop \in Nat, a <= stop, stop <= r,
         pucFree = c[a].pos, PassesTo(c, m, a, stop)
  PROVE  \A k \in 0 .. xSize :
            FreePtrWalk(m)[k] = c[IF a + k <= stop THEN a + k ELSE stop].pos
<1> DEFINE At(k) == IF a + k <= stop THEN a + k ELSE stop
           Rec(f, k) == IF k = 0 THEN pucFree
                        ELSE LET p == f[k - 1]
                             IN  IF Skippable(m, p) THEN AdvanceOnce(m, p) ELSE p
           g == [k \in 0 .. xSize |-> c[At(k)].pos]
           F == FreePtrWalk(m)
<1>1. F = CHOOSE f : f = [k \in 0 .. xSize |-> Rec(f, k)]
  BY DEF FreePtrWalk
<1>2. g = [k \in 0 .. xSize |-> Rec(g, k)]
  <2>1. ASSUME NEW k \in 0 .. xSize PROVE c[At(k)].pos = Rec(g, k)
    <3>1. CASE k = 0
      <4>1. At(k) = a
        BY <3>1
      <4> QED BY <3>1, <4>1
    <3>2. CASE k # 0
      <4>1. k - 1 \in 0 .. xSize
        BY <3>2
      <4>2. g[k - 1] = c[At(k - 1)].pos
        BY <4>1
      <4>3. CASE a + k <= stop
        <5>1. At(k - 1) = a + k - 1 /\ At(k) = a + k
          BY <3>2, <4>3
        <5>2. a + k - 1 \in a .. (stop - 1) /\ a + k - 1 \in b .. n /\ a + k - 1 + 1 = a + k
          BY <3>2, <4>3
        <5>3. Skippable(m, c[a + k - 1].pos)
          BY <5>2 DEF PassesTo
        <5>4. AdvanceOnce(m, c[a + k - 1].pos) = c[a + k].pos
          BY <5>2, Passes
        <5> HIDE DEF g, At
        <5> QED BY <3>2, <4>2, <5>1, <5>3, <5>4
      <4>4. CASE ~(a + k <= stop)
        <5>1. At(k - 1) = stop /\ At(k) = stop
          BY <3>2, <4>4
        <5>2. ~Skippable(m, c[stop].pos)
          BY DEF PassesTo
        <5> HIDE DEF g, At
        <5> QED BY <3>2, <4>2, <5>1, <5>2
      <4> QED BY <4>3, <4>4
    <3> QED BY <3>1, <3>2
  <2> HIDE DEF Rec, At
  <2>2. g = [k \in 0 .. xSize |-> c[At(k)].pos]
    OBVIOUS
  <2> HIDE DEF g
  <2> QED BY <2>1, <2>2, Zenon
<1> HIDE DEF g
<1>3. F = [k \in 0 .. xSize |-> Rec(F, k)]
  <2> HIDE DEF Rec, F
  <2> QED BY <1>1, <1>2, Zenon
<1> HIDE DEF F
<1>4. \A k \in 0 .. xSize : F[k] = Rec(F, k) /\ g[k] = Rec(g, k)
  <2> HIDE DEF Rec
  <2> QED BY <1>2, <1>3
<1>5. \A k \in 0 .. xSize : F[k] = g[k]
  <2> DEFINE T == {k \in 0 .. xSize : F[k] # g[k]}
  <2>1. SUFFICES ASSUME T # {} PROVE FALSE
    OBVIOUS
  <2>2. T \subseteq Nat
    OBVIOUS
  <2>3. PICK x \in T : \A y \in T : x <= y
    BY <2>1, <2>2, LeastNat
  <2>4. x \in 0 .. xSize /\ F[x] # g[x]
    BY <2>3
  <2>5. x # 0
    BY <1>4, <2>4
  <2>6. x - 1 \in 0 .. xSize /\ ~(x <= x - 1)
    BY <2>4, <2>5
  <2>7. F[x - 1] = g[x - 1]
    BY <2>3, <2>6
  <2>8. Rec(F, x) = Rec(g, x)
    BY <2>5, <2>7
  <2> QED BY <1>4, <2>4, <2>8
<1> QED BY <1>5 DEF F, g

\* The memory after the loop: m1, with the nodes at the positions D marked free, all
\* of them before number stop.
SweptMemory(c, b, stop, m1, D, m2) ==
    /\ \A p \in D : \E s \in b .. (stop - 1) : p = c[s].pos
    /\ m2 = [y \in Cells |-> IF y - 1 \in D THEN FlagsWord(m1[y].flags \cup {"free"})
                              ELSE m1[y]]

\* The dummies passed over are marked, and the chain starts at b2 from then on.
LEMMA Swept ==
  ASSUME NEW c \in [Nat -> Node], NEW b \in Nat, NEW n \in Nat, NEW w \in Nat, b < w,
         Layout(c, b, n, w), NEW r \in Nat, NEW m1, NEW H, Contents(c, b, r, n, m1, H),
         r <= n + 1, NEW stop \in Nat, b <= stop, stop <= r, NEW b2 \in Nat, b <= b2, b2 <= r,
         NEW D, stop <= b2 \/ D = {}, NEW m2, SweptMemory(c, b, stop, m1, D, m2),
         \A h \in H : \E i \in b2 .. (r - 1) : c[i].kind # "dummy" /\ h = PartOf(c[i])
  PROVE  Contents(c, b2, r, n, m2, H)
<1>1. ASSUME NEW j \in b2 .. n
      PROVE  Stored(m2, c[j], j < r /\ PartOf(c[j]) \notin H)
  <2>1. j \in b .. n
    OBVIOUS
  <2>2. Stored(m1, c[j], j < r /\ PartOf(c[j]) \notin H)
    BY <2>1 DEF Contents
  <2> DEFINE v == c[j].pos
             e == End(c[j])
  <2>3. v \in Nat /\ e \in Nat /\ e <= xSize
    <3>1. v \in Nat /\ c[j].len \in Nat /\ e = v + 2 + c[j].len
      BY <2>1, NodeTypes
    <3>2. e <= xSize
      BY <2>1 DEF Layout
    <3> QED BY <3>1, <3>2
  <2>4. ASSUME NEW y \in v .. (e - 1) PROVE m2[y] = m1[y]
    <3>1. y \in Nat /\ v <= y /\ y < e
      <4> HIDE DEF v, e
      <4> QED BY <2>3
    <3>2. y \in Cells
      <4> HIDE DEF v, e
      <4> QED BY <2>3, <3>1 DEF Cells
    <3>3. y - 1 \notin D
      <4>1. SUFFICES ASSUME y - 1 \in D PROVE FALSE
        OBVIOUS
      <4>2. PICK s \in b .. (stop - 1) : y - 1 = c[s].pos
        BY <4>1 DEF SweptMemory
      <4>3. s \in b .. n /\ s # j
        BY <4>1
      <4>4. e <= c[s].pos \/ End(c[s]) <= v
        BY <2>1, <4>3, Apart
      <4>5. c[s].pos \in Nat /\ End(c[s]) >= c[s].pos + 2 /\ End(c[s]) \in Nat
        BY <4>3, NodeTypes
      <4> DEFINE ps == c[s].pos
                 es == End(c[s])
      <4> HIDE DEF v, e, ps, es
      <4>6. y - 1 = ps /\ (e <= ps \/ es <= v) /\ ps \in Nat /\ es \in Nat /\ es >= ps + 2
        BY <4>2, <4>4, <4>5 DEF ps, es
      <4> QED BY <2>3, <3>1, <4>6
    <3> HIDE DEF v, e
    <3> QED BY <3>2, <3>3 DEF SweptMemory
  <2>5. c[j] \in Node
    BY <2>1
  <2> QED BY <2>2, <2>4, <2>5, StoredFrame
<1> QED BY <1>1 DEF Contents

\* Of the parts from the read pointer on nothing changes.
LEMMA SameRest ==
  ASSUME NEW c \in [Nat -> Node], NEW b \in Nat, NEW n \in Nat, NEW w \in Nat,
         NEW r \in Nat, r <= n + 1, NEW b2 \in b .. r, NEW S, InOrder(c, b, n, S)
  PROVE  /\ InOrder(c, b2, n, S)
         /\ PartsFrom(c, r, n, Lap(b2, n, w)) = PartsFrom(c, r, n, w)
         /\ b2 < Lap(b2, n, w) /\ Lap(b2, n, w) \in Nat
<1>1. InOrder(c, b2, n, S)
  BY DEF InOrder
<1>2. DummyAhead(c, r, n, Lap(b2, n, w)) <=> DummyAhead(c, r, n, w)
  BY DEF DummyAhead, Lap
<1> QED BY <1>1, <1>2 DEF PartsFrom, Lap

\* The loop from number a on stops at number stop.
StopsHere(c, m, a, stop) ==
    /\ ~Skippable(m, c[stop].pos)
    /\ \A s \in a .. (stop - 1) : Skippable(m, c[s].pos)
    /\ FreePtrWalk(m)[xSize] = c[stop].pos
    /\ \A k \in 0 .. xSize : FreePtrWalk(m)[k] \in {c[s].pos : s \in a .. stop}

\* The loop of prvReturnItemDefault stops at the first node it does not pass over, and
\* never leaves the nodes between the free and the read pointer (ringbuf.c:435).
LEMMA StopsAt ==
  ASSUME NEW c \in [Nat -> Node], NEW b \in Nat, NEW n \in Nat, NEW w \in Nat, b < w,
         Layout(c, b, n, w), NEW r \in Nat, NEW m, IsMemory(m),
         NEW H, Contents(c, b, r, n, m, H), r <= n + 1, NEW a \in Nat, b <= a, a <= r,
         pucFree = c[a].pos, pucRead = c[r].pos
  PROVE  \E stop \in a .. r : StopsHere(c, m, a, stop)
<1> DEFINE T == {s \in a .. r : ~Skippable(m, c[s].pos)}
<1>1. r \in T /\ T \subseteq Nat
  BY DEF Skippable
<1>2. PICK stop \in a .. r : ~Skippable(m, c[stop].pos) /\ \A s \in T : stop <= s
  <2>1. PICK x \in T : \A s \in T : x <= s
    BY <1>1, LeastNat
  <2> QED BY <2>1
<1>3. stop \in a .. r /\ ~Skippable(m, c[stop].pos)
  BY <1>2
<1>4. ASSUME NEW s \in a .. (stop - 1) PROVE Skippable(m, c[s].pos)
  <2>1. s \in a .. r /\ ~(stop <= s)
    BY <1>3
  <2> QED BY <1>2, <2>1
<1>5. a \in b .. (n + 1) /\ stop \in a .. (n + 1)
  BY <1>3
<1> HIDE DEF T
<1>6. \A k \in 0 .. xSize : FreePtrWalk(m)[k] = c[IF a + k <= stop THEN a + k ELSE stop].pos
  <2>1. PassesTo(c, m, a, stop)
    BY <1>3, <1>4 DEF PassesTo
  <2>2. a \in Nat /\ b <= a /\ stop \in Nat /\ a <= stop /\ stop <= r
    BY <1>3
  <2> QED BY <2>1, <2>2, Walk
<1>7. stop - a <= xSize
  BY <1>5, ShortWalk
<1>8. FreePtrWalk(m)[xSize] = c[stop].pos
  <2>1. xSize \in 0 .. xSize /\ (IF a + xSize <= stop THEN a + xSize ELSE stop) = stop
    BY <1>3, <1>7
  <2> QED BY <1>6, <2>1
<1>9. ASSUME NEW k \in 0 .. xSize PROVE FreePtrWalk(m)[k] \in {c[s].pos : s \in a .. stop}
  <2>1. (IF a + k <= stop THEN a + k ELSE stop) \in a .. stop
    BY <1>3
  <2> QED BY <1>6, <2>1
<1> QED BY <1>3, <1>4, <1>8, <1>9 DEF StopsHere

\* The facts a chain is made of, one by one.
LEMMA ChainFacts ==
  ASSUME NEW c, NEW b, NEW a, NEW r, NEW n, NEW w, Chain(c, b, a, r, n, w)
  PROVE  /\ c \in [Nat -> Node] /\ b \in Nat /\ a \in Nat /\ r \in Nat /\ n \in Nat /\ w \in Nat
         /\ b <= a /\ a <= r /\ r <= n + 1 /\ b < w
         /\ Layout(c, b, n, w) /\ Contents(c, b, r, n, mem, held) /\ InOrder(c, b, n, sizes)
         /\ pucFree = c[a].pos /\ pucRead = c[r].pos /\ pucWrite = c[n + 1].pos
         /\ due = DueRec(c[r]) /\ xItemsWaiting = PartsFrom(c, r, n, w)
         /\ full <=> a <= n /\ pucWrite = pucFree
         /\ b = a \/ (a = n + 1 /\ use = "batch" /\ held # {})
         /\ a < r => held # {}
BY DEF Chain, Bounds, Pointers

\* The chain after a return, of which the first nodes are gone.
LEMMA ReturnChain ==
  ASSUME ItemTypes, NEW c, NEW b, NEW a, NEW r, NEW n, NEW w, Chain(c, b, a, r, n, w),
         UNCHANGED <<AllowSplit, use, pucWrite, pucRead, xItemsWaiting, sizes, due>>,
         NEW H2, held' = H2, H2 \subseteq held, NEW b2 \in b .. r, NEW a2 \in b2 .. r, NEW m2,
         mem' = m2, IsMemory(m2), Contents(c, b2, r, n, m2, H2),
         pucFree' = c[a2].pos, full' = (a2 <= n /\ pucWrite = c[a2].pos),
         b2 = a2 \/ (a2 = n + 1 /\ use = "batch" /\ H2 # {}), a2 < r => H2 # {}
  PROVE  IInv'
<1> DEFINE w2 == Lap(b2, n, w)
<1>1. /\ c \in [Nat -> Node] /\ b \in Nat /\ a \in Nat /\ r \in Nat /\ n \in Nat /\ w \in Nat
      /\ b <= a /\ a <= r /\ r <= n + 1 /\ b < w
      /\ Layout(c, b, n, w) /\ InOrder(c, b, n, sizes)
      /\ pucRead = c[r].pos /\ pucWrite = c[n + 1].pos
      /\ due = DueRec(c[r]) /\ xItemsWaiting = PartsFrom(c, r, n, w)
  BY ChainFacts
<1>2. InOrder(c, b2, n, sizes) /\ PartsFrom(c, r, n, w2) = PartsFrom(c, r, n, w) /\ b2 < w2 /\ w2 \in Nat
  BY <1>1, SameRest
<1>3. Layout(c, b2, n, w2)
  <2>1. b2 \in b .. (n + 1)
    BY <1>1
  <2> QED BY <1>1, <2>1, LayoutFrom
<1> HIDE DEF w2
<1>4. Bounds(c, b2, a2, r, n, w2)
  BY <1>1, <1>2 DEF Bounds
<1>5. Pointers(c, a2, r, n, w2)'
  BY <1>1, <1>2 DEF Pointers
<1>6. Chain(c, b2, a2, r, n, w2)'
  BY <1>2, <1>3, <1>4, <1>5 DEF Chain
<1>7. ItemTypes'
  <2>1. use = "one" => held' = {} \/ \E h : held' = {h}
    BY DEF ItemTypes
  <2> QED BY <2>1 DEF ItemTypes
<1> QED BY <1>6, <1>7 DEF IInv

\* vRingbufferReturnItem keeps the invariant.
LEMMA ReturnStep ==
  ASSUME ItemTypes, NEW c, NEW b, NEW a, NEW r, NEW n, NEW w, Chain(c, b, a, r, n, w),
         NEW h \in held, Return(h)
  PROVE  IInv'
<1>1. /\ c \in [Nat -> Node] /\ b \in Nat /\ a \in Nat /\ r \in Nat /\ n \in Nat /\ w \in Nat
      /\ b <= a /\ a <= r /\ r <= n + 1 /\ b < w
      /\ Layout(c, b, n, w) /\ Contents(c, b, r, n, mem, held) /\ InOrder(c, b, n, sizes)
      /\ pucFree = c[a].pos /\ pucRead = c[r].pos /\ pucWrite = c[n + 1].pos
      /\ full <=> a <= n /\ pucWrite = pucFree
      /\ b = a \/ (a = n + 1 /\ use = "batch" /\ held # {})
  BY ChainFacts
<1>2. PICK m1, H2, m2 : m1 = MarkFree(mem, h) /\ H2 = held \ {h} /\ m2 = mem'
  OBVIOUS
<1>3. IsMemory(m1) /\ Contents(c, b, r, n, m1, H2)
  <2>1. IsMemory(mem)
    BY DEF ItemTypes
  <2> QED BY <1>1, <1>2, <2>1, Marked
<1>4. b < r
  <2>1. PICK i \in b .. (r - 1) : h = PartOf(c[i])
    BY <1>1 DEF Contents
  <2> QED BY <1>1
<1>5. PICK stop \in a .. r : StopsHere(c, m1, a, stop)
  BY <1>1, <1>3, StopsAt
<1>6. /\ ~Skippable(m1, c[stop].pos)
      /\ \A s \in a .. (stop - 1) : Skippable(m1, c[s].pos)
      /\ FreePtrWalk(m1)[xSize] = c[stop].pos
      /\ \A k \in 0 .. xSize : FreePtrWalk(m1)[k] \in {c[s].pos : s \in a .. stop}
  BY <1>5 DEF StopsHere
<1>7. PICK D : D = {p \in {FreePtrWalk(m1)[k] : k \in 0 .. xSize} :
                        Skippable(m1, p) /\ "dummy" \in ItemFlags(m1, p)}
  OBVIOUS
<1>8. /\ pucFree' = c[stop].pos
      /\ m2 = [y \in Cells |-> IF y - 1 \in D THEN FlagsWord(m1[y].flags \cup {"free"}) ELSE m1[y]]
      /\ full' = (full /\ pucFree' = pucWrite /\ pucFree' # pucRead)
      /\ held' = H2
      /\ UNCHANGED <<AllowSplit, use, pucWrite, pucRead, xItemsWaiting, sizes, due>>
  BY <1>2, <1>6, <1>7 DEF Return, prvReturnItemDefault, created
<1>9. \A p \in D : \E s \in a .. (stop - 1) : p = c[s].pos
  <2>1. SUFFICES ASSUME NEW p \in D PROVE \E s \in a .. (stop - 1) : p = c[s].pos
    OBVIOUS
  <2>2. Skippable(m1, p) /\ \E s \in a .. stop : p = c[s].pos
    BY <1>6, <1>7
  <2>3. PICK s \in a .. stop : p = c[s].pos
    BY <2>2
  <2>4. s # stop
    BY <1>6, <2>2, <2>3
  <2> QED BY <2>3, <2>4
<1>10. (\A p \in D : \E s \in b .. (stop - 1) : p = c[s].pos) /\ (stop = a => D = {})
  BY <1>1, <1>9
<1>11. IsMemory(m2)
  BY <1>8 DEF IsMemory
<1>12. ASSUME NEW b2 \in b .. r, stop <= b2 \/ D = {},
              \A k \in H2 : \E i \in b2 .. (r - 1) : c[i].kind # "dummy" /\ k = PartOf(c[i]),
              NEW a2 \in b2 .. r, c[a2].pos = c[stop].pos,
              full' = (a2 <= n /\ pucWrite = c[a2].pos),
              b2 = a2 \/ (a2 = n + 1 /\ use = "batch" /\ H2 # {}), a2 < r => H2 # {}
       PROVE  IInv'
  <2>1. stop \in Nat /\ b <= stop /\ stop <= r /\ b2 \in Nat /\ b <= b2 /\ b2 <= r
    BY <1>1
  <2>2. SweptMemory(c, b, stop, m1, D, m2)
    BY <1>8, <1>10 DEF SweptMemory
  <2>3. Contents(c, b2, r, n, m2, H2)
    BY <1>1, <1>3, <1>12, <2>1, <2>2, Swept
  <2> QED BY ZenonT(60), <1>2, <1>8, <1>11, <1>12, <2>3, ReturnChain
<1>13. \A t \in b .. n : Skippable(m1, c[t].pos)
         <=> c[t].pos # pucRead /\ (c[t].kind = "dummy" \/ (t < r /\ PartOf(c[t]) \notin H2))
  BY <1>1, <1>3, Passes
<1>14. \A k \in H2 : \E i \in b .. (r - 1) : c[i].kind # "dummy" /\ k = PartOf(c[i])
  BY <1>3 DEF Contents
<1>15. \A i \in b .. n, j \in b .. (n + 1) : i < j /\ c[i].pos = c[j].pos => i = b /\ j = n + 1
  BY <1>1, SamePlace
<1>16. ASSUME NEW t \in b .. (n + 1), c[t].pos = c[r].pos, t # r
       PROVE  t = b /\ r = n + 1
  <2>1. r \in b .. (n + 1) /\ (t < r \/ r < t)
    BY <1>1, <1>16
  <2>2. ~(r < t)
    <3>1. SUFFICES ASSUME r < t PROVE FALSE
      OBVIOUS
    <3>2. r \in b .. n
      BY <1>1, <3>1
    <3>3. r = b
      BY <1>15, <1>16, <3>1, <3>2
    <3> QED BY <1>1, <1>4, <3>3
  <2>3. t \in b .. n
    BY <1>1, <2>1, <2>2
  <2> QED BY <1>15, <1>16, <2>1, <2>2, <2>3
<1>17. CASE H2 = {}
  <2>1. c[stop].pos = c[r].pos
    <3>1. CASE stop = r
      BY <3>1
    <3>2. CASE stop # r
      <4>1. stop \in b .. n /\ stop < r
        BY <1>1, <3>2
      <4>2. c[stop].pos = pucRead
        BY <1>6, <1>13, <1>17, <4>1
      <4> QED BY <1>1, <4>2
    <3> QED BY <3>1, <3>2
  <2>2. ~full' /\ full' \in BOOLEAN
    BY <1>1, <1>8, <2>1
  <2>3. ~(r <= n /\ pucWrite = c[r].pos)
    <3>1. SUFFICES ASSUME r <= n, pucWrite = c[r].pos PROVE FALSE
      OBVIOUS
    <3>2. n + 1 \in b .. (n + 1) /\ c[n + 1].pos = c[r].pos /\ n + 1 # r
      BY <1>1, <3>1
    <3> QED BY <1>1, <1>4, <1>16, <3>1, <3>2
  <2>4. full' = (r <= n /\ pucWrite = c[r].pos)
    BY <2>2, <2>3
  <2>5. r \in b .. r /\ r \in r .. r /\ stop <= r
    BY <1>1
  <2> QED BY <1>12, <1>17, <2>1, <2>4, <2>5
<1>18. CASE H2 # {} /\ c[stop].pos = c[r].pos
  <2>1. use = "batch"
    <3>1. use = "one" => H2 = {}
      BY <1>2 DEF ItemTypes
    <3> QED BY <1>18, <3>1 DEF ItemTypes
  <2>2. r = n + 1 /\ stop = a
    <3>1. CASE stop # r
      <4>1. stop \in b .. (n + 1)
        BY <1>1
      <4>2. stop = b /\ r = n + 1
        BY <1>16, <1>18, <3>1, <4>1
      <4> QED BY <1>1, <4>2
    <3>2. CASE stop = r
      <4>1. PICK k \in H2 : TRUE
        BY <1>18
      <4>2. PICK i \in b .. (r - 1) : c[i].kind # "dummy" /\ k = PartOf(c[i])
        BY <1>14
      <4>3. i \in b .. n
        BY <1>1
      <4>4. ~Skippable(m1, c[i].pos)
        BY <1>13, <4>2, <4>3
      <4>5. i \notin a .. (stop - 1)
        BY <1>6, <4>4
      <4>6. b # a
        BY <1>1, <3>2, <4>5
      <4> QED BY <1>1, <3>2, <4>6
    <3> QED BY <3>1, <3>2
  <2>3. ~full' /\ full' \in BOOLEAN
    BY <1>1, <1>8, <1>18
  <2>4. ~(r <= n) /\ D = {}
    BY <1>1, <1>10, <2>2
  <2>5. full' = (r <= n /\ pucWrite = c[r].pos)
    BY <2>3, <2>4
  <2>6. b \in b .. r /\ r \in b .. r
    BY <1>1
  <2> QED BY <1>12, <1>14, <1>18, <2>1, <2>2, <2>4, <2>5, <2>6
<1>19. CASE H2 # {} /\ c[stop].pos # c[r].pos
  <2>1. stop < r /\ stop <= n /\ a = b
    BY <1>1, <1>19
  <2>2. pucWrite = c[stop].pos => full
    <3>1. SUFFICES ASSUME pucWrite = c[stop].pos PROVE full
      OBVIOUS
    <3>2. stop \in b .. n /\ n + 1 \in b .. (n + 1) /\ stop < n + 1
      BY <1>1, <2>1
    <3>3. stop = b
      BY <1>1, <1>15, <3>1, <3>2
    <3> QED BY <1>1, <2>1, <3>1, <3>3
  <2>3. full' = (stop <= n /\ pucWrite = c[stop].pos)
    <3>1. full' <=> full /\ c[stop].pos = pucWrite
      BY <1>1, <1>8, <1>19
    <3>2. full' <=> stop <= n /\ pucWrite = c[stop].pos
      BY <2>1, <2>2, <3>1
    <3>3. full' \in BOOLEAN
      BY <1>8
    <3> QED BY <3>2, <3>3
  <2>4. ASSUME NEW k \in H2
        PROVE  \E i \in stop .. (r - 1) : c[i].kind # "dummy" /\ k = PartOf(c[i])
    <3>1. PICK i \in b .. (r - 1) : c[i].kind # "dummy" /\ k = PartOf(c[i])
      BY <1>14
    <3>2. i \in b .. n
      BY <1>1
    <3>3. ~Skippable(m1, c[i].pos)
      BY <1>13, <3>1, <3>2
    <3>4. i \notin a .. (stop - 1)
      BY <1>6, <3>3
    <3>5. i \in stop .. (r - 1)
      BY <1>1, <2>1, <3>4
    <3> QED BY <3>1, <3>5
  <2>5. stop \in b .. r /\ stop \in stop .. r
    BY <1>1
  <2> QED BY <1>12, <1>19, <2>3, <2>4, <2>5
<1> QED BY <1>17, <1>18, <1>19

----------------------------------------------------------------------------
(* What the chain says of the properties. *)

\* The number at which part k + 1 from the read pointer on is read.
Nth(c, r, n, w, k) == r + k + (IF DummyAhead(c, r, n, w) /\ w <= r + k THEN 1 ELSE 0)

\* As many parts are read as xItemsWaiting counts, one after another and past the dummy.
LEMMA NthPart ==
  ASSUME NEW c \in [Nat -> Node], NEW b \in Nat, NEW n \in Nat, NEW w \in Nat, b < w,
         Layout(c, b, n, w), NEW r \in Nat, b <= r, r <= n + 1,
         NEW k \in Nat, k <= PartsFrom(c, r, n, w), NEW s, s = Nth(c, r, n, w, k)
  PROVE  /\ s \in r .. (n + 1) /\ PartsFrom(c, s, n, w) = PartsFrom(c, r, n, w) - k
         /\ k < PartsFrom(c, r, n, w) => Taken(c, s) + 1 = Nth(c, r, n, w, k + 1)
<1>1. \A i \in b .. n : c[i].kind = "dummy" => i + 1 = w /\ i < n
  BY DEF Layout
<1>2. CASE DummyAhead(c, r, n, w)
  <2>1. w - 1 \in b .. n /\ c[w - 1].kind = "dummy" /\ r < w
    BY <1>2 DEF DummyAhead
  <2>2. w <= n
    BY <1>1, <2>1
  <2>3. PartsFrom(c, r, n, w) = n - r
    BY <1>2 DEF PartsFrom
  <2>4. CASE r + k < w
    <3>1. s = r + k
      BY <2>4 DEF Nth
    <3>2. DummyAhead(c, s, n, w)
      BY <1>2, <2>4, <3>1 DEF DummyAhead
    <3>3. PartsFrom(c, s, n, w) = n - s
      BY <3>1, <3>2 DEF PartsFrom
    <3>4. Taken(c, s) + 1 = Nth(c, r, n, w, k + 1)
      <4>1. CASE s = w - 1
        BY <1>2, <2>1, <3>1, <4>1 DEF Taken, Nth
      <4>2. CASE s # w - 1
        <5>1. s \in b .. n
          BY <2>1, <2>4, <3>1
        <5>2. c[s].kind # "dummy"
          BY <1>1, <4>2, <5>1
        <5> QED BY <2>4, <3>1, <4>2, <5>2 DEF Taken, Nth
      <4> QED BY <4>1, <4>2
    <3> QED BY <2>2, <2>3, <2>4, <3>1, <3>3, <3>4
  <2>5. CASE ~(r + k < w)
    <3>1. s = r + k + 1
      BY <1>2, <2>5 DEF Nth
    <3>2. ~DummyAhead(c, s, n, w)
      BY <2>5, <3>1 DEF DummyAhead
    <3>3. PartsFrom(c, s, n, w) = n + 1 - s
      BY <3>1, <3>2 DEF PartsFrom
    <3>4. ASSUME k < n - r PROVE Taken(c, s) + 1 = Nth(c, r, n, w, k + 1)
      <4>1. s \in b .. n
        BY <3>1, <3>4
      <4>2. c[s].kind # "dummy"
        BY <1>1, <2>5, <3>1, <4>1
      <4> QED BY <1>2, <2>5, <3>1, <4>2 DEF Taken, Nth
    <3> QED BY <2>3, <2>5, <3>1, <3>3, <3>4
  <2> QED BY <2>4, <2>5
<1>3. CASE ~DummyAhead(c, r, n, w)
  <2>1. s = r + k /\ PartsFrom(c, r, n, w) = n + 1 - r
    BY <1>3 DEF Nth, PartsFrom
  <2>2. ~DummyAhead(c, s, n, w)
    BY <1>3, <2>1 DEF DummyAhead
  <2>3. PartsFrom(c, s, n, w) = n + 1 - s
    BY <2>1, <2>2 DEF PartsFrom
  <2>4. ASSUME k < n + 1 - r PROVE Taken(c, s) + 1 = Nth(c, r, n, w, k + 1)
    <3>1. s \in b .. n
      BY <2>1, <2>4
    <3>2. c[s].kind # "dummy"
      <4>1. SUFFICES ASSUME c[s].kind = "dummy" PROVE FALSE
        OBVIOUS
      <4>2. s + 1 = w /\ s < n /\ w - 1 = s
        BY <1>1, <3>1, <4>1
      <4> QED BY <1>3, <2>1, <4>1, <4>2 DEF DummyAhead
    <3> QED BY <1>3, <2>1, <3>2 DEF Taken, Nth
  <2> QED BY <2>1, <2>3, <2>4
<1> QED BY <1>2, <1>3

\* Reading on from the read pointer finds the parts of the items sent, to the end.
LEMMA ScanEnds ==
  ASSUME ItemTypes, NEW c, NEW b, NEW a, NEW r, NEW n, NEW w, Chain(c, b, a, r, n, w)
  PROVE  UnreadIntact
<1>1. /\ c \in [Nat -> Node] /\ b \in Nat /\ a \in Nat /\ r \in Nat /\ n \in Nat /\ w \in Nat
      /\ b <= r /\ r <= n + 1 /\ b < w
      /\ Layout(c, b, n, w) /\ Contents(c, b, r, n, mem, held) /\ InOrder(c, b, n, sizes)
      /\ pucRead = c[r].pos /\ pucWrite = c[n + 1].pos
      /\ due = DueRec(c[r]) /\ xItemsWaiting = PartsFrom(c, r, n, w)
  BY ChainFacts
<1> DEFINE X == xItemsWaiting
           At(k) == Nth(c, r, n, w, k)
           Next1(s) ==
             LET g == GetAt(s.read)
                 d == DueAfter(g, s.due)
             IN  IF ~s.ok \/ ~Readable(s.read) THEN [s EXCEPT !.ok = FALSE]
                 ELSE [read |-> g.read, due |-> d,
                       ok |-> /\ \A i \in 0 .. (g.len - 1) :
                                    mem[g.item + i] = DataWord(s.due.item, s.due.off + i)
                              /\ ~g.split => s.due.off + g.len = sizes[s.due.item]]
           Rec(f, k) == IF k = 0 THEN [read |-> pucRead, due |-> due, ok |-> TRUE]
                        ELSE Next1(f[k - 1])
           Val(t) == [read |-> c[t].pos, due |-> DueRec(c[t]), ok |-> TRUE]
           g0 == [k \in 0 .. X |-> Val(At(k))]
           F == CHOOSE f : f = [k \in 0 .. X |-> Rec(f, k)]
<1>2. Unread = F[X]
  BY DEF Unread
<1>3. X \in Nat
  <2>1. DummyAhead(c, r, n, w) => r <= n
    BY <1>1 DEF DummyAhead
  <2>2. PartsFrom(c, r, n, w) \in Nat
    BY <1>1, <2>1 DEF PartsFrom
  <2> QED BY <1>1, <2>2
<1>4. ASSUME NEW s \in r .. (n + 1), PartsFrom(c, s, n, w) > 0
      PROVE  Next1(Val(s)) = Val(Taken(c, s) + 1)
  <2> DEFINE t == Taken(c, s)
             g == GetAt(c[s].pos)
             d == DueRec(c[s])
  <2>1. s \in b .. (n + 1) /\ r <= s
    BY <1>1
  <2>2. t \in s .. n /\ c[t].kind # "dummy"
    BY <1>1, <1>4, <2>1, PartTaken
  <2>3. /\ g.item = c[t].pos + 2 /\ g.len = c[t].len
        /\ g.split = (c[t].kind = "split") /\ g.read = c[t + 1].pos
        /\ d = DueRec(c[t]) /\ DueAfter(g, d) = DueRec(c[t + 1])
        /\ Readable(c[s].pos)
    BY <1>1, <1>4, <2>1, PartRead
  <2>4. d.item = c[t].item /\ d.off = c[t].off
    BY <2>3 DEF DueRec
  <2>5. t \in b .. n /\ ~(t < r)
    <3> HIDE DEF t
    <3> QED BY <1>1, <2>1, <2>2
  <2>6. Stored(mem, c[t], FALSE)
    BY <1>1, <2>5 DEF Contents, Stored, FlagsOf
  <2>7. \A i \in 0 .. (g.len - 1) : mem[g.item + i] = DataWord(d.item, d.off + i)
    BY <2>2, <2>3, <2>4, <2>6 DEF Stored
  <2>8. ~g.split => d.off + g.len = sizes[d.item]
    <3>1. c[t].kind = "whole" => c[t].off + c[t].len = sizes[c[t].item]
      BY <1>1, <2>5 DEF InOrder
    <3>2. c[t].kind \in {"whole", "split", "dummy"}
      BY <1>1, <2>5, NodeTypes
    <3> QED BY <2>2, <2>3, <2>4, <3>1, <3>2
  <2>9. /\ Val(s).read = c[s].pos /\ Val(s).due = d /\ Val(s).ok
    OBVIOUS
  <2> HIDE DEF g, d
  <2>10. Next1(Val(s)) =
           [read |-> g.read, due |-> DueAfter(g, d),
            ok |-> /\ \A i \in 0 .. (g.len - 1) : mem[g.item + i] = DataWord(d.item, d.off + i)
                   /\ ~g.split => d.off + g.len = sizes[d.item]]
    <3> HIDE DEF Val
    <3> QED BY <2>3, <2>9, Zenon DEF g
  <2>11. (/\ \A i \in 0 .. (g.len - 1) : mem[g.item + i] = DataWord(d.item, d.off + i)
          /\ ~g.split => d.off + g.len = sizes[d.item]) = TRUE
    BY <2>7, <2>8
  <2> HIDE DEF Next1
  <2>12. Next1(Val(s)) = [read |-> g.read, due |-> DueAfter(g, d), ok |-> TRUE]
    BY <2>10, <2>11, Zenon
  <2> QED BY <2>3, <2>12
<1>5. ASSUME NEW k \in 1 .. X
      PROVE  Next1(Val(At(k - 1))) = Val(At(k))
  <2>1. /\ k - 1 \in Nat /\ k - 1 < PartsFrom(c, r, n, w)
        /\ k - 1 <= PartsFrom(c, r, n, w) /\ k - 1 + 1 = k
    BY <1>1, <1>3
  <2>2. At(k - 1) \in r .. (n + 1) /\ PartsFrom(c, At(k - 1), n, w) = X - (k - 1)
    BY <1>1, <2>1, NthPart
  <2>3. Taken(c, At(k - 1)) + 1 = At(k)
    BY <1>1, <2>1, NthPart
  <2> HIDE DEF At, Next1, Val
  <2>4. PartsFrom(c, At(k - 1), n, w) > 0
    BY <1>1, <1>3, <2>1, <2>2
  <2>5. Next1(Val(At(k - 1))) = Val(Taken(c, At(k - 1)) + 1)
    BY <1>4, <2>2, <2>4
  <2> QED BY <2>3, <2>5
<1> HIDE DEF Next1
<1>6. At(0) = r
  <2>1. DummyAhead(c, r, n, w) => ~(w <= r)
    BY <1>1 DEF DummyAhead
  <2> QED BY <1>1, <2>1 DEF Nth
<1>7. g0 = [k \in 0 .. X |-> Rec(g0, k)]
  <2>1. ASSUME NEW k \in 0 .. X PROVE Val(At(k)) = Rec(g0, k)
    <3>1. CASE k = 0
      BY <1>1, <1>6, <3>1
    <3>2. CASE k # 0
      <4>1. k - 1 \in 0 .. X /\ k \in 1 .. X
        BY <1>3, <3>2
      <4>2. g0[k - 1] = Val(At(k - 1))
        BY <4>1
      <4>3. Next1(Val(At(k - 1))) = Val(At(k))
        BY <1>5, <4>1
      <4> HIDE DEF g0, Val, At
      <4> QED BY <3>2, <4>2, <4>3
    <3> QED BY <3>1, <3>2
  <2> HIDE DEF Rec, At, Val
  <2>2. g0 = [k \in 0 .. X |-> Val(At(k))]
    OBVIOUS
  <2> HIDE DEF g0
  <2> QED BY <2>1, <2>2, Zenon
<1>8. \A k \in 0 .. X : g0[k] = Val(At(k))
  <2> HIDE DEF Val, At
  <2> QED OBVIOUS
<1> HIDE DEF g0
<1>9. F = [k \in 0 .. X |-> Rec(F, k)]
  <2> HIDE DEF Rec
  <2> QED BY <1>7, Zenon
<1> HIDE DEF F
<1>10. \A k \in 0 .. X : F[k] = Rec(F, k) /\ g0[k] = Rec(g0, k)
  <2> HIDE DEF Rec
  <2> QED BY <1>7, <1>9
<1>11. \A k \in 0 .. X : F[k] = g0[k]
  <2> DEFINE T == {k \in 0 .. X : F[k] # g0[k]}
  <2>1. SUFFICES ASSUME T # {} PROVE FALSE
    OBVIOUS
  <2>2. T \subseteq Nat
    OBVIOUS
  <2>3. PICK x \in T : \A y \in T : x <= y
    BY <2>1, <2>2, LeastNat
  <2>4. x \in 0 .. X /\ F[x] # g0[x]
    BY <2>3
  <2>5. x # 0
    BY <1>10, <2>4
  <2>6. x - 1 \in 0 .. X /\ ~(x <= x - 1)
    BY <1>3, <2>4, <2>5
  <2>7. F[x - 1] = g0[x - 1]
    BY <2>3, <2>6
  <2>8. Rec(F, x) = Rec(g0, x)
    BY <2>5, <2>7
  <2> HIDE DEF Rec
  <2> QED BY <1>10, <2>4, <2>8
<1>12. At(X) = n + 1
  <2> DEFINE s == At(X)
  <2>1. X \in Nat /\ X <= PartsFrom(c, r, n, w)
    BY <1>1, <1>3
  <2>2. s \in r .. (n + 1) /\ PartsFrom(c, s, n, w) = PartsFrom(c, r, n, w) - X
    BY <1>1, <2>1, NthPart
  <2> HIDE DEF s, At
  <2>3. PartsFrom(c, s, n, w) = 0
    BY <1>1, <1>3, <2>2
  <2>4. s = n + 1 \/ (s = n /\ DummyAhead(c, s, n, w))
    BY <1>1, <2>2, <2>3 DEF PartsFrom
  <2>5. ~(s = n /\ DummyAhead(c, s, n, w))
    <3>1. SUFFICES ASSUME s = n, DummyAhead(c, s, n, w) PROVE FALSE
      OBVIOUS
    <3>2. w - 1 = n /\ c[n].kind = "dummy" /\ n \in b .. n
      BY <1>1, <2>2, <3>1 DEF DummyAhead
    <3>3. ~(n < n)
      BY <1>1
    <3> QED BY <1>1, <3>2, <3>3 DEF Layout
  <2> QED BY <2>4, <2>5 DEF s
<1>13. Unread = Val(n + 1)
  <2>1. X \in 0 .. X
    BY <1>3
  <2> QED BY <1>2, <1>8, <1>11, <1>12, <2>1
<1>14. DueRec(c[n + 1]) = [item |-> Len(sizes) + 1, off |-> 0]
  BY <1>1 DEF InOrder, DueRec
<1> QED BY <1>1, <1>13, <1>14 DEF UnreadIntact

\* What the application holds is the parts before the read pointer.
LEMMA ChainHeld ==
  ASSUME NEW c, NEW b, NEW a, NEW r, NEW n, NEW w, Chain(c, b, a, r, n, w)
  PROVE  HeldIntact
<1>1. /\ c \in [Nat -> Node] /\ b \in Nat /\ r \in Nat /\ n \in Nat /\ r <= n + 1
      /\ Contents(c, b, r, n, mem, held) /\ InOrder(c, b, n, sizes)
  BY ChainFacts
<1>2. SUFFICES ASSUME NEW h \in held
               PROVE  /\ mem[h.ptr - 2] = LenWord(h.len)
                      /\ mem[h.ptr - 1] \in {FlagsWord({}), FlagsWord({"split"})}
                      /\ \A k \in 0 .. (h.len - 1) : mem[h.ptr + k] = DataWord(h.item, h.off + k)
                      /\ ~h.split => h.off + h.len = sizes[h.item]
  BY DEF HeldIntact
<1>3. PICK i \in b .. (r - 1) : c[i].kind # "dummy" /\ h = PartOf(c[i])
  BY <1>1 DEF Contents
<1>4. i \in b .. n /\ i \in Nat
  BY <1>1
<1>5. /\ c[i].pos \in Nat /\ c[i].kind \in {"whole", "split", "dummy"}
  BY <1>1, <1>4, NodeTypes
<1>6. Stored(mem, c[i], FALSE)
  <2>1. PartOf(c[i]) \in held
    BY <1>3
  <2> QED BY <1>1, <1>4, <2>1 DEF Contents, Stored, FlagsOf
<1>7. /\ h.ptr = c[i].pos + 2 /\ h.len = c[i].len /\ h.split = (c[i].kind = "split")
      /\ h.item = c[i].item /\ h.off = c[i].off
  BY <1>3 DEF PartOf
<1>8. h.ptr - 2 = c[i].pos /\ h.ptr - 1 = c[i].pos + 1
  BY <1>5, <1>7
<1>9. c[i].kind = "whole" => c[i].off + c[i].len = sizes[c[i].item]
  BY <1>1, <1>4 DEF InOrder
<1>10. mem[h.ptr - 2] = LenWord(h.len)
  BY <1>6, <1>7, <1>8 DEF Stored
<1>11. mem[h.ptr - 1] \in {FlagsWord({}), FlagsWord({"split"})}
  BY <1>3, <1>6, <1>8 DEF Stored, FlagsOf
<1>12. \A k \in 0 .. (h.len - 1) : mem[h.ptr + k] = DataWord(h.item, h.off + k)
  BY <1>3, <1>6, <1>7 DEF Stored
<1>13. ~h.split => h.off + h.len = sizes[h.item]
  BY <1>3, <1>5, <1>7, <1>9
<1> QED BY <1>10, <1>11, <1>12, <1>13

\* The pointers are places for a header, and together when the buffer is full.
LEMMA ChainPointers ==
  ASSUME ItemTypes, NEW c, NEW b, NEW a, NEW r, NEW n, NEW w, Chain(c, b, a, r, n, w)
  PROVE  /\ pucWrite \in Nat /\ pucWrite <= xSize - 2 /\ pucFree \in Nat /\ pucFree <= xSize - 2
         /\ full => pucWrite = pucFree
         /\ full \in BOOLEAN /\ AllowSplit \in BOOLEAN
<1>1. /\ c \in [Nat -> Node] /\ a \in Nat /\ n + 1 \in Nat
      /\ pucFree = c[a].pos /\ pucWrite = c[n + 1].pos /\ (full => pucWrite = pucFree)
  BY ChainFacts
<1>2. \A t \in Nat : c[t].pos \in Nat /\ c[t].pos <= xSize - 2
  BY <1>1, NodeTypes
<1> QED BY <1>1, <1>2 DEF ItemTypes

\* What is reported as free can be sent.
LEMMA ChainFreeSize ==
  ASSUME ItemTypes, NEW c, NEW b, NEW a, NEW r, NEW n, NEW w, Chain(c, b, a, r, n, w)
  PROVE  FreeSizeSoundWithRoom
<1>1. /\ pucWrite \in Nat /\ pucWrite <= xSize - 2 /\ pucFree \in Nat /\ pucFree <= xSize - 2
      /\ full => pucWrite = pucFree
      /\ full \in BOOLEAN /\ AllowSplit \in BOOLEAN
  BY ChainPointers
<1>2. CASE full
  <2>1. xGetCurMaxSize = 0
    BY <1>2 DEF xGetCurMaxSize, prvGetCurMaxSizeAllowSplit, prvGetCurMaxSizeNoSplit
  <2>2. \A k \in Int : ~prvCheckItemFitsDefault(k)
    BY <1>1, <1>2 DEF prvCheckItemFitsDefault
  <2> QED BY <2>1, <2>2 DEF FreeSizeSoundWithRoom, FreeSizeSound
<1>3. CASE ~full /\ AllowSplit
  <2>1. ASSUME FreeWords >= HeadersNeeded, NEW k \in 1 .. xMaxItemSize, k <= xGetCurMaxSize
        PROVE  prvCheckItemFitsDefault(k)
    <3>1. CASE pucWrite = pucFree
      BY <1>3, <3>1 DEF prvCheckItemFitsDefault
    <3>2. CASE pucWrite < pucFree
      <4>1. /\ pucFree - pucWrite >= 4
            /\ k <= pucFree - pucWrite - 2 \/ pucFree - pucWrite - 2 > xMaxItemSize
        BY <1>1, <1>3, <2>1, <3>2 DEF FreeWords, HeadersNeeded, xGetCurMaxSize,
           prvGetCurMaxSizeAllowSplit, Limited, AboveMaxUnsigned
      <4>2. k + 2 <= pucFree - pucWrite
        BY <1>1, <1>3, <4>1 DEF xMaxItemSize
      <4> QED BY <1>1, <3>2, <4>2 DEF prvCheckItemFitsDefault
    <3>3. CASE pucFree < pucWrite
      <4>1. /\ pucFree + (xSize - pucWrite) >= 4
            /\ \/ k <= pucFree + (xSize - pucWrite) - 4
               \/ pucFree + (xSize - pucWrite) - 4 > xMaxItemSize
        BY <1>1, <1>3, <2>1, <3>3 DEF FreeWords, HeadersNeeded, xGetCurMaxSize,
           prvGetCurMaxSizeAllowSplit, Limited, AboveMaxUnsigned
      <4>2. k + 2 + 2 <= xSize - (pucWrite - pucFree)
        BY <1>1, <1>3, <4>1 DEF xMaxItemSize
      <4> QED BY <1>1, <1>3, <3>3, <4>2 DEF prvCheckItemFitsDefault
    <3> QED BY <1>1, <3>1, <3>2, <3>3
  <2> QED BY <1>3, <2>1 DEF FreeSizeSoundWithRoom, FreeSizeSound
<1>4. CASE ~full /\ ~AllowSplit
  <2> DEFINE room == IF pucWrite < pucFree THEN pucFree - pucWrite
                     ELSE IF xSize - pucWrite > pucFree THEN xSize - pucWrite ELSE pucFree
             max == xMaxItemSize
  <2>1. max \in Nat /\ 2 * max <= xSize - 3 /\ 2 * max >= xSize - 4
    BY <1>4 DEF xMaxItemSize
  <2>2. xGetCurMaxSize = Limited(room - 2) /\ room \in Int
    BY <1>1, <1>4 DEF xGetCurMaxSize, prvGetCurMaxSizeNoSplit
  <2>3. ASSUME FreeWords >= HeadersNeeded
        PROVE  /\ room >= 2
               /\ \A k \in 1 .. max : k <= xGetCurMaxSize <=> k <= room - 2
    <3>1. room >= 2
      BY <1>1, <1>4, <2>3 DEF FreeWords, HeadersNeeded
    <3> HIDE DEF room
    <3>2. xGetCurMaxSize = IF room - 2 > max THEN max ELSE room - 2
      BY <2>2, <3>1 DEF Limited, AboveMaxUnsigned
    <3> HIDE DEF max
    <3> QED BY <2>1, <2>2, <3>1, <3>2
  <2>4. ASSUME NEW k \in 1 .. max
        PROVE  prvCheckItemFitsDefault(k) <=> k <= room - 2
    <3>1. k \in Nat /\ k <= max
      <4> HIDE DEF max
      <4> QED BY <2>1
    <3>2. CASE pucWrite = pucFree
      <4>1. prvCheckItemFitsDefault(k)
        BY <1>4, <3>2 DEF prvCheckItemFitsDefault
      <4>2. 2 * room >= xSize
        BY <1>1, <3>2
      <4>3. 2 * (k + 2) <= xSize + 1
        <5> HIDE DEF max
        <5> QED BY <2>1, <3>1
      <4>4. k + 2 <= room
        <5> HIDE DEF room
        <5> QED BY <2>2, <3>1, <4>2, <4>3
      <4> QED BY <1>1, <2>2, <3>1, <4>1, <4>4
    <3>3. CASE pucWrite # pucFree
      <4> HIDE DEF max
      <4> QED BY <1>1, <1>4, <3>1, <3>3 DEF prvCheckItemFitsDefault
    <3> QED BY <3>2, <3>3
  <2> HIDE DEF room
  <2> QED BY <1>4, <2>3, <2>4 DEF FreeSizeSoundWithRoom, FreeSizeSound
<1> QED BY <1>1, <1>2, <1>3, <1>4

\* When everything was received and returned nothing is in use.
LEMMA ChainEmpty ==
  ASSUME ItemTypes, NEW c, NEW b, NEW a, NEW r, NEW n, NEW w, Chain(c, b, a, r, n, w)
  PROVE  SpaceReclaimed
<1>1. SUFFICES ASSUME held = {}, xItemsWaiting = 0
               PROVE  pucFree = pucWrite /\ pucRead = pucWrite /\ ~full
  BY DEF SpaceReclaimed, prvCheckItemFitsDefault
<1>2. /\ c \in [Nat -> Node] /\ b \in Nat /\ a \in Nat /\ r \in Nat /\ n \in Nat /\ w \in Nat
      /\ b <= a /\ a <= r /\ r <= n + 1 /\ b < w /\ Layout(c, b, n, w)
      /\ pucFree = c[a].pos /\ pucRead = c[r].pos /\ pucWrite = c[n + 1].pos
      /\ xItemsWaiting = PartsFrom(c, r, n, w)
      /\ full <=> a <= n /\ pucWrite = pucFree
      /\ ~(a < r)
  BY <1>1, ChainFacts
<1>3. r = n + 1 \/ (r = n /\ DummyAhead(c, r, n, w))
  BY <1>1, <1>2 DEF PartsFrom
<1>4. ~(r = n /\ DummyAhead(c, r, n, w))
  <2>1. SUFFICES ASSUME r = n, DummyAhead(c, r, n, w) PROVE FALSE
    OBVIOUS
  <2>2. w - 1 = n /\ c[n].kind = "dummy" /\ n \in b .. n
    BY <1>2, <2>1 DEF DummyAhead
  <2>3. ~(n < n)
    BY <1>2
  <2> QED BY <1>2, <2>2, <2>3 DEF Layout
<1> QED BY <1>2, <1>3, <1>4

----------------------------------------------------------------------------
(* The steps. *)

\* One part is read: the part g, found where d is due, is the one before number r2.
ReadTo(c, b, n, w, r, H, g, d, r2) ==
    /\ r < r2 /\ r2 <= n + 1
    /\ Contents(c, b, r2, n, mem, H \cup {Part(g, d)})
    /\ g.read = c[r2].pos /\ DueAfter(g, d) = DueRec(c[r2])
    /\ PartsFrom(c, r2, n, w) = PartsFrom(c, r, n, w) - 1
    /\ g.split => PartsFrom(c, r2, n, w) > 0

\* What prvGetItemDefault reads is the next part of what was sent, and it goes on to
\* the one behind (ringbuf.c:336).
LEMMA ReadOne ==
  ASSUME NEW c \in [Nat -> Node], NEW b \in Nat, NEW n \in Nat, NEW w \in Nat, b < w,
         Layout(c, b, n, w), InOrder(c, b, n, sizes),
         NEW r \in Nat, b <= r, r <= n + 1, NEW H, Contents(c, b, r, n, mem, H),
         PartsFrom(c, r, n, w) > 0,
         NEW g, g = GetAt(c[r].pos), NEW d, d = DueRec(c[r])
  PROVE  \E r2 \in Nat : ReadTo(c, b, n, w, r, H, g, d, r2)
<1> DEFINE t == Taken(c, r)
<1>1. r \in b .. (n + 1) /\ r <= r
  OBVIOUS
<1>2. /\ r <= n /\ t \in r .. n /\ c[t].kind # "dummy"
      /\ PartsFrom(c, t + 1, n, w) = PartsFrom(c, r, n, w) - 1
      /\ c[t].kind = "split" => PartsFrom(c, t + 1, n, w) > 0
  BY <1>1, PartTaken
<1>3. /\ g.split = (c[t].kind = "split") /\ g.read = c[t + 1].pos
      /\ DueAfter(g, d) = DueRec(c[t + 1]) /\ Part(g, d) = PartOf(c[t])
  BY <1>1, PartRead
<1>4. Contents(c, b, t + 1, n, mem, H \cup {PartOf(c[t])})
  BY <1>2, ContentsRead
<1> HIDE DEF t
<1>5. t + 1 \in Nat /\ r < t + 1 /\ t + 1 <= n + 1
  BY <1>2
<1>6. ReadTo(c, b, n, w, r, H, g, d, t + 1)
  BY <1>2, <1>3, <1>4, <1>5 DEF ReadTo
<1> QED BY <1>5, <1>6

\* The chain after one or two parts were read: the read pointer is at number r2.
LEMMA ReadChain ==
  ASSUME ItemTypes, NEW c, NEW b, NEW a, NEW r, NEW n, NEW w, Chain(c, b, a, r, n, w),
         UNCHANGED <<AllowSplit, use, pucWrite, pucFree, full, mem, sizes>>,
         NEW r2 \in Nat, r < r2, r2 <= n + 1, NEW H2, held' = H2, H2 # {},
         Contents(c, b, r2, n, mem, H2), pucRead' = c[r2].pos, due' = DueRec(c[r2]),
         xItemsWaiting' = PartsFrom(c, r2, n, w), use = "one" => \E h : H2 = {h}
  PROVE  IInv'
<1>1. /\ c \in [Nat -> Node] /\ b \in Nat /\ a \in Nat /\ r \in Nat /\ n \in Nat /\ w \in Nat
      /\ b <= a /\ a <= r /\ r <= n + 1 /\ b < w
      /\ Layout(c, b, n, w) /\ InOrder(c, b, n, sizes)
      /\ pucFree = c[a].pos /\ pucWrite = c[n + 1].pos
      /\ full <=> a <= n /\ pucWrite = pucFree
      /\ b = a \/ (a = n + 1 /\ use = "batch" /\ held # {})
  BY ChainFacts
<1>2. b = a
  BY <1>1
<1>3. Bounds(c, b, a, r2, n, w)
  BY <1>1 DEF Bounds
<1>4. Pointers(c, a, r2, n, w)'
  BY <1>1 DEF Pointers
<1>5. Chain(c, b, a, r2, n, w)'
  BY <1>1, <1>2, <1>3, <1>4 DEF Chain
<1>6. ItemTypes'
  BY DEF ItemTypes
<1> QED BY <1>5, <1>6 DEF IInv

\* With one part at a time nothing is held before a receive.
LEMMA OneHeld ==
  ASSUME ItemTypes, use = "one", NEW k \in {1, 2}, CanHold(k)
  PROVE  held = {} /\ k = 1
<1>1. Cardinality({}) = 0 /\ \A h : Cardinality({h}) = 1
  BY FS_EmptySet, FS_Singleton
<1>2. Cardinality(held) + k <= 1
  BY DEF CanHold
<1>3. held = {} \/ \E h : held = {h}
  BY DEF ItemTypes
<1>4. CASE held = {}
  BY <1>1, <1>2, <1>4
<1>5. CASE \E h : held = {h}
  <2>1. Cardinality(held) = 1
    BY <1>1, <1>5
  <2> QED BY <1>2, <2>1
<1> QED BY <1>3, <1>4, <1>5

\* xRingbufferReceive keeps the invariant, and so does xRingbufferReceiveSplit when it
\* returns one part.
LEMMA ReceiveOne ==
  ASSUME ItemTypes, NEW c, NEW b, NEW a, NEW r, NEW n, NEW w, Chain(c, b, a, r, n, w),
         prvCheckItemAvail, CanHold(1),
         held' = held \cup {Part(GetAt(pucRead), due)}, due' = DueAfter(GetAt(pucRead), due),
         pucRead' = GetAt(pucRead).read, xItemsWaiting' = xItemsWaiting - 1,
         UNCHANGED <<AllowSplit, use, pucWrite, pucFree, full, mem, sizes>>
  PROVE  IInv'
<1>1. /\ c \in [Nat -> Node] /\ b \in Nat /\ r \in Nat /\ n \in Nat /\ w \in Nat
      /\ b <= r /\ r <= n + 1 /\ b < w
      /\ Layout(c, b, n, w) /\ Contents(c, b, r, n, mem, held) /\ InOrder(c, b, n, sizes)
      /\ pucRead = c[r].pos /\ due = DueRec(c[r]) /\ xItemsWaiting = PartsFrom(c, r, n, w)
  BY ChainFacts
<1>2. PartsFrom(c, r, n, w) > 0
  BY <1>1 DEF prvCheckItemAvail
<1>3. PICK g, d, H : g = GetAt(pucRead) /\ d = due /\ H = held
  OBVIOUS
<1>4. g = GetAt(c[r].pos) /\ d = DueRec(c[r]) /\ Contents(c, b, r, n, mem, H)
  BY <1>1, <1>3
<1>5. PICK r2 \in Nat : ReadTo(c, b, n, w, r, H, g, d, r2)
  BY <1>1, <1>2, <1>4, ReadOne
<1> DEFINE H2 == H \cup {Part(g, d)}
<1>6. use = "one" => H2 = {Part(g, d)}
  BY <1>3, OneHeld
<1>7. H2 # {}
  OBVIOUS
<1> HIDE DEF H2
<1>8. held' = H2 /\ pucRead' = c[r2].pos /\ due' = DueRec(c[r2])
  BY <1>3, <1>5 DEF H2, ReadTo
<1>9. xItemsWaiting' = PartsFrom(c, r2, n, w) /\ r < r2 /\ r2 <= n + 1
  BY <1>1, <1>5 DEF ReadTo
<1>10. Contents(c, b, r2, n, mem, H2)
  BY <1>5 DEF H2, ReadTo
<1>11. use = "one" => \E h : H2 = {h}
  BY <1>6
<1> QED BY <1>5, <1>7, <1>8, <1>9, <1>10, <1>11, ReadChain

\* xRingbufferReceive keeps the invariant.
LEMMA ReceiveStep ==
  ASSUME ItemTypes, NEW c, NEW b, NEW a, NEW r, NEW n, NEW w, Chain(c, b, a, r, n, w), Receive
  PROVE  IInv'
BY ReceiveOne DEF Receive, created

\* xRingbufferReceiveSplit keeps the invariant when it returns both parts of an item.
LEMMA ReceiveSplitStep ==
  ASSUME ItemTypes, NEW c, NEW b, NEW a, NEW r, NEW n, NEW w, Chain(c, b, a, r, n, w),
         ReceiveSplit
  PROVE  IInv'
<1>1. /\ c \in [Nat -> Node] /\ b \in Nat /\ r \in Nat /\ n \in Nat /\ w \in Nat
      /\ b <= r /\ r <= n + 1 /\ b < w
      /\ Layout(c, b, n, w) /\ Contents(c, b, r, n, mem, held) /\ InOrder(c, b, n, sizes)
      /\ pucRead = c[r].pos /\ due = DueRec(c[r]) /\ xItemsWaiting = PartsFrom(c, r, n, w)
  BY ChainFacts
<1>2. PartsFrom(c, r, n, w) > 0
  BY <1>1 DEF ReceiveSplit, prvCheckItemAvail
<1>3. PICK g, d, H : g = GetAt(pucRead) /\ d = due /\ H = held
  OBVIOUS
<1>4. CASE ~g.split
  BY <1>3, <1>4, ReceiveOne DEF ReceiveSplit, created
<1>5. CASE g.split
  <2>1. PICK e, g2 : e = DueAfter(g, d) /\ g2 = GetAt(g.read)
    OBVIOUS
  <2>2. /\ CanHold(2)
        /\ held' = H \cup {Part(g, d), Part(g2, e)}
        /\ due' = DueAfter(g2, e) /\ pucRead' = g2.read
        /\ xItemsWaiting' = xItemsWaiting - 2
        /\ UNCHANGED <<AllowSplit, use, pucWrite, pucFree, full, mem, sizes>>
    BY <1>3, <1>5, <2>1 DEF ReceiveSplit, created
  <2>3. g = GetAt(c[r].pos) /\ d = DueRec(c[r]) /\ Contents(c, b, r, n, mem, H)
    BY <1>1, <1>3
  <2> DEFINE H1 == H \cup {Part(g, d)}
             H2 == H1 \cup {Part(g2, e)}
  <2>12. PICK r1 \in Nat : ReadTo(c, b, n, w, r, H, g, d, r1)
    BY <1>1, <1>2, <2>3, ReadOne
  <2>4. /\ r < r1 /\ r1 <= n + 1
        /\ Contents(c, b, r1, n, mem, H1)
        /\ g.read = c[r1].pos /\ DueAfter(g, d) = DueRec(c[r1])
        /\ PartsFrom(c, r1, n, w) = PartsFrom(c, r, n, w) - 1
        /\ PartsFrom(c, r1, n, w) > 0
    BY <1>5, <2>12 DEF ReadTo
  <2>5. g2 = GetAt(c[r1].pos) /\ e = DueRec(c[r1])
    BY <2>1, <2>4
  <2>6. b <= r1
    BY <1>1, <2>4
  <2>7. H2 # {}
    OBVIOUS
  <2>8. held' = H2
    BY <2>2
  <2> HIDE DEF H1
  <2>13. PICK r2 \in Nat : ReadTo(c, b, n, w, r1, H1, g2, e, r2)
    BY <1>1, <2>4, <2>5, <2>6, ReadOne
  <2>9. /\ r1 < r2 /\ r2 <= n + 1
        /\ Contents(c, b, r2, n, mem, H2)
        /\ g2.read = c[r2].pos /\ DueAfter(g2, e) = DueRec(c[r2])
        /\ PartsFrom(c, r2, n, w) = PartsFrom(c, r1, n, w) - 1
    BY <2>13 DEF ReadTo
  <2> HIDE DEF H2
  <2>10. r < r2 /\ xItemsWaiting' = PartsFrom(c, r2, n, w)
    <3>1. PartsFrom(c, r, n, w) \in Int
      BY <1>1 DEF PartsFrom
    <3> QED BY <1>1, <2>2, <2>4, <2>9, <3>1
  <2>11. use # "one"
    BY <2>2, OneHeld
  <2> QED BY <2>2, <2>7, <2>8, <2>9, <2>10, <2>11, ReadChain
<1> QED BY <1>4, <1>5

\* prvCheckItemFits keeps what is written clear of what is in use (ringbuf.c:166-185).
LEMMA SendRoom ==
  ASSUME ItemTypes, NEW c, NEW b, NEW a, NEW r, NEW n, NEW w, Chain(c, b, a, r, n, w), b = a,
         NEW k \in Nat, k <= xMaxItemSize, prvCheckItemFitsDefault(k)
  PROVE  /\ ~full
         /\ w <= n + 1 => pucWrite + 2 + k <= xSize /\ pucWrite + 2 + k <= c[b].pos
         /\ pucWrite + 2 + k > xSize =>
               /\ n + 1 < w
               /\ AllowSplit => 2 + (k - (xSize - pucWrite - 2)) <= c[b].pos
               /\ ~AllowSplit => 2 + k <= c[b].pos
<1>1. /\ c \in [Nat -> Node] /\ b \in Nat /\ n \in Nat /\ w \in Nat
      /\ b <= n + 1 /\ b < w /\ Layout(c, b, n, w)
      /\ pucFree = c[b].pos /\ pucWrite = c[n + 1].pos
      /\ full <=> b <= n /\ pucWrite = pucFree
  BY ChainFacts
<1>2. /\ pucWrite \in Nat /\ pucWrite <= xSize - 2 /\ pucFree \in Nat /\ pucFree <= xSize - 2
      /\ full \in BOOLEAN /\ AllowSplit \in BOOLEAN
  BY ChainPointers
<1>3. ~full
  BY <1>1 DEF prvCheckItemFitsDefault
<1>4. k <= IF AllowSplit THEN xSize - 4 ELSE (xSize + 1) \div 2 - 2
  BY DEF xMaxItemSize
<1>5. w <= n + 1 => pucWrite < pucFree
  <2>1. w <= n + 1 => c[n + 1].pos <= c[b].pos
    BY <1>1 DEF Layout
  <2>2. w <= n + 1 => b <= n
    BY <1>1
  <2> QED BY <1>1, <1>2, <1>3, <2>1, <2>2
<1>6. n + 1 < w => pucFree <= pucWrite
  BY <1>1, LayoutTail
<1>7. CASE pucWrite < pucFree
  <2>1. k + 2 <= pucFree - pucWrite
    BY <1>2, <1>7 DEF prvCheckItemFitsDefault
  <2> QED BY <1>1, <1>2, <1>3, <1>7, <2>1
<1>8. CASE pucWrite = pucFree
  <2>1. n + 1 < w
    BY <1>1, <1>2, <1>5, <1>8
  <2>2. ~AllowSplit /\ pucWrite + 2 + k > xSize => 2 + k <= pucFree
    <3>1. ~AllowSplit => 2 * (k + 2) <= xSize + 1
      BY <1>4
    <3> QED BY <1>2, <1>8, <3>1
  <2>3. AllowSplit => 2 + (k - (xSize - pucWrite - 2)) <= pucFree
    BY <1>2, <1>4, <1>8
  <2> QED BY <1>1, <1>3, <2>1, <2>2, <2>3
<1>9. CASE pucFree < pucWrite
  <2>1. n + 1 < w
    BY <1>1, <1>2, <1>5, <1>9
  <2>2. pucWrite + 2 + k > xSize =>
           IF AllowSplit THEN k + 2 + 2 <= xSize - (pucWrite - pucFree) ELSE k + 2 <= pucFree
    BY <1>2, <1>9 DEF prvCheckItemFitsDefault
  <2> QED BY <1>1, <1>2, <1>3, <2>1, <2>2
<1> QED BY <1>1, <1>2, <1>3, <1>7, <1>8, <1>9

\* What one node takes up, as prvCopyItem writes it, and what two do.
OneNode(m, p, item, len, m2) == PutNode(m, p, len, {}, item, 0, m2)
TwoNodes(m, p, kind, item, first, rest, m2) ==
    \E m1 : /\ PutNode(m, p, first, {kind}, item, 0, m1)
            /\ PutNode(m1, 0, rest, {}, item, first, m2)

\* memcpy of no bytes.
LEMMA NoData ==
  ASSUME NEW m, IsMemory(m), NEW p \in Nat, NEW flags, NEW item, NEW q \in Nat
  PROVE  PutData(PutHeader(m, p, 0, flags), q, item, 0, 0) = PutHeader(m, p, 0, flags)
<1> DEFINE m1 == PutHeader(m, p, 0, flags)
<1>1. m1 = [y \in Cells |-> m1[y]]
  BY DEF PutHeader, IsMemory
<1> HIDE DEF m1
<1>2. PutData(m1, q, item, 0, 0) = [y \in Cells |-> m1[y]]
  BY DEF PutData, Cells
<1> QED BY <1>1, <1>2 DEF m1

\* What a send does: the item in one piece, or after the end of the storage area.
LEMMA SendCopies ==
  ASSUME ItemTypes, NEW k \in Nat, pucWrite \in Nat, pucWrite <= xSize - 2, Send(k)
  PROVE  /\ use = "batch" => held = {}
         /\ k <= xMaxItemSize /\ prvCheckItemFitsDefault(k)
         /\ sizes' = Append(sizes, k) /\ full' = (full \/ pucWrite' = pucFree)
         /\ UNCHANGED <<AllowSplit, use, pucRead, pucFree, held, due>>
         /\ pucWrite + 2 + k <= xSize =>
               /\ OneNode(mem, pucWrite, Len(sizes) + 1, k, mem')
               /\ pucWrite' = WrapPtr(pucWrite + 2 + k)
               /\ xItemsWaiting' = xItemsWaiting + 1
         /\ pucWrite + 2 + k > xSize =>
               \E first \in Nat, rest \in Nat, kind \in {"dummy", "split"} :
                  /\ IF AllowSplit THEN first = xSize - pucWrite - 2 ELSE first = 0
                  /\ first + rest = k /\ pucWrite + 2 + first <= xSize
                  /\ kind = "dummy" => first = 0
                  /\ kind = "split" => pucWrite + 2 + first = xSize
                  /\ TwoNodes(mem, pucWrite, kind, Len(sizes) + 1, first, rest, mem')
                  /\ pucWrite' = WrapPtr(2 + rest)
                  /\ xItemsWaiting' = xItemsWaiting + (IF kind = "split" THEN 2 ELSE 1)
<1>1. /\ use = "batch" => held = {}
      /\ k <= xMaxItemSize /\ prvCheckItemFitsDefault(k)
      /\ sizes' = Append(sizes, k)
      /\ UNCHANGED <<AllowSplit, use, pucRead, pucFree, held, due>>
      /\ AllowSplit => prvCopyItemAllowSplit(k)
      /\ ~AllowSplit => prvCopyItemNoSplit(k)
      /\ AllowSplit \in BOOLEAN /\ IsMemory(mem)
  BY DEF Send, created, ItemTypes
<1>2. full' = (full \/ pucWrite' = pucFree)
  BY <1>1 DEF prvCopyItemAllowSplit, prvCopyItemNoSplit
<1>3. ASSUME pucWrite + 2 + k <= xSize
      PROVE  /\ OneNode(mem, pucWrite, Len(sizes) + 1, k, mem')
             /\ pucWrite' = WrapPtr(pucWrite + 2 + k)
             /\ xItemsWaiting' = xItemsWaiting + 1
  <2>1. ~(xSize - pucWrite < k + 2) /\ k - 0 = k /\ ~(0 > 0)
    BY <1>3
  <2>2. CASE AllowSplit
    BY <1>1, <2>1, <2>2 DEF prvCopyItemAllowSplit, OneNode, PutNode
  <2>3. CASE ~AllowSplit
    BY <1>1, <2>1, <2>3 DEF prvCopyItemNoSplit, OneNode, PutNode
  <2> QED BY <1>1, <2>2, <2>3
<1>4. ASSUME pucWrite + 2 + k > xSize, AllowSplit
      PROVE  \E first \in Nat, rest \in Nat, kind \in {"dummy", "split"} :
                  /\ first = xSize - pucWrite - 2
                  /\ first + rest = k /\ pucWrite + 2 + first <= xSize
                  /\ kind = "dummy" => first = 0
                  /\ kind = "split" => pucWrite + 2 + first = xSize
                  /\ TwoNodes(mem, pucWrite, kind, Len(sizes) + 1, first, rest, mem')
                  /\ pucWrite' = WrapPtr(2 + rest)
                  /\ xItemsWaiting' = xItemsWaiting + (IF kind = "split" THEN 2 ELSE 1)
  <2> DEFINE first == xSize - pucWrite - 2
             kind == IF first > 0 THEN "split" ELSE "dummy"
  <2>1. /\ xSize - pucWrite < k + 2 /\ first \in Nat /\ k - first \in Nat
        /\ first + (k - first) = k /\ pucWrite + 2 + first = xSize
    BY <1>4
  <2>2. (IF first > 0 THEN {"split"} ELSE {"dummy"}) = {kind}
    OBVIOUS
  <2>3. /\ mem' = PutData(PutHeader(
                    PutData(PutHeader(mem, pucWrite, first, IF first > 0 THEN {"split"} ELSE {"dummy"}),
                            pucWrite + 2, Len(sizes) + 1, 0, first),
                    0, k - first, {}), 0 + 2, Len(sizes) + 1, first, k - first)
        /\ pucWrite' = WrapPtr(0 + 2 + (k - first))
        /\ xItemsWaiting' = xItemsWaiting + (IF first > 0 THEN 2 ELSE 1)
    BY <1>1, <1>4, <2>1 DEF prvCopyItemAllowSplit
  <2>4. /\ kind \in {"dummy", "split"} /\ (kind = "dummy" => first = 0) /\ (kind = "split" <=> first > 0)
    BY <2>1
  <2>5. 0 + 2 + (k - first) = 2 + (k - first)
    BY <2>1
  <2> HIDE DEF first, kind
  <2>6. TwoNodes(mem, pucWrite, kind, Len(sizes) + 1, first, k - first, mem')
    BY <2>2, <2>3 DEF TwoNodes, PutNode
  <2>7. xItemsWaiting' = xItemsWaiting + (IF kind = "split" THEN 2 ELSE 1)
    BY <2>3, <2>4
  <2>8. first = xSize - pucWrite - 2
    BY DEF first
  <2> USE <2>1, <2>4
  <2>9. WITNESS first \in Nat, k - first \in Nat, kind \in {"dummy", "split"}
  <2> QED BY <2>1, <2>3, <2>4, <2>5, <2>6, <2>7, <2>8
<1>5. ASSUME pucWrite + 2 + k > xSize, ~AllowSplit
      PROVE  /\ TwoNodes(mem, pucWrite, "dummy", Len(sizes) + 1, 0, k, mem')
             /\ pucWrite' = WrapPtr(2 + k)
             /\ xItemsWaiting' = xItemsWaiting + 1
  <2>1. xSize - pucWrite < k + 2 /\ 0 + 2 + k = 2 + k
    BY <1>5
  <2>2. PutData(PutHeader(mem, pucWrite, 0, {"dummy"}), pucWrite + 2, Len(sizes) + 1, 0, 0)
          = PutHeader(mem, pucWrite, 0, {"dummy"})
    <3>1. pucWrite + 2 \in Nat
      OBVIOUS
    <3> QED BY <1>1, <3>1, NoData
  <2>3. /\ mem' = PutData(PutHeader(PutHeader(mem, pucWrite, 0, {"dummy"}), 0, k, {}),
                          0 + 2, Len(sizes) + 1, 0, k)
        /\ pucWrite' = WrapPtr(0 + 2 + k)
        /\ xItemsWaiting' = xItemsWaiting + 1
    BY <1>1, <1>5, <2>1 DEF prvCopyItemNoSplit
  <2> QED BY <2>1, <2>2, <2>3 DEF TwoNodes, PutNode
<1>6. ASSUME pucWrite + 2 + k > xSize, ~AllowSplit
      PROVE  \E first \in Nat, rest \in Nat, kind \in {"dummy", "split"} :
                  /\ first = 0
                  /\ first + rest = k /\ pucWrite + 2 + first <= xSize
                  /\ kind = "dummy" => first = 0
                  /\ kind = "split" => pucWrite + 2 + first = xSize
                  /\ TwoNodes(mem, pucWrite, kind, Len(sizes) + 1, first, rest, mem')
                  /\ pucWrite' = WrapPtr(2 + rest)
                  /\ xItemsWaiting' = xItemsWaiting + (IF kind = "split" THEN 2 ELSE 1)
  <2>1. 0 \in Nat /\ "dummy" \in {"dummy", "split"} /\ 0 + k = k /\ pucWrite + 2 + 0 <= xSize
    OBVIOUS
  <2>2. WITNESS 0 \in Nat, k \in Nat, "dummy" \in {"dummy", "split"}
  <2> QED BY <1>5, <1>6, <2>1
<1> QED BY <1>1, <1>2, <1>3, <1>4, <1>6

\* c2 has the nodes of c and goes on where they end.
Continues(c, b, n, c2) ==
    /\ \A i \in b .. n : c2[i] = c[i]
    /\ c2[n + 1].pos = c[n + 1].pos /\ c2[n + 1].item = c[n + 1].item
    /\ c2[n + 1].off = c[n + 1].off

\* A copy that puts nodes behind the others and leaves the rest alone keeps the
\* invariant.
LEMMA SendChain ==
  ASSUME ItemTypes, NEW c, NEW b, NEW r, NEW n, NEW w, Chain(c, b, b, r, n, w),
         NEW k \in Nat, sizes' = Append(sizes, k), full' \in BOOLEAN,
         full' <=> pucWrite' = pucFree,
         UNCHANGED <<AllowSplit, use, pucRead, pucFree, held, due>>,
         NEW c2 \in [Nat -> Node], Continues(c, b, n, c2),
         NEW n2 \in Nat, n < n2, NEW w2 \in Nat, b < w2, Layout(c2, b, n2, w2),
         NEW m2, mem' = m2, IsMemory(m2), NEW S2, S2 = Append(sizes, k),
         Contents(c2, b, r, n2, m2, held), InOrder(c2, b, n2, S2),
         pucWrite' = c2[n2 + 1].pos, xItemsWaiting' = PartsFrom(c2, r, n2, w2)
  PROVE  IInv'
<1>1. /\ c \in [Nat -> Node] /\ b \in Nat /\ r \in Nat /\ n \in Nat /\ w \in Nat
      /\ b <= r /\ r <= n + 1 /\ b < w
      /\ pucFree = c[b].pos /\ pucRead = c[r].pos /\ due = DueRec(c[r])
      /\ b < r => held # {}
  BY ChainFacts
<1>2. c2[b].pos = c[b].pos /\ c2[r].pos = c[r].pos /\ DueRec(c2[r]) = DueRec(c[r])
  <2>1. \A i \in b .. (n + 1) :
           c2[i].pos = c[i].pos /\ c2[i].item = c[i].item /\ c2[i].off = c[i].off
    BY <1>1 DEF Continues
  <2>2. b \in b .. (n + 1) /\ r \in b .. (n + 1)
    BY <1>1
  <2> QED BY <2>1, <2>2 DEF DueRec
<1>3. Bounds(c2, b, b, r, n2, w2)
  BY <1>1 DEF Bounds
<1>4. Pointers(c2, b, r, n2, w2)'
  <2>1. full' <=> b <= n2 /\ pucWrite' = pucFree
    <3>1. b <= n2
      BY <1>1
    <3> QED BY <3>1
  <2> QED BY <1>1, <1>2, <2>1 DEF Pointers
<1>5. Contents(c2, b, r, n2, m2, held)'
  OBVIOUS
<1>6. Chain(c2, b, b, r, n2, w2)'
  BY <1>1, <1>3, <1>4 DEF Chain
<1>7. ItemTypes'
  <2>1. sizes' \in Seq(Nat)
    BY DEF ItemTypes
  <2> QED BY <2>1 DEF ItemTypes
<1> QED BY <1>6, <1>7 DEF IInv

\* An item written in one piece.
LEMMA SendWhole ==
  ASSUME ItemTypes, NEW c, NEW b, NEW r, NEW n, NEW w, Chain(c, b, b, r, n, w),
         NEW k \in Nat, Send(k), pucWrite + 2 + k <= xSize
  PROVE  IInv'
<1>1. /\ c \in [Nat -> Node] /\ b \in Nat /\ r \in Nat /\ n \in Nat /\ w \in Nat
      /\ b <= r /\ r <= n + 1 /\ b <= n + 1 /\ b < w
      /\ Layout(c, b, n, w) /\ Contents(c, b, r, n, mem, held) /\ InOrder(c, b, n, sizes)
      /\ pucWrite = c[n + 1].pos /\ xItemsWaiting = PartsFrom(c, r, n, w)
  BY ChainFacts
<1>2. pucWrite \in Nat /\ pucWrite <= xSize - 2
  BY ChainPointers
<1>3. /\ k <= xMaxItemSize /\ prvCheckItemFitsDefault(k)
      /\ sizes' = Append(sizes, k) /\ full' = (full \/ pucWrite' = pucFree)
      /\ UNCHANGED <<AllowSplit, use, pucRead, pucFree, held, due>>
      /\ OneNode(mem, pucWrite, Len(sizes) + 1, k, mem')
      /\ pucWrite' = WrapPtr(pucWrite + 2 + k)
      /\ xItemsWaiting' = xItemsWaiting + 1
  BY <1>2, SendCopies
<1>4. ~full /\ (w <= n + 1 => pucWrite + 2 + k <= c[b].pos)
  BY <1>3, SendRoom
<1>5. IsMemory(mem) /\ Len(sizes) \in Nat /\ sizes \in Seq(Nat)
  BY DEF ItemTypes
<1>6. PICK p, q, m, m2, L, H : /\ p = pucWrite /\ q = WrapPtr(pucWrite + 2 + k) /\ m = mem
                               /\ m2 = mem' /\ L = Len(sizes) /\ H = held
  OBVIOUS
<1>7. p \in Nat /\ L \in Nat /\ p <= xSize - 2 /\ p = c[n + 1].pos /\ p + 2 + k <= xSize
  BY <1>1, <1>2, <1>5, <1>6
<1>8. q \in 0 .. (xSize - 2)
  BY SMTT(30), <1>6, <1>7 DEF WrapPtr
<1> DEFINE x1 == [pos |-> p, len |-> k, kind |-> "whole", item |-> L + 1, off |-> 0]
           x2 == [pos |-> q, len |-> 0, kind |-> "whole", item |-> L + 2, off |-> 0]
           c2 == [i \in Nat |-> IF i = n + 1 THEN x1 ELSE IF i = n + 2 THEN x2 ELSE c[i]]
           w2 == NextLap(c2, n, w)
<1>9. x1 \in Node /\ x2 \in Node
  BY <1>7, <1>8 DEF Node
<1>10. c2 \in [Nat -> Node]
  BY <1>1, <1>9
<1>11. /\ c2[n + 1] = x1 /\ c2[n + 2] = x2 /\ \A i \in b .. n : c2[i] = c[i]
  BY <1>1
<1>12. /\ c2[n + 1].pos = p /\ c2[n + 1].len = k /\ c2[n + 1].kind = "whole"
       /\ c2[n + 1].item = L + 1 /\ c2[n + 1].off = 0
       /\ c2[n + 2].pos = q /\ c2[n + 2].item = L + 2 /\ c2[n + 2].off = 0
  BY <1>11
<1>13. c[n + 1].item = L + 1 /\ c[n + 1].off = 0
  BY <1>1, <1>6 DEF InOrder
<1> HIDE DEF c2
<1>14. w2 \in Nat /\ b < w2 /\ Layout(c2, b, n + 1, w2)
  <2>1. c[n + 1].pos + 2 + k <= xSize /\ (w <= n + 1 => c[n + 1].pos + 2 + k <= c[b].pos)
    BY <1>1, <1>4, <1>6, <1>7
  <2>2. WithNode(c, b, n, k, c2)
    BY <1>6, <1>7, <1>11, <1>12 DEF WithNode
  <2> QED BY <1>1, <1>10, <2>1, <2>2, LayoutAppend
<1>15. InOrder(c2, b, n + 1, Append(sizes, k))
  <2>1. /\ c2[n + 1].item = Len(sizes) + 1 /\ n + 1 \in {n + 1, n + 2} /\ n + 1 # n + 2
        /\ n + 1 + 1 = n + 2 /\ c2[n + 2].item = Len(sizes) + 2
    BY <1>1, <1>6, <1>12
  <2> QED BY ZenonT(60), <1>1, <1>5, <1>10, <1>11, <1>12, <2>1, InOrderAppend
<1>16. /\ IsMemory(m2)
       /\ m2[p] = LenWord(k) /\ m2[p + 1] = FlagsWord({})
       /\ \A t \in 0 .. (k - 1) : m2[p + 2 + t] = DataWord(L + 1, 0 + t)
       /\ \A y \in Cells : y < p \/ y >= p + 2 + k => m2[y] = m[y]
  <2>1. PutNode(m, p, k, {}, L + 1, 0, m2)
    BY <1>3, <1>6 DEF OneNode, PutNode
  <2>2. IsMemory(m) /\ L + 1 \in Nat /\ 0 \in Nat
    BY <1>5, <1>6, <1>7
  <2>3. NodeWritten(m, p, k, {}, L + 1, 0, m2)
    BY <1>7, <2>1, <2>2, Written
  <2> QED BY <2>3 DEF NodeWritten
<1>17. Contents(c2, b, r, n + 1, m2, H)
  <2>1. ASSUME NEW i \in b .. n, NEW y \in c[i].pos .. (End(c[i]) - 1)
        PROVE  m2[y] = m[y]
    <3>1. c[i].pos \in Nat /\ End(c[i]) \in Nat /\ End(c[i]) <= xSize
      <4>1. c[i].pos \in Nat /\ c[i].len \in Nat /\ End(c[i]) = c[i].pos + 2 + c[i].len
        BY <1>1, NodeTypes
      <4>2. End(c[i]) <= xSize
        BY <1>1 DEF Layout
      <4> QED BY <4>1, <4>2
    <3>2. End(c[i]) <= p \/ p + 2 + k <= c[i].pos
      <4>1. /\ n + 1 < w => End(c[i]) <= p
            /\ w <= n + 1 => End(c[i]) <= p \/ c[b].pos <= c[i].pos
        BY <1>1, <1>7, Room
      <4>2. c[b].pos \in Nat
        BY <1>1, NodeTypes
      <4> DEFINE v == c[i].pos
                 e == End(c[i])
                 z == c[b].pos
      <4>3. /\ v \in Nat /\ e \in Nat /\ z \in Nat /\ n \in Nat /\ w \in Nat
            /\ n + 1 < w => e <= p
            /\ w <= n + 1 => e <= p \/ z <= v
            /\ w <= n + 1 => p + 2 + k <= z
        BY <1>1, <1>4, <1>6, <3>1, <4>1, <4>2
      <4> HIDE DEF v, e, z
      <4>4. e <= p \/ p + 2 + k <= v
        BY <1>7, <4>3
      <4> QED BY <4>4 DEF v, e
    <3> DEFINE v == c[i].pos
               e == End(c[i])
    <3>3. y \in v .. (e - 1) /\ v \in Nat /\ e \in Nat /\ e <= xSize /\ (e <= p \/ p + 2 + k <= v)
      BY <3>1, <3>2
    <3> HIDE DEF v, e
    <3>4. y \in Cells /\ (y < p \/ y >= p + 2 + k)
      BY <1>7, <3>3 DEF Cells
    <3> QED BY <1>16, <3>4
  <2>2. Stored(m2, x1, FALSE)
    <3>1. \A t \in 0 .. (k - 1) : m2[p + 2 + t] = DataWord(x1.item, x1.off + t)
      BY <1>16
    <3> QED BY <1>16, <3>1 DEF Stored, FlagsOf
  <2>3. \A i \in (n + 1) .. (n + 1) : Stored(m2, c2[i], FALSE)
    <3>1. \A i \in (n + 1) .. (n + 1) : i = n + 1
      BY <1>1
    <3> HIDE DEF x1
    <3> QED BY <1>11, <2>2, <3>1
  <2>4. Contents(c, b, r, n, m, H) /\ n + 1 \in Nat /\ n <= n + 1
    BY <1>1, <1>6
  <2>5. Stores(c, b, n, m, c2, n + 1, m2)
    BY <1>11, <2>1, <2>3 DEF Stores
  <2> QED BY <1>1, <1>10, <2>4, <2>5, ContentsAppend
<1>18. PartsFrom(c2, r, n + 1, w2) = PartsFrom(c, r, n, w) + 1
  <2>1. DummyAhead(c2, r, n + 1, w2) <=> DummyAhead(c, r, n, w)
    <3>1. CASE w <= n + 1
      <4>1. w2 = w /\ w - 1 \in b .. n
        BY <1>1, <3>1 DEF NextLap
      <4>2. c2[w - 1] = c[w - 1]
        BY <1>11, <4>1
      <4> QED BY <1>1, <3>1, <4>1, <4>2 DEF DummyAhead
    <3>2. CASE ~(w <= n + 1)
      <4>1. w2 <= n + 1 + 1 => w2 - 1 = n + 1
        BY <1>1, <3>2 DEF NextLap
      <4> QED BY <1>12, <3>2, <4>1 DEF DummyAhead
    <3> QED BY <3>1, <3>2
  <2> QED BY <1>1, <2>1 DEF PartsFrom
<1> HIDE DEF w2
<1>19. PICK S2 : S2 = Append(sizes, k)
  OBVIOUS
<1>20. /\ Continues(c, b, n, c2)
       /\ n + 1 \in Nat /\ n < n + 1 /\ n + 1 + 1 = n + 2
  BY <1>1, <1>7, <1>11, <1>12, <1>13 DEF Continues
<1>21. /\ full' \in BOOLEAN /\ (full' <=> pucWrite' = pucFree) /\ pucWrite' = c2[n + 1 + 1].pos
       /\ xItemsWaiting' = PartsFrom(c2, r, n + 1, w2)
  BY <1>1, <1>3, <1>4, <1>6, <1>12, <1>18, <1>20
<1>22. Contents(c2, b, r, n + 1, m2, held) /\ InOrder(c2, b, n + 1, S2) /\ mem' = m2
  BY <1>6, <1>15, <1>17, <1>19
<1> QED BY ZenonT(60), <1>3, <1>10, <1>14, <1>16, <1>19, <1>20, <1>21, <1>22, SendChain

\* An item written from the head on, after what is left up to the tail was filled.
LEMMA SendWrapped ==
  ASSUME ItemTypes, NEW c, NEW b, NEW r, NEW n, NEW w, Chain(c, b, b, r, n, w),
         NEW k \in Nat, Send(k), pucWrite + 2 + k > xSize
  PROVE  IInv'
<1>1. /\ c \in [Nat -> Node] /\ b \in Nat /\ r \in Nat /\ n \in Nat /\ w \in Nat
      /\ b <= r /\ r <= n + 1 /\ b <= n + 1 /\ b < w
      /\ Layout(c, b, n, w) /\ Contents(c, b, r, n, mem, held) /\ InOrder(c, b, n, sizes)
      /\ pucWrite = c[n + 1].pos /\ xItemsWaiting = PartsFrom(c, r, n, w)
  BY ChainFacts
<1>2. pucWrite \in Nat /\ pucWrite <= xSize - 2 /\ AllowSplit \in BOOLEAN
  BY ChainPointers
<1>3. /\ k <= xMaxItemSize /\ prvCheckItemFitsDefault(k)
      /\ sizes' = Append(sizes, k) /\ full' = (full \/ pucWrite' = pucFree)
      /\ UNCHANGED <<AllowSplit, use, pucRead, pucFree, held, due>>
  BY <1>2, SendCopies
<1>4. PICK first \in Nat, rest \in Nat, kind \in {"dummy", "split"} :
         /\ IF AllowSplit THEN first = xSize - pucWrite - 2 ELSE first = 0
         /\ first + rest = k /\ pucWrite + 2 + first <= xSize
         /\ kind = "dummy" => first = 0
         /\ kind = "split" => pucWrite + 2 + first = xSize
         /\ TwoNodes(mem, pucWrite, kind, Len(sizes) + 1, first, rest, mem')
         /\ pucWrite' = WrapPtr(2 + rest)
         /\ xItemsWaiting' = xItemsWaiting + (IF kind = "split" THEN 2 ELSE 1)
  BY <1>2, SendCopies
<1>5. /\ ~full /\ n + 1 < w
      /\ AllowSplit => 2 + (k - (xSize - pucWrite - 2)) <= c[b].pos
      /\ ~AllowSplit => 2 + k <= c[b].pos
  BY <1>3, SendRoom
<1>6. c[b].pos \in Nat /\ c[b].pos <= xSize - 2 /\ c[b].pos <= c[n + 1].pos
  BY <1>1, <1>5, NodeTypes, LayoutTail
<1>7. 2 + rest <= c[b].pos
  <2>1. CASE AllowSplit
    <3>1. rest = k - (xSize - pucWrite - 2)
      BY <1>2, <1>4, <2>1
    <3> QED BY <1>5, <2>1, <3>1
  <2>2. CASE ~AllowSplit
    <3>1. rest = k
      BY <1>4, <2>2
    <3> QED BY <1>5, <2>2, <3>1
  <2> QED BY <1>2, <2>1, <2>2
<1>8. IsMemory(mem) /\ Len(sizes) \in Nat /\ sizes \in Seq(Nat)
  BY DEF ItemTypes
<1>9. PICK p, m, m1, m2, L, H, S2 :
         /\ p = pucWrite /\ m = mem /\ m2 = mem' /\ L = Len(sizes) /\ H = held
         /\ S2 = Append(sizes, k)
         /\ PutNode(m, p, first, {kind}, L + 1, 0, m1)
         /\ PutNode(m1, 0, rest, {}, L + 1, first, m2)
  BY <1>4 DEF TwoNodes
<1>10. /\ p \in Nat /\ L \in Nat /\ p <= xSize - 2 /\ p = c[n + 1].pos /\ p + 2 + first <= xSize
       /\ 2 + rest <= p /\ WrapPtr(2 + rest) = 2 + rest
  <2>1. p \in Nat /\ L \in Nat /\ p <= xSize - 2 /\ p = c[n + 1].pos /\ p + 2 + first <= xSize
    BY <1>1, <1>2, <1>4, <1>8, <1>9
  <2>2. 2 + rest <= p
    BY <1>6, <1>7, <2>1
  <2>3. WrapPtr(2 + rest) = 2 + rest
    BY <2>1, <2>2 DEF WrapPtr
  <2> QED BY <2>1, <2>2, <2>3
<1> DEFINE x1 == [pos |-> p, len |-> first, kind |-> kind, item |-> L + 1, off |-> 0]
           x2 == [pos |-> 0, len |-> rest, kind |-> "whole", item |-> L + 1, off |-> first]
           x3 == [pos |-> 2 + rest, len |-> 0, kind |-> "whole", item |-> L + 2, off |-> 0]
           c2 == [i \in Nat |-> IF i = n + 1 THEN x1 ELSE IF i = n + 2 THEN x2
                                ELSE IF i = n + 3 THEN x3 ELSE c[i]]
<1>11. x1 \in Node /\ x2 \in Node /\ x3 \in Node
  <2>1. 0 \in 0 .. (xSize - 2) /\ p \in 0 .. (xSize - 2) /\ 2 + rest \in 0 .. (xSize - 2)
    BY <1>10
  <2> QED BY <1>10, <2>1 DEF Node
<1>12. c2 \in [Nat -> Node]
  BY <1>1, <1>11
<1>13. c2[n + 1] = x1 /\ c2[n + 2] = x2 /\ c2[n + 3] = x3 /\ \A i \in b .. n : c2[i] = c[i]
  BY <1>1
<1>14. /\ c2[n + 1].pos = p /\ c2[n + 1].len = first /\ c2[n + 1].kind = kind
       /\ c2[n + 1].item = L + 1 /\ c2[n + 1].off = 0
       /\ c2[n + 2].pos = 0 /\ c2[n + 2].len = rest /\ c2[n + 2].kind = "whole"
       /\ c2[n + 2].item = L + 1 /\ c2[n + 2].off = first
       /\ c2[n + 3].pos = 2 + rest /\ c2[n + 3].item = L + 2 /\ c2[n + 3].off = 0
  BY <1>13
<1>15. c[n + 1].item = L + 1 /\ c[n + 1].off = 0
  BY <1>1, <1>9 DEF InOrder
<1> HIDE DEF c2
<1>16. n + 2 \in Nat /\ b < n + 2 /\ n < n + 2 /\ n <= n + 2 /\ n + 2 + 1 = n + 3 /\ n + 1 + 1 = n + 2
  BY <1>1
<1>17. Layout(c2, b, n + 2, n + 2)
  <2>1. WithTwoNodes(c, b, n, first, rest, c2)
    BY <1>4, <1>9, <1>10, <1>13, <1>14 DEF WithTwoNodes
  <2>2. c[n + 1].pos + 2 + first <= xSize
    BY <1>10
  <2> QED BY <1>1, <1>5, <1>7, <1>12, <2>1, <2>2, LayoutWrap
<1>18. InOrder(c2, b, n + 2, Append(sizes, k))
  <2>1. /\ n + 2 \in {n + 1, n + 2} /\ n + 2 # n + 1 /\ first + rest = k
        /\ c2[n + 1].kind \in {"split", "dummy"} /\ (c2[n + 1].kind = "dummy" => first = 0)
    BY <1>1, <1>4, <1>14
  <2> QED BY ZenonT(60), <1>1, <1>8, <1>9, <1>12, <1>13, <1>14, <1>16, <2>1, InOrderAppend
<1>19. NodeWritten(m, p, first, {kind}, L + 1, 0, m1)
  <2>1. IsMemory(m) /\ L + 1 \in Nat /\ 0 \in Nat
    BY <1>8, <1>9, <1>10
  <2> QED BY <1>9, <1>10, <2>1, Written
<1>20. NodeWritten(m1, 0, rest, {}, L + 1, first, m2)
  <2>1. IsMemory(m1) /\ L + 1 \in Nat /\ 0 \in Nat /\ 0 + 2 + rest <= xSize
    BY <1>10, <1>19 DEF NodeWritten
  <2> QED BY <1>9, <2>1, Written
<1>21. /\ IsMemory(m2)
       /\ m1[p] = LenWord(first) /\ m1[p + 1] = FlagsWord({kind})
       /\ \A t \in 0 .. (first - 1) : m1[p + 2 + t] = DataWord(L + 1, 0 + t)
       /\ m2[0] = LenWord(rest) /\ m2[0 + 1] = FlagsWord({})
       /\ \A t \in 0 .. (rest - 1) : m2[0 + 2 + t] = DataWord(L + 1, first + t)
       /\ \A y \in Cells : y >= 2 + rest => m2[y] = m1[y]
       /\ \A y \in Cells : y < p => m1[y] = m[y]
  <2>1. \A y \in Cells : y >= 2 + rest => y >= 0 + 2 + rest
    BY DEF Cells
  <2> QED BY <1>19, <1>20, <2>1 DEF NodeWritten
<1>22. Stored(m2, x2, FALSE)
  BY <1>21 DEF Stored, FlagsOf
<1>23. Stored(m2, x1, FALSE)
  <2>1. p \in Cells /\ p + 1 \in Cells
    BY <1>10 DEF Cells
  <2>2. \A t \in 0 .. (first - 1) : p + 2 + t \in Cells /\ p + 2 + t >= 2 + rest
    BY <1>10 DEF Cells
  <2>3. m2[p] = LenWord(first) /\ m2[p + 1] = FlagsWord({kind})
    BY <1>10, <1>21, <2>1
  <2>4. \A t \in 0 .. (first - 1) : m2[p + 2 + t] = DataWord(L + 1, 0 + t)
    BY <1>21, <2>2
  <2>5. FlagsOf(x1, FALSE) = {kind}
    BY DEF FlagsOf
  <2> QED BY <2>3, <2>4, <2>5 DEF Stored
<1>24. Contents(c2, b, r, n + 2, m2, H)
  <2>1. ASSUME NEW i \in b .. n, NEW y \in c[i].pos .. (End(c[i]) - 1)
        PROVE  m2[y] = m[y]
    <3> DEFINE v == c[i].pos
               e == End(c[i])
               z == c[b].pos
    <3>1. v \in Nat /\ e \in Nat /\ z \in Nat
      BY <1>1, <1>6, NodeTypes
    <3>2. e <= p /\ z <= v /\ 2 + rest <= z
      BY <1>1, <1>5, <1>7, <1>10, Room
    <3>3. y \in v .. (e - 1)
      OBVIOUS
    <3> HIDE DEF v, e, z
    <3>4. y \in Cells /\ y < p /\ y >= 2 + rest
      BY <1>10, <3>1, <3>2, <3>3 DEF Cells
    <3> QED BY <1>21, <3>4
  <2>2. \A i \in (n + 1) .. (n + 2) : Stored(m2, c2[i], FALSE)
    <3>1. \A i \in (n + 1) .. (n + 2) : i = n + 1 \/ i = n + 2
      BY <1>1
    <3> HIDE DEF x1, x2
    <3> QED BY <1>13, <1>22, <1>23, <3>1
  <2>3. Stores(c, b, n, m, c2, n + 2, m2)
    BY <1>13, <2>1, <2>2 DEF Stores
  <2>4. Contents(c, b, r, n, m, H)
    BY <1>1, <1>9
  <2> QED BY <1>1, <1>12, <1>16, <2>3, <2>4, ContentsAppend
<1>25. PartsFrom(c2, r, n + 2, n + 2) = PartsFrom(c, r, n, w) + (IF kind = "split" THEN 2 ELSE 1)
  <2>1. ~DummyAhead(c, r, n, w)
    <3>1. ~(w <= n + 1)
      BY <1>1, <1>5
    <3> QED BY <3>1 DEF DummyAhead
  <2>2. DummyAhead(c2, r, n + 2, n + 2) <=> kind = "dummy"
    <3>1. (n + 2) - 1 = n + 1 /\ n + 2 <= (n + 2) + 1 /\ r < n + 2
      BY <1>1
    <3>2. c2[(n + 2) - 1].kind = kind
      BY <1>14, <3>1
    <3> HIDE DEF x1, x2, x3
    <3> QED BY <3>1, <3>2, Zenon DEF DummyAhead
  <2> QED BY <1>1, <2>1, <2>2 DEF PartsFrom
<1>26. Continues(c, b, n, c2)
  BY <1>10, <1>13, <1>14, <1>15 DEF Continues
<1>27. /\ full' \in BOOLEAN /\ (full' <=> pucWrite' = pucFree) /\ pucWrite' = c2[n + 2 + 1].pos
       /\ xItemsWaiting' = PartsFrom(c2, r, n + 2, n + 2)
  BY <1>1, <1>3, <1>4, <1>5, <1>10, <1>14, <1>16, <1>25
<1>28. Contents(c2, b, r, n + 2, m2, held) /\ InOrder(c2, b, n + 2, S2) /\ mem' = m2 /\ IsMemory(m2)
  BY <1>9, <1>18, <1>21, <1>24
<1> QED BY <1>3, <1>9, <1>12, <1>16, <1>17, <1>26, <1>27, <1>28, SendChain

\* xRingbufferSend keeps the invariant.
LEMMA SendStep ==
  ASSUME ItemTypes, NEW c, NEW b, NEW a, NEW r, NEW n, NEW w, Chain(c, b, a, r, n, w),
         NEW k \in ItemSizes, Send(k)
  PROVE  IInv'
<1>1. k \in Nat
  OBVIOUS
<1>2. pucWrite \in Nat /\ pucWrite <= xSize - 2
  BY ChainPointers
<1>3. use = "batch" => held = {}
  BY <1>1, <1>2, SendCopies
<1>4. b = a
  BY <1>3, ChainFacts
<1>5. Chain(c, b, b, r, n, w)
  BY <1>4
<1>6. pucWrite + 2 + k <= xSize \/ pucWrite + 2 + k > xSize
  BY <1>1, <1>2
<1> QED BY <1>1, <1>5, <1>6, SendWhole, SendWrapped

----------------------------------------------------------------------------
(* The theorems. *)

\* The chain of a buffer just created is empty.
LEMMA InitIInv ==
  ASSUME SendsBetweenBatches, Init
  PROVE  IInv
<1> DEFINE x == [pos |-> 0, len |-> 0, kind |-> "whole", item |-> 1, off |-> 0]
           c == [i \in Nat |-> x]
<1>1. x \in Node
  BY DEF Node
<1>2. c \in [Nat -> Node] /\ c[1] = x
  BY <1>1
<1>3. /\ pucWrite = 0 /\ pucRead = 0 /\ pucFree = 0 /\ full = FALSE /\ xItemsWaiting = 0
      /\ held = {} /\ sizes = << >> /\ due = [item |-> 1, off |-> 0]
      /\ mem = [i \in Cells |-> Empty] /\ AllowSplit \in BOOLEAN /\ use \in {"one", "batch"}
  BY DEF Init, SendsBetweenBatches
<1> HIDE DEF c
<1>4. Bounds(c, 1, 1, 1, 0, 2)
  BY <1>2 DEF Bounds
<1>5. Layout(c, 1, 0, 2)
  BY DEF Layout
<1>6. Contents(c, 1, 1, 0, mem, held)
  BY <1>3 DEF Contents
<1>7. InOrder(c, 1, 0, sizes)
  BY <1>2, <1>3 DEF InOrder
<1>8. Pointers(c, 1, 1, 0, 2)
  <2>1. PartsFrom(c, 1, 0, 2) = 0
    BY DEF PartsFrom, DummyAhead
  <2> QED BY <1>2, <1>3, <2>1 DEF Pointers, DueRec
<1>9. Chain(c, 1, 1, 1, 0, 2)
  BY <1>4, <1>5, <1>6, <1>7, <1>8 DEF Chain
<1>10. ItemTypes
  <2>1. IsMemory(mem)
    BY <1>3 DEF IsMemory
  <2>2. sizes \in Seq(Nat)
    <3>1. << >> \in Seq(Nat)
      OBVIOUS
    <3>2. sizes = << >>
      BY <1>3
    <3> QED BY <3>1, <3>2
  <2>3. full \in BOOLEAN
    <3>1. full = FALSE
      BY <1>3
    <3> QED BY <3>1
  <2> QED BY <1>3, <2>1, <2>2, <2>3 DEF ItemTypes
<1> QED BY <1>9, <1>10 DEF IInv

\* Every operation keeps the invariant.
LEMMA NextIInv ==
  ASSUME IInv, [Next]_vars
  PROVE  IInv'
<1>1. ItemTypes
  BY DEF IInv
<1>2. PICK c, b, a, r, n, w : Chain(c, b, a, r, n, w)
  BY DEF IInv
<1>3. ASSUME NEW k \in ItemSizes, Send(k) PROVE IInv'
  BY <1>1, <1>2, <1>3, SendStep
<1>4. CASE Receive
  BY <1>1, <1>2, <1>4, ReceiveStep
<1>5. CASE ReceiveSplit
  BY <1>1, <1>2, <1>5, ReceiveSplitStep
<1>6. ASSUME NEW h \in held, Return(h) PROVE IInv'
  BY <1>1, <1>2, <1>6, ReturnStep
<1>7. CASE UNCHANGED vars
  <2>1. ItemTypes'
    BY <1>1, <1>7 DEF vars, ptrs, created, ItemTypes
  <2>2. Pointers(c, a, r, n, w)'
    <3>1. Pointers(c, a, r, n, w)
      BY <1>2 DEF Chain
    <3> QED BY <1>7, <3>1 DEF vars, ptrs, created, Pointers
  <2>3. Chain(c, b, a, r, n, w)'
    BY <1>2, <1>7, <2>2 DEF vars, ptrs, created, Chain
  <2> QED BY <2>1, <2>3 DEF IInv
<1> QED BY <1>3, <1>4, <1>5, <1>6, <1>7 DEF Next

\* Between two critical sections the headers in use are a chain the three pointers lie on,
\* and what it holds is what was sent (ringbuf.c:205-462).
THEOREM ItemBufInvariant == SendsBetweenBatches /\ Spec => []IInv
<1>1. SendsBetweenBatches /\ Init => IInv
  BY InitIInv
<1>2. IInv /\ [Next]_vars => IInv'
  BY NextIInv
<1> QED BY <1>1, <1>2, PTL DEF Spec

\* A part that the application holds is what was sent and stays it until it is returned,
\* in whatever order parts are returned (ringbuf.c:160, :424).
THEOREM ItemsHeldIntact == SendsBetweenBatches /\ Spec => []HeldIntact
<1>1. IInv => HeldIntact
  BY ChainHeld DEF IInv
<1> QED BY <1>1, ItemBufInvariant, PTL

\* The parts waiting are the rest of what was sent, complete and in order
\* (ringbuf.c:205, :242, :336).
THEOREM ItemsUnreadIntact == SendsBetweenBatches /\ Spec => []UnreadIntact
<1>1. IInv => UnreadIntact
  BY ScanEnds DEF IInv
<1> QED BY <1>1, ItemBufInvariant, PTL

\* An item of the size xRingbufferGetCurFreeSize reports can be sent when there is room
\* for the headers, and to a no-split buffer no larger one (ringbuf.c:477, :507).
THEOREM ItemsFreeSize == SendsBetweenBatches /\ Spec => []FreeSizeSoundWithRoom
<1>1. IInv => FreeSizeSoundWithRoom
  BY ChainFreeSize DEF IInv
<1> QED BY <1>1, ItemBufInvariant, PTL

\* Whatever the order of the returns, the whole buffer is usable again after the last
\* (ringbuf.c:435-461).
THEOREM ItemsSpaceReclaimed == SendsBetweenBatches /\ Spec => []SpaceReclaimed
<1>1. IInv => SpaceReclaimed
  BY ChainEmpty DEF IInv
<1> QED BY <1>1, ItemBufInvariant, PTL
=============================================================================
