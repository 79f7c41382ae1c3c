------------------------------ MODULE ItemBuf ------------------------------
(***************************************************************************)
(* The no-split and allow-split flavours of esp_ringbuf                    *)
(* (components/esp_ringbuf/ringbuf.c): items with headers in one storage   *)
(* area, handed out in place and returned in any order.                    *)
(*                                                                         *)
(* The unit is the 32-bit word: rbALIGN_SIZE rounds every length up to it, *)
(* an ItemHeader_t takes two (xItemLen, uxItemFlags).  Pointers are word   *)
(* offsets from pucHead.  A data word is abstracted to the item it belongs *)
(* to and its place in it.  Each critical section is one action.           *)
(***************************************************************************)
EXTENDS Integers, Sequences, FiniteSets

CONSTANTS
    xSize,          \* words of storage, room for two headers at least
    SplitFlags,     \* values of rbALLOW_SPLIT_FLAG buffers are created with
    Uses,           \* how applications use a buffer, see below
    ItemSizes,      \* item lengths in use, in words
    MaxItems,       \* bound: items sent over the life of the buffer
    MaxHeld         \* bound: parts the application holds at a time

\* "one": one part is held at a time.  "batch": up to MaxHeld, and items are sent
\* only when none is held.  "any": up to MaxHeld, and items are sent at any time.
rbHEADER_SIZE == 2

ASSUME ItemAssumption ==
    /\ xSize \in Nat /\ xSize >= 2 * rbHEADER_SIZE
    /\ SplitFlags \subseteq BOOLEAN
    /\ ItemSizes \subseteq Nat

VARIABLES
    AllowSplit,     \* rbALLOW_SPLIT_FLAG, set by xRingbufferCreate
    use,            \* the application's way of using this buffer
    pucWrite, pucRead, pucFree,
    full,           \* rbBUFFER_FULL_FLAG
    xItemsWaiting,  \* parts written and not read
    mem,            \* the storage area, word by word
    held,           \* the parts the application has received and not returned
    sizes,          \* ghost: lengths of the items sent, in order
    due             \* ghost: item and offset the next part read must start at

ptrs == <<pucWrite, pucRead, pucFree, full, xItemsWaiting>>
created == <<AllowSplit, use>>
vars == <<created, ptrs, mem, held, sizes, due>>

Cells == 0 .. (xSize - 1)

\* Halfway point for no-split items; two headers in the worst case otherwise.
xMaxItemSize ==
    IF AllowSplit THEN xSize - 2 * rbHEADER_SIZE
    ELSE (xSize + 1) \div 2 - rbHEADER_SIZE

----------------------------------------------------------------------------
(* Words of memory. *)

Empty        == [tag |-> "empty"]
LenWord(n)   == [tag |-> "len", len |-> n]
FlagsWord(f) == [tag |-> "flags", flags |-> f]
DataWord(item, off) == [tag |-> "data", item |-> item, off |-> off]

PutHeader(m, p, len, flags) ==
    [m EXCEPT ![p] = LenWord(len), ![p + 1] = FlagsWord(flags)]
\* memcpy of n words of an item, the first one its word number off.
PutData(m, p, item, off, n) ==
    [i \in Cells |-> IF p <= i /\ i < p + n THEN DataWord(item, off + i - p)
                     ELSE m[i]]

ItemLen(m, p)   == m[p].len
ItemFlags(m, p) == m[p + 1].flags

\* A pointer with no room for a header before the tail moves to the head.
WrapPtr(p) == IF xSize - p < rbHEADER_SIZE THEN 0 ELSE p

----------------------------------------------------------------------------
(* Queries. *)

\* Mutant: write and free pointer together are taken for an empty buffer.
FitsIgnoringFull(n) ==
    LET xTotalItemSize == n + rbHEADER_SIZE
    IN  IF pucWrite = pucFree THEN TRUE
        ELSE IF pucFree > pucWrite THEN xTotalItemSize <= pucFree - pucWrite
        ELSE \/ xTotalItemSize <= xSize - pucWrite
             \/ IF AllowSplit
                THEN xTotalItemSize + rbHEADER_SIZE <= xSize - (pucWrite - pucFree)
                ELSE xTotalItemSize <= pucFree

prvCheckItemFitsDefault(n) ==
    LET xTotalItemSize == n + rbHEADER_SIZE
    IN  IF pucWrite = pucFree THEN ~full
        ELSE IF pucFree > pucWrite THEN xTotalItemSize <= pucFree - pucWrite
        ELSE \/ xTotalItemSize <= xSize - pucWrite
             \/ IF AllowSplit
                THEN xTotalItemSize + rbHEADER_SIZE <= xSize - (pucWrite - pucFree)
                ELSE xTotalItemSize <= pucFree

prvCheckItemAvail == xItemsWaiting > 0 /\ (pucRead # pucWrite \/ full)

\* "Limit free size to be within bounds".  xFreeSize is a long and xMaxItemSize
\* a size_t, so the code compares them as unsigned 32-bit numbers: a negative
\* size is above every maximum, and the branch for xFreeSize < 0 is never taken.
AboveMaxUnsigned(n) == n < 0 \/ n > xMaxItemSize
Limited(n) == IF AboveMaxUnsigned(n) THEN xMaxItemSize ELSE n

\* Mutant: the header an item needs is not subtracted.
CurMaxSizeNoHeader ==
    LET size1 == xSize - pucWrite
        size2 == pucFree
        room  == IF pucWrite < pucFree THEN pucFree - pucWrite
                 ELSE IF size1 > size2 THEN size1 ELSE size2
    IN  IF full THEN 0 ELSE Limited(room)

prvGetCurMaxSizeNoSplit ==
    LET size1 == xSize - pucWrite
        size2 == pucFree
        room  == IF pucWrite < pucFree THEN pucFree - pucWrite
                 ELSE IF size1 > size2 THEN size1 ELSE size2
    IN  IF full THEN 0 ELSE Limited(room - rbHEADER_SIZE)

prvGetCurMaxSizeAllowSplit ==
    IF full THEN 0
    ELSE Limited(
           IF pucWrite = 0 /\ pucFree = 0 THEN xSize - rbHEADER_SIZE
           ELSE IF pucWrite < pucFree THEN pucFree - pucWrite - rbHEADER_SIZE
           ELSE pucFree + (xSize - pucWrite) - 2 * rbHEADER_SIZE)

xGetCurMaxSize ==
    IF AllowSplit THEN prvGetCurMaxSizeAllowSplit ELSE prvGetCurMaxSizeNoSplit

----------------------------------------------------------------------------
(* Copying an item in. *)

\* Words up to the tail that cannot take the item become a dummy item.
prvCopyItemNoSplit(n) ==
    LET wraps == xSize - pucWrite < n + rbHEADER_SIZE
        start == IF wraps THEN 0 ELSE pucWrite
        m1    == IF wraps THEN PutHeader(mem, pucWrite, 0, {"dummy"}) ELSE mem
    IN  /\ mem' = PutData(PutHeader(m1, start, n, {}), start + rbHEADER_SIZE,
                          Len(sizes) + 1, 0, n)
        /\ pucWrite' = WrapPtr(start + rbHEADER_SIZE + n)
        /\ xItemsWaiting' = xItemsWaiting + 1
        /\ full' = (full \/ pucWrite' = pucFree)

\* Mutant: a split item counts as one part.
CopyCountsOnce(n) ==
    LET xRemLen == xSize - pucWrite
        wraps   == xRemLen < n + rbHEADER_SIZE
        first   == IF wraps THEN xRemLen - rbHEADER_SIZE ELSE 0
        start   == IF wraps THEN 0 ELSE pucWrite
        flags   == IF first > 0 THEN {"split"} ELSE {"dummy"}
        item    == Len(sizes) + 1
        m1      == IF wraps
                   THEN PutData(PutHeader(mem, pucWrite, first, flags),
                                pucWrite + rbHEADER_SIZE, item, 0, first)
                   ELSE mem
    IN  /\ mem' = PutData(PutHeader(m1, start, n - first, {}),
                          start + rbHEADER_SIZE, item, first, n - first)
        /\ pucWrite' = WrapPtr(start + rbHEADER_SIZE + (n - first))
        /\ xItemsWaiting' = xItemsWaiting + 1
        /\ full' = (full \/ pucWrite' = pucFree)

\* An item that reaches the tail is written in two parts, each with a header;
\* the first one is a dummy when only its header fits.
prvCopyItemAllowSplit(n) ==
    LET xRemLen == xSize - pucWrite
        wraps   == xRemLen < n + rbHEADER_SIZE
        first   == IF wraps THEN xRemLen - rbHEADER_SIZE ELSE 0
        start   == IF wraps THEN 0 ELSE pucWrite
        flags   == IF first > 0 THEN {"split"} ELSE {"dummy"}
        item    == Len(sizes) + 1
        m1      == IF wraps
                   THEN PutData(PutHeader(mem, pucWrite, first, flags),
                                pucWrite + rbHEADER_SIZE, item, 0, first)
                   ELSE mem
    IN  /\ mem' = PutData(PutHeader(m1, start, n - first, {}),
                          start + rbHEADER_SIZE, item, first, n - first)
        /\ pucWrite' = WrapPtr(start + rbHEADER_SIZE + (n - first))
        /\ xItemsWaiting' = xItemsWaiting + (IF first > 0 THEN 2 ELSE 1)
        /\ full' = (full \/ pucWrite' = pucFree)

----------------------------------------------------------------------------
(* Reading a part. *)
\* What prvGetItemDefault finds at read pointer p.
GetAt(p) ==
    LET q     == IF "dummy" \in ItemFlags(mem, p) THEN 0 ELSE p
        after == q + rbHEADER_SIZE + ItemLen(mem, q)
    IN  [item  |-> q + rbHEADER_SIZE,
         len   |-> ItemLen(mem, q),
         split |-> "split" \in ItemFlags(mem, q),
         read  |-> WrapPtr(after)]

\* The part g as the application gets it, with the ghost that says which words
\* of which item it must contain.
Part(g, d) == [ptr |-> g.item, len |-> g.len, split |-> g.split,
               item |-> d.item, off |-> d.off]
DueAfter(g, d) == IF g.split THEN [item |-> d.item, off |-> d.off + g.len]
                  ELSE [item |-> d.item + 1, off |-> 0]

----------------------------------------------------------------------------
(* Returning a part. *)

\* prvReturnItemDefault's loop: from pucFree over parts that are free or dummy,
\* up to the read pointer.  walk[k] is the free pointer after k rounds.
Skippable(m, p) == p # pucRead /\ ItemFlags(m, p) \cap {"free", "dummy"} # {}
AdvanceOnce(m, p) ==
    WrapPtr(IF "dummy" \in ItemFlags(m, p) THEN 0
            ELSE p + ItemLen(m, p) + rbHEADER_SIZE)
FreePtrWalk(m) ==
    LET walk[k \in 0 .. xSize] ==
          IF k = 0 THEN pucFree
          ELSE LET p == walk[k - 1]
               IN  IF Skippable(m, p) THEN AdvanceOnce(m, p) ELSE p
    IN  walk

MarkFree(m, h) ==
    [m EXCEPT ![h.ptr - 1] = FlagsWord((@.flags \ {"split"}) \cup {"free"})]

\* Mutant: a free item at the free pointer is skipped, dummies are not.
ReturnStopsAtDummy(h) ==
    LET m1   == MarkFree(mem, h)
        next == IF pucFree # pucRead /\ "free" \in ItemFlags(m1, pucFree)
                THEN AdvanceOnce(m1, pucFree) ELSE pucFree
    IN  /\ pucFree' = next
        /\ mem' = m1
        /\ full' = (full /\ pucFree' = pucWrite /\ pucFree' # pucRead)

prvReturnItemDefault(h) ==
    LET m1   == MarkFree(mem, h)
        walk == FreePtrWalk(m1)
        dummies == {p \in {walk[k] : k \in 0 .. xSize} :
                        Skippable(m1, p) /\ "dummy" \in ItemFlags(m1, p)}
    IN  /\ pucFree' = walk[xSize]
        /\ mem' = [i \in Cells |->
                      IF i - 1 \in dummies
                      THEN FlagsWord(m1[i].flags \cup {"free"}) ELSE m1[i]]
        /\ full' = (full /\ pucFree' = pucWrite /\ pucFree' # pucRead)

----------------------------------------------------------------------------
Init ==
    /\ AllowSplit \in SplitFlags /\ use \in Uses
    /\ pucWrite = 0 /\ pucRead = 0 /\ pucFree = 0
    /\ full = FALSE
    /\ xItemsWaiting = 0
    /\ mem = [i \in Cells |-> Empty]
    /\ held = {}
    /\ sizes = << >>
    /\ due = [item |-> 1, off |-> 0]

Send(n) ==
    /\ Len(sizes) < MaxItems
    /\ use = "batch" => held = {}
    /\ n <= xMaxItemSize
    /\ prvCheckItemFitsDefault(n)
    /\ IF AllowSplit THEN prvCopyItemAllowSplit(n) ELSE prvCopyItemNoSplit(n)
    /\ sizes' = Append(sizes, n)
    /\ UNCHANGED <<created, pucRead, pucFree, held, due>>

\* The application takes n more parts.
CanHold(n) == Cardinality(held) + n <= (IF use = "one" THEN 1 ELSE MaxHeld)

\* xRingbufferReceive: one part, of an item that may be split.
Receive ==
    /\ prvCheckItemAvail
    /\ CanHold(1)
    /\ LET g == GetAt(pucRead)
       IN  /\ held' = held \cup {Part(g, due)}
           /\ due' = DueAfter(g, due)
           /\ pucRead' = g.read
    /\ xItemsWaiting' = xItemsWaiting - 1
    /\ UNCHANGED <<created, pucWrite, pucFree, full, mem, sizes>>

\* xRingbufferReceiveSplit: an item, both parts of it if it is split.
ReceiveSplit ==
    /\ AllowSplit
    /\ prvCheckItemAvail
    /\ LET g  == GetAt(pucRead)
           d  == DueAfter(g, due)
           g2 == GetAt(g.read)
       IN  IF g.split
           THEN /\ CanHold(2)
                /\ held' = held \cup {Part(g, due), Part(g2, d)}
                /\ due' = DueAfter(g2, d)
                /\ pucRead' = g2.read
                /\ xItemsWaiting' = xItemsWaiting - 2
           ELSE /\ CanHold(1)
                /\ held' = held \cup {Part(g, due)}
                /\ due' = d
                /\ pucRead' = g.read
                /\ xItemsWaiting' = xItemsWaiting - 1
    /\ UNCHANGED <<created, pucWrite, pucFree, full, mem, sizes>>

\* vRingbufferReturnItem: any part the application holds.
Return(h) ==
    /\ prvReturnItemDefault(h)
    /\ held' = held \ {h}
    /\ UNCHANGED <<created, pucWrite, pucRead, xItemsWaiting, sizes, due>>

Next ==
    \/ \E n \in ItemSizes : Send(n)
    \/ Receive
    \/ ReceiveSplit
    \/ \E h \in held : Return(h)

Spec == Init /\ [][Next]_vars

----------------------------------------------------------------------------
(* Properties. *)

\* What the application holds is what was sent: the words of the items it is
\* owed, in order, in place, with the header of a part not yet returned.  No
\* send overwrites a part before it is returned (ringbuf.c: only an item that
\* "has been retrieved and returned by application" is "free to overwrite").
HeldIntact ==
    \A h \in held :
        /\ mem[h.ptr - 2] = LenWord(h.len)
        /\ mem[h.ptr - 1] \in {FlagsWord({}), FlagsWord({"split"})}
        /\ \A k \in 0 .. (h.len - 1) : mem[h.ptr + k] = DataWord(h.item, h.off + k)
        /\ ~h.split => h.off + h.len = sizes[h.item]

\* The parts waiting, read one after the other from pucRead, are the rest of
\* what was sent, complete and in order.
IsHeader(p) == mem[p].tag = "len" /\ mem[p + 1].tag = "flags"
Readable(p) == IsHeader(p) /\ ("dummy" \in ItemFlags(mem, p) => IsHeader(0))
Unread ==
    LET scan[k \in 0 .. xItemsWaiting] ==
          IF k = 0 THEN [read |-> pucRead, due |-> due, ok |-> TRUE]
          ELSE LET s == scan[k - 1]
                   g == GetAt(s.read)
                   d == DueAfter(g, s.due)
               IN  IF ~s.ok \/ ~Readable(s.read) THEN [s EXCEPT !.ok = FALSE]
                   ELSE [read |-> g.read, due |-> d,
                         ok |-> /\ \A i \in 0 .. (g.len - 1) :
                                      mem[g.item + i]
                                        = DataWord(s.due.item, s.due.off + i)
                                /\ ~g.split =>
                                      s.due.off + g.len = sizes[s.due.item]]
    IN  scan[xItemsWaiting]
UnreadIntact ==
    /\ Unread.ok
    /\ Unread.due = [item |-> Len(sizes) + 1, off |-> 0]
    /\ Unread.read = pucWrite

\* ringbuf.h on xRingbufferGetCurFreeSize, and the comment on the lower bound in
\* prvGetCurMaxSizeNoSplit: an item of the size reported can be sent now.
FreeSizeSound ==
    \A n \in 1 .. xMaxItemSize : n <= xGetCurMaxSize => prvCheckItemFitsDefault(n)

FreeWords == IF full THEN 0
             ELSE IF pucWrite < pucFree THEN pucFree - pucWrite
             ELSE pucFree + (xSize - pucWrite)
HeadersNeeded == IF AllowSplit THEN 2 * rbHEADER_SIZE ELSE rbHEADER_SIZE

\* As long as the headers of an item have room, xRingbufferGetCurFreeSize is to be
\* relied on: an item of the size it reports can be sent, and for no-split buffers
\* no larger one.
FreeSizeSoundWithRoom ==
    full \/ FreeWords >= HeadersNeeded =>
        /\ FreeSizeSound
        /\ ~AllowSplit => \A n \in 1 .. xMaxItemSize :
                             prvCheckItemFitsDefault(n) => n <= xGetCurMaxSize

\* Once everything sent was received and returned, in whatever order, the whole
\* buffer is usable again: an item of the maximum size fits.
SpaceReclaimed ==
    held = {} /\ xItemsWaiting = 0 =>
        /\ pucFree = pucWrite /\ pucRead = pucWrite
        /\ prvCheckItemFitsDefault(xMaxItemSize)
=============================================================================
