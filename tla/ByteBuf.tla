------------------------------ MODULE ByteBuf ------------------------------
(***************************************************************************)
(* The byte-buffer flavour of esp_ringbuf (RINGBUF_TYPE_BYTEBUF) at the    *)
(* granularity of its critical sections: every check-and-copy, get and     *)
(* return of components/esp_ringbuf/ringbuf.c runs between                 *)
(* taskENTER_CRITICAL and taskEXIT_CRITICAL and is one action here.        *)
(*                                                                         *)
(* Pointers are offsets from pucHead, so pucTail is xSize.  A byte is      *)
(* abstracted to its position in the stream of all bytes ever accepted,    *)
(* which is what tells "the right byte" from "some other byte".            *)
(***************************************************************************)
EXTENDS Integers, Sequences

CONSTANTS
    xSize,      \* size in bytes of the storage area
    MaxSent     \* bound: bytes accepted over the life of the buffer

ASSUME SizeAssumption == xSize \in Nat \ {0}
ASSUME SentAssumption == MaxSent \in Nat

VARIABLES
    pucWrite,       \* where the next byte is written
    pucRead,        \* where the next byte is read from
    pucFree,        \* first byte not yet returned by the application
    xItemsWaiting,  \* bytes in the buffer not yet read
    full,           \* rbBUFFER_FULL_FLAG
    pucData,        \* the storage area
    pvItem,         \* the chunk the application holds: where it starts
    xLoan,          \* and its length, 0 when it holds none
    sent,           \* ghost: bytes accepted so far
    received        \* ghost: bytes handed out so far

ptrs == <<pucWrite, pucRead, pucFree, xItemsWaiting, full>>
bbVars == <<ptrs, pucData, pvItem, xLoan, sent, received>>

Cells == 0 .. (xSize - 1)
NoByte == -1                    \* contents of freshly malloc'ed storage

----------------------------------------------------------------------------
(* Queries (no state change). *)

\* Mutants of the operators below: a boundary or a flag forgotten.
FreeSizeZeroWhenEmpty ==
    IF full THEN 0
    ELSE LET xFreeSize == pucFree - pucWrite
         IN  IF xFreeSize < 0 THEN xFreeSize + xSize ELSE xFreeSize
FitsIgnoringFullFlag(xItemSize) ==
    IF pucFree > pucWrite THEN xItemSize <= pucFree - pucWrite
    ELSE xItemSize <= xSize - (pucWrite - pucFree)
AvailDuringLoan ==
    /\ xItemsWaiting > 0
    /\ pucRead # pucWrite \/ full

\* Room left, as the send path computes it after a copy.
prvGetFreeSize ==
    IF full THEN 0
    ELSE IF pucFree - pucWrite <= 0 THEN pucFree - pucWrite + xSize
    ELSE pucFree - pucWrite

\* What xRingbufferGetCurFreeSize reports to the application.
prvGetCurMaxSizeByteBuf ==
    IF full THEN 0
    ELSE LET xFreeSize == pucFree - pucWrite
         IN  IF xFreeSize <= 0 THEN xFreeSize + xSize ELSE xFreeSize

prvCheckItemFitsByteBuffer(xItemSize) ==
    IF pucWrite = pucFree THEN ~full
    ELSE IF pucFree > pucWrite THEN xItemSize <= pucFree - pucWrite
    ELSE xItemSize <= xSize - (pucWrite - pucFree)

prvCheckItemAvail ==
    /\ pucRead = pucFree
    /\ xItemsWaiting > 0
    /\ pucRead # pucWrite \/ full

----------------------------------------------------------------------------
(* State changes. *)

\* memcpy of n consecutive stream bytes, the first one numbered from.
Memcpy(mem, dst, from, n) ==
    [i \in Cells |-> IF dst <= i /\ i < dst + n THEN from + (i - dst) ELSE mem[i]]

\* An item that does not fit before the tail is copied in two parts.
prvCopyItemByteBuf(xItemSize) ==
    LET xRemLen == xSize - pucWrite
        wraps   == xRemLen < xItemSize
        first   == IF wraps THEN xRemLen ELSE 0
        dst     == IF wraps THEN 0 ELSE pucWrite
        end     == dst + (xItemSize - first)
    IN  /\ pucData' = Memcpy(Memcpy(pucData, pucWrite, sent, first),
                             dst, sent + first, xItemSize - first)
        /\ xItemsWaiting' = xItemsWaiting + xItemSize
        /\ pucWrite' = IF end = xSize THEN 0 ELSE end
        /\ full' = (full \/ pucWrite' = pucFree)
        /\ sent' = sent + xItemSize
        /\ UNCHANGED <<pucRead, pucFree, pvItem, xLoan, received>>

\* Mutant: the read pointer is left at the tail.
GetWithoutWrap(xMaxSize) ==
    LET wraps == pucRead > pucWrite \/ full
        avail == IF wraps THEN xSize - pucRead ELSE pucWrite - pucRead
        n     == IF xMaxSize = 0 \/ avail <= xMaxSize THEN avail ELSE xMaxSize
    IN  /\ pvItem' = pucRead /\ xLoan' = n
        /\ xItemsWaiting' = xItemsWaiting - n
        /\ pucRead' = pucRead + n
        /\ received' = received + n
        /\ UNCHANGED <<pucWrite, pucFree, full, pucData, sent>>

\* xMaxSize = 0 asks for all contiguous data.
prvGetItemByteBuf(xMaxSize) ==
    LET wraps == pucRead > pucWrite \/ full
        avail == IF wraps THEN xSize - pucRead ELSE pucWrite - pucRead
        all   == xMaxSize = 0 \/ avail <= xMaxSize
        n     == IF all THEN avail ELSE xMaxSize
    IN  /\ pvItem' = pucRead /\ xLoan' = n
        /\ xItemsWaiting' = xItemsWaiting - n
        /\ pucRead' = IF all /\ wraps THEN 0 ELSE pucRead + n
        /\ received' = received + n
        /\ UNCHANGED <<pucWrite, pucFree, full, pucData, sent>>

\* Mutant: the full flag is not reset.
ReturnKeepsFullFlag ==
    /\ pucFree' = pucRead
    /\ pvItem' = 0 /\ xLoan' = 0
    /\ UNCHANGED <<pucWrite, pucRead, xItemsWaiting, full, pucData, sent, received>>

prvReturnItemByteBuf ==
    /\ pucFree' = pucRead
    /\ full' = FALSE
    /\ pvItem' = 0 /\ xLoan' = 0
    /\ UNCHANGED <<pucWrite, pucRead, xItemsWaiting, pucData, sent, received>>

----------------------------------------------------------------------------
(* The buffer used through its API, one call at a time. *)

\* xRingbufferCreate
Init ==
    /\ pucWrite = 0 /\ pucRead = 0 /\ pucFree = 0
    /\ xItemsWaiting = 0
    /\ full = FALSE
    /\ pucData = [i \in Cells |-> NoByte]
    /\ pvItem = 0 /\ xLoan = 0
    /\ sent = 0 /\ received = 0

\* xRingbufferSend: items of 0 bytes and items above xMaxItemSize (= xSize)
\* are turned away without touching the buffer.
Send(xItemSize) ==
    /\ xItemSize > 0 /\ xItemSize <= xSize
    /\ sent + xItemSize <= MaxSent
    /\ prvCheckItemFitsByteBuffer(xItemSize)
    /\ prvCopyItemByteBuf(xItemSize)

\* xRingbufferReceive (xMaxSize = 0) and xRingbufferReceiveUpTo.
Receive(xMaxSize) ==
    /\ prvCheckItemAvail
    /\ prvGetItemByteBuf(xMaxSize)

\* vRingbufferReturnItem: the application returns the chunk it was handed.
Return ==
    /\ xLoan > 0
    /\ prvReturnItemByteBuf

Next ==
    \/ \E n \in 1 .. xSize : Send(n)
    \/ \E n \in 0 .. xSize : Receive(n)
    \/ Return

Spec == Init /\ [][Next]_bbVars

----------------------------------------------------------------------------
(* Properties. *)

\* The pointers stay inside the storage area, as the configASSERTs of every
\* operation demand, and the counters in their ranges.
TypeOK ==
    /\ pucWrite \in Cells /\ pucRead \in Cells /\ pucFree \in Cells
    /\ xItemsWaiting \in 0 .. xSize
    /\ full \in BOOLEAN
    /\ pucData \in [Cells -> Int]
    /\ pvItem \in Cells /\ xLoan \in 0 .. xSize
    /\ sent \in 0 .. MaxSent
    /\ received \in 0 .. MaxSent

\* Distance from offset a forward to offset b around the ring.
Ahead(a, b) == IF b >= a THEN b - a ELSE b - a + xSize

\* Bytes occupied: waiting or on loan.
Used == IF full THEN xSize ELSE Ahead(pucFree, pucWrite)

\* The single count xItemsWaiting, the three pointers and the full flag agree:
\* free..read is exactly the chunk on loan and read..write exactly the data
\* waiting.  prvCheckItemAvail and prvGetItemByteBuf trust the count and the
\* pointers interchangeably, and full is all that tells full from empty.
Accounting ==
    /\ xItemsWaiting = sent - received
    /\ xLoan + xItemsWaiting = Used
    /\ xLoan > 0 => pvItem = pucFree
    /\ xLoan = 0 => pucRead = pucFree
    /\ pucRead = (IF pucFree + xLoan >= xSize
                  THEN pucFree + xLoan - xSize ELSE pucFree + xLoan)
    /\ pucFree + xLoan <= xSize
    /\ full => pucWrite = pucFree

\* Every occupied cell holds the byte of the stream that belongs there: no
\* send overwrites a byte that is still waiting or still on loan, no byte is
\* lost, duplicated or reordered by a wrap.
StreamIntact ==
    \A i \in Cells :
        Ahead(pucFree, i) < Used =>
            pucData[i] = (received - xLoan) + Ahead(pucFree, i)

\* What the application holds until vRingbufferReturnItem is a contiguous
\* chunk of the stream, the bytes that follow all earlier chunks.
LoanIntact ==
    xLoan > 0 =>
        /\ pvItem + xLoan <= xSize
        /\ \A k \in 0 .. (xLoan - 1) :
              pucData[pvItem + k] = (received - xLoan) + k

\* The size xRingbufferGetCurFreeSize reports is exact: an item of n bytes is
\* accepted just when n does not exceed it, and it agrees with the size the
\* send path uses to decide whether to pass the free-space semaphore on.
FreeSizeExact ==
    /\ \A n \in 1 .. xSize :
          prvCheckItemFitsByteBuffer(n) <=> n <= prvGetCurMaxSizeByteBuf
    /\ prvGetCurMaxSizeByteBuf = prvGetFreeSize
    /\ prvGetFreeSize = xSize - Used

\* The bytes from offset a on, n of them, around the ring.
Stored(a, n) == [k \in 1 .. n |-> pucData[(a + k - 1) % xSize]]

\* The byte buffer implements a lending FIFO of capacity xSize: what is lent
\* is the content of the chunk the application holds, what is queued the
\* content of the cells from the read pointer on.
LQ == INSTANCE LendingQueue WITH
          Capacity <- xSize,
          queue <- Stored(pucRead, xItemsWaiting),
          lent  <- Stored(pvItem, xLoan),
          next  <- sent
ImplementsLendingQueue == LQ!LQSpec
=============================================================================
