-------------------------- MODULE RingbufTasksProofs --------------------------
(***************************************************************************)
(* Proofs about the byte buffer: first the buffer used through its API,    *)
(* for every storage size, then shared by any number of tasks and          *)
(* interrupt handlers.                                                     *)
(*                                                                         *)
(* TypeOK is not inductive: that pucWrite stays below xSize after a copy   *)
(* needs the item to fit, which needs pointers, count and full flag to     *)
(* agree (Accounting).  StreamIntact is preserved only together with both. *)
(***************************************************************************)
EXTENDS RingbufTasks, SequenceTheorems, TLAPS

\* TypeOK but for MaxSent, which bounds the model and not the buffer.
StoreOK ==
    /\ pucWrite \in Cells /\ pucRead \in Cells /\ pucFree \in Cells
    /\ xItemsWaiting \in 0 .. xSize
    /\ full \in BOOLEAN
    /\ pucData \in [Cells -> Int]
    /\ pvItem \in Cells /\ xLoan \in 0 .. xSize
    /\ sent \in Nat
    /\ received \in Nat

\* What every critical section preserves, whoever runs it ...
StoreInv == StoreOK /\ Accounting /\ StreamIntact

\* ... and the inductive invariant of the buffer used through its API.
IInv == StoreInv /\ sent <= MaxSent

\* The critical section of a send: the check and the copy (ringbuf.c:769).
Copy(xItemSize) == prvCheckItemFitsByteBuffer(xItemSize) /\ prvCopyItemByteBuf(xItemSize)

USE SizeAssumption, SentAssumption

\* The buffer xRingbufferCreate returns satisfies the invariant.
LEMMA InitIInv == Init => IInv
<1> SUFFICES ASSUME Init PROVE IInv
  OBVIOUS
<1>0. full \in BOOLEAN
  BY Zenon DEF Init
<1>1. StoreOK
  BY <1>0 DEF Init, StoreOK, Cells, NoByte
<1>2. Used = 0
  BY DEF Init, Used, Ahead
<1>3. Accounting
  BY <1>2 DEF Init, Accounting
<1>4. StreamIntact
  BY <1>2 DEF Init, StreamIntact, Ahead, Cells
<1>5. sent <= MaxSent
  BY DEF Init
<1> QED BY <1>1, <1>3, <1>4, <1>5 DEF IInv, StoreInv

\* A send of n bytes that fit occupies n more bytes.
LEMMA CopyUsed ==
  ASSUME NEW n \in 1 .. xSize, StoreOK, Accounting, n <= xSize - Used,
         Copy(n)
  PROVE  Used' = Used + n
<1> USE DEF Copy, prvCopyItemByteBuf, Cells
<1>1. ~full
  BY DEF StoreOK, Used
<1>2. full' <=> pucWrite' = pucFree
  BY <1>1
<1>3. Used = Ahead(pucFree, pucWrite) /\ pucFree' = pucFree
  BY <1>1 DEF Used
<1>4. CASE xSize - pucWrite < n
  <2>1. pucWrite' = n - (xSize - pucWrite)
    BY <1>3, <1>4 DEF StoreOK, Ahead
  <2> QED BY <1>2, <1>3, <1>4, <2>1 DEF StoreOK, Used, Ahead
<1>5. CASE xSize - pucWrite = n
  <2>1. pucWrite' = 0
    BY <1>5 DEF StoreOK
  <2> QED BY <1>2, <1>3, <1>5, <2>1 DEF StoreOK, Used, Ahead
<1>6. CASE xSize - pucWrite > n
  <2>1. pucWrite' = pucWrite + n
    BY <1>6 DEF StoreOK
  <2> QED BY <1>2, <1>3, <1>6, <2>1 DEF StoreOK, Used, Ahead
<1> QED BY <1>4, <1>5, <1>6 DEF StoreOK

\* A send keeps the types and the accounting: the item was checked to fit.
LEMMA CopyAccounting ==
  ASSUME NEW n \in 1 .. xSize, StoreOK, Accounting, Copy(n)
  PROVE  StoreOK' /\ Accounting'
<1> USE DEF Copy, prvCheckItemFitsByteBuffer, prvCopyItemByteBuf, Cells
<1>1. pucData' \in [Cells -> Int]
  BY DEF StoreOK, Memcpy
<1>2. n <= xSize - Used
  BY DEF StoreOK, Accounting, Used, Ahead
<1>3. pucWrite' \in Cells
  BY DEF StoreOK
<1>4. StoreOK'
  BY <1>1, <1>2, <1>3 DEF StoreOK, Accounting, Used, Ahead
<1>5. Used' = Used + n
  BY <1>2, <1>3, CopyUsed
<1>6. full' => pucWrite' = pucFree'
  BY <1>2 DEF StoreOK, Accounting, Used, Ahead
<1>7. Accounting'
  BY <1>5, <1>6 DEF StoreOK, Accounting
<1> QED BY <1>4, <1>7

\* A send overwrites no occupied cell and puts the new bytes in order.
LEMMA CopyStream ==
  ASSUME NEW n \in 1 .. xSize, StoreInv, Copy(n)
  PROVE  StreamIntact'
<1> USE DEF Copy, prvCheckItemFitsByteBuffer, prvCopyItemByteBuf, Cells
<1>1. n <= xSize - Used
  BY DEF StoreInv, StoreOK, Accounting, Used, Ahead
<1>2. Used' = Used + n
  BY <1>1, CopyUsed DEF StoreInv
<1>3. SUFFICES ASSUME NEW i \in Cells, Ahead(pucFree, i) < Used + n
               PROVE  pucData'[i] = (received - xLoan) + Ahead(pucFree, i)
  BY <1>2 DEF StreamIntact, Ahead
<1>4. sent = (received - xLoan) + Used
  BY DEF StoreInv, StoreOK, Accounting
<1>5. CASE Ahead(pucFree, i) < Used
  <2>1. pucData'[i] = pucData[i]
    BY <1>1, <1>5 DEF StoreInv, StoreOK, Accounting, Used, Ahead, Memcpy
  <2> QED BY <2>1, <1>5 DEF StoreInv, StreamIntact
<1>6. CASE ~(Ahead(pucFree, i) < Used)
  <2>1. pucData'[i] = sent + (Ahead(pucFree, i) - Used)
    <3>1. ~full /\ Used = Ahead(pucFree, pucWrite)
      BY <1>1 DEF StoreInv, StoreOK, Used
    <3>2. CASE xSize - pucWrite < n
      <4>1. CASE pucWrite <= i
        <5>1. Ahead(pucFree, i) - Used = i - pucWrite
          BY <1>3, <1>6, <3>1, <4>1 DEF StoreInv, StoreOK, Ahead
        <5>2. pucData'[i] = sent + (i - pucWrite)
          BY <3>2, <4>1 DEF StoreInv, StoreOK, Memcpy
        <5> QED BY <5>1, <5>2
      <4>2. CASE i < pucWrite
        <5>1. /\ Ahead(pucFree, i) - Used = i + (xSize - pucWrite)
              /\ i < n - (xSize - pucWrite)
          BY <1>3, <1>6, <3>1, <4>2 DEF StoreInv, StoreOK, Ahead
        <5>2. pucData'[i] = sent + (i + (xSize - pucWrite))
          BY <3>2, <4>2, <5>1 DEF StoreInv, StoreOK, Memcpy
        <5> QED BY <5>1, <5>2
      <4> QED BY <4>1, <4>2 DEF StoreInv, StoreOK
    <3>3. CASE ~(xSize - pucWrite < n)
      <4>1. /\ pucWrite <= i /\ i < pucWrite + n
            /\ Ahead(pucFree, i) - Used = i - pucWrite
        BY <1>3, <1>6, <3>1, <3>3 DEF StoreInv, StoreOK, Ahead
      <4>2. pucData'[i] = sent + (i - pucWrite)
        BY <3>3, <4>1 DEF StoreInv, StoreOK, Memcpy
      <4> QED BY <4>1, <4>2
    <3> QED BY <3>2, <3>3
  <2>2. Used \in Int /\ Ahead(pucFree, i) \in Int
    BY DEF StoreInv, StoreOK, Used, Ahead
  <2> QED BY <2>1, <2>2, <1>4 DEF StoreInv, StoreOK
<1> QED BY <1>5, <1>6

\* A retrieval turns waiting bytes into a loan of the same bytes.
LEMMA ReceiveKeepsStore ==
  ASSUME NEW n \in 0 .. xSize, StoreInv, Receive(n)
  PROVE  StoreInv'
<1> USE DEF Receive, prvCheckItemAvail, prvGetItemByteBuf, Cells
<1>1. xLoan = 0
  BY DEF StoreInv, StoreOK, Accounting, Used, Ahead
<1>2. pvItem' = pucRead /\ xLoan' \in 0 .. xSize
  BY DEF StoreInv, StoreOK, Accounting, Used, Ahead
<1>3. xLoan' <= xItemsWaiting /\ xLoan' > 0
  BY <1>1 DEF StoreInv, StoreOK, Accounting, Used, Ahead
<1>4. StoreOK'
  BY <1>1, <1>2, <1>3 DEF StoreInv, StoreOK, Accounting
<1>5. Accounting'
  BY <1>1, <1>2, <1>3 DEF StoreInv, StoreOK, Accounting, Used, Ahead
<1>6. StreamIntact'
  BY <1>1, <1>2 DEF StoreInv, StoreOK, StreamIntact, Used, Ahead
<1> QED BY <1>4, <1>5, <1>6 DEF StoreInv

\* A return frees exactly the chunk on loan.
LEMMA ReturnKeepsStore ==
  ASSUME StoreInv, Return
  PROVE  StoreInv'
<1> USE DEF Return, prvReturnItemByteBuf, Cells
<1>0. full' \in BOOLEAN
  BY Zenon
<1>1. StoreOK'
  BY <1>0 DEF StoreInv, StoreOK
<1>2. Used' = Used - xLoan
  BY DEF StoreInv, StoreOK, Accounting, Used, Ahead
<1>3. Accounting'
  BY <1>2 DEF StoreInv, StoreOK, Accounting, Used, Ahead
<1>4. SUFFICES ASSUME NEW i \in Cells, Ahead(pucRead, i) < Used - xLoan
               PROVE  pucData[i] = received + Ahead(pucRead, i)
  BY <1>1, <1>2, <1>3 DEF StoreInv, StoreOK, StreamIntact, Ahead
<1>5. Used \in 0 .. xSize
  BY DEF StoreInv, StoreOK, Used, Ahead
<1>6. Ahead(pucFree, i) = Ahead(pucRead, i) + xLoan
  BY <1>4, <1>5 DEF StoreInv, StoreOK, Accounting, Ahead
<1>7. Ahead(pucFree, i) < Used /\ Ahead(pucRead, i) \in Int
  BY <1>4, <1>5, <1>6 DEF StoreInv, StoreOK, Ahead
<1>8. pucData[i] = (received - xLoan) + Ahead(pucFree, i)
  BY <1>7 DEF StoreInv, StreamIntact
<1> QED BY <1>6, <1>7, <1>8 DEF StoreInv, StoreOK

\* Every step of the buffer preserves the inductive invariant.
LEMMA StepIInv == IInv /\ [Next]_bbVars => IInv'
<1> SUFFICES ASSUME IInv, [Next]_bbVars PROVE IInv'
  OBVIOUS
<1>1. ASSUME NEW n \in 1 .. xSize, Send(n) PROVE IInv'
  <2>1. StoreInv'
    BY <1>1, CopyAccounting, CopyStream DEF IInv, StoreInv, Send, Copy
  <2> QED BY <1>1, <2>1 DEF IInv, Send, prvCopyItemByteBuf
<1>2. ASSUME NEW n \in 0 .. xSize, Receive(n) PROVE IInv'
  <2>1. StoreInv'
    BY <1>2, ReceiveKeepsStore DEF IInv
  <2> QED BY <1>2, <2>1 DEF IInv, Receive, prvGetItemByteBuf
<1>3. CASE Return
  <2>1. StoreInv'
    BY <1>3, ReturnKeepsStore DEF IInv
  <2> QED BY <1>3, <2>1 DEF IInv, Return, prvReturnItemByteBuf
<1>4. CASE UNCHANGED bbVars
  BY <1>4 DEF IInv, StoreInv, StoreOK, Accounting, StreamIntact, Used, Ahead, Cells,
              bbVars, ptrs
<1> QED BY <1>1, <1>2, <1>3, <1>4 DEF Next

\* The inductive invariant holds in every reachable state.
THEOREM Invariance == Spec => []IInv
  BY InitIInv, StepIInv, PTL DEF Spec

\* The pointers stay inside the storage area for every size: what the
\* configASSERTs of ringbuf.c check.
THEOREM TypeCorrect == Spec => []TypeOK
<1>1. IInv => TypeOK
  BY DEF IInv, StoreInv, StoreOK, Accounting, TypeOK
<1> QED BY <1>1, Invariance, PTL

\* Count, pointers and full flag always agree.
THEOREM AccountingCorrect == Spec => []Accounting
<1>1. IInv => Accounting BY DEF IInv, StoreInv
<1> QED BY <1>1, Invariance, PTL

\* Every occupied cell holds the byte of the stream that belongs there.
THEOREM StreamCorrect == Spec => []StreamIntact
<1>1. IInv => StreamIntact BY DEF IInv, StoreInv
<1> QED BY <1>1, Invariance, PTL

\* The chunk lies at the start of the occupied cells, so what those hold it holds.
LEMMA StoreLoan == StoreInv => LoanIntact
<1> SUFFICES ASSUME StoreInv, xLoan > 0 PROVE LoanIntact
  BY DEF LoanIntact
<1>1. pvItem = pucFree /\ pucFree + xLoan <= xSize /\ xLoan <= Used
  BY DEF StoreInv, StoreOK, Accounting, Used, Ahead, Cells
<1>2. ASSUME NEW k \in 0 .. (xLoan - 1)
      PROVE  pucData[pvItem + k] = (received - xLoan) + k
  <2>1. pvItem + k \in Cells /\ Ahead(pucFree, pvItem + k) = k
    BY <1>1 DEF StoreInv, StoreOK, Cells, Ahead
  <2>2. k < Used
    BY <1>1 DEF StoreInv, StoreOK, Used, Ahead, Cells
  <2> QED BY <2>1, <2>2 DEF StoreInv, StreamIntact
<1> QED BY <1>1, <1>2 DEF LoanIntact

\* What prvGetCurMaxSizeByteBuf computes and what prvCheckItemFitsByteBuffer lets
\* in are both the cells that are not occupied.
LEMMA StoreFreeSize == StoreInv => FreeSizeExact
  BY DEF StoreInv, StoreOK, Accounting, FreeSizeExact, prvCheckItemFitsByteBuffer,
         prvGetCurMaxSizeByteBuf, prvGetFreeSize, Used, Ahead, Cells

\* The chunk on loan is never overwritten and is the next part of the stream.
THEOREM LoanCorrect == Spec => []LoanIntact
<1>1. IInv => LoanIntact
  BY StoreLoan DEF IInv
<1> QED BY <1>1, Invariance, PTL

\* The free size reported to the application is exact for every item size.
THEOREM FreeSizeCorrect == Spec => []FreeSizeExact
<1>1. IInv => FreeSizeExact
  BY StoreFreeSize DEF IInv
<1> QED BY <1>1, Invariance, PTL

----------------------------------------------------------------------------
(* The byte buffer implements a lending queue: both its parts are runs of *)
(* consecutive bytes of the stream, wherever they lie in the storage.       *)

\* n bytes of the stream, the first one numbered from.
Run(from, n) == [k \in 1 .. n |-> from + k - 1]

\* What % does to an offset that has gone round the storage once at most.
LEMMA Around ==
  ASSUME NEW x \in 0 .. 2 * xSize - 1
  PROVE  x % xSize = IF x < xSize THEN x ELSE x - xSize
<1>1. CASE x < xSize
  BY <1>1
<1>2. CASE x >= xSize
  BY <1>2
<1> QED BY <1>1, <1>2

\* A run is a sequence of its length.
LEMMA RunSeq ==
  ASSUME NEW f \in Int, NEW n \in Nat
  PROVE  /\ Run(f, n) \in Seq(Int) /\ Len(Run(f, n)) = n
         /\ Run(f, n) = << >> <=> n = 0
<1>1. Run(f, n) \in Seq(Int)
  BY DEF Run
<1>2. Len(Run(f, n)) = n
  BY DEF Run
<1>3. Run(f, n) = << >> <=> n = 0
  BY <1>1, <1>2
<1> QED BY <1>1, <1>2, <1>3

\* Two adjacent runs make one.
LEMMA RunAppend ==
  ASSUME NEW f \in Int, NEW m \in Nat, NEW n \in Nat
  PROVE  Run(f, m) \o Run(f + m, n) = Run(f, m + n)
<1> DEFINE s == Run(f, m)
           t == Run(f + m, n)
<1>1. s \in Seq(Int) /\ t \in Seq(Int) /\ Len(s) = m /\ Len(t) = n
  BY RunSeq
<1> HIDE DEF s, t
<1>2. s \o t \in Seq(Int) /\ Len(s \o t) = m + n
  BY SMTT(30), <1>1
<1> USE DEF s, t
<1>3. ASSUME NEW i \in 1 .. m + n PROVE (s \o t)[i] = Run(f, m + n)[i]
  <2>1. CASE i <= m
    BY <2>1, <1>1 DEF Run
  <2>2. CASE i > m
    BY <2>2, <1>1 DEF Run
  <2>3. i <= m \/ i > m
    OBVIOUS
  <2> QED BY <2>1, <2>2, <2>3, Zenon
<1>4. Run(f, m + n) \in Seq(Int) /\ Len(Run(f, m + n)) = m + n
  BY RunSeq
<1> QED BY <1>2, <1>3, <1>4, SeqEqual

\* And one run is cut in two.
LEMMA RunSplit ==
  ASSUME NEW f \in Int, NEW m \in Nat, NEW n \in 0 .. m
  PROVE  /\ SubSeq(Run(f, m), 1, n) = Run(f, n)
         /\ SubSeq(Run(f, m), n + 1, m) = Run(f + n, m - n)
<1>1. Run(f, m) \in Seq(Int) /\ Len(Run(f, m)) = m
  BY RunSeq
<1>2. SubSeq(Run(f, m), 1, n) = Run(f, n)
  BY <1>1 DEF Run
<1>3. SubSeq(Run(f, m), n + 1, m) = Run(f + n, m - n)
  BY <1>1 DEF Run
<1> QED BY <1>2, <1>3

\* What waits in the storage, and what is on loan, are the runs that the counters
\* of the stream say, although a run may wrap around pucTail.
LEMMA StoredRuns ==
  StoreInv => /\ Stored(pucRead, xItemsWaiting) = Run(received, xItemsWaiting)
              /\ Stored(pvItem, xLoan) = Run(received - xLoan, xLoan)
<1> SUFFICES ASSUME StoreInv
             PROVE  /\ Stored(pucRead, xItemsWaiting) = Run(received, xItemsWaiting)
                    /\ Stored(pvItem, xLoan) = Run(received - xLoan, xLoan)
  OBVIOUS
<1>0. /\ pucRead \in 0 .. xSize - 1 /\ pucFree \in 0 .. xSize - 1 /\ pvItem \in 0 .. xSize - 1
      /\ xItemsWaiting \in 0 .. xSize /\ xLoan \in 0 .. xSize /\ received \in Nat
      /\ Used \in 0 .. xSize
      /\ xLoan + xItemsWaiting = Used
      /\ xLoan > 0 => pvItem = pucFree
      /\ pucFree + xLoan <= xSize
      /\ pucRead = IF pucFree + xLoan >= xSize
                   THEN pucFree + xLoan - xSize ELSE pucFree + xLoan
  BY DEF StoreInv, StoreOK, Accounting, Used, Ahead, Cells
<1>2. ASSUME NEW k \in 1 .. xItemsWaiting
      PROVE  pucData[(pucRead + k - 1) % xSize] = received + k - 1
  <2>1. pucRead + k - 1 \in 0 .. 2 * xSize - 1
    BY <1>0
  <2>2. PICK i \in Cells : /\ i = (pucRead + k - 1) % xSize
                          /\ i = IF pucRead + k - 1 < xSize THEN pucRead + k - 1
                                 ELSE pucRead + k - 1 - xSize
    BY <1>0, <2>1, Around DEF Cells
  <2>3. Ahead(pucFree, i) = xLoan + k - 1
    BY <1>0, <2>2 DEF Ahead, Cells
  <2> QED BY <1>0, <2>2, <2>3 DEF StoreInv, StreamIntact
<1>3. ASSUME NEW k \in 1 .. xLoan
      PROVE  pucData[(pvItem + k - 1) % xSize] = (received - xLoan) + k - 1
  <2>1. pvItem + k - 1 \in 0 .. xSize - 1
    BY <1>0
  <2>2. PICK i \in Cells : /\ i = (pvItem + k - 1) % xSize
                          /\ i = pvItem + k - 1
    BY <1>0, <2>1, Around DEF Cells
  <2>3. Ahead(pucFree, i) = k - 1
    BY <1>0, <2>2 DEF Ahead, Cells
  <2> QED BY <1>0, <2>2, <2>3 DEF StoreInv, StreamIntact
<1> QED BY <1>2, <1>3 DEF Stored, Run

\* The same of the state after a critical section.
LEMMA StoredRunsNext ==
  StoreInv' => /\ Stored(pucRead, xItemsWaiting)' = Run(received', xItemsWaiting')
               /\ Stored(pvItem, xLoan)' = Run((received - xLoan)', xLoan')
<1>1. (StoreInv => /\ Stored(pucRead, xItemsWaiting) = Run(received, xItemsWaiting)
                  /\ Stored(pvItem, xLoan) = Run(received - xLoan, xLoan))'
  BY StoredRuns, PTL
<1> QED BY <1>1

\* A send's critical section appends its bytes to the queue, which has room for
\* them (ringbuf.c:769).
LEMMA CopyPuts ==
  ASSUME NEW n \in 1 .. xSize, StoreInv, Copy(n)
  PROVE  LQ!Put(n)
<1>1. StoreInv'
  BY CopyAccounting, CopyStream DEF StoreInv
<1>2. n <= xSize - Used /\ xLoan + xItemsWaiting = Used /\ Used \in Int
  BY DEF Copy, prvCheckItemFitsByteBuffer, StoreInv, StoreOK, Accounting, Used, Ahead, Cells
<1>3. /\ sent' = sent + n /\ xItemsWaiting' = xItemsWaiting + n
      /\ UNCHANGED <<pucRead, pvItem, xLoan, received>>
  BY DEF Copy, prvCopyItemByteBuf
<1>4. /\ received \in Int /\ xItemsWaiting \in Nat /\ xLoan \in Nat /\ n \in Nat
      /\ sent = received + xItemsWaiting
  BY DEF StoreInv, StoreOK, Accounting
<1>5. Stored(pucRead, xItemsWaiting)' = Run(received, xItemsWaiting + n)
  BY <1>1, <1>3, StoredRunsNext
<1>6. Stored(pvItem, xLoan)' = Run(received - xLoan, xLoan)
  BY <1>1, <1>3, StoredRunsNext
<1>7. Run(received, xItemsWaiting + n)
      = Run(received, xItemsWaiting) \o Run(sent, n)
  BY <1>4, RunAppend
<1>8. Len(Run(received - xLoan, xLoan)) + Len(Run(received, xItemsWaiting)) + n <= xSize
  BY <1>2, <1>4, RunSeq
<1>9. Run(sent, n) = [k \in 1 .. n |-> sent + k - 1]
  BY DEF Run
<1> QED BY <1>3, <1>5, <1>6, <1>7, <1>8, <1>9, StoredRuns DEF LQ!Put

\* A retrieval finds nothing on loan, and lends a byte at least (ringbuf.c:569).
LEMMA ReceiveLoan ==
  ASSUME NEW m \in 0 .. xSize, StoreInv, Receive(m)
  PROVE  /\ xLoan = 0
         /\ xLoan' \in 1 .. xSize /\ xLoan' <= xItemsWaiting
         /\ xItemsWaiting' = xItemsWaiting - xLoan'
         /\ received' = received + xLoan' /\ sent' = sent
<1>1. xLoan = 0
  BY DEF Receive, prvCheckItemAvail, StoreInv, StoreOK, Accounting, Used, Ahead, Cells
<1>2. /\ xLoan' \in 1 .. xSize /\ xLoan' <= xItemsWaiting
      /\ xItemsWaiting' = xItemsWaiting - xLoan'
      /\ received' = received + xLoan' /\ sent' = sent
  BY <1>1 DEF Receive, prvCheckItemAvail, prvGetItemByteBuf, StoreInv, StoreOK,
              Accounting, Used, Ahead, Cells
<1> QED BY <1>1, <1>2

\* A retrieval lends the oldest bytes of the queue, at least one, and only when
\* nothing is on loan (ringbuf.c:569).
LEMMA ReceiveLends ==
  ASSUME NEW m \in 0 .. xSize, StoreInv, Receive(m)
  PROVE  \E n \in 1 .. xSize : LQ!Lend(n)
<1>1. StoreInv'
  BY ReceiveKeepsStore
<1>2. xLoan = 0
  BY ReceiveLoan
<1>3. /\ xLoan' \in 1 .. xSize /\ xLoan' <= xItemsWaiting
      /\ xItemsWaiting' = xItemsWaiting - xLoan'
      /\ received' = received + xLoan' /\ sent' = sent
  BY ReceiveLoan
<1>4. PICK n \in 1 .. xSize : n = xLoan'
  BY <1>3
<1>5. received \in Int /\ xItemsWaiting \in Nat /\ n \in 0 .. xItemsWaiting
  BY <1>3, <1>4 DEF StoreInv, StoreOK
<1>6. /\ Stored(pucRead, xItemsWaiting) = Run(received, xItemsWaiting)
      /\ Stored(pvItem, xLoan) = << >>
  BY <1>2, <1>5, StoredRuns, RunSeq DEF StoreInv, StoreOK
<1>7. Stored(pucRead, xItemsWaiting)' = Run(received + n, xItemsWaiting - n)
  BY <1>1, <1>3, <1>4, StoredRunsNext
<1>8. Stored(pvItem, xLoan)' = Run(received, n)
  <2>1. received' = received + n /\ xLoan' = n
    BY <1>3, <1>4
  <2>2. (received + n) - n = received
    BY <1>5
  <2> QED BY <1>1, <2>1, <2>2, StoredRunsNext
<1>9. Len(Run(received, xItemsWaiting)) = xItemsWaiting
  BY <1>5, RunSeq
<1>10. /\ SubSeq(Run(received, xItemsWaiting), 1, n) = Run(received, n)
       /\ SubSeq(Run(received, xItemsWaiting), n + 1, xItemsWaiting)
            = Run(received + n, xItemsWaiting - n)
  BY <1>5, RunSplit
<1>11. LQ!Lend(n)
  BY <1>3, <1>5, <1>6, <1>7, <1>8, <1>9, <1>10 DEF LQ!Lend
<1> QED BY <1>11

\* A return ends the loan and leaves the queue alone (ringbuf.c:1000).
LEMMA ReturnTakesBack ==
  ASSUME StoreInv, Return
  PROVE  LQ!TakeBack
<1>1. StoreInv'
  BY ReturnKeepsStore
<1>2. /\ xLoan' = 0
      /\ UNCHANGED <<pucRead, xItemsWaiting, sent, received>>
  BY DEF Return, prvReturnItemByteBuf
<1>3. xLoan \in Nat /\ xLoan # 0 /\ received \in Int /\ received - xLoan \in Int
  BY DEF StoreInv, StoreOK, Return
<1>4. Stored(pvItem, xLoan) # << >>
  BY <1>3, StoredRuns, RunSeq
<1>5. Stored(pvItem, xLoan)' = << >>
  <2>1. Stored(pvItem, xLoan)' = Run(received - 0, 0)
    BY <1>1, <1>2, StoredRunsNext
  <2> QED BY <1>3, <2>1, RunSeq
<1>6. Stored(pucRead, xItemsWaiting)' = Stored(pucRead, xItemsWaiting)
  BY <1>1, <1>2, StoredRuns, StoredRunsNext
<1> QED BY <1>2, <1>4, <1>5, <1>6 DEF LQ!TakeBack

\* The buffer xRingbufferCreate returns is the empty queue.
LEMMA InitEmpty == Init => LQ!LQInit
<1> SUFFICES ASSUME Init PROVE LQ!LQInit
  OBVIOUS
<1>1. StoreInv /\ received = 0 /\ xItemsWaiting = 0 /\ xLoan = 0 /\ sent = 0
  BY InitIInv DEF IInv, Init
<1> QED BY <1>1, StoredRuns, RunSeq DEF LQ!LQInit

\* For every storage size the pointers, the count and the full flag implement a
\* FIFO of that capacity that lends its oldest bytes, one chunk at a time.
THEOREM ByteBufRefines == Spec => ImplementsLendingQueue
<1>1. ASSUME IInv, [Next]_bbVars
      PROVE  [LQ!LQNext]_LQ!lqVars
  <2>1. ASSUME NEW n \in 1 .. xSize, Send(n) PROVE LQ!LQNext
    BY <1>1, <2>1, CopyPuts DEF IInv, Send, Copy, LQ!LQNext
  <2>2. ASSUME NEW n \in 0 .. xSize, Receive(n) PROVE LQ!LQNext
    BY <1>1, <2>2, ReceiveLends DEF IInv, LQ!LQNext
  <2>3. CASE Return
    BY <1>1, <2>3, ReturnTakesBack DEF IInv, LQ!LQNext
  <2>4. CASE UNCHANGED bbVars
    BY <2>4 DEF bbVars, ptrs, LQ!lqVars, Stored
  <2> QED BY <1>1, <2>1, <2>2, <2>3, <2>4 DEF Next
<1> QED BY <1>1, InitEmpty, Invariance, PTL DEF Spec, ImplementsLendingQueue, LQ!LQSpec

----------------------------------------------------------------------------
(* The buffer shared by tasks and interrupt handlers: each critical section *)
(* is a step of the buffer used through its API, so what holds of one       *)
(* caller holds of all of them together.                                    *)

USE TasksAssumption

\* Where a sender and a receiver can be, and what they were called with.
SendLabels == {"idle", "take", "check", "giveItems", "giveBoth", "giveFree"}
ReceiveLabels == {"idle", "take", "check", "giveItems", "holding", "giveFree"}
TasksOK ==
    /\ pc \in [Tasks -> SendLabels \cup ReceiveLabels]
    /\ arg \in [Tasks -> 0 .. xSize]
    /\ \A s \in Senders : /\ pc[s] \in SendLabels
                          /\ pc[s] \in {"take", "check"} => arg[s] > 0
    /\ \A r \in Receivers : pc[r] \in ReceiveLabels
    /\ isrHolds \in BOOLEAN

\* The inductive invariant.  That a receiver which is let in finds nothing on loan
\* is what the pointers of the store say, so OneHolder needs StoreInv, and a return
\* is one of a chunk on loan, so StoreInv needs OneHolder.
TInv == StoreInv /\ TasksOK /\ OneHolder

\* A step that leaves the storage and the holders alone keeps the invariant.
LEMMA QuietInv ==
  ASSUME TInv, TasksOK', Holders' = Holders, UNCHANGED <<bbVars, isrHolds>>
  PROVE  TInv'
<1>1. StoreInv'
  BY DEF TInv, StoreInv, StoreOK, Accounting, StreamIntact, Used, Ahead, Cells, bbVars, ptrs
<1>2. OneHolder'
  BY DEF TInv, OneHolder, bbVars
<1> QED BY <1>1, <1>2 DEF TInv

\* A sender's call, of a size the buffer can hold, touches nothing but its own
\* arguments.
LEMMA SendCallInv ==
  ASSUME TInv, NEW s \in Senders, SendCall(s)
  PROVE  TInv'
<1> USE DEF SendCall, Goto, Leave, locals, sems
<1>1. TasksOK'
  BY DEF TInv, TasksOK, Tasks, SendLabels, ReceiveLabels
<1>2. Holders' = Holders
  BY DEF TInv, TasksOK, Holders, Tasks, SendLabels
<1> QED BY <1>1, <1>2, QuietInv

\* Taking a semaphore is not taking the chunk (ringbuf.c:764).
LEMMA SendTakeInv ==
  ASSUME TInv, NEW s \in Senders, SendTake(s)
  PROVE  TInv'
<1> USE DEF SendTake, Goto, Leave, locals, sems
<1>1. TasksOK'
  BY DEF TInv, TasksOK, Tasks, SendLabels, ReceiveLabels
<1>2. Holders' = Holders
  BY DEF TInv, TasksOK, Holders, Tasks, SendLabels
<1> QED BY <1>1, <1>2, QuietInv

\* A sender that times out leaves the storage alone.
LEMMA SendTimeoutInv ==
  ASSUME TInv, NEW s \in Senders, SendTimeout(s)
  PROVE  TInv'
<1> USE DEF SendTimeout, Goto, Leave, locals, sems
<1>1. TasksOK'
  BY DEF TInv, TasksOK, Tasks, SendLabels, ReceiveLabels
<1>2. Holders' = Holders
  BY DEF TInv, TasksOK, Holders, Tasks, SendLabels
<1> QED BY <1>1, <1>2, QuietInv

\* So does one whose item does not fit.
LEMMA SendNoFitInv ==
  ASSUME TInv, NEW s \in Senders, SendNoFit(s)
  PROVE  TInv'
<1> USE DEF SendNoFit, Goto, Leave, locals, sems
<1>1. TasksOK'
  BY DEF TInv, TasksOK, Tasks, SendLabels, ReceiveLabels
<1>2. Holders' = Holders
  BY DEF TInv, TasksOK, Holders, Tasks, SendLabels
<1> QED BY <1>1, <1>2, QuietInv

\* Telling the receivers changes a semaphore only.
LEMMA SendGiveItemsInv ==
  ASSUME TInv, NEW s \in Senders, SendGiveItems(s)
  PROVE  TInv'
<1> USE DEF SendGiveItems, Goto, Leave, locals, sems
<1>1. TasksOK'
  BY DEF TInv, TasksOK, Tasks, SendLabels, ReceiveLabels
<1>2. Holders' = Holders
  BY DEF TInv, TasksOK, Holders, Tasks, SendLabels
<1> QED BY <1>1, <1>2, QuietInv

\* So does telling the senders.
LEMMA GiveFreeInv ==
  ASSUME TInv, NEW t \in Tasks, GiveFree(t)
  PROVE  TInv'
<1> USE DEF GiveFree, Goto, Leave, locals, sems
<1>1. TasksOK'
  BY DEF TInv, TasksOK, Tasks, SendLabels, ReceiveLabels
<1>2. Holders' = Holders
  BY DEF TInv, TasksOK, Holders, Tasks, SendLabels
<1> QED BY <1>1, <1>2, QuietInv

\* A receiver's call touches nothing but its own arguments.
LEMMA ReceiveCallInv ==
  ASSUME TInv, NEW r \in Receivers, ReceiveCall(r)
  PROVE  TInv'
<1> USE DEF ReceiveCall, Goto, Leave, locals, sems
<1>1. TasksOK'
  BY DEF TInv, TasksOK, Tasks, SendLabels, ReceiveLabels
<1>2. Holders' = Holders
  BY DEF TInv, TasksOK, Holders, Tasks, SendLabels
<1> QED BY <1>1, <1>2, QuietInv

\* A receiver with the semaphore has no chunk yet.
LEMMA ReceiveTakeInv ==
  ASSUME TInv, NEW r \in Receivers, ReceiveTake(r)
  PROVE  TInv'
<1> USE DEF ReceiveTake, Goto, Leave, locals, sems
<1>1. TasksOK'
  BY DEF TInv, TasksOK, Tasks, SendLabels, ReceiveLabels
<1>2. Holders' = Holders
  BY DEF TInv, TasksOK, Holders, Tasks, SendLabels
<1> QED BY <1>1, <1>2, QuietInv

\* A receiver that times out never had one.
LEMMA ReceiveTimeoutInv ==
  ASSUME TInv, NEW r \in Receivers, ReceiveTimeout(r)
  PROVE  TInv'
<1> USE DEF ReceiveTimeout, Goto, Leave, locals, sems
<1>1. TasksOK'
  BY DEF TInv, TasksOK, Tasks, SendLabels, ReceiveLabels
<1>2. Holders' = Holders
  BY DEF TInv, TasksOK, Holders, Tasks, SendLabels
<1> QED BY <1>1, <1>2, QuietInv

\* Nor had one that found no data, or a chunk on loan.
LEMMA ReceiveNoItemInv ==
  ASSUME TInv, NEW r \in Receivers, ReceiveNoItem(r)
  PROVE  TInv'
<1> USE DEF ReceiveNoItem, Goto, Leave, locals, sems
<1>1. TasksOK'
  BY DEF TInv, TasksOK, Tasks, SendLabels, ReceiveLabels
<1>2. Holders' = Holders
  BY DEF TInv, TasksOK, Holders, Tasks, SendLabels
<1> QED BY <1>1, <1>2, QuietInv

\* A receiver that passes the semaphore on keeps its chunk (ringbuf.c:607).
LEMMA ReceiveGiveItemsInv ==
  ASSUME TInv, NEW r \in Receivers, ReceiveGiveItems(r)
  PROVE  TInv'
<1> USE DEF ReceiveGiveItems, Goto, Leave, locals, sems
<1>1. TasksOK'
  BY DEF TInv, TasksOK, Tasks, SendLabels, ReceiveLabels
<1>2. Holders' = Holders
  BY DEF TInv, TasksOK, Holders, Tasks, SendLabels
<1> QED BY <1>1, <1>2, QuietInv

\* The critical section of a send is one of the buffer, and changes no holder.
LEMMA SendCopyInv ==
  ASSUME TInv, NEW s \in Senders, SendCopy(s)
  PROVE  TInv' /\ LQ!LQNext
<1>1. Copy(arg[s]) /\ arg[s] \in 1 .. xSize
  BY DEF SendCopy, Copy, TInv, TasksOK, Tasks
<1>2. StoreInv' /\ LQ!LQNext
  BY <1>1, CopyAccounting, CopyStream, CopyPuts DEF TInv, StoreInv, LQ!LQNext
<1>3. TasksOK'
  BY DEF SendCopy, Goto, locals, TInv, TasksOK, Tasks, SendLabels, ReceiveLabels
<1>4. Holders' = Holders /\ xLoan' = xLoan
  BY DEF SendCopy, prvCopyItemByteBuf, Goto, TInv, TasksOK, Holders, Tasks, SendLabels
<1>5. OneHolder'
  BY <1>4 DEF TInv, OneHolder, SendCopy
<1> QED BY <1>2, <1>3, <1>5 DEF TInv

\* A receiver is handed a chunk only when nobody holds one: the critical section
\* checks that nothing is on loan, not the semaphore (ringbuf.c:569).
LEMMA ReceiveGetInv ==
  ASSUME TInv, NEW r \in Receivers, ReceiveGet(r)
  PROVE  TInv' /\ LQ!LQNext
<1>1. Receive(arg[r]) /\ arg[r] \in 0 .. xSize
  BY DEF ReceiveGet, Receive, TInv, TasksOK, Tasks
<1>2. StoreInv' /\ LQ!LQNext
  BY <1>1, ReceiveKeepsStore, ReceiveLends DEF TInv, LQ!LQNext
<1>3. TasksOK'
  BY DEF ReceiveGet, Goto, locals, TInv, TasksOK, Tasks, SendLabels, ReceiveLabels
<1>4. xLoan = 0 /\ xLoan' > 0
  BY <1>1, ReceiveLoan DEF TInv
<1>5. Holders = {} /\ ~isrHolds
  BY <1>4 DEF TInv, OneHolder
<1>6. Holders' = {r} /\ isrHolds' = isrHolds
  BY <1>5 DEF ReceiveGet, Goto, TInv, TasksOK, Holders, Tasks
<1>7. OneHolder'
  BY <1>4, <1>5, <1>6 DEF OneHolder
<1> QED BY <1>2, <1>3, <1>7 DEF TInv

\* A receiver returns the one chunk on loan, which is its own (ringbuf.c:1000).
LEMMA ReturnItemInv ==
  ASSUME TInv, NEW r \in Receivers, ReturnItem(r)
  PROVE  TInv' /\ LQ!LQNext
<1>1. r \in Holders
  BY DEF ReturnItem, Holders
<1>2. Return /\ ~isrHolds /\ Holders = {r}
  BY <1>1 DEF ReturnItem, Return, TInv, OneHolder
<1>3. StoreInv' /\ LQ!LQNext
  BY <1>2, ReturnKeepsStore, ReturnTakesBack DEF TInv, LQ!LQNext
<1>4. TasksOK'
  BY DEF ReturnItem, Goto, locals, TInv, TasksOK, Tasks, SendLabels, ReceiveLabels
<1>5. Holders' = {} /\ isrHolds' = isrHolds /\ xLoan' = 0
  BY <1>2 DEF ReturnItem, prvReturnItemByteBuf, Goto, TInv, TasksOK, Holders, Tasks
<1>6. OneHolder'
  BY <1>2, <1>5 DEF OneHolder
<1> QED BY <1>3, <1>4, <1>6 DEF TInv

\* A handler's send is a send (ringbuf.c:818).
LEMMA SendFromISRInv ==
  ASSUME TInv, SendFromISR
  PROVE  TInv' /\ LQ!LQNext
<1>1. PICK n \in 1 .. xSize : Copy(n)
  BY DEF SendFromISR, Copy
<1>2. StoreInv' /\ LQ!LQNext
  BY <1>1, CopyAccounting, CopyStream, CopyPuts DEF TInv, StoreInv, LQ!LQNext
<1>3. TasksOK' /\ Holders' = Holders /\ isrHolds' = isrHolds
  BY DEF SendFromISR, taskVars, TInv, TasksOK, Holders
<1>4. OneHolder'
  BY <1>1, <1>3 DEF Copy, prvCopyItemByteBuf, TInv, OneHolder
<1> QED BY <1>2, <1>3, <1>4 DEF TInv

\* A handler does not take the semaphore, and needs it not: it too is let in only
\* when nothing is on loan (ringbuf.c:619).
LEMMA ReceiveFromISRInv ==
  ASSUME TInv, ReceiveFromISR
  PROVE  TInv' /\ LQ!LQNext
<1>1. PICK n \in 0 .. xSize : Receive(n)
  BY DEF ReceiveFromISR, Receive
<1>2. StoreInv' /\ LQ!LQNext
  BY <1>1, ReceiveKeepsStore, ReceiveLends DEF TInv, LQ!LQNext
<1>3. isrHolds' /\ Holders' = Holders /\ UNCHANGED taskVars
  BY DEF ReceiveFromISR, taskVars, Holders
<1>4. isrHolds' \in BOOLEAN
  BY Zenon DEF ReceiveFromISR
<1>5. TasksOK'
  BY <1>3, <1>4 DEF taskVars, TInv, TasksOK
<1>6. xLoan = 0 /\ xLoan' > 0
  BY <1>1, ReceiveLoan DEF TInv
<1>7. Holders = {}
  BY <1>6 DEF TInv, OneHolder
<1>8. OneHolder'
  BY <1>3, <1>6, <1>7 DEF OneHolder
<1> QED BY <1>2, <1>5, <1>8 DEF TInv

\* A handler returns the one chunk on loan, and no task has it (ringbuf.c:1012).
LEMMA ReturnItemFromISRInv ==
  ASSUME TInv, ReturnItemFromISR
  PROVE  TInv' /\ LQ!LQNext
<1>1. Return /\ Holders = {}
  BY DEF ReturnItemFromISR, Return, TInv, OneHolder
<1>2. StoreInv' /\ LQ!LQNext
  BY <1>1, ReturnKeepsStore, ReturnTakesBack DEF TInv, LQ!LQNext
<1>3. isrHolds' \in BOOLEAN /\ ~isrHolds'
  BY Zenon DEF ReturnItemFromISR
<1>4. TasksOK' /\ Holders' = Holders /\ xLoan' = 0
  BY <1>3 DEF ReturnItemFromISR, prvReturnItemByteBuf, taskVars, TInv, TasksOK, Holders
<1>5. OneHolder'
  BY <1>1, <1>3, <1>4 DEF OneHolder
<1> QED BY <1>2, <1>4, <1>5 DEF TInv

\* Every step of the tasks and handlers keeps the invariant, and is a step of the
\* lending queue or leaves it alone.
LEMMA TStep ==
  ASSUME TInv, [TNext]_vars
  PROVE  TInv' /\ [LQ!LQNext]_LQ!lqVars
<1>0. UNCHANGED bbVars => UNCHANGED LQ!lqVars
  BY DEF bbVars, ptrs, LQ!lqVars, Stored
<1>1. CASE UNCHANGED vars
  <2>1. TasksOK' /\ Holders' = Holders /\ UNCHANGED <<bbVars, isrHolds>>
    BY <1>1 DEF vars, taskVars, TInv, TasksOK, Holders
  <2> QED BY <1>0, <2>1, QuietInv
<1>2. ASSUME NEW s \in Senders, SendCall(s) \/ SendStep(s)
      PROVE  TInv' /\ [LQ!LQNext]_LQ!lqVars
  <2>1. CASE SendCopy(s)
    BY <2>1, SendCopyInv
  <2>2. CASE ~SendCopy(s)
    <3>1. UNCHANGED bbVars
      BY <1>2, <2>2 DEF SendStep, SendCall, SendTake, SendTimeout, SendNoFit,
                        SendGiveItems, GiveFree
    <3>2. s \in Tasks
      BY DEF Tasks
    <3> QED
      BY <1>0, <1>2, <2>2, <3>1, <3>2, SendCallInv, SendTakeInv, SendTimeoutInv,
         SendNoFitInv, SendGiveItemsInv, GiveFreeInv DEF SendStep
  <2> QED BY <2>1, <2>2
<1>3. ASSUME NEW r \in Receivers, ReceiveCall(r) \/ ReceiveStep(r) \/ ReturnItem(r)
      PROVE  TInv' /\ [LQ!LQNext]_LQ!lqVars
  <2>1. CASE ReceiveGet(r) \/ ReturnItem(r)
    BY <2>1, ReceiveGetInv, ReturnItemInv
  <2>2. CASE ~(ReceiveGet(r) \/ ReturnItem(r))
    <3>1. UNCHANGED bbVars
      BY <1>3, <2>2 DEF ReceiveStep, ReceiveCall, ReceiveTake, ReceiveTimeout,
                        ReceiveNoItem, ReceiveGiveItems, GiveFree
    <3>2. r \in Tasks
      BY DEF Tasks
    <3> QED
      BY <1>0, <1>3, <2>2, <3>1, <3>2, ReceiveCallInv, ReceiveTakeInv,
         ReceiveTimeoutInv, ReceiveNoItemInv, ReceiveGiveItemsInv, GiveFreeInv
         DEF ReceiveStep
  <2> QED BY <2>1, <2>2
<1>4. CASE SendFromISR \/ ReceiveFromISR \/ ReturnItemFromISR
  BY <1>4, SendFromISRInv, ReceiveFromISRInv, ReturnItemFromISRInv
<1> QED BY <1>1, <1>2, <1>3, <1>4 DEF TNext

\* The inductive invariant holds however the tasks and handlers interleave.
LEMMA TInvHolds == TSpec => []TInv
<1>1. TInit => TInv
  <2> SUFFICES ASSUME TInit PROVE TInv
    OBVIOUS
  <2>1. StoreInv
    BY InitIInv DEF TInit, IInv
  <2>2. isrHolds \in BOOLEAN /\ ~isrHolds
    BY Zenon DEF TInit
  <2>3. TasksOK
    BY <2>2 DEF TInit, TasksOK, Tasks, SendLabels, ReceiveLabels
  <2>4. OneHolder
    BY <2>2 DEF TInit, Init, OneHolder, Holders, Tasks
  <2> QED BY <2>1, <2>3, <2>4 DEF TInv
<1> QED BY <1>1, TStep, PTL DEF TSpec

\* One task or handler at a time holds a chunk, and exactly when one is on loan.
THEOREM OneHolderAtATime == TSpec => []OneHolder
<1>1. TInv => OneHolder
  BY DEF TInv
<1> QED BY <1>1, TInvHolds, PTL

\* No byte is lost, duplicated, reordered or overwritten, whoever sends and receives.
THEOREM SharedStreamCorrect == TSpec => []StreamIntact
<1>1. TInv => StreamIntact
  BY DEF TInv, StoreInv
<1> QED BY <1>1, TInvHolds, PTL

\* Count, pointers and full flag agree whenever no critical section runs, whoever
\* ran the last one.
THEOREM SharedAccountingCorrect == TSpec => []Accounting
<1>1. TInv => Accounting
  BY DEF TInv, StoreInv
<1> QED BY <1>1, TInvHolds, PTL

\* No send of another task or of a handler overwrites the chunk on loan.
THEOREM SharedLoanCorrect == TSpec => []LoanIntact
<1>1. TInv => LoanIntact
  BY StoreLoan DEF TInv
<1> QED BY <1>1, TInvHolds, PTL

\* The free size is exact at the moment it is read, whoever uses the buffer.
THEOREM SharedFreeSizeCorrect == TSpec => []FreeSizeExact
<1>1. TInv => FreeSizeExact
  BY StoreFreeSize DEF TInv
<1> QED BY <1>1, TInvHolds, PTL

\* Shared by tasks and handlers the buffer still implements the lending queue: a
\* call takes effect at its critical section and at no other step.
THEOREM TasksRefine == TSpec => ImplementsLendingQueue
<1>1. TInit => LQ!LQInit
  BY InitEmpty DEF TInit
<1> QED BY <1>1, TStep, TInvHolds, PTL DEF TSpec, ImplementsLendingQueue, LQ!LQSpec
=============================================================================
