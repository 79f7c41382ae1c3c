---------------------------- MODULE RingbufTasks ----------------------------
(***************************************************************************)
(* Tasks and interrupts sharing one byte buffer of esp_ringbuf.            *)
(*                                                                         *)
(* A call of xRingbufferSend or prvReceiveGeneric is cut where the code    *)
(* can be preempted: taking a semaphore, the critical section, each        *)
(* semaphore it gives afterwards.  The critical sections are the           *)
(* operations of ByteBuf.  An interrupt handler runs to completion, so     *)
(* each FromISR function is one step.                                      *)
(*                                                                         *)
(* The two semaphores are FreeRTOS binary semaphores: TRUE when given.     *)
(* xTicksToWait is abstracted to its two kinds: portMAX_DELAY ("forever"), *)
(* or a finite wait, which may run out whenever the task is not running.   *)
(***************************************************************************)
EXTENDS ByteBuf

CONSTANTS
    Senders,        \* tasks that call xRingbufferSend
    Receivers,      \* tasks that call xRingbufferReceive(UpTo) and return
    SendSizes,      \* item sizes the senders use
    MaxSizes,       \* xMaxSize values the receivers use, 0 for all
    Waits,          \* kinds of xTicksToWait in use
    IsrSends,       \* whether an interrupt handler sends
    IsrReceives     \* whether an interrupt handler receives and returns

Tasks == Senders \cup Receivers

ASSUME TasksAssumption ==
    /\ Senders \cap Receivers = {}
    /\ SendSizes \subseteq 1 .. xSize
    /\ MaxSizes \subseteq 0 .. xSize
    /\ Waits \subseteq {"finite", "forever"}
    /\ IsrSends \in BOOLEAN /\ IsrReceives \in BOOLEAN

VARIABLES
    xFreeSpaceSemaphore,
    xItemsBufferedSemaphore,
    pc,                 \* where each task is in its call
    arg,                \* its xItemSize (senders) or xMaxSize (receivers)
    xTicksToWait,       \* its kind of wait
    isrHolds,           \* the handler holds a chunk it received
    asked               \* bytes the senders asked to send (bounded by MaxSent)

sems == <<xFreeSpaceSemaphore, xItemsBufferedSemaphore>>
taskVars == <<pc, arg, xTicksToWait>>
locals == <<arg, xTicksToWait>>
vars == <<bbVars, sems, taskVars, isrHolds, asked>>

TInit ==
    /\ Init
    /\ xFreeSpaceSemaphore = TRUE       \* given by xRingbufferCreate
    /\ xItemsBufferedSemaphore = FALSE
    /\ pc = [t \in Tasks |-> "idle"]
    /\ arg = [t \in Tasks |-> 0]
    /\ xTicksToWait = [t \in Tasks |-> "forever"]
    /\ isrHolds = FALSE
    /\ asked = 0

Goto(t, label) ==
    /\ pc' = [pc EXCEPT ![t] = label]
    /\ UNCHANGED locals

\* The call returns; its arguments and locals are gone.
Leave(t) ==
    /\ pc' = [pc EXCEPT ![t] = "idle"]
    /\ arg' = [arg EXCEPT ![t] = 0]
    /\ xTicksToWait' = [xTicksToWait EXCEPT ![t] = "forever"]

\* xReturnSemaphore, the call's local flag, is part of the label: "giveBoth"
\* is "giveItems" with the flag set.

----------------------------------------------------------------------------
(* xRingbufferSend *)

SendCall(s) ==
    /\ pc[s] = "idle"
    /\ \E n \in SendSizes, w \in Waits :
          /\ asked + n <= MaxSent
          /\ asked' = asked + n
          /\ arg' = [arg EXCEPT ![s] = n]
          /\ xTicksToWait' = [xTicksToWait EXCEPT ![s] = w]
    /\ pc' = [pc EXCEPT ![s] = "take"]
    /\ UNCHANGED <<bbVars, sems, isrHolds>>

SendTake(s) ==
    /\ pc[s] = "take"
    /\ xFreeSpaceSemaphore
    /\ xFreeSpaceSemaphore' = FALSE
    /\ Goto(s, "check")
    /\ UNCHANGED <<bbVars, xItemsBufferedSemaphore, isrHolds, asked>>

\* xSemaphoreTake timed out: the send fails.
SendTimeout(s) ==
    /\ pc[s] = "take"
    /\ ~xFreeSpaceSemaphore
    /\ xTicksToWait[s] = "finite"
    /\ Leave(s)
    /\ UNCHANGED <<bbVars, sems, isrHolds, asked>>

\* The critical section, when the item fits.
SendCopy(s) ==
    /\ pc[s] = "check"
    /\ prvCheckItemFitsByteBuffer(arg[s])
    /\ prvCopyItemByteBuf(arg[s])
    /\ Goto(s, IF prvGetFreeSize' > 0 THEN "giveBoth" ELSE "giveItems")
    /\ UNCHANGED <<sems, isrHolds, asked>>

\* The critical section, when it does not: wait for the semaphore again, or
\* give up because the remaining ticks underflowed.
SendNoFit(s) ==
    /\ pc[s] = "check"
    /\ ~prvCheckItemFitsByteBuffer(arg[s])
    /\ \/ Goto(s, "take")
       \/ xTicksToWait[s] = "finite" /\ Leave(s)
    /\ UNCHANGED <<bbVars, sems, isrHolds, asked>>

\* Mutant: the readers are told only when the buffer did not fill up.
SendSilentWhenFull(s) ==
    /\ pc[s] \in {"giveItems", "giveBoth"}
    /\ xItemsBufferedSemaphore' = (xItemsBufferedSemaphore \/ pc[s] = "giveBoth")
    /\ IF pc[s] = "giveBoth" THEN Goto(s, "giveFree") ELSE Leave(s)
    /\ UNCHANGED <<bbVars, xFreeSpaceSemaphore, isrHolds, asked>>

SendGiveItems(s) ==
    /\ pc[s] \in {"giveItems", "giveBoth"}
    /\ xItemsBufferedSemaphore' = TRUE
    /\ IF pc[s] = "giveBoth" THEN Goto(s, "giveFree") ELSE Leave(s)
    /\ UNCHANGED <<bbVars, xFreeSpaceSemaphore, isrHolds, asked>>

\* The last step of a send that left free space, and of vRingbufferReturnItem.
GiveFree(t) ==
    /\ pc[t] = "giveFree"
    /\ xFreeSpaceSemaphore' = TRUE
    /\ Leave(t)
    /\ UNCHANGED <<bbVars, xItemsBufferedSemaphore, isrHolds, asked>>

----------------------------------------------------------------------------
(* xRingbufferReceive, xRingbufferReceiveUpTo: prvReceiveGeneric *)

ReceiveCall(r) ==
    /\ pc[r] = "idle"
    /\ \E n \in MaxSizes, w \in Waits :
          /\ arg' = [arg EXCEPT ![r] = n]
          /\ xTicksToWait' = [xTicksToWait EXCEPT ![r] = w]
    /\ pc' = [pc EXCEPT ![r] = "take"]
    /\ UNCHANGED <<bbVars, sems, isrHolds, asked>>

ReceiveTake(r) ==
    /\ pc[r] = "take"
    /\ xItemsBufferedSemaphore
    /\ xItemsBufferedSemaphore' = FALSE
    /\ Goto(r, "check")
    /\ UNCHANGED <<bbVars, xFreeSpaceSemaphore, isrHolds, asked>>

ReceiveTimeout(r) ==
    /\ pc[r] = "take"
    /\ ~xItemsBufferedSemaphore
    /\ xTicksToWait[r] = "finite"
    /\ Leave(r)
    /\ UNCHANGED <<bbVars, sems, isrHolds, asked>>

\* The critical section, when data is available.
ReceiveGet(r) ==
    /\ pc[r] = "check"
    /\ prvCheckItemAvail
    /\ prvGetItemByteBuf(arg[r])
    /\ Goto(r, IF xItemsWaiting' > 0 THEN "giveItems" ELSE "holding")
    /\ UNCHANGED <<sems, isrHolds, asked>>

ReceiveNoItem(r) ==
    /\ pc[r] = "check"
    /\ ~prvCheckItemAvail
    /\ \/ Goto(r, "take")
       \/ xTicksToWait[r] = "finite" /\ Leave(r)
    /\ UNCHANGED <<bbVars, sems, isrHolds, asked>>

ReceiveGiveItems(r) ==
    /\ pc[r] = "giveItems"
    /\ xItemsBufferedSemaphore' = TRUE
    /\ Goto(r, "holding")
    /\ UNCHANGED <<bbVars, xFreeSpaceSemaphore, isrHolds, asked>>

\* Mutant: the space freed is not announced to the senders.
ReturnSilently(r) ==
    /\ pc[r] = "holding"
    /\ prvReturnItemByteBuf
    /\ Leave(r)
    /\ UNCHANGED <<sems, isrHolds, asked>>

\* vRingbufferReturnItem, called when the application is done with the chunk.
ReturnItem(r) ==
    /\ pc[r] = "holding"
    /\ prvReturnItemByteBuf
    /\ Goto(r, "giveFree")
    /\ UNCHANGED <<sems, isrHolds, asked>>

----------------------------------------------------------------------------
(* Interrupt handlers *)

SendFromISR ==
    /\ IsrSends
    /\ \E n \in SendSizes :
          /\ asked + n <= MaxSent
          /\ asked' = asked + n
          /\ prvCheckItemFitsByteBuffer(n)
          /\ prvCopyItemByteBuf(n)
    /\ xItemsBufferedSemaphore' = TRUE
    /\ xFreeSpaceSemaphore' = (xFreeSpaceSemaphore \/ prvGetFreeSize' > 0)
    /\ UNCHANGED <<taskVars, isrHolds>>

\* prvReceiveGenericFromISR does not take the semaphore.
ReceiveFromISR ==
    /\ IsrReceives
    /\ \E n \in MaxSizes : prvCheckItemAvail /\ prvGetItemByteBuf(n)
    /\ isrHolds' = TRUE
    /\ xItemsBufferedSemaphore' = (xItemsBufferedSemaphore \/ xItemsWaiting' > 0)
    /\ UNCHANGED <<xFreeSpaceSemaphore, taskVars, asked>>

ReturnItemFromISR ==
    /\ isrHolds
    /\ prvReturnItemByteBuf
    /\ isrHolds' = FALSE
    /\ xFreeSpaceSemaphore' = TRUE
    /\ UNCHANGED <<xItemsBufferedSemaphore, taskVars, asked>>

----------------------------------------------------------------------------
(* The steps a task takes inside a call, without waiting for anybody. *)
SendStep(s) ==
    \/ SendTake(s) \/ SendTimeout(s) \/ SendCopy(s) \/ SendNoFit(s)
    \/ SendGiveItems(s) \/ GiveFree(s)

ReceiveStep(r) ==
    \/ ReceiveTake(r) \/ ReceiveTimeout(r) \/ ReceiveGet(r) \/ ReceiveNoItem(r)
    \/ ReceiveGiveItems(r) \/ GiveFree(r)

TNext ==
    \/ \E s \in Senders : SendCall(s) \/ SendStep(s)
    \/ \E r \in Receivers : ReceiveCall(r) \/ ReceiveStep(r) \/ ReturnItem(r)
    \/ SendFromISR \/ ReceiveFromISR \/ ReturnItemFromISR

TSpec == TInit /\ [][TNext]_vars

\* A task inside a call is scheduled again when it can run, nothing more: an
\* application may stop calling, or keep a chunk for ever.
CallsProgress ==
    /\ \A s \in Senders : WF_vars(SendStep(s))
    /\ \A r \in Receivers : WF_vars(ReceiveStep(r))
CallSpec == TSpec /\ CallsProgress

\* An application whose receivers loop: receive, use, return.
ConsumersLoop ==
    \A r \in Receivers : WF_vars(ReceiveCall(r)) /\ WF_vars(ReturnItem(r))
LoopSpec == CallSpec /\ ConsumersLoop

----------------------------------------------------------------------------
(* Properties. *)

\* Whoever holds a chunk: a receiver past its critical section, or the handler.
Holders == {r \in Receivers : pc[r] \in {"giveItems", "holding"}}

\* ringbuf.h: "Byte buffers do not allow multiple retrievals before returning
\* an item".  However receivers and handlers interleave, one of them holds the
\* chunk on loan and nobody else holds anything.
OneHolder ==
    /\ \A r1, r2 \in Holders : r1 = r2
    /\ isrHolds => Holders = {}
    /\ (xLoan > 0) = (isrHolds \/ Holders # {})

\* ringbuf.h on xRingbufferReceive: "This function will block until an item is
\* available or until it times out".  A reader that waits while data is
\* available does not wait for ever.
ReaderServed ==
    \A r \in Receivers :
        (pc[r] = "take" /\ prvCheckItemAvail)
            ~> ~(pc[r] = "take" /\ prvCheckItemAvail)

\* As long as a consumer keeps receiving and returning, every send ends ...
SendsComplete == \A s \in Senders : (pc[s] # "idle") ~> (pc[s] = "idle")

\* ... and every byte accepted is eventually handed out.
BytesDelivered == (xItemsWaiting > 0) ~> (xItemsWaiting = 0)
=============================================================================
