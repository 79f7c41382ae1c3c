---------------------------- MODULE PthreadCond -----------------------------
(* A condition variable and the statically initialised mutex it is used    *)
(* with: pthread_cond_var.c and the mutexes of pthread.c, driven by the     *)
(* protocol they exist for.  Waiters lock the mutex and wait until a flag   *)
(* is set; a notifier sets the flag under the mutex, tells the waiters and, *)
(* after a broadcast, destroys the condition variable.                      *)
(*                                                                          *)
(* A critical section under cond->lock, or with interrupts off, is one step.*)
EXTENDS Naturals, Sequences, FiniteSets

CONSTANTS
    Waiters,        \* tasks that wait for the flag
    Notifier        \* the task that sets it

ASSUME NotifierAssumption == Notifier \notin Waiters

VARIABLES
    cpc,            \* where each task is
    mutex,          \* the pthread_mutex_t: 0 = PTHREAD_MUTEX_INITIALIZER, else its semaphore
    taken,          \* the semaphores that are taken
    waiter_list,    \* cond->waiter_list
    wait_sem,       \* count of each waiter's own semaphore
    cond,           \* the condition variable: "live", "freed"
    flag,           \* what the waiters wait for
    how             \* rigid: the notifier's call, "broadcast" or "signal"

condVars == <<cpc, mutex, taken, waiter_list, wait_sem, cond, flag, how>>

Users == Waiters \cup {Notifier}

CInit ==
    /\ cpc = [u \in Users |-> "idle"]
    /\ mutex = 0
    /\ taken = {}
    /\ waiter_list = <<>>
    /\ wait_sem = [w \in Waiters |-> 0]
    /\ cond = "live"
    /\ flag = FALSE
    /\ how \in {"broadcast", "signal"}

MovesTo(u, l) == cpc' = [cpc EXCEPT ![u] = l]
Listed(w) == \E i \in DOMAIN waiter_list : waiter_list[i] = w

\* ---------------------------------------------------- pthread_mutex_lock ----
\* pthread_mutex_init_if_static looks at the mutex before its critical section...
pthread_mutex_lock(u) ==
    /\ cpc[u] = "idle"
    /\ MovesTo(u, IF mutex = 0 THEN "static" ELSE "take")
    /\ UNCHANGED <<mutex, taken, waiter_list, wait_sem, cond, flag, how>>

\* ... and again inside it.  (Mutant: it does not look again.)
NoSecondLook == TRUE
StillStatic == mutex = 0
InitIfStatic(u) ==
    /\ cpc[u] = "static"
    /\ mutex' = IF StillStatic THEN mutex + 1 ELSE mutex
    /\ MovesTo(u, "take")
    /\ UNCHANGED <<taken, waiter_list, wait_sem, cond, flag, how>>

TakeMutex(u) ==
    /\ cpc[u] = "take" /\ mutex \notin taken
    /\ taken' = taken \cup {mutex}
    /\ MovesTo(u, "locked")
    /\ UNCHANGED <<mutex, waiter_list, wait_sem, cond, flag, how>>

pthread_mutex_unlock == taken' = taken \ {mutex} /\ UNCHANGED mutex

\* ------------------------------------------------ pthread_cond_timedwait ----
InsertWaiter(w) ==
    /\ cpc[w] = "locked" /\ ~flag
    /\ waiter_list' = Append(waiter_list, w)
    /\ MovesTo(w, "inserted")
    /\ UNCHANGED <<mutex, taken, wait_sem, cond, flag, how>>

UnlockToWait(w) ==
    /\ cpc[w] = "inserted"
    /\ pthread_mutex_unlock
    /\ MovesTo(w, "sleeping")
    /\ UNCHANGED <<waiter_list, wait_sem, cond, flag, how>>

Woken(w) ==
    /\ cpc[w] = "sleeping" /\ wait_sem[w] = 1
    /\ wait_sem' = [wait_sem EXCEPT ![w] = 0]
    /\ MovesTo(w, "awake")
    /\ UNCHANGED <<mutex, taken, waiter_list, cond, flag, how>>

\* ETIMEDOUT.  A wait without a time is one that never takes this step.
TimesOut(w) ==
    /\ cpc[w] = "sleeping" /\ wait_sem[w] = 0
    /\ MovesTo(w, "awake")
    /\ UNCHANGED <<mutex, taken, waiter_list, wait_sem, cond, flag, how>>

\* The waiter leaves the list whether it was woken or timed out, its semaphore
\* goes with what was given to it, and it locks the mutex again.  (Mutant: the
\* waiter leaves the list only if it was not signalled since.)
Without(s, i) == [j \in 1..Len(s) - 1 |-> IF j < i THEN s[j] ELSE s[j + 1]]
PlaceOf(w) == CHOOSE i \in DOMAIN waiter_list : waiter_list[i] = w
UnlinksUnlessSignalled(w) == IF wait_sem[w] = 1 THEN waiter_list
                             ELSE Without(waiter_list, PlaceOf(w))
Unlinked(w) == Without(waiter_list, PlaceOf(w))
RemoveWaiter(w) ==
    /\ cpc[w] = "awake"
    /\ waiter_list' = Unlinked(w)
    /\ wait_sem' = [wait_sem EXCEPT ![w] = 0]
    /\ MovesTo(w, "take")
    /\ UNCHANGED <<mutex, taken, cond, flag, how>>

\* ------------------------------- pthread_cond_signal, pthread_cond_broadcast ----
\* The first waiter of the list is given its semaphore, which counts to one; it
\* stays in the list until it has run.
GiveFirst == wait_sem' = [w \in Waiters |->
                 IF waiter_list # <<>> /\ Head(waiter_list) = w THEN 1 ELSE wait_sem[w]]
GiveAll == wait_sem' = [w \in Waiters |-> IF Listed(w) THEN 1 ELSE wait_sem[w]]

SetFlag ==
    /\ cpc[Notifier] = "locked"
    /\ flag' = TRUE
    /\ pthread_mutex_unlock
    /\ MovesTo(Notifier, "notify")
    /\ UNCHANGED <<waiter_list, wait_sem, cond, how>>

pthread_cond_broadcast ==
    /\ cpc[Notifier] = "notify" /\ how = "broadcast"
    /\ GiveAll
    /\ MovesTo(Notifier, "destroy")
    /\ UNCHANGED <<mutex, taken, waiter_list, cond, flag, how>>

\* With signals each waiter that has seen the flag passes the signal on.
pthread_cond_signal(u) ==
    /\ cpc[u] = "notify" /\ how = "signal"
    /\ GiveFirst
    /\ MovesTo(u, "done")
    /\ UNCHANGED <<mutex, taken, waiter_list, cond, flag, how>>

\* A signal that no flag goes with.
StraySignal ==
    /\ cpc[Notifier] = "idle"
    /\ GiveFirst
    /\ UNCHANGED <<cpc, mutex, taken, waiter_list, cond, flag, how>>

LeaveLocked(w) ==
    /\ cpc[w] = "locked" /\ flag
    /\ pthread_mutex_unlock
    /\ MovesTo(w, IF how = "signal" THEN "notify" ELSE "done")
    /\ UNCHANGED <<waiter_list, wait_sem, cond, flag, how>>

\* -------------------------------------------------- pthread_cond_destroy ----
\* EBUSY while the list has a waiter, and the notifier calls again; the memory is
\* freed after cond->lock has been released.
pthread_cond_destroy ==
    /\ cpc[Notifier] = "destroy" /\ waiter_list = <<>>
    /\ MovesTo(Notifier, "free")
    /\ UNCHANGED <<mutex, taken, waiter_list, wait_sem, cond, flag, how>>

FreeCond ==
    /\ cpc[Notifier] = "free"
    /\ cond' = "freed"
    /\ MovesTo(Notifier, "done")
    /\ UNCHANGED <<mutex, taken, waiter_list, wait_sem, flag, how>>

WaiterStep(w) == \/ InsertWaiter(w) \/ UnlockToWait(w) \/ Woken(w) \/ RemoveWaiter(w)
                 \/ LeaveLocked(w) \/ pthread_cond_signal(w)
NotifierStep == \/ SetFlag \/ pthread_cond_broadcast \/ pthread_cond_signal(Notifier)
                \/ pthread_cond_destroy \/ FreeCond
LockStep(u) == InitIfStatic(u) \/ TakeMutex(u)

CNext ==
    \/ \E u \in Users : pthread_mutex_lock(u) \/ LockStep(u)
    \/ \E w \in Waiters : WaiterStep(w) \/ TimesOut(w)
    \/ NotifierStep \/ StraySignal

CSpec == CInit /\ [][CNext]_condVars

\* A task that can run is given the processor in the end: none has to start, and
\* no wait has to time out.  Once the flag is set nobody holds the mutex again
\* and again, so that weak fairness is enough for a task that wants it.
CFair ==
    /\ \A w \in Waiters : WF_condVars(LockStep(w) \/ WaiterStep(w))
    /\ WF_condVars(LockStep(Notifier) \/ NotifierStep)

\* ---------------------------------------------------------- properties ----
WaitLabels == {"inserted", "sleeping", "awake"}

\* What pthread_mutex_lock returns to is held by one task: the second look of
\* pthread_mutex_init_if_static (pthread.c:521) keeps two first users from getting
\* a semaphore each, and a wait gives the mutex up and takes it back.
MutexExclusion ==
    \A u, v \in Users :
        cpc[u] \in {"locked", "inserted"} /\ cpc[v] \in {"locked", "inserted"} => u = v

\* The list links records on the waiters' stacks (pthread_cond_var.c:131): it holds
\* those of the tasks inside the call, each once, and no other; and a condition
\* variable is freed only when no waiter will take its lock again.
WaiterListSound ==
    /\ \A w \in Waiters : Listed(w) <=> cpc[w] \in WaitLabels
    /\ \A i, j \in DOMAIN waiter_list : waiter_list[i] = waiter_list[j] => i = j
    /\ cpc[Notifier] = "free" \/ cond = "freed" =>
          \A w \in Waiters : cpc[w] \notin WaitLabels

\* No wake-up is lost between the unlock and the sleep, or to a waiter that times
\* out: once the flag is set everyone who has started gets through.
WaitersProceed ==
    \A w \in Waiters : (flag /\ cpc[w] # "idle") ~> cpc[w] = "done"
=============================================================================
