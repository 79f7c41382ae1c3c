------------------------------ MODULE Pthread -------------------------------
(* Threads of the POSIX layer over FreeRTOS (src/components/pthread/src/   *)
(* pthread.c): creation, joining, detaching and the end of a thread.       *)
(*                                                                         *)
(* A thread is its FreeRTOS task together with its descriptor, which is in *)
(* s_threads_list from its insertion until it is freed. What a call does   *)
(* while it holds s_threads_mux is one step: nothing in it blocks, and the *)
(* list is never touched without the mutex.  Addresses are not reused:     *)
(* each element of Threads is created at most once.                        *)
EXTENDS Naturals, FiniteSets

CONSTANTS
    Threads,        \* the threads that can be created
    Main            \* a task that is not one of them, app_main

Tasks == Threads \cup {Main}
NoTask == "none"

ASSUME TaskAssumption == Main \notin Threads /\ NoTask \notin Tasks

VARIABLES
    pc,             \* where each task is
    target,         \* the thread its pthread_create or pthread_join is about
    s_threads_list, \* the threads with a descriptor in the list
    join_task,      \* the task waiting to join each thread
    state,          \* PTHREAD_TASK_STATE_*
    detached,       \* the thread is detached
    notified,       \* a task notification is pending for the task
    known           \* auxiliary: threads whose pthread_create has returned

threadVars == <<pc, target, s_threads_list, join_task, state, detached, notified, known>>

PInit ==
    /\ pc = [x \in Tasks |-> IF x = Main THEN "run" ELSE "unborn"]
    /\ target = [x \in Tasks |-> NoTask]
    /\ s_threads_list = {}
    /\ join_task = [t \in Threads |-> NoTask]
    /\ state = [t \in Threads |-> "RUN"]
    /\ detached = [t \in Threads |-> FALSE]
    /\ notified = [x \in Tasks |-> FALSE]
    /\ known = {}

Goes(x, l) == pc' = [pc EXCEPT ![x] = l]
pthread_delete(t) == s_threads_list' = s_threads_list \ {t}

\* -------------------------------------------------------- pthread_create ----
\* The new task waits in pthread_task_func until it is notified.
pthread_create(c, t) ==
    /\ pc[c] = "run" /\ pc[t] = "unborn"
    /\ pc' = [pc EXCEPT ![c] = "insert", ![t] = "waitstart"]
    /\ target' = [target EXCEPT ![c] = t]
    /\ UNCHANGED <<s_threads_list, join_task, state, detached, notified, known>>

InsertThread(c) ==
    /\ pc[c] = "insert"
    /\ s_threads_list' = s_threads_list \cup {target[c]}
    /\ Goes(c, "startthread")
    /\ UNCHANGED <<target, join_task, state, detached, notified, known>>

\* The task is started only once its descriptor is in the list.
StartThread(c) ==
    /\ pc[c] = "startthread"
    /\ notified' = [notified EXCEPT ![target[c]] = TRUE]
    /\ known' = known \cup {target[c]}
    /\ Goes(c, "run")
    /\ UNCHANGED <<target, s_threads_list, join_task, state, detached>>

\* xTaskNotifyWait returns and clears the notification.  (Mutant: it is left pending.)
PeekNotification(x) == notified[x] /\ UNCHANGED notified
TakeNotification(x) == notified[x] /\ notified' = [notified EXCEPT ![x] = FALSE]

\* ----------------------------------------------------- pthread_task_func ----
Start(t) ==
    /\ pc[t] = "waitstart"
    /\ TakeNotification(t)
    /\ Goes(t, "run")
    /\ UNCHANGED <<target, s_threads_list, join_task, state, detached, known>>

\* The thread's function returns and its thread-local storage is cleaned up.
FunctionReturns(t) ==
    /\ t # Main /\ pc[t] = "run"
    /\ Goes(t, "ending")
    /\ UNCHANGED <<target, s_threads_list, join_task, state, detached, notified, known>>

\* A detached thread frees its descriptor; otherwise the joining task is woken or,
\* when there is none yet, the thread is marked as ended.  (Mutant: no wake-up.)
NotifyNobody(t) == UNCHANGED notified
NotifyJoiner(t) == notified' = [notified EXCEPT ![join_task[t]] = TRUE]
LeavesWith(t) ==
    IF detached[t] THEN pthread_delete(t) /\ UNCHANGED <<state, notified>>
    ELSE IF join_task[t] # NoTask
    THEN NotifyJoiner(t) /\ UNCHANGED <<s_threads_list, state>>
    ELSE state' = [state EXCEPT ![t] = "EXIT"] /\ UNCHANGED <<s_threads_list, notified>>
EndThread(t) ==
    /\ pc[t] = "ending"
    /\ LeavesWith(t)
    /\ Goes(t, "deleted")
    /\ UNCHANGED <<target, join_task, detached, known>>

\* ---------------------------------------------------------- pthread_join ----
\* Mutants: a task may join one that waits for it; two tasks may join the same
\* thread; the descriptor of a thread that still runs is freed.
NeverDeadlock(j, t) == j = t
AlwaysExited(t) == TRUE
WouldDeadlock(j, t) == \/ j = t
                       \/ j \in s_threads_list /\ join_task[j] = t
HasExited(t) == state[t] = "EXIT"

\* ESRCH, EINVAL or EDEADLK
JoinsTwice(j, t) == t \notin s_threads_list \/ WouldDeadlock(j, t)
JoinRefused(j, t) == \/ t \notin s_threads_list
                     \/ join_task[t] # NoTask
                     \/ WouldDeadlock(j, t)

pthread_join(j, t) ==
    /\ pc[j] = "run"
    /\ ~JoinRefused(j, t)
    /\ IF HasExited(t)
       THEN /\ pthread_delete(t)
            /\ UNCHANGED <<pc, target, join_task>>
       ELSE /\ join_task' = [join_task EXCEPT ![t] = j]
            /\ target' = [target EXCEPT ![j] = t]
            /\ Goes(j, "joinwait")
            /\ UNCHANGED s_threads_list
    /\ UNCHANGED <<state, detached, notified, known>>

JoinNotified(j) ==
    /\ pc[j] = "joinwait"
    /\ TakeNotification(j)
    /\ Goes(j, "joined")
    /\ UNCHANGED <<target, s_threads_list, join_task, state, detached, known>>

FreeJoined(j) ==
    /\ pc[j] = "joined"
    /\ pthread_delete(target[j])
    /\ Goes(j, "run")
    /\ UNCHANGED <<target, join_task, state, detached, notified, known>>

\* -------------------------------------------------------- pthread_detach ----
pthread_detach(d, t) ==
    /\ pc[d] = "run"
    /\ t \in s_threads_list
    /\ detached' = [detached EXCEPT ![t] = TRUE]
    /\ UNCHANGED <<pc, target, s_threads_list, join_task, state, notified, known>>

\* The application: calls are about threads it knows; as POSIX has it a detached
\* thread is not joined, and one that is being joined is not detached.
PNext ==
    \/ \E c \in Tasks, t \in Threads : pthread_create(c, t)
    \/ \E c \in Tasks : InsertThread(c) \/ StartThread(c) \/ JoinNotified(c) \/ FreeJoined(c)
    \/ \E t \in Threads : Start(t) \/ FunctionReturns(t) \/ EndThread(t)
    \/ \E j \in Tasks, t \in known : ~detached[t] /\ pthread_join(j, t)
    \/ \E d \in Tasks, t \in known : join_task[t] = NoTask /\ pthread_detach(d, t)

PSpec == PInit /\ [][PNext]_threadVars

\* Every task that can run is given the processor in the end.  A thread's
\* function need not return, and no task need make a further call.
GoesOn(x) == \/ InsertThread(x) \/ StartThread(x) \/ JoinNotified(x) \/ FreeJoined(x)
             \/ x \in Threads /\ (Start(x) \/ EndThread(x))
PFair == \A x \in Tasks : WF_threadVars(GoesOn(x))

\* ---------------------------------------------------------- properties ----
PcLabels == {"unborn", "waitstart", "run", "ending", "deleted", "insert",
             "startthread", "joinwait", "joined"}

\* Types, and what a pending notification and a recorded end mean: a task is
\* notified only while it waits to start or to join (pthread.c:194, :342), so no
\* later wait of the task returns early on a stale one.
PTypeOK ==
    /\ pc \in [Tasks -> PcLabels]
    /\ target \in [Tasks -> Threads \cup {NoTask}]
    /\ s_threads_list \in SUBSET Threads
    /\ join_task \in [Threads -> Tasks \cup {NoTask}]
    /\ state \in [Threads -> {"RUN", "EXIT"}]
    /\ detached \in [Threads -> BOOLEAN]
    /\ notified \in [Tasks -> BOOLEAN]
    /\ known \in SUBSET Threads
    /\ \A x \in Tasks : notified[x] => pc[x] \in {"waitstart", "joinwait"}
    /\ \A t \in Threads : state[t] = "EXIT" => pc[t] = "deleted"

Joining(j) == pc[j] \in {"joinwait", "joined"}

\* A thread that runs has a descriptor until its own last look at it: the end of
\* the thread and pthread_self assert that it is found (pthread.c:212, :396).
RunningRegistered ==
    \A t \in Threads :
        pc[t] \notin {"unborn", "waitstart", "deleted"} => t \in s_threads_list

\* pthread_join uses its pointer again after the wait without looking it up
\* (pthread.c:346): the descriptor is still there and still its own to free, and
\* the notification it waits for means that the thread has ended.
JoinTargetKept ==
    \A j \in Tasks :
        Joining(j) => /\ target[j] \in s_threads_list
                      /\ join_task[target[j]] = j
                      /\ ~detached[target[j]]
                      /\ pc[j] = "joined" \/ notified[j] => pc[target[j]] = "deleted"

\* Both: no list entry a task still relies on is missing or taken over.
DescriptorsKept == RunningRegistered /\ JoinTargetKept

\* "join to each other not allowed" (pthread.c:328).
NoMutualJoin ==
    \A a, b \in Threads :
        ~(pc[a] = "joinwait" /\ target[a] = b /\ pc[b] = "joinwait" /\ target[b] = a)

\* A descriptor is freed once, and only when its thread no longer needs it.
FreedAfterEnd ==
    [][\A t \in Threads : t \in s_threads_list /\ t \notin s_threads_list'
                          => pc'[t] = "deleted"]_threadVars

\* Whoever joins a thread that ends is woken, whichever comes first.
JoinReturns ==
    \A j \in Tasks : (Joining(j) /\ pc[target[j]] = "deleted") ~> pc[j] = "run"
=============================================================================
