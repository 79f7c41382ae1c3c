--------------------------- MODULE PthreadProofs ----------------------------
(* Theorems about Pthread, for any set of threads.                         *)
EXTENDS Pthread, TLAPS

\* A task that creates a thread has it for itself until it starts it.
Creating(c) == pc[c] \in {"insert", "startthread"}
CreationOwned ==
    /\ \A c \in Tasks :
          Creating(c) => /\ target[c] \in Threads
                         /\ pc[target[c]] = "waitstart" /\ ~notified[target[c]]
                         /\ pc[c] = "startthread" => target[c] \in s_threads_list
    /\ \A c, d \in Tasks : Creating(c) /\ Creating(d) /\ target[c] = target[d] => c = d

\* A thread that has been told to start is in the list.
StartedRegistered ==
    \A t \in Threads : pc[t] = "waitstart" /\ notified[t] => t \in s_threads_list

\* The task a live thread will notify when it ends waits for that thread.
JoinerWaits ==
    \A t \in Threads :
        join_task[t] # NoTask /\ pc[t] # "deleted" =>
            pc[join_task[t]] = "joinwait" /\ target[join_task[t]] = t

\* A task that joins has a thread as its target.
TargetsAreThreads == \A j \in Tasks : Joining(j) => target[j] \in Threads

\* The inductive invariant: neither part of DescriptorsKept is inductive without
\* who owns a thread before it starts and whom a live thread will notify.
PInv == /\ PTypeOK /\ RunningRegistered /\ JoinTargetKept
        /\ CreationOwned /\ StartedRegistered /\ JoinerWaits /\ TargetsAreThreads

\* pthread_create makes the new task and its descriptor; the invariant survives
\* because a thread created now is in nobody's list, joined by nobody (pthread.c:236).
LEMMA CreateInv ==
  ASSUME PInv, NEW c \in Tasks, NEW t \in Threads, pthread_create(c, t)
  PROVE  PInv'
<1> USE TaskAssumption DEF PInv, pthread_create, Goes, Tasks
<1>1. PTypeOK'
  BY DEF PTypeOK, PcLabels
<1>2. RunningRegistered'
  BY DEF RunningRegistered, PTypeOK
<1>3. JoinTargetKept'
  BY DEF JoinTargetKept, Joining, PTypeOK, TargetsAreThreads
<1>4. CreationOwned'
  BY DEF CreationOwned, Creating, PTypeOK
<1>5. StartedRegistered'
  BY DEF StartedRegistered, PTypeOK, CreationOwned, Creating
<1>6. JoinerWaits'
  BY DEF JoinerWaits, PTypeOK, JoinTargetKept, Joining
<1>7. TargetsAreThreads'
  BY DEF TargetsAreThreads, Joining, PTypeOK
<1> QED BY <1>1, <1>2, <1>3, <1>4, <1>5, <1>6, <1>7

\* Entering the descriptor into s_threads_list keeps the invariant: the thread
\* still waits for its creator (pthread.c:290).
LEMMA InsertThreadInv ==
  ASSUME PInv, NEW c \in Tasks, InsertThread(c)
  PROVE  PInv'
<1> USE TaskAssumption DEF PInv, InsertThread, Goes, Tasks
<1>1. PTypeOK'
  BY DEF PTypeOK, PcLabels, CreationOwned, Creating
<1>2. RunningRegistered'
  BY DEF RunningRegistered, PTypeOK
<1>3. JoinTargetKept'
  BY DEF JoinTargetKept, Joining, PTypeOK, TargetsAreThreads
<1>4. CreationOwned'
  BY DEF CreationOwned, Creating, PTypeOK
<1>5. StartedRegistered'
  BY DEF StartedRegistered, PTypeOK, CreationOwned, Creating
<1>6. JoinerWaits'
  BY DEF JoinerWaits, PTypeOK, JoinTargetKept, Joining
<1>7. TargetsAreThreads'
  BY DEF TargetsAreThreads, Joining, PTypeOK
<1> QED BY <1>1, <1>2, <1>3, <1>4, <1>5, <1>6, <1>7

\* Starting the task after the insertion keeps the invariant: what is told to
\* start is in the list (pthread.c:294).
LEMMA StartThreadInv ==
  ASSUME PInv, NEW c \in Tasks, StartThread(c)
  PROVE  PInv'
<1> USE TaskAssumption DEF PInv, StartThread, Goes, Tasks
<1>0. target[c] \in Threads /\ pc[target[c]] = "waitstart"
  BY DEF CreationOwned, Creating
<1>1. PTypeOK'
  BY <1>0 DEF PTypeOK, PcLabels
<1>2. RunningRegistered'
  BY DEF RunningRegistered, PTypeOK
<1>3. JoinTargetKept'
  BY <1>0 DEF JoinTargetKept, Joining, PTypeOK, TargetsAreThreads
<1>4. CreationOwned'
  BY DEF CreationOwned, Creating, PTypeOK
<1>5. StartedRegistered'
  BY DEF StartedRegistered, PTypeOK, CreationOwned, Creating
<1>6. JoinerWaits'
  BY DEF JoinerWaits, PTypeOK, JoinTargetKept, Joining
<1>7. TargetsAreThreads'
  BY DEF TargetsAreThreads, Joining, PTypeOK
<1> QED BY <1>1, <1>2, <1>3, <1>4, <1>5, <1>6, <1>7

\* A joiner wakes only after the end of its thread, so the invariant holds when
\* it goes on to free the descriptor (pthread.c:342).
LEMMA JoinNotifiedInv ==
  ASSUME PInv, NEW c \in Tasks, JoinNotified(c)
  PROVE  PInv'
<1> USE TaskAssumption DEF PInv, JoinNotified, TakeNotification, Goes, Tasks
<1>1. PTypeOK'
  BY DEF PTypeOK, PcLabels
<1>2. RunningRegistered'
  BY DEF RunningRegistered, PTypeOK
<1>3. JoinTargetKept'
  BY DEF JoinTargetKept, Joining, PTypeOK, TargetsAreThreads
<1>4. CreationOwned'
  BY DEF CreationOwned, Creating, PTypeOK
<1>5. StartedRegistered'
  BY DEF StartedRegistered, PTypeOK, CreationOwned, Creating
<1>6. JoinerWaits'
  BY DEF JoinerWaits, PTypeOK, JoinTargetKept, Joining
<1>7. TargetsAreThreads'
  BY DEF TargetsAreThreads, Joining, PTypeOK
<1> QED BY <1>1, <1>2, <1>3, <1>4, <1>5, <1>6, <1>7

\* The joiner frees the descriptor of a thread that has ended: no task needs it
\* any more (pthread.c:346).
LEMMA FreeJoinedInv ==
  ASSUME PInv, NEW c \in Tasks, FreeJoined(c)
  PROVE  PInv'
<1> USE TaskAssumption DEF PInv, FreeJoined, pthread_delete, Goes, Tasks
<1>0. target[c] \in Threads /\ pc[target[c]] = "deleted"
  BY DEF JoinTargetKept, Joining, TargetsAreThreads
<1>1. PTypeOK'
  BY DEF PTypeOK, PcLabels
<1>2. RunningRegistered'
  BY <1>0 DEF RunningRegistered, PTypeOK
<1>3. JoinTargetKept'
  BY DEF JoinTargetKept, Joining, PTypeOK, TargetsAreThreads
<1>4. CreationOwned'
  BY <1>0 DEF CreationOwned, Creating, PTypeOK
<1>5. StartedRegistered'
  BY <1>0 DEF StartedRegistered, PTypeOK, CreationOwned, Creating
<1>6. JoinerWaits'
  BY DEF JoinerWaits, PTypeOK, JoinTargetKept, Joining
<1>7. TargetsAreThreads'
  BY DEF TargetsAreThreads, Joining, PTypeOK
<1> QED BY <1>1, <1>2, <1>3, <1>4, <1>5, <1>6, <1>7

\* A thread that starts finds itself in the list (pthread.c:194).
LEMMA StartInv ==
  ASSUME PInv, NEW t \in Threads, Start(t)
  PROVE  PInv'
<1> USE TaskAssumption DEF PInv, Start, TakeNotification, Goes, Tasks
<1>1. PTypeOK'
  BY DEF PTypeOK, PcLabels
<1>2. RunningRegistered'
  BY DEF RunningRegistered, PTypeOK, StartedRegistered
<1>3. JoinTargetKept'
  BY DEF JoinTargetKept, Joining, PTypeOK, TargetsAreThreads
<1>4. CreationOwned'
  BY DEF CreationOwned, Creating, PTypeOK
<1>5. StartedRegistered'
  BY DEF StartedRegistered, PTypeOK, CreationOwned, Creating
<1>6. JoinerWaits'
  BY DEF JoinerWaits, PTypeOK, JoinTargetKept, Joining
<1>7. TargetsAreThreads'
  BY DEF TargetsAreThreads, Joining, PTypeOK
<1> QED BY <1>1, <1>2, <1>3, <1>4, <1>5, <1>6, <1>7

\* The return of the thread's function disturbs nothing (pthread.c:202).
LEMMA FunctionReturnsInv ==
  ASSUME PInv, NEW t \in Threads, FunctionReturns(t)
  PROVE  PInv'
<1> USE TaskAssumption DEF PInv, FunctionReturns, Goes, Tasks
<1>1. PTypeOK'
  BY DEF PTypeOK, PcLabels
<1>2. RunningRegistered'
  BY DEF RunningRegistered, PTypeOK
<1>3. JoinTargetKept'
  BY DEF JoinTargetKept, Joining, PTypeOK, TargetsAreThreads
<1>4. CreationOwned'
  BY DEF CreationOwned, Creating, PTypeOK
<1>5. StartedRegistered'
  BY DEF StartedRegistered, PTypeOK, CreationOwned, Creating
<1>6. JoinerWaits'
  BY DEF JoinerWaits, PTypeOK, JoinTargetKept, Joining
<1>7. TargetsAreThreads'
  BY DEF TargetsAreThreads, Joining, PTypeOK
<1> QED BY <1>1, <1>2, <1>3, <1>4, <1>5, <1>6, <1>7

\* A thread that ends wakes the task that joins it, marks itself as ended or
\* frees its own descriptor, and in each case keeps the invariant (pthread.c:209).
LEMMA EndThreadInv ==
  ASSUME PInv, NEW t \in Threads, EndThread(t)
  PROVE  PInv'
<1> USE TaskAssumption DEF PInv, EndThread, LeavesWith, NotifyJoiner, pthread_delete, Goes, Tasks
<1>0. join_task[t] # NoTask =>
         join_task[t] \in Tasks /\ pc[join_task[t]] = "joinwait" /\ target[join_task[t]] = t
  BY DEF JoinerWaits, PTypeOK
<1>1. PTypeOK'
  <2>1. /\ target' \in [Tasks -> Threads \cup {NoTask}] /\ s_threads_list' \in SUBSET Threads
        /\ join_task' \in [Threads -> Tasks \cup {NoTask}]
        /\ detached' \in [Threads -> BOOLEAN] /\ known' \in SUBSET Threads
    BY DEF PTypeOK
  <2>2. pc' \in [Tasks -> PcLabels] /\ state' \in [Threads -> {"RUN", "EXIT"}]
    BY DEF PTypeOK, PcLabels
  <2>3. notified' \in [Tasks -> BOOLEAN]
    BY <1>0 DEF PTypeOK
  <2>4. \A x \in Tasks : notified'[x] => pc'[x] \in {"waitstart", "joinwait"}
    BY <1>0 DEF PTypeOK
  <2>5. \A u \in Threads : state'[u] = "EXIT" => pc'[u] = "deleted"
    BY DEF PTypeOK
  <2> QED BY <2>1, <2>2, <2>3, <2>4, <2>5 DEF PTypeOK
<1>2. RunningRegistered'
  BY DEF RunningRegistered, PTypeOK
<1>3. JoinTargetKept'
  BY <1>0 DEF JoinTargetKept, Joining, PTypeOK, TargetsAreThreads
<1>4. CreationOwned'
  BY <1>0 DEF CreationOwned, Creating, PTypeOK
<1>5. StartedRegistered'
  BY <1>0 DEF StartedRegistered, PTypeOK, CreationOwned, Creating
<1>6. JoinerWaits'
  BY DEF JoinerWaits, PTypeOK, JoinTargetKept, Joining
<1>7. TargetsAreThreads'
  BY DEF TargetsAreThreads, Joining, PTypeOK
<1> QED BY <1>1, <1>2, <1>3, <1>4, <1>5, <1>6, <1>7

\* pthread_join takes over a thread that nobody joins, or frees one that has
\* ended, and keeps the invariant (pthread.c:303).
LEMMA JoinInv ==
  ASSUME PInv, NEW j \in Tasks, NEW t \in known, ~detached[t], pthread_join(j, t)
  PROVE  PInv'
<1> USE TaskAssumption DEF PInv, pthread_join, JoinRefused, HasExited, pthread_delete, Goes, Tasks
<1>1. PTypeOK'
  BY DEF PTypeOK, PcLabels
<1>2. RunningRegistered'
  BY DEF RunningRegistered, PTypeOK
<1>3. JoinTargetKept'
  BY DEF JoinTargetKept, Joining, PTypeOK, TargetsAreThreads
<1>4. CreationOwned'
  BY DEF CreationOwned, Creating, PTypeOK
<1>5. StartedRegistered'
  BY DEF StartedRegistered, PTypeOK, CreationOwned, Creating
<1>6. JoinerWaits'
  BY DEF JoinerWaits, PTypeOK, JoinTargetKept, Joining
<1>7. TargetsAreThreads'
  BY DEF TargetsAreThreads, Joining, PTypeOK
<1> QED BY <1>1, <1>2, <1>3, <1>4, <1>5, <1>6, <1>7

\* Detaching a thread that nobody joins keeps the invariant (pthread.c:358).
LEMMA DetachInv ==
  ASSUME PInv, NEW d \in Tasks, NEW t \in known, join_task[t] = NoTask, pthread_detach(d, t)
  PROVE  PInv'
<1> USE TaskAssumption DEF PInv, pthread_detach, Goes, Tasks
<1>1. PTypeOK'
  BY DEF PTypeOK, PcLabels
<1>2. RunningRegistered'
  BY DEF RunningRegistered, PTypeOK
<1>3. JoinTargetKept'
  BY DEF JoinTargetKept, Joining, PTypeOK, TargetsAreThreads
<1>4. CreationOwned'
  BY DEF CreationOwned, Creating, PTypeOK
<1>5. StartedRegistered'
  BY DEF StartedRegistered, PTypeOK, CreationOwned, Creating
<1>6. JoinerWaits'
  BY DEF JoinerWaits, PTypeOK, JoinTargetKept, Joining
<1>7. TargetsAreThreads'
  BY DEF TargetsAreThreads, Joining, PTypeOK
<1> QED BY <1>1, <1>2, <1>3, <1>4, <1>5, <1>6, <1>7

\* Initially only Main runs and no thread exists (pthread.c:103).
LEMMA InitInv == PInit => PInv
  BY TaskAssumption DEF PInit, PInv, PTypeOK, PcLabels, RunningRegistered, JoinTargetKept,
     Joining, CreationOwned, Creating, StartedRegistered, JoinerWaits, TargetsAreThreads, Tasks

\* Every step of the layer, and every stutter, keeps the invariant.
LEMMA StepInv == PInv /\ [PNext]_threadVars => PInv'
<1> SUFFICES ASSUME PInv, [PNext]_threadVars PROVE PInv'
  OBVIOUS
<1>0. known \subseteq Threads
  BY DEF PInv, PTypeOK
<1>1. ASSUME NEW c \in Tasks, NEW t \in Threads, pthread_create(c, t) PROVE PInv'
  BY <1>1, CreateInv
<1>2. ASSUME NEW c \in Tasks,
             InsertThread(c) \/ StartThread(c) \/ JoinNotified(c) \/ FreeJoined(c)
      PROVE PInv'
  BY <1>2, InsertThreadInv, StartThreadInv, JoinNotifiedInv, FreeJoinedInv
<1>3. ASSUME NEW t \in Threads, Start(t) \/ FunctionReturns(t) \/ EndThread(t)
      PROVE PInv'
  BY <1>3, StartInv, FunctionReturnsInv, EndThreadInv
<1>4. ASSUME NEW j \in Tasks, NEW t \in known, ~detached[t], pthread_join(j, t) PROVE PInv'
  BY <1>4, JoinInv
<1>5. ASSUME NEW d \in Tasks, NEW t \in known, join_task[t] = NoTask, pthread_detach(d, t)
      PROVE PInv'
  BY <1>5, DetachInv
<1>6. CASE UNCHANGED threadVars
  BY <1>6 DEF threadVars, PInv, PTypeOK, RunningRegistered, JoinTargetKept, Joining,
     CreationOwned, Creating, StartedRegistered, JoinerWaits, TargetsAreThreads
<1> QED BY <1>1, <1>2, <1>3, <1>4, <1>5, <1>6 DEF PNext

\* The inductive invariant holds throughout.
LEMMA InvHolds == PSpec => []PInv
  BY InitInv, StepInv, PTL DEF PSpec

\* No task is notified except while it waits for it, and only an ended thread is
\* marked PTHREAD_TASK_STATE_EXIT (pthread.c:209-228).
THEOREM TypeCorrect == PSpec => []PTypeOK
<1>1. PInv => PTypeOK
  BY DEF PInv
<1> QED BY <1>1, InvHolds, PTL

\* A running thread finds its descriptor, and a joiner its own after the wait
\* (pthread.c:212, :346, :396).
THEOREM DescriptorsCorrect == PSpec => []DescriptorsKept
<1>1. PInv => DescriptorsKept
  BY DEF PInv, DescriptorsKept
<1> QED BY <1>1, InvHolds, PTL

\* A step to a mutual join is a pthread_join, and that one is refused: the
\* descriptor of the caller names its joiner (pthread.c:328).
LEMMA NoMutualJoinStep == PInv /\ NoMutualJoin /\ [PNext]_threadVars => NoMutualJoin'
<1> SUFFICES ASSUME PInv, NoMutualJoin, [PNext]_threadVars PROVE NoMutualJoin'
  OBVIOUS
<1> USE TaskAssumption DEF PInv, PTypeOK, Tasks
<1>0. known \subseteq Threads
  BY DEF PInv, PTypeOK
<1>1. ASSUME NEW c \in Tasks, NEW t \in Threads, pthread_create(c, t) PROVE NoMutualJoin'
  BY <1>1 DEF pthread_create, NoMutualJoin
<1>2. ASSUME NEW c \in Tasks,
             InsertThread(c) \/ StartThread(c) \/ JoinNotified(c) \/ FreeJoined(c)
      PROVE NoMutualJoin'
  BY <1>2 DEF InsertThread, StartThread, JoinNotified, FreeJoined, Goes, NoMutualJoin
<1>3. ASSUME NEW t \in Threads, Start(t) \/ FunctionReturns(t) \/ EndThread(t)
      PROVE NoMutualJoin'
  BY <1>3 DEF Start, FunctionReturns, EndThread, Goes, NoMutualJoin
<1>4. ASSUME NEW j \in Tasks, NEW t \in known, pthread_join(j, t) PROVE NoMutualJoin'
  <2>1. pc[t] = "joinwait" /\ target[t] = j => j \in s_threads_list /\ join_task[j] = t
    BY <1>0 DEF JoinTargetKept, Joining
  <2>2. j # t /\ ~(pc[t] = "joinwait" /\ target[t] = j)
    BY <1>4, <2>1 DEF pthread_join, JoinRefused, WouldDeadlock
  <2> QED BY <1>0, <1>4, <2>2 DEF pthread_join, Goes, NoMutualJoin
<1>5. ASSUME NEW d \in Tasks, NEW t \in known, pthread_detach(d, t) PROVE NoMutualJoin'
  BY <1>5 DEF pthread_detach, NoMutualJoin
<1>6. CASE UNCHANGED threadVars
  BY <1>6 DEF threadVars, NoMutualJoin
<1> QED BY <1>1, <1>2, <1>3, <1>4, <1>5, <1>6 DEF PNext

\* Two threads never wait for each other to end (pthread.c:328).
THEOREM NoMutualJoinCorrect == PSpec => []NoMutualJoin
<1>1. PInit => NoMutualJoin
  BY TaskAssumption DEF PInit, NoMutualJoin, Tasks
<1> QED BY <1>1, NoMutualJoinStep, InvHolds, PTL DEF PSpec

\* A descriptor is freed by its ending thread, or by a joiner once the thread
\* has ended (pthread.c:218, :335, :346).
LEMMA FreedStep ==
  ASSUME PInv, PNext, NEW t \in Threads, t \in s_threads_list, t \notin s_threads_list'
  PROVE  pc'[t] = "deleted"
<1> USE TaskAssumption DEF PInv, PTypeOK, Tasks, pthread_delete, Goes
<1>1. CASE \E c \in Tasks : FreeJoined(c)
  BY <1>1 DEF FreeJoined, JoinTargetKept, Joining
<1>2. CASE \E x \in Threads : EndThread(x)
  BY <1>2 DEF EndThread, LeavesWith
<1>3. CASE \E j \in Tasks, x \in known : pthread_join(j, x)
  BY <1>3 DEF pthread_join, HasExited
<1>4. (\E c \in Tasks : FreeJoined(c)) \/ (\E x \in Threads : EndThread(x))
        \/ (\E j \in Tasks, x \in known : pthread_join(j, x))
  BY DEF PNext, pthread_create, InsertThread, StartThread, JoinNotified, Start,
     FunctionReturns, pthread_detach
<1> QED BY <1>1, <1>2, <1>3, <1>4

\* No descriptor is freed before its thread has ended.
THEOREM FreedCorrect == PSpec => FreedAfterEnd
<1>1. PInv /\ [PNext]_threadVars =>
        [\A t \in Threads : t \in s_threads_list /\ t \notin s_threads_list'
                           => pc'[t] = "deleted"]_threadVars
  BY FreedStep
<1> QED BY <1>1, InvHolds, PTL DEF PSpec, FreedAfterEnd
=============================================================================
