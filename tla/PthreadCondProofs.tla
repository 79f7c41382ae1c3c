-------------------------- MODULE PthreadCondProofs --------------------------
(* Theorems about PthreadCond, for any set of waiters.                      *)
EXTENDS PthreadCond, TLAPS

WaiterLabels == {"idle", "static", "take", "locked", "inserted", "sleeping", "awake",
                 "notify", "done"}
NotifierLabels == {"idle", "static", "take", "locked", "notify", "destroy", "free", "done"}

\* Type correctness.  The mutex gets one semaphore at most.
CTypeOK ==
    /\ cpc \in [Users -> WaiterLabels \cup NotifierLabels]
    /\ \A w \in Waiters : cpc[w] \in WaiterLabels
    /\ cpc[Notifier] \in NotifierLabels
    /\ mutex \in {0, 1}
    /\ taken \subseteq {1}
    /\ waiter_list \in Seq(Waiters)
    /\ wait_sem \in [Waiters -> {0, 1}]
    /\ cond \in {"live", "freed"}
    /\ flag \in BOOLEAN
    /\ how \in {"broadcast", "signal"}

\* Who has come past pthread_mutex_init_if_static has seen the semaphore, and who
\* holds the mutex has taken it.
MutexHeld ==
    /\ \A u \in Users : cpc[u] \notin {"idle", "static"} => mutex = 1
    /\ \A u \in Users : cpc[u] \in {"locked", "inserted"} => mutex \in taken

\* The notifier goes on from the mutex only with the flag set, and it alone frees
\* the condition variable.
FlagBeforeFree ==
    /\ cpc[Notifier] \in {"notify", "destroy", "free", "done"} => flag
    /\ cond = "freed" => cpc[Notifier] = "done"

\* The inductive invariant: exclusion needs the one semaphore, the list at the end
\* needs the flag, which keeps new waiters out of it.
CInv == CTypeOK /\ MutexHeld /\ FlagBeforeFree /\ MutexExclusion /\ WaiterListSound

\* The first look at the mutex changes nothing the invariant is about (pthread.c:533).
LEMMA LockInv ==
  ASSUME CInv, NEW u \in Users, pthread_mutex_lock(u)
  PROVE  CInv'
<1> USE NotifierAssumption DEF CInv, pthread_mutex_lock, MovesTo, Users
<1>1. CTypeOK'
  BY DEF CTypeOK, WaiterLabels, NotifierLabels
<1>2. MutexHeld'
  BY DEF MutexHeld, CTypeOK
<1>3. FlagBeforeFree'
  BY DEF FlagBeforeFree, CTypeOK
<1>4. MutexExclusion'
  BY DEF MutexExclusion, CTypeOK
<1>5. WaiterListSound'
  BY DEF WaiterListSound, Listed, WaitLabels, CTypeOK
<1> QED BY <1>1, <1>2, <1>3, <1>4, <1>5

\* The second look gives the mutex its one semaphore: whoever has come past it has
\* seen 1, and sees 1 again (pthread.c:521).
LEMMA InitIfStaticInv ==
  ASSUME CInv, NEW u \in Users, InitIfStatic(u)
  PROVE  CInv'
<1> USE NotifierAssumption DEF CInv, InitIfStatic, StillStatic, MovesTo, Users
<1>1. CTypeOK'
  BY DEF CTypeOK, WaiterLabels, NotifierLabels
<1>2. MutexHeld'
  BY DEF MutexHeld, CTypeOK
<1>3. FlagBeforeFree'
  BY DEF FlagBeforeFree, CTypeOK
<1>4. MutexExclusion'
  BY DEF MutexExclusion, CTypeOK
<1>5. WaiterListSound'
  BY DEF WaiterListSound, Listed, WaitLabels, CTypeOK
<1> QED BY <1>1, <1>2, <1>3, <1>4, <1>5

\* Taking the semaphore keeps the invariant: it was not taken, so nobody held the
\* mutex (pthread.c:506).
LEMMA TakeMutexInv ==
  ASSUME CInv, NEW u \in Users, TakeMutex(u)
  PROVE  CInv'
<1> USE NotifierAssumption DEF CInv, TakeMutex, MovesTo, Users
<1>1. CTypeOK'
  BY DEF MutexHeld, CTypeOK, WaiterLabels, NotifierLabels
<1>2. MutexHeld'
  BY DEF MutexHeld, CTypeOK
<1>3. FlagBeforeFree'
  BY DEF FlagBeforeFree, CTypeOK
<1>4. MutexExclusion'
  BY DEF MutexExclusion, CTypeOK, MutexHeld
<1>5. WaiterListSound'
  BY DEF WaiterListSound, Listed, WaitLabels, CTypeOK
<1> QED BY <1>1, <1>2, <1>3, <1>4, <1>5

\* The waiter enters the list while it holds the mutex and the flag is clear, so
\* before the notifier goes on to free the variable (pthread_cond_var.c:135).
LEMMA InsertWaiterInv ==
  ASSUME CInv, NEW w \in Waiters, InsertWaiter(w)
  PROVE  CInv'
<1> USE NotifierAssumption DEF CInv, InsertWaiter, MovesTo, Users
<1>1. CTypeOK'
  BY DEF CTypeOK, WaiterLabels, NotifierLabels
<1>2. MutexHeld'
  BY DEF MutexHeld, CTypeOK
<1>3. FlagBeforeFree'
  BY DEF FlagBeforeFree, CTypeOK
<1>4. MutexExclusion'
  BY DEF MutexExclusion, CTypeOK
<1>5. WaiterListSound'
  BY SMTT(30) DEF WaiterListSound, Listed, WaitLabels, CTypeOK, FlagBeforeFree
<1> QED BY <1>1, <1>2, <1>3, <1>4, <1>5

\* Giving the mutex up for the wait keeps the invariant: it was the waiter's alone
\* (pthread_cond_var.c:137).
LEMMA UnlockToWaitInv ==
  ASSUME CInv, NEW w \in Waiters, UnlockToWait(w)
  PROVE  CInv'
<1> USE NotifierAssumption DEF CInv, UnlockToWait, pthread_mutex_unlock, MovesTo, Users
<1>1. CTypeOK'
  BY DEF CTypeOK, WaiterLabels, NotifierLabels
<1>2. MutexHeld'
  BY DEF MutexHeld, CTypeOK, MutexExclusion
<1>3. FlagBeforeFree'
  BY DEF FlagBeforeFree, CTypeOK
<1>4. MutexExclusion'
  BY DEF MutexExclusion, CTypeOK
<1>5. WaiterListSound'
  BY DEF WaiterListSound, Listed, WaitLabels, CTypeOK
<1> QED BY <1>1, <1>2, <1>3, <1>4, <1>5

\* A waiter that is woken stays in the list (pthread_cond_var.c:139).
LEMMA WokenInv ==
  ASSUME CInv, NEW w \in Waiters, Woken(w)
  PROVE  CInv'
<1> USE NotifierAssumption DEF CInv, Woken, MovesTo, Users
<1>1. CTypeOK'
  BY DEF CTypeOK, WaiterLabels, NotifierLabels
<1>2. MutexHeld'
  BY DEF MutexHeld, CTypeOK
<1>3. FlagBeforeFree'
  BY DEF FlagBeforeFree, CTypeOK
<1>4. MutexExclusion'
  BY DEF MutexExclusion, CTypeOK
<1>5. WaiterListSound'
  BY DEF WaiterListSound, Listed, WaitLabels, CTypeOK
<1> QED BY <1>1, <1>2, <1>3, <1>4, <1>5

\* So does one whose time is over (pthread_cond_var.c:139).
LEMMA TimesOutInv ==
  ASSUME CInv, NEW w \in Waiters, TimesOut(w)
  PROVE  CInv'
<1> USE NotifierAssumption DEF CInv, TimesOut, MovesTo, Users
<1>1. CTypeOK'
  BY DEF CTypeOK, WaiterLabels, NotifierLabels
<1>2. MutexHeld'
  BY DEF MutexHeld, CTypeOK
<1>3. FlagBeforeFree'
  BY DEF FlagBeforeFree, CTypeOK
<1>4. MutexExclusion'
  BY DEF MutexExclusion, CTypeOK
<1>5. WaiterListSound'
  BY DEF WaiterListSound, Listed, WaitLabels, CTypeOK
<1> QED BY <1>1, <1>2, <1>3, <1>4, <1>5

\* Leaving the list takes this waiter's record out and no other
\* (pthread_cond_var.c:146).
LEMMA RemoveWaiterInv ==
  ASSUME CInv, NEW w \in Waiters, RemoveWaiter(w)
  PROVE  CInv'
<1> USE NotifierAssumption DEF CInv, RemoveWaiter, Unlinked, Without, PlaceOf, MovesTo, Users
<1>1. CTypeOK'
  BY DEF CTypeOK, WaiterLabels, NotifierLabels
<1>2. MutexHeld'
  BY DEF MutexHeld, CTypeOK
<1>3. FlagBeforeFree'
  BY DEF FlagBeforeFree, CTypeOK
<1>4. MutexExclusion'
  BY DEF MutexExclusion, CTypeOK
<1>5. WaiterListSound'
  <2> DEFINE p == PlaceOf(w)
             n == Len(waiter_list)
  <2>1. /\ n \in Nat /\ p \in 1..n /\ waiter_list[p] = w
        /\ \A i \in 1..n : waiter_list[i] \in Waiters
    BY DEF WaiterListSound, Listed, WaitLabels, CTypeOK
  <2>2. \A i, j \in 1..n : waiter_list[i] = waiter_list[j] => i = j
    BY DEF WaiterListSound, CTypeOK
  <2>3. /\ DOMAIN waiter_list' = 1..n - 1
        /\ \A i \in 1..n - 1 :
              waiter_list'[i] = IF i < p THEN waiter_list[i] ELSE waiter_list[i + 1]
    BY <2>1
  <2>4. ASSUME NEW v \in Waiters
        PROVE  Listed(v)' <=> Listed(v) /\ v # w
    <3>1. ASSUME Listed(v)' PROVE Listed(v) /\ v # w
      <4>1. PICK i \in 1..n - 1 : waiter_list'[i] = v
        BY <2>3, <3>1 DEF Listed
      <4> QED BY <2>1, <2>2, <2>3, <4>1 DEF Listed, CTypeOK
    <3>2. ASSUME Listed(v), v # w PROVE Listed(v)'
      <4>1. PICK i \in 1..n : waiter_list[i] = v
        BY <3>2 DEF Listed, CTypeOK
      <4>2. CASE i < p
        <5>1. i \in 1..n - 1 /\ waiter_list'[i] = v
          BY <2>1, <2>3, <4>1, <4>2
        <5> QED BY <2>3, <5>1 DEF Listed
      <4>3. CASE i > p
        <5>1. i - 1 \in 1..n - 1 /\ waiter_list'[i - 1] = v
          BY <2>1, <2>3, <4>1, <4>3
        <5> QED BY <2>3, <5>1 DEF Listed
      <4> QED BY <2>1, <3>2, <4>1, <4>2, <4>3
    <3> QED BY <3>1, <3>2
  <2>5. \A v \in Waiters : cpc'[v] \in WaitLabels <=> cpc[v] \in WaitLabels /\ v # w
    BY DEF WaitLabels, CTypeOK
  <2>6. \A i, j \in DOMAIN waiter_list' : waiter_list'[i] = waiter_list'[j] => i = j
    BY <2>1, <2>2, <2>3, SMTT(30)
  <2> QED BY <2>4, <2>5, <2>6 DEF WaiterListSound, CTypeOK
<1> QED BY <1>1, <1>2, <1>3, <1>4, <1>5

\* Setting the flag under the mutex: no other task holds it, so nobody is between
\* the test of the flag and its insertion.
LEMMA SetFlagInv ==
  ASSUME CInv, SetFlag
  PROVE  CInv'
<1> USE NotifierAssumption DEF CInv, SetFlag, pthread_mutex_unlock, MovesTo, Users
<1>1. CTypeOK'
  BY DEF CTypeOK, WaiterLabels, NotifierLabels
<1>2. MutexHeld'
  BY DEF MutexHeld, CTypeOK, MutexExclusion
<1>3. FlagBeforeFree'
  BY DEF FlagBeforeFree, CTypeOK
<1>4. MutexExclusion'
  BY DEF MutexExclusion, CTypeOK
<1>5. WaiterListSound'
  BY DEF WaiterListSound, Listed, WaitLabels, CTypeOK
<1> QED BY <1>1, <1>2, <1>3, <1>4, <1>5

\* A broadcast gives semaphores and leaves the list alone (pthread_cond_var.c:79).
LEMMA BroadcastInv ==
  ASSUME CInv, pthread_cond_broadcast
  PROVE  CInv'
<1> USE NotifierAssumption DEF CInv, pthread_cond_broadcast, GiveAll, MovesTo, Users
<1>1. CTypeOK'
  BY DEF CTypeOK, WaiterLabels, NotifierLabels
<1>2. MutexHeld'
  BY DEF MutexHeld, CTypeOK
<1>3. FlagBeforeFree'
  BY DEF FlagBeforeFree, CTypeOK
<1>4. MutexExclusion'
  BY DEF MutexExclusion, CTypeOK
<1>5. WaiterListSound'
  BY DEF WaiterListSound, Listed, WaitLabels, CTypeOK
<1> QED BY <1>1, <1>2, <1>3, <1>4, <1>5

\* So does a signal (pthread_cond_var.c:60).
LEMMA SignalInv ==
  ASSUME CInv, NEW u \in Users, pthread_cond_signal(u)
  PROVE  CInv'
<1> USE NotifierAssumption DEF CInv, pthread_cond_signal, GiveFirst, MovesTo, Users
<1>1. CTypeOK'
  BY DEF CTypeOK, WaiterLabels, NotifierLabels
<1>2. MutexHeld'
  BY DEF MutexHeld, CTypeOK
<1>3. FlagBeforeFree'
  BY DEF FlagBeforeFree, CTypeOK
<1>4. MutexExclusion'
  BY DEF MutexExclusion, CTypeOK
<1>5. WaiterListSound'
  BY DEF WaiterListSound, Listed, WaitLabels, CTypeOK
<1> QED BY <1>1, <1>2, <1>3, <1>4, <1>5

\* And one that no flag goes with (pthread_cond_var.c:60).
LEMMA StraySignalInv ==
  ASSUME CInv, StraySignal
  PROVE  CInv'
<1> USE NotifierAssumption DEF CInv, StraySignal, GiveFirst, Users
<1>1. CTypeOK'
  BY DEF CTypeOK, WaiterLabels, NotifierLabels
<1>2. MutexHeld'
  BY DEF MutexHeld, CTypeOK
<1>3. FlagBeforeFree'
  BY DEF FlagBeforeFree, CTypeOK
<1>4. MutexExclusion'
  BY DEF MutexExclusion, CTypeOK
<1>5. WaiterListSound'
  BY DEF WaiterListSound, Listed, WaitLabels, CTypeOK
<1> QED BY <1>1, <1>2, <1>3, <1>4, <1>5

\* A waiter that sees the flag unlocks the mutex that was its own.
LEMMA LeaveLockedInv ==
  ASSUME CInv, NEW w \in Waiters, LeaveLocked(w)
  PROVE  CInv'
<1> USE NotifierAssumption DEF CInv, LeaveLocked, pthread_mutex_unlock, MovesTo, Users
<1>1. CTypeOK'
  BY DEF CTypeOK, WaiterLabels, NotifierLabels
<1>2. MutexHeld'
  BY DEF MutexHeld, CTypeOK, MutexExclusion
<1>3. FlagBeforeFree'
  BY DEF FlagBeforeFree, CTypeOK
<1>4. MutexExclusion'
  BY DEF MutexExclusion, CTypeOK
<1>5. WaiterListSound'
  BY DEF WaiterListSound, Listed, WaitLabels, CTypeOK
<1> QED BY <1>1, <1>2, <1>3, <1>4, <1>5

\* The destruction goes on only when the list is empty, and with the flag set it
\* stays so (pthread_cond_var.c:191).
LEMMA DestroyInv ==
  ASSUME CInv, pthread_cond_destroy
  PROVE  CInv'
<1> USE NotifierAssumption DEF CInv, pthread_cond_destroy, MovesTo, Users
<1>1. CTypeOK'
  BY DEF CTypeOK, WaiterLabels, NotifierLabels
<1>2. MutexHeld'
  BY DEF MutexHeld, CTypeOK
<1>3. FlagBeforeFree'
  BY DEF FlagBeforeFree, CTypeOK
<1>4. MutexExclusion'
  BY DEF MutexExclusion, CTypeOK
<1>5. WaiterListSound'
  BY DEF WaiterListSound, Listed, WaitLabels, CTypeOK
<1> QED BY <1>1, <1>2, <1>3, <1>4, <1>5

\* Freeing the variable finds no waiter inside the call (pthread_cond_var.c:199).
LEMMA FreeCondInv ==
  ASSUME CInv, FreeCond
  PROVE  CInv'
<1> USE NotifierAssumption DEF CInv, FreeCond, MovesTo, Users
<1>1. CTypeOK'
  BY DEF CTypeOK, WaiterLabels, NotifierLabels
<1>2. MutexHeld'
  BY DEF MutexHeld, CTypeOK
<1>3. FlagBeforeFree'
  BY DEF FlagBeforeFree, CTypeOK
<1>4. MutexExclusion'
  BY DEF MutexExclusion, CTypeOK
<1>5. WaiterListSound'
  BY DEF WaiterListSound, Listed, WaitLabels, CTypeOK
<1> QED BY <1>1, <1>2, <1>3, <1>4, <1>5

\* Every step of the tasks keeps the invariant.
LEMMA CStepInv == CInv /\ [CNext]_condVars => CInv'
<1> SUFFICES ASSUME CInv, [CNext]_condVars PROVE CInv'
  OBVIOUS
<1>1. CASE UNCHANGED condVars
  BY <1>1 DEF condVars, CInv, CTypeOK, MutexHeld, FlagBeforeFree, MutexExclusion,
              WaiterListSound, Listed
<1>2. CASE \E u \in Users : pthread_mutex_lock(u) \/ LockStep(u)
  BY <1>2, LockInv, InitIfStaticInv, TakeMutexInv DEF LockStep
<1>3. CASE \E w \in Waiters : WaiterStep(w) \/ TimesOut(w)
  <2>1. Waiters \subseteq Users
    BY DEF Users
  <2> QED
    BY <1>3, <2>1, InsertWaiterInv, UnlockToWaitInv, WokenInv, TimesOutInv,
       RemoveWaiterInv, LeaveLockedInv, SignalInv DEF WaiterStep
<1>4. CASE NotifierStep
  <2>1. Notifier \in Users
    BY DEF Users
  <2> QED
    BY <1>4, <2>1, SetFlagInv, BroadcastInv, SignalInv, DestroyInv, FreeCondInv
       DEF NotifierStep
<1>5. CASE StraySignal
  BY <1>5, StraySignalInv
<1> QED BY <1>1, <1>2, <1>3, <1>4, <1>5 DEF CNext

\* The invariant holds in every behaviour of the tasks.
LEMMA CInvHolds == CSpec => []CInv
<1>1. CInit => CInv
  <2> SUFFICES ASSUME CInit PROVE CInv
    OBVIOUS
  <2> USE NotifierAssumption DEF CInit, Users
  <2>1. CTypeOK
    <3>1. flag \in BOOLEAN
      BY Zenon
    <3>3. waiter_list \in Seq(Waiters)
      OBVIOUS
    <3>2. wait_sem \in [Waiters -> {0, 1}]
      OBVIOUS
    <3> QED BY <3>1, <3>2, <3>3 DEF CTypeOK, WaiterLabels, NotifierLabels
  <2>2. MutexHeld /\ FlagBeforeFree /\ MutexExclusion
    BY DEF MutexHeld, FlagBeforeFree, MutexExclusion
  <2>3. WaiterListSound
    BY DEF WaiterListSound, Listed, WaitLabels
  <2> QED BY <2>1, <2>2, <2>3 DEF CInv
<1> QED BY <1>1, CStepInv, PTL DEF CSpec

\* Type correctness, whatever the tasks do: the mutex has one semaphore at most.
THEOREM CondTypeCorrect == CSpec => []CTypeOK
<1>1. CInv => CTypeOK
  BY DEF CInv
<1> QED BY <1>1, CInvHolds, PTL

\* What pthread_mutex_lock returns to is held by one task, for any number of tasks:
\* two first users of a static mutex never get a semaphore each (pthread.c:521).
THEOREM OneOwner == CSpec => []MutexExclusion
<1>1. CInv => MutexExclusion
  BY DEF CInv
<1> QED BY <1>1, CInvHolds, PTL

\* The list of a condition variable holds exactly the tasks inside the wait, and the
\* variable is never freed under one (pthread_cond_var.c:135, :199).
THEOREM ListMatchesWaiters == CSpec => []WaiterListSound
<1>1. CInv => WaiterListSound
  BY DEF CInv
<1> QED BY <1>1, CInvHolds, PTL
=============================================================================
