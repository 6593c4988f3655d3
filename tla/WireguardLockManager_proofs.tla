--------------------- MODULE WireguardLockManager_proofs ---------------------
(***************************************************************************)
(* Proofs about WireguardLockManager, for any number of wireguards,        *)
(* threads and lock objects.                                               *)
(***************************************************************************)
EXTENDS WireguardLockManager, TLAPS

\* The variables keep their types in every behaviour of the lock manager.
LEMMA Typing == Spec => []TypeOK
<1>1. Init => TypeOK
  BY NoneAssumption DEF Init, TypeOK
<1>2. TypeOK /\ [Next]_vars => TypeOK'
  <2> SUFFICES ASSUME TypeOK, [Next]_vars PROVE TypeOK'
    OBVIOUS
  <2> USE NoneAssumption DEF TypeOK
  <2>1. ASSUME NEW t \in Threads, NEW c \in Calls, GetLock(t, c) PROVE TypeOK'
    <3>1. c.wg \in Wireguards
      BY DEF Calls
    <3> QED
      BY <2>1, <3>1 DEF GetLock
  <2>2. ASSUME NEW t \in Threads, Acquire(t) PROVE TypeOK'
    BY <2>2 DEF Acquire
  <2>3. ASSUME NEW t \in Threads, Release(t) PROVE TypeOK'
    BY <2>3 DEF Release, Return
  <2>4. ASSUME NEW t \in Threads, Raise(t) PROVE TypeOK'
    BY <2>4 DEF Raise, Return
  <2>5. ASSUME NEW t \in Threads, RemoveLock(t) PROVE TypeOK'
    <3>1. call[t].wg \in Wireguards
      BY <2>5 DEF RemoveLock, Calls
    <3> QED
      BY <2>5, <3>1 DEF RemoveLock, Return
  <2>6. CASE Restart
    BY <2>6 DEF Restart
  <2>7. CASE UNCHANGED vars
    BY <2>7 DEF vars
  <2> QED
    BY <2>1, <2>2, <2>3, <2>4, <2>5, <2>6, <2>7 DEF Next, Step
<1> QED
  BY <1>1, <1>2, PTL DEF Spec

-----------------------------------------------------------------------------

\* A thread in its critical section has acquired the lock object it fetched.
HoldersLocked == \A t \in Threads : pc[t] = "critical" => lock[t] \in locked

\* Two threads in critical sections hold different lock objects.
OneHolder == \A t, u \in Threads :
  pc[t] = "critical" /\ pc[u] = "critical" /\ lock[t] = lock[u] => t = u

\* The lock object that an operation fetched is the one registered for its
\* wireguard, unless a remove_lock has gone by since.
Registered == \A t \in Threads :
  pc[t] \in {"waiting", "critical"} /\ t \notin overtaken
    => lock[t] = locks[call[t].wg]

IInv == TypeOK /\ HoldersLocked /\ OneHolder /\ Registered

\* The strengthened invariant: it is inductive and holds in every behaviour.
THEOREM LocksInvariant == Spec => []IInv
<1>1. Init => IInv
  BY NoneAssumption DEF Init, IInv, TypeOK, HoldersLocked, OneHolder, Registered
<1>2. TypeOK' /\ IInv /\ [Next]_vars => IInv'
  <2> SUFFICES ASSUME TypeOK', IInv, [Next]_vars
               PROVE  HoldersLocked' /\ OneHolder' /\ Registered'
    BY DEF IInv
  <2> USE NoneAssumption DEF IInv, TypeOK
  <2>1. ASSUME NEW t \in Threads, NEW c \in Calls, GetLock(t, c)
        PROVE  HoldersLocked' /\ OneHolder' /\ Registered'
    <3>1. HoldersLocked' /\ OneHolder'
      BY <2>1 DEF GetLock, HoldersLocked, OneHolder
    <3>2. Registered'
      \* Another operation on c.wg proves an entry: get_lock returns that one.
      <4>1. PICK l \in Locks : LockFor(c.wg, l) /\ locks' = [locks EXCEPT ![c.wg] = l]
                                                /\ lock' = [lock EXCEPT ![t] = l]
        BY <2>1 DEF GetLock
      <4>2. c.wg \in Wireguards
        BY DEF Calls
      <4>3. ASSUME NEW u \in Threads, pc'[u] \in {"waiting", "critical"},
                   u \notin overtaken'
            PROVE  lock'[u] = locks'[call'[u].wg]
        <5>1. CASE u = t
          BY <2>1, <4>1, <4>2, <5>1 DEF GetLock
        <5>2. CASE u # t
          <6>1. pc[u] = pc'[u] /\ call'[u] = call[u] /\ lock'[u] = lock[u] /\ overtaken' = overtaken
            BY <2>1, <4>1, <5>2 DEF GetLock
          <6>2. lock[u] = locks[call[u].wg] /\ lock[u] \in Locks /\ call[u].wg \in Wireguards
            BY <4>3, <6>1 DEF Registered, Calls
          <6>3. call[u].wg = c.wg => l = locks[c.wg]
            BY <4>1, <6>2 DEF LockFor
          <6> QED
            BY <4>1, <4>2, <6>1, <6>2, <6>3
        <5> QED
          BY <5>1, <5>2
      <4> QED
        BY <4>3 DEF Registered
    <3> QED
      BY <3>1, <3>2
  <2>2. ASSUME NEW t \in Threads, Acquire(t)
        PROVE  HoldersLocked' /\ OneHolder' /\ Registered'
    BY <2>2 DEF Acquire, HoldersLocked, OneHolder, Registered
  <2>3. ASSUME NEW t \in Threads, Release(t)
        PROVE  HoldersLocked' /\ OneHolder' /\ Registered'
    BY <2>3 DEF Release, Return, HoldersLocked, OneHolder, Registered
  <2>4. ASSUME NEW t \in Threads, Raise(t)
        PROVE  HoldersLocked' /\ OneHolder' /\ Registered'
    BY <2>4 DEF Raise, Return, HoldersLocked, OneHolder, Registered
  <2>5. ASSUME NEW t \in Threads, RemoveLock(t)
        PROVE  HoldersLocked' /\ OneHolder' /\ Registered'
    <3>1. call[t].wg \in Wireguards
      BY <2>5 DEF RemoveLock, Calls
    <3>2. HoldersLocked' /\ OneHolder'
      BY <2>5 DEF RemoveLock, Return, HoldersLocked, OneHolder
    <3>3. Registered'
      BY <2>5, <3>1 DEF RemoveLock, Return, Registered, Calls
    <3> QED
      BY <3>2, <3>3
  <2>6. CASE Restart
    BY <2>6 DEF Restart, HoldersLocked, OneHolder, Registered
  <2>7. CASE UNCHANGED vars
    BY <2>7 DEF vars, HoldersLocked, OneHolder, Registered
  <2> QED
    BY <2>1, <2>2, <2>3, <2>4, <2>5, <2>6, <2>7 DEF Next, Step
<1> QED
  BY <1>1, <1>2, Typing, PTL DEF Spec

\* Creates, updates, syncs and deletes of a wireguard never run at the same
\* time, however many threads and wireguards there are, but for those that a
\* remove_lock has overtaken: the others have fetched the registered lock, and
\* only remove_lock changes the registration.
THEOREM Exclusion == Spec => []ExclusionUntilRemoved
<1>1. IInv => ExclusionUntilRemoved
  BY DEF IInv, OneHolder, Registered, ExclusionUntilRemoved, Operates
<1> QED
  BY <1>1, LocksInvariant, PTL

-----------------------------------------------------------------------------

\* What the docstring promises holds in an agent that is never told to delete:
\* with no remove_lock, no second lock for a wireguard can exist.
THEOREM ExclusionWithoutDelete ==
  ASSUME Kinds = {"configure"}
  PROVE  Spec => []MutualExclusion
<1> DEFINE NeverRemoved == overtaken = {} /\ \A t \in Threads : pc[t] # "removing"
<1>1. Init => NeverRemoved
  BY DEF Init
<1>2. TypeOK /\ NeverRemoved /\ [Next]_vars => NeverRemoved'
  <2> SUFFICES ASSUME TypeOK, NeverRemoved, [Next]_vars PROVE NeverRemoved'
    OBVIOUS
  <2> USE DEF TypeOK
  <2>1. ASSUME NEW t \in Threads, NEW c \in Calls, GetLock(t, c) PROVE NeverRemoved'
    BY <2>1 DEF GetLock
  <2>2. ASSUME NEW t \in Threads, Acquire(t) PROVE NeverRemoved'
    BY <2>2 DEF Acquire
  <2>3. ASSUME NEW t \in Threads, Release(t) PROVE NeverRemoved'
    <3>1. call[t].kind = "configure"
      BY <2>3 DEF Release, Calls
    <3> QED
      BY <2>3, <3>1 DEF Release, Return
  <2>4. ASSUME NEW t \in Threads, Raise(t) PROVE NeverRemoved'
    BY <2>4 DEF Raise, Return
  <2>5. ASSUME NEW t \in Threads, RemoveLock(t) PROVE NeverRemoved'
    BY <2>5 DEF RemoveLock
  <2>6. CASE Restart
    BY <2>6 DEF Restart
  <2>7. CASE UNCHANGED vars
    BY <2>7 DEF vars
  <2> QED
    BY <2>1, <2>2, <2>3, <2>4, <2>5, <2>6, <2>7 DEF Next, Step
<1>3. NeverRemoved /\ ExclusionUntilRemoved => MutualExclusion
  BY DEF ExclusionUntilRemoved, MutualExclusion
<1> QED
  BY <1>1, <1>2, <1>3, Typing, Exclusion, PTL DEF Spec

-----------------------------------------------------------------------------

\* Every lock that is acquired is held by a thread in its critical section.
LockedHeld == \A l \in locked : \E t \in Threads : pc[t] = "critical" /\ lock[t] = l

\* A lock object belongs to one wireguard, registered or not: a new one is one
\* that nothing refers to.
OneWireguard ==
  /\ \A w, v \in Wireguards : locks[w] # None /\ locks[w] = locks[v] => w = v
  /\ \A t \in Threads, w \in Wireguards :
       pc[t] # "idle" /\ lock[t] = locks[w] => call[t].wg = w
  /\ \A t, u \in Threads :
       pc[t] # "idle" /\ pc[u] # "idle" /\ lock[t] = lock[u] => call[t].wg = call[u].wg

\* get_lock gives a lock of the call's wireguard to a thread and to the table.
LEMMA GetLockOwned ==
  ASSUME TypeOK, OneWireguard, NEW t \in Threads, NEW c \in Calls, GetLock(t, c)
  PROVE  OneWireguard'
<1> USE NoneAssumption DEF TypeOK
<1>1. PICK l \in Locks : LockFor(c.wg, l) /\ locks' = [locks EXCEPT ![c.wg] = l]
                                          /\ lock' = [lock EXCEPT ![t] = l]
  BY DEF GetLock
<1>2. c.wg \in Wireguards
  BY DEF Calls
\* Whatever refers to l refers to it for c.wg.
<1>3. /\ \A w \in Wireguards : locks[w] = l => w = c.wg
      /\ \A u \in Threads : pc[u] # "idle" /\ lock[u] = l => call[u].wg = c.wg
  <2>1. CASE locks[c.wg] = None
    BY <1>1, <1>2, <2>1 DEF LockFor, InUse
  <2>2. CASE locks[c.wg] # None
    BY <1>1, <1>2, <2>2 DEF LockFor, OneWireguard
  <2> QED
    BY <2>1, <2>2
<1>4. \A w \in Wireguards : locks'[w] = IF w = c.wg THEN l ELSE locks[w]
  BY <1>1, <1>2
<1>5. \A u \in Threads : /\ lock'[u] = IF u = t THEN l ELSE lock[u]
                         /\ u # t => call'[u] = call[u] /\ pc'[u] = pc[u]
  BY <1>1 DEF GetLock
<1>6. call'[t] = c
  BY DEF GetLock
\* After the step too.
<1>7. /\ \A w \in Wireguards : locks'[w] = l => w = c.wg
      /\ \A u \in Threads : pc'[u] # "idle" /\ lock'[u] = l => call'[u].wg = c.wg
  BY <1>3, <1>4, <1>5, <1>6
<1>8. \A u \in Threads : lock'[u] # l => u # t
  BY <1>5
<1>9. \A w, v \in Wireguards : locks'[w] # None /\ locks'[w] = locks'[v] => w = v
  <2> SUFFICES ASSUME NEW w \in Wireguards, NEW v \in Wireguards,
                      locks'[w] # None, locks'[w] = locks'[v]
               PROVE  w = v
    OBVIOUS
  <2>1. CASE locks'[w] = l
    BY <1>7, <2>1
  <2>2. CASE locks'[w] # l
    <3>1. locks'[w] = locks[w] /\ locks'[v] = locks[v]
      BY <1>4, <2>2
    <3> QED
      BY <3>1 DEF OneWireguard
  <2> QED
    BY <2>1, <2>2
<1>10. \A u \in Threads, w \in Wireguards :
         pc'[u] # "idle" /\ lock'[u] = locks'[w] => call'[u].wg = w
  <2> SUFFICES ASSUME NEW u \in Threads, NEW w \in Wireguards,
                      pc'[u] # "idle", lock'[u] = locks'[w]
               PROVE  call'[u].wg = w
    OBVIOUS
  <2>1. CASE lock'[u] = l
    BY <1>7, <2>1
  <2>2. CASE lock'[u] # l
    <3>1. lock'[u] = lock[u] /\ call'[u] = call[u] /\ pc'[u] = pc[u] /\ locks'[w] = locks[w]
      BY <1>4, <1>5, <1>8, <2>2
    <3> QED
      BY <3>1 DEF OneWireguard
  <2> QED
    BY <2>1, <2>2
<1>11. \A u, v \in Threads :
         pc'[u] # "idle" /\ pc'[v] # "idle" /\ lock'[u] = lock'[v] => call'[u].wg = call'[v].wg
  <2> SUFFICES ASSUME NEW u \in Threads, NEW v \in Threads,
                      pc'[u] # "idle", pc'[v] # "idle", lock'[u] = lock'[v]
               PROVE  call'[u].wg = call'[v].wg
    OBVIOUS
  <2>1. CASE lock'[u] = l
    BY <1>7, <2>1
  <2>2. CASE lock'[u] # l
    <3>1. /\ lock'[u] = lock[u] /\ call'[u] = call[u] /\ pc'[u] = pc[u]
          /\ lock'[v] = lock[v] /\ call'[v] = call[v] /\ pc'[v] = pc[v]
      BY <1>5, <1>8, <2>2
    <3>2. call[u].wg = call[v].wg
      <4>1. pc[u] # "idle" /\ pc[v] # "idle" /\ lock[u] = lock[v]
        BY <3>1
      <4> QED
        BY <4>1 DEF OneWireguard
    <3> QED
      BY <3>1, <3>2
  <2> QED
    BY <2>1, <2>2
<1> QED
  BY <1>9, <1>10, <1>11 DEF OneWireguard

LEMMA HeldInvariant == Spec => [](LockedHeld /\ OneWireguard)
<1>1. Init => LockedHeld /\ OneWireguard
  BY NoneAssumption DEF Init, LockedHeld, OneWireguard
<1>2. TypeOK /\ LockedHeld /\ OneWireguard /\ [Next]_vars => (LockedHeld /\ OneWireguard)'
  <2> SUFFICES ASSUME TypeOK, LockedHeld, OneWireguard, [Next]_vars
               PROVE  LockedHeld' /\ OneWireguard'
    OBVIOUS
  <2> USE NoneAssumption DEF TypeOK
  <2>1. ASSUME NEW t \in Threads, NEW c \in Calls, GetLock(t, c)
        PROVE  LockedHeld' /\ OneWireguard'
    <3>1. LockedHeld'
      <4>1. \A u \in Threads : u # t => pc'[u] = pc[u] /\ lock'[u] = lock[u]
        BY <2>1 DEF GetLock
      <4> QED
        BY <2>1, <4>1 DEF GetLock, LockedHeld
    <3> QED
      BY <2>1, <3>1, GetLockOwned
  <2>2. ASSUME NEW t \in Threads, Acquire(t) PROVE LockedHeld' /\ OneWireguard'
    BY <2>2 DEF Acquire, LockedHeld, OneWireguard
  <2>3. ASSUME NEW t \in Threads, Release(t) PROVE LockedHeld' /\ OneWireguard'
    <3>1. LockedHeld'
      <4>1. \A u \in Threads : u # t => pc'[u] = pc[u] /\ lock'[u] = lock[u]
        BY <2>3 DEF Release, Return
      <4> QED
        BY <2>3, <4>1 DEF Release, LockedHeld
    <3>2. OneWireguard'
      BY <2>3 DEF Release, Return, OneWireguard
    <3> QED
      BY <3>1, <3>2
  <2>4. ASSUME NEW t \in Threads, Raise(t) PROVE LockedHeld' /\ OneWireguard'
    BY <2>4 DEF Raise, Return, LockedHeld, OneWireguard
  <2>5. ASSUME NEW t \in Threads, RemoveLock(t) PROVE LockedHeld' /\ OneWireguard'
    <3>1. call[t].wg \in Wireguards
      BY <2>5 DEF RemoveLock, Calls
    <3>2. LockedHeld'
      BY <2>5 DEF RemoveLock, Return, LockedHeld
    <3>3. OneWireguard'
      BY <2>5, <3>1 DEF RemoveLock, Return, OneWireguard
    <3> QED
      BY <3>2, <3>3
  <2>6. CASE Restart
    BY <2>6 DEF Restart, LockedHeld, OneWireguard
  <2>7. CASE UNCHANGED vars
    BY <2>7 DEF vars, LockedHeld, OneWireguard
  <2> QED
    BY <2>1, <2>2, <2>3, <2>4, <2>5, <2>6, <2>7 DEF Next, Step
<1> QED
  BY <1>1, <1>2, Typing, PTL DEF Spec

\* A thread is only kept waiting by an operation that is at work on the same
\* wireguard, and that waits for nothing: with any number of threads there is no
\* circle of waiting threads, and none is stranded by a lock that nobody holds.
THEOREM NoneStranded == Spec => []WaitsForOperation
<1>1. TypeOK /\ LockedHeld /\ OneWireguard => WaitsForOperation
  <2> SUFFICES ASSUME TypeOK, LockedHeld, OneWireguard,
                      NEW t \in Threads, pc[t] = "waiting", lock[t] \in locked
               PROVE  \E u \in Threads : Operates(u, call[t].wg) /\ lock[u] = lock[t]
    BY DEF WaitsForOperation
  <2>1. PICK u \in Threads : pc[u] = "critical" /\ lock[u] = lock[t]
    BY DEF LockedHeld
  <2>2. call[u].wg = call[t].wg
    BY <2>1 DEF OneWireguard
  <2> QED
    BY <2>1, <2>2 DEF Operates
<1> QED
  BY <1>1, Typing, HeldInvariant, PTL

=============================================================================
