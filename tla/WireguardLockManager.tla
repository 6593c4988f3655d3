------------------------ MODULE WireguardLockManager ------------------------
(***************************************************************************)
(* WireguardLockManager of agent/wireguard.py and the way the agent's      *)
(* threads (RPC handlers and workers of the periodic sync) use it:         *)
(* _configure_wireguard takes the wireguard's lock for the whole           *)
(* operation; delete_wireguard does too and then drops the lock's entry,   *)
(* once the lock is released.                                              *)
(*                                                                         *)
(* get_lock and remove_lock run entirely under _master_lock: one step      *)
(* each.  A threading.Lock is a member of Locks; creating one picks a      *)
(* member that nothing refers to any more.                                 *)
(***************************************************************************)

CONSTANTS Wireguards,   \* identifiers of wireguards
          Threads,      \* threads of the agent process
          Locks,        \* threading.Lock objects
          Kinds,        \* operations in use: "configure" (create, update, sync), "delete"
          None          \* Python's None

ASSUME NoneAssumption == None \notin Locks
ASSUME KindsAssumption == Kinds \subseteq {"configure", "delete"}

VARIABLES locks,    \* _locks: the lock registered for a wireguard, or None
          locked,   \* the locks that are acquired
          pc,       \* where a thread is
          call,     \* the operation a thread runs, or None
          lock,     \* local variable "lock" of the operation, or None
          overtaken \* history: operations whose lock a delete has dropped (remove_lock)
            \* since they fetched it

vars == <<locks, locked, pc, call, lock, overtaken>>

Calls == [kind : Kinds, wg : Wireguards]

InUse == {locks[w] : w \in Wireguards} \union {lock[t] : t \in Threads}

TypeOK ==
  /\ locks \in [Wireguards -> Locks \union {None}]
  /\ locked \subseteq Locks
  /\ pc \in [Threads -> {"idle", "waiting", "critical", "removing"}]
  /\ call \in [Threads -> Calls \union {None}]
  /\ lock \in [Threads -> Locks \union {None}]
  /\ overtaken \subseteq Threads
  /\ \A t \in Threads : pc[t] # "idle" => call[t] \in Calls /\ lock[t] \in Locks

Init ==
  /\ locks = [w \in Wireguards |-> None]
  /\ locked = {}
  /\ pc = [t \in Threads |-> "idle"]
  /\ call = [t \in Threads |-> None]
  /\ lock = [t \in Threads |-> None]
  /\ overtaken = {}

\* Mutant of LockFor: a lock is created without looking for a registered one.
AlwaysNew(w, l) == l \in Locks \ InUse

\* The lock get_lock returns: the registered one or a new one.
LockFor(w, l) ==
  IF locks[w] = None THEN l \in Locks \ InUse ELSE l = locks[w]

GetLock(t, c) ==
  /\ pc[t] = "idle"
  /\ \E l \in Locks :
       /\ LockFor(c.wg, l)
       /\ locks' = [locks EXCEPT ![c.wg] = l]
       /\ lock' = [lock EXCEPT ![t] = l]
  /\ call' = [call EXCEPT ![t] = c]
  /\ pc' = [pc EXCEPT ![t] = "waiting"]
  /\ UNCHANGED <<locked, overtaken>>

\* Entering "with lock:".
Acquire(t) ==
  /\ pc[t] = "waiting"
  /\ lock[t] \notin locked
  /\ locked' = locked \union {lock[t]}
  /\ pc' = [pc EXCEPT ![t] = "critical"]
  /\ UNCHANGED <<locks, call, lock, overtaken>>

\* The operation returns to its caller; its local variables are gone.
Return(t) ==
  /\ pc' = [pc EXCEPT ![t] = "idle"]
  /\ call' = [call EXCEPT ![t] = None]
  /\ lock' = [lock EXCEPT ![t] = None]

\* Leaving "with lock:" normally: a delete still has its remove_lock to do.
Release(t) ==
  /\ pc[t] = "critical"
  /\ locked' = locked \ {lock[t]}
  /\ IF call[t].kind = "delete"
     THEN /\ pc' = [pc EXCEPT ![t] = "removing"]
          /\ UNCHANGED <<call, lock>>
     ELSE Return(t)
  /\ overtaken' = overtaken \ {t}
  /\ UNCHANGED locks

\* Mutant of Raise: acquire() and release() instead of "with".
RaiseLocked(t) ==
  /\ pc[t] = "critical"
  /\ Return(t)
  /\ UNCHANGED <<locks, locked, overtaken>>

\* An exception leaves "with lock:": the lock is released, remove_lock skipped.
Raise(t) ==
  /\ pc[t] = "critical"
  /\ locked' = locked \ {lock[t]}
  /\ Return(t)
  /\ overtaken' = overtaken \ {t}
  /\ UNCHANGED locks

RemoveLock(t) ==
  /\ pc[t] = "removing"
  /\ locks' = [locks EXCEPT ![call[t].wg] = None]
  /\ overtaken' = overtaken \union
                    {u \in Threads : pc[u] \in {"waiting", "critical"} /\ call[u].wg = call[t].wg}
  /\ Return(t)
  /\ UNCHANGED locked

\* The agent process dies and starts again with a new lock manager.
Restart ==
  /\ locks' = [w \in Wireguards |-> None]
  /\ locked' = {}
  /\ pc' = [t \in Threads |-> "idle"]
  /\ call' = [t \in Threads |-> None]
  /\ lock' = [t \in Threads |-> None]
  /\ overtaken' = {}

\* The steps of a call in progress; Raise is not among those it must take.
Step(t) == Acquire(t) \/ Release(t) \/ RemoveLock(t)

Next ==
  \/ \E t \in Threads : \/ \E c \in Calls : GetLock(t, c)
                        \/ Step(t)
                        \/ Raise(t)
  \/ Restart

Spec == Init /\ [][Next]_vars

-----------------------------------------------------------------------------

Operates(t, w) == pc[t] = "critical" /\ call[t].wg = w

\* Two operations on a wireguard only ever run at the same time if a delete
\* has dropped the lock of one of them (remove_lock) after it was fetched:
\* concurrent creates, updates, syncs and deletes exclude each other although
\* each fetched its lock before it waited for it, and those that come after a
\* delete exclude each other again.
ExclusionUntilRemoved ==
  \A w \in Wireguards : \A t, u \in Threads \ overtaken :
    Operates(t, w) /\ Operates(u, w) => t = u

\* The lock manager's docstring (lines 49-50): only one operation can be
\* performed on a specific wireguard at a time.  remove_lock drops the entry
\* while another operation waits on, or has just acquired, that lock; the next
\* operation then creates a second lock for the same wireguard.
MutualExclusion ==
  \A w \in Wireguards : \A t, u \in Threads :
    Operates(t, w) /\ Operates(u, w) => t = u

\* Operations only ever wait for operations on the same wireguard, and for one
\* that is at work: no lock stays acquired when an operation raises or its entry
\* is dropped, and a new lock is never one that another wireguard still uses.
\* So nothing waits in a circle, and no wireguard holds up another.
WaitsForOperation ==
  \A t \in Threads : pc[t] = "waiting" /\ lock[t] \in locked =>
    \E u \in Threads : Operates(u, call[t].wg) /\ lock[u] = lock[t]

\* An operation waiting for a wireguard is never stranded by failed or deleting
\* operations: while there is one, again and again some operation runs on it.
\* (For the specifications with fairness that extend this one.)
Progress ==
  \A w \in Wireguards :
    (\E t \in Threads : pc[t] = "waiting" /\ call[t].wg = w)
      ~> (\E t \in Threads : Operates(t, w)) \/ (\A t \in Threads : pc[t] = "idle")

=============================================================================
