---------------------------- MODULE WireguardSync ----------------------------
(***************************************************************************)
(* The threads of the agent process: initialize of agent/wireguard.py      *)
(* registers the RPC consumers, syncs once and starts the periodic sync.   *)
(* A sync asks the server for the wireguards of the host and hands them to *)
(* a pool of workers, each of which runs update_wireguard on one wireguard *)
(* at a time, while RPC handlers create, update and delete wireguards.     *)
(* All of them use the locks of WireguardLockManager; what an operation    *)
(* does while it holds its lock is WireguardAgent's.                       *)
(***************************************************************************)
EXTENDS WireguardLockManager, Naturals

CONSTANTS Workers,      \* sync_max_workers threads of the executor
          Handlers,     \* threads that run RPC calls
          Hosted,       \* the wireguards the server lists for this host
          Interval,     \* periodic_sync_interval
          MaxCasts,     \* RPC calls received
          MaxFaults,    \* calls of get_wireguards_for_host that fail
          MaxRestarts   \* deaths of the agent process

ASSUME ThreadsAssumption ==
  Threads = Workers \union Handlers /\ Workers \intersect Handlers = {}
ASSUME HostedAssumption == Hosted \subseteq Wireguards /\ "configure" \in Kinds
ASSUME BoundsAssumption ==
  Interval \in Nat /\ MaxCasts \in Nat /\ MaxFaults \in Nat /\ MaxRestarts \in Nat

VARIABLES at,      \* where the sync is: "fetch", "serve", "wait" for the timer,
                   \* or "off": there will be no other
          todo,    \* wireguards of this round no worker has taken yet
          casts, faults, restarts

lockVars == vars
syncVars == <<at, todo>>
allVars == <<lockVars, syncVars, casts, faults, restarts>>

\* A worker is only busy while the round it belongs to is under way.
SyncTypeOK ==
  /\ TypeOK
  /\ at \in {"fetch", "serve", "wait", "off"} /\ todo \subseteq Hosted
  /\ casts \in 0..MaxCasts /\ faults \in 0..MaxFaults /\ restarts \in 0..MaxRestarts
  /\ at # "serve" => todo = {} /\ \A t \in Workers : pc[t] = "idle"
  /\ at = "off" => Interval = 0

SyncInit ==
  /\ Init
  /\ at = "fetch" /\ todo = {}
  /\ casts = 0 /\ faults = 0 /\ restarts = 0

\* After a round; the loop of an interval of 0 is never started.
Rest == at' = IF Interval = 0 THEN "off" ELSE "wait"

Timer ==
  /\ at = "wait" /\ at' = "fetch"
  /\ UNCHANGED <<lockVars, todo, casts, faults, restarts>>

Fetch ==
  /\ at = "fetch" /\ at' = "serve"
  /\ todo' = Hosted
  /\ UNCHANGED <<lockVars, casts, faults, restarts>>

\* An RPC error is logged; the loop goes on.
FetchFails ==
  /\ at = "fetch" /\ faults < MaxFaults
  /\ faults' = faults + 1
  /\ Rest
  /\ UNCHANGED <<lockVars, todo, casts, restarts>>

\* A worker takes a wireguard from the executor's queue.
Take(t, w) ==
  /\ at = "serve" /\ w \in todo
  /\ todo' = todo \ {w}
  /\ GetLock(t, [kind |-> "configure", wg |-> w])
  /\ UNCHANGED <<at, casts, faults, restarts>>

\* Mutant of FinishRound: the executor is not waited for.
FinishEarly ==
  /\ at = "serve" /\ todo = {}
  /\ Rest
  /\ UNCHANGED <<lockVars, todo, casts, faults, restarts>>

\* Leaving "with ThreadPoolExecutor": every worker is done.
FinishRound ==
  /\ at = "serve" /\ todo = {}
  /\ \A t \in Workers : pc[t] = "idle"
  /\ Rest
  /\ UNCHANGED <<lockVars, todo, casts, faults, restarts>>

\* wireguard_created, wireguard_updated or wireguard_deleted arrives.
Call(t, c) ==
  /\ casts < MaxCasts
  /\ casts' = casts + 1
  /\ GetLock(t, c)
  /\ UNCHANGED <<syncVars, faults, restarts>>

Work(t) == Step(t) /\ UNCHANGED <<syncVars, casts, faults, restarts>>

\* Mutant of Fail: an error in one operation cancels the rest of the round.
FailCancels(t) ==
  /\ Raise(t)
  /\ todo' = IF t \in Workers THEN {} ELSE todo
  /\ UNCHANGED <<at, casts, faults, restarts>>

\* sync_one catches what a worker's operation raises.
Fail(t) == Raise(t) /\ UNCHANGED <<syncVars, casts, faults, restarts>>

AgentRestart ==
  /\ restarts < MaxRestarts
  /\ restarts' = restarts + 1
  /\ Restart
  /\ at' = "fetch" /\ todo' = {}
  /\ UNCHANGED <<casts, faults>>

SyncStep ==
  \/ Timer \/ Fetch \/ FetchFails \/ FinishRound
  \/ \E t \in Workers, w \in Hosted : Take(t, w)

SyncNext ==
  \/ SyncStep
  \/ \E t \in Handlers, c \in Calls : Call(t, c)
  \/ \E t \in Threads : Work(t) \/ Fail(t)
  \/ AgentRestart

SyncSpec == SyncInit /\ [][SyncNext]_allVars

\* Commands end, so operations return, and the loop goes on; which of several
\* waiting threads gets a lock is left open.
FairSyncSpec ==
  SyncSpec /\ WF_allVars(SyncStep) /\ \A t \in Threads : WF_allVars(Work(t))

-----------------------------------------------------------------------------

\* The workers of the pool never get in each other's way, although none of them
\* knows what the others do and a round may take longer than the interval: a
\* worker only waits while an RPC handler operates on its wireguard.
SyncWaitsForHandlersOnly ==
  \A t \in Workers : pc[t] = "waiting" /\ lock[t] \in locked =>
    \E u \in Handlers : Operates(u, call[t].wg)

\* "Fetches all wireguards that should be configured on this host and ensures
\* they are properly set up" (lines 110-111): with an interval, again and again
\* a worker is at work on each wireguard of the host, although operations
\* raise, a fetch fails, deletes drop locks, handlers hold the lock a worker
\* waits for, and a round waits for its last worker.
SyncServesAll ==
  Interval > 0 => \A w \in Hosted : []<>(\E t \in Workers : Operates(t, w))

=============================================================================
