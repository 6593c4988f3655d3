------------------------- MODULE WireguardSync_proofs -------------------------
(***************************************************************************)
(* Proofs about WireguardSync, for any number of wireguards, workers and   *)
(* handlers, any interval and any number of calls, faults and restarts.    *)
(***************************************************************************)
EXTENDS WireguardSync, WireguardLockManager_proofs

\* A step of the sync is a step of the lock manager, or none of its.
LEMMA SyncLockStep == [SyncNext]_allVars => [Next]_vars
<1> SUFFICES ASSUME [SyncNext]_allVars PROVE Next \/ UNCHANGED vars
  OBVIOUS
<1>1. CASE SyncStep
  <2>1. CASE Timer \/ Fetch \/ FetchFails \/ FinishRound
    BY <2>1 DEF Timer, Fetch, FetchFails, FinishRound, lockVars
  <2>2. ASSUME NEW t \in Workers, NEW w \in Hosted, Take(t, w) PROVE Next
    <3>1. [kind |-> "configure", wg |-> w] \in Calls /\ t \in Threads
      BY ThreadsAssumption, HostedAssumption DEF Calls
    <3> QED
      BY <2>2, <3>1 DEF Take, Next
  <2> QED
    BY <1>1, <2>1, <2>2 DEF SyncStep
<1>2. ASSUME NEW t \in Handlers, NEW c \in Calls, Call(t, c) PROVE Next
  BY <1>2, ThreadsAssumption DEF Call, Next
<1>3. ASSUME NEW t \in Threads, Work(t) \/ Fail(t) PROVE Next
  BY <1>3 DEF Work, Fail, Next
<1>4. CASE AgentRestart
  BY <1>4 DEF AgentRestart, Next
<1>5. CASE UNCHANGED allVars
  BY <1>5 DEF allVars, lockVars
<1> QED
  BY <1>1, <1>2, <1>3, <1>4, <1>5 DEF SyncNext

\* The sync and the RPC handlers together implement the lock manager's
\* specification.
THEOREM SyncLocks == SyncSpec => Spec
<1>1. SyncInit => Init
  BY DEF SyncInit
<1> QED
  BY <1>1, SyncLockStep, PTL DEF SyncSpec, Spec

\* So no worker and no handler work on a wireguard at the same time, unless a
\* delete has dropped the lock that one of them had fetched.
THEOREM SyncExclusion == SyncSpec => []ExclusionUntilRemoved
BY SyncLocks, Exclusion, PTL

\* The sync's part of SyncTypeOK.
RoundTypes ==
  /\ at \in {"fetch", "serve", "wait", "off"} /\ todo \subseteq Hosted
  /\ casts \in 0..MaxCasts /\ faults \in 0..MaxFaults /\ restarts \in 0..MaxRestarts
  /\ at # "serve" => todo = {} /\ \A t \in Workers : pc[t] = "idle"
  /\ at = "off" => Interval = 0

\* A round ends only when its last worker has, so no two rounds overlap.
THEOREM SyncTyping == SyncSpec => []SyncTypeOK
<1>1. SyncInit => RoundTypes
  <2>1. 0 \in 0..MaxCasts /\ 0 \in 0..MaxFaults /\ 0 \in 0..MaxRestarts
    BY BoundsAssumption
  <2> QED
    BY <2>1, ThreadsAssumption DEF SyncInit, Init, RoundTypes
<1>2. TypeOK /\ RoundTypes /\ [SyncNext]_allVars => RoundTypes'
  <2> SUFFICES ASSUME TypeOK, RoundTypes, [SyncNext]_allVars PROVE RoundTypes'
    OBVIOUS
  <2> USE ThreadsAssumption, BoundsAssumption DEF RoundTypes, syncVars
  <2>1. CASE Timer \/ Fetch
    BY <2>1 DEF Timer, Fetch, lockVars, vars
  <2>2. CASE FetchFails \/ FinishRound
    BY <2>2 DEF FetchFails, FinishRound, Rest, lockVars, vars
  <2>3. ASSUME NEW t \in Workers, NEW w \in Hosted, Take(t, w) PROVE RoundTypes'
    BY <2>3 DEF Take
  <2>4. ASSUME NEW t \in Handlers, NEW c \in Calls, Call(t, c) PROVE RoundTypes'
    <3>1. \A u \in Workers : pc'[u] = pc[u]
      BY <2>4 DEF Call, GetLock, TypeOK
    <3> QED
      BY <2>4, <3>1 DEF Call
  <2>5. ASSUME NEW t \in Threads, Work(t) \/ Fail(t) PROVE RoundTypes'
    <3>1. \A u \in Threads : pc[u] = "idle" => pc'[u] = "idle"
      BY <2>5 DEF Work, Fail, Step, Acquire, Release, Return, Raise, RemoveLock, TypeOK
    <3> QED
      BY <2>5, <3>1 DEF Work, Fail
  <2>6. CASE AgentRestart
    BY <2>6 DEF AgentRestart, Restart
  <2>7. CASE UNCHANGED allVars
    BY <2>7 DEF allVars, lockVars, vars
  <2> QED
    BY <2>1, <2>2, <2>3, <2>4, <2>5, <2>6, <2>7 DEF SyncNext, SyncStep
<1>3. TypeOK /\ RoundTypes => SyncTypeOK
  BY DEF RoundTypes, SyncTypeOK
<1> QED
  BY <1>1, <1>2, <1>3, SyncLocks, Typing, PTL DEF SyncSpec

-----------------------------------------------------------------------------

\* Workers and handlers wait for nothing but operations at work on their own
\* wireguard: an error in sync_one or in an RPC handler strands nobody.
THEOREM SyncNoneStranded == SyncSpec => []WaitsForOperation
BY SyncLocks, NoneStranded, PTL

-----------------------------------------------------------------------------

\* The executor's workers only configure, each a wireguard that has left the
\* queue of the round, and no two of them the same one.
WorkersApart ==
  /\ \A t \in Workers : pc[t] # "idle" =>
       /\ pc[t] # "removing" /\ call[t].kind = "configure"
       /\ call[t].wg \in Hosted \ todo
  /\ \A t, u \in Workers :
       pc[t] # "idle" /\ pc[u] # "idle" /\ call[t].wg = call[u].wg => t = u

\* A step of an operation leaves the call as it was, or ends it.
LEMMA WorkKeepsCalls ==
  ASSUME TypeOK, NEW t \in Threads, Work(t) \/ Fail(t)
  PROVE  /\ todo' = todo
         /\ \A u \in Threads : pc'[u] # "idle" =>
              /\ pc[u] # "idle" /\ call'[u] = call[u]
              /\ pc'[u] = "removing" => pc[u] = "removing" \/ call[u].kind = "delete"
BY DEF Work, Fail, Step, Acquire, Release, Return, Raise, RemoveLock, TypeOK, syncVars

LEMMA WorkersInvariant == SyncSpec => []WorkersApart
<1>1. SyncInit => WorkersApart
  BY ThreadsAssumption DEF SyncInit, Init, WorkersApart
<1>2. TypeOK /\ RoundTypes /\ WorkersApart /\ [SyncNext]_allVars => WorkersApart'
  <2> SUFFICES ASSUME TypeOK, RoundTypes, WorkersApart, [SyncNext]_allVars
               PROVE  WorkersApart'
    OBVIOUS
  <2> USE ThreadsAssumption
  \* Between two rounds no worker is busy.
  <2>1. CASE Timer \/ Fetch \/ FetchFails \/ FinishRound
    <3>1. \A t \in Workers : at # "serve" => pc[t] = "idle"
      BY DEF RoundTypes
    <3>2. pc' = pc /\ call' = call /\ (at = "serve" => todo' = todo)
      BY <2>1 DEF Timer, Fetch, FetchFails, FinishRound, lockVars, vars
    <3> QED
      BY <3>1, <3>2 DEF WorkersApart
  <2>2. ASSUME NEW t \in Workers, NEW w \in Hosted, Take(t, w) PROVE WorkersApart'
    <3>1. pc[t] = "idle" /\ w \in todo /\ todo' = todo \ {w}
      BY <2>2 DEF Take, GetLock
    <3>2. pc'[t] = "waiting" /\ call'[t] = [kind |-> "configure", wg |-> w]
      BY <2>2 DEF Take, GetLock, TypeOK
    <3>3. \A u \in Workers : u # t => pc'[u] = pc[u] /\ call'[u] = call[u]
      BY <2>2 DEF Take, GetLock, TypeOK
    <3>4. \A u \in Workers : u # t /\ pc[u] # "idle" => call[u].wg # w
      BY <3>1 DEF WorkersApart
    <3>5. \A u \in Workers : pc'[u] # "idle" =>
            /\ pc'[u] # "removing" /\ call'[u].kind = "configure"
            /\ call'[u].wg \in Hosted \ todo'
      BY <3>1, <3>2, <3>3 DEF WorkersApart
    <3>6. \A u, v \in Workers :
            pc'[u] # "idle" /\ pc'[v] # "idle" /\ call'[u].wg = call'[v].wg => u = v
      BY <3>2, <3>3, <3>4 DEF WorkersApart
    <3> QED
      BY <3>5, <3>6 DEF WorkersApart
  <2>3. ASSUME NEW t \in Handlers, NEW c \in Calls, Call(t, c) PROVE WorkersApart'
    <3>1. \A u \in Workers : pc'[u] = pc[u] /\ call'[u] = call[u]
      BY <2>3 DEF Call, GetLock, TypeOK
    <3>2. todo' = todo
      BY <2>3 DEF Call, syncVars
    <3> QED
      BY <3>1, <3>2 DEF WorkersApart
  <2>4. ASSUME NEW t \in Threads, Work(t) \/ Fail(t) PROVE WorkersApart'
    <3>1. /\ todo' = todo
          /\ \A u \in Workers : pc'[u] # "idle" =>
               /\ pc[u] # "idle" /\ call'[u] = call[u]
               /\ pc'[u] = "removing" => pc[u] = "removing" \/ call[u].kind = "delete"
      BY <2>4, WorkKeepsCalls
    <3> QED
      BY <3>1 DEF WorkersApart
  <2>5. CASE AgentRestart
    BY <2>5 DEF AgentRestart, Restart, WorkersApart
  <2>6. CASE UNCHANGED allVars
    BY <2>6 DEF allVars, lockVars, vars, syncVars, WorkersApart
  <2> QED
    BY <2>1, <2>2, <2>3, <2>4, <2>5, <2>6 DEF SyncNext, SyncStep
<1>3. SyncTypeOK => TypeOK /\ RoundTypes
  BY DEF SyncTypeOK, RoundTypes
<1> QED
  BY <1>1, <1>2, <1>3, SyncTyping, PTL DEF SyncSpec

\* A worker that waits does so for an operation on its own wireguard, and no
\* other worker runs one: with any number of workers, wireguards and handlers a
\* round is only ever held up by RPC handlers.
THEOREM SyncHeldUpByHandlers == SyncSpec => []SyncWaitsForHandlersOnly
<1>1. WorkersApart /\ WaitsForOperation => SyncWaitsForHandlersOnly
  <2> SUFFICES ASSUME WorkersApart, WaitsForOperation, NEW t \in Workers,
                      pc[t] = "waiting", lock[t] \in locked
               PROVE  \E u \in Handlers : Operates(u, call[t].wg)
    BY DEF SyncWaitsForHandlersOnly
  <2>1. PICK u \in Threads : Operates(u, call[t].wg)
    BY ThreadsAssumption DEF WaitsForOperation
  <2>2. u \notin Workers
    BY <2>1 DEF Operates, WorkersApart
  <2> QED
    BY <2>1, <2>2, ThreadsAssumption
<1> QED
  BY <1>1, WorkersInvariant, SyncNoneStranded, PTL

===============================================================================
