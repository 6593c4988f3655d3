------------------------ MODULE WireguardAgent_proofs ------------------------
(***************************************************************************)
(* Proofs about WireguardAgent, for any wireguard dicts, number of threads *)
(* and number of failures, losses of the interface and crashes.            *)
(***************************************************************************)
EXTENDS WireguardAgent, TLAPS

LP == INSTANCE WireguardLockManager_proofs WITH Wireguards <- {Wg}

\* Every step of the agent is a step of the lock manager, or none of its.
LEMMA LockStep == [Next]_vars => [LM!Next]_(LM!vars)
<1> SUFFICES ASSUME [Next]_vars
             PROVE  LM!Next \/ UNCHANGED lockVars
  BY DEF LM!vars, lockVars
<1>1. ASSUME NEW t \in Threads, NEW kind, NEW d, Begin(t, kind, d)
      PROVE  LM!Next
  <2>1. [kind |-> kind, wg |-> Wg] \in LM!Calls
    BY <1>1 DEF Begin, LM!Calls
  <2> QED
    BY <1>1, <2>1 DEF Begin, LM!Next
<1>2. ASSUME NEW t \in Threads, RunStep(t)
      PROVE  LM!Next \/ UNCHANGED lockVars
  <2>1. CASE Enter(t)
    BY <2>1 DEF Enter, LM!Next, LM!Step
  <2>2. CASE Leave(t)
    BY <2>2 DEF Leave, LM!Next, LM!Step
  <2>3. CASE Forget(t)
    BY <2>3 DEF Forget, LM!Next, LM!Step
  <2>4. CASE Command(t)
    BY <2>4 DEF Command, Show, Add, Check, OpenConf, FillConf, Setconf, Flush, SetAddress,
                BringUp, RestoreMarks, ListRoutes, DelRoute, AddRoute, Report, Unmark,
                Destroy, Unlink, Move, Refused
  <2> QED
    BY <1>2, <2>1, <2>2, <2>3, <2>4 DEF RunStep
<1>3. ASSUME NEW t \in Threads, CommandFails(t) \/ RouteFails(t)
      PROVE  UNCHANGED lockVars
  BY <1>3 DEF CommandFails, RouteFails
<1>4. CASE LinkLost
  BY <1>4 DEF LinkLost
<1>5. CASE Crash
  BY <1>5 DEF Crash, LM!Next
<1>6. CASE UNCHANGED vars
  BY <1>6 DEF vars
<1> QED
  BY <1>1, <1>2, <1>3, <1>4, <1>5, <1>6 DEF Next, Sync

\* The agent implements WireguardLockManager.
THEOREM AgentLocks == Spec => LockDiscipline
<1>1. Init => LM!Init
  BY DEF Init
<1> QED
  BY <1>1, LockStep, PTL DEF Spec, LockDiscipline, LM!Spec

\* WireguardLockManager's theorems are about its specification as its own
\* proof module sees it: the same one.
LEMMA SameLockManager ==
  /\ LM!Spec => LP!Spec
  /\ LP!TypeOK => LM!TypeOK
  /\ LP!ExclusionUntilRemoved => LM!ExclusionUntilRemoved
  /\ LP!WaitsForOperation => LM!WaitsForOperation
<1>1. LM!Init => LP!Init
  BY DEF LM!Init, LP!Init
<1>2. [LM!Next]_(LM!vars) => [LP!Next]_(LP!vars)
  BY DEF LM!Next, LM!Step, LM!vars, LM!Calls, LM!GetLock, LM!LockFor, LM!InUse, LM!Acquire,
         LM!Release, LM!Return, LM!Raise, LM!RemoveLock, LM!Restart,
         LP!Next, LP!Step, LP!vars, LP!Calls, LP!GetLock, LP!LockFor, LP!InUse, LP!Acquire,
         LP!Release, LP!Return, LP!Raise, LP!RemoveLock, LP!Restart
<1>3. LM!Spec => LP!Spec
  BY <1>1, <1>2, PTL DEF LM!Spec, LP!Spec
<1>4. LP!TypeOK => LM!TypeOK
  BY DEF LM!TypeOK, LP!TypeOK, LM!Calls, LP!Calls
<1>5. LP!ExclusionUntilRemoved => LM!ExclusionUntilRemoved
  BY DEF LM!ExclusionUntilRemoved, LP!ExclusionUntilRemoved, LM!Operates, LP!Operates
<1>6. LP!WaitsForOperation => LM!WaitsForOperation
  BY DEF LM!WaitsForOperation, LP!WaitsForOperation, LM!Operates, LP!Operates
<1> QED
  BY <1>3, <1>4, <1>5, <1>6

LEMMA LockTyping == Spec => []LM!TypeOK
<1>1. LP!Spec => []LP!TypeOK
  BY LP!Typing, NoneAssumption, KindsAssumption DEF LP!NoneAssumption, LP!KindsAssumption
<1> QED
  BY <1>1, AgentLocks, SameLockManager, PTL DEF LockDiscipline

\* So operations of the agent exclude each other until a delete completes.
THEOREM AgentExclusion == Spec => []LM!ExclusionUntilRemoved
<1>1. LP!Spec => []LP!ExclusionUntilRemoved
  BY LP!Exclusion, NoneAssumption, KindsAssumption DEF LP!NoneAssumption, LP!KindsAssumption
<1> QED
  BY <1>1, AgentLocks, SameLockManager, PTL DEF LockDiscipline

\* And one that waits for the lock waits for an operation at work: no command
\* that fails or raises in the middle of an operation keeps the lock for good.
THEOREM AgentNoneStranded == Spec => []LM!WaitsForOperation
<1>1. LP!Spec => []LP!WaitsForOperation
  BY LP!NoneStranded, NoneAssumption, KindsAssumption DEF LP!NoneAssumption, LP!KindsAssumption
<1> QED
  BY <1>1, AgentLocks, SameLockManager, PTL DEF LockDiscipline

-----------------------------------------------------------------------------

\* Running a command changes nothing but the host and the thread's own state.
Commanded(t) ==
  /\ UNCHANGED <<lockVars, want, history, budgets>>
  /\ step[t] # "idle"
  /\ \E s \in ConfigureSteps \union DeleteSteps \union {"done", "raised"} :
       step' = [step EXCEPT ![t] = s] /\ (s \in ConfigureSteps => step[t] \in ConfigureSteps)

LEMMA CommandFrame ==
  ASSUME NEW t \in Threads, Command(t)
  PROVE  Commanded(t)
<1> USE DEF Commanded, Move, Refused, ConfigureSteps, DeleteSteps
<1>1. CASE Show(t) \/ Add(t) \/ Check(t) \/ OpenConf(t) \/ FillConf(t)
  BY <1>1 DEF Show, Add, Check, OpenConf, FillConf
<1>2. CASE Setconf(t) \/ Flush(t) \/ SetAddress(t) \/ BringUp(t)
  BY <1>2 DEF Setconf, Flush, SetAddress, BringUp
<1>3. CASE RestoreMarks(t) \/ ListRoutes(t) \/ Report(t)
  BY <1>3 DEF RestoreMarks, ListRoutes, Report
<1>4. CASE DelRoute(t) \/ AddRoute(t)
  BY <1>4 DEF DelRoute, AddRoute
<1>5. CASE Unmark(t) \/ Destroy(t) \/ Unlink(t)
  BY <1>5 DEF Unmark, Destroy, Unlink
<1> QED
  BY <1>1, <1>2, <1>3, <1>4, <1>5 DEF Command

\* The parts of TypeOK that are about the host: the interface, the file and
\* what a thread has read of them.
HostTypes ==
  /\ link \in Links /\ (~link.exists => link = NoLink)
  /\ file \in Contents
  /\ created \in [Threads -> BOOLEAN]
  /\ current \in [Threads -> SUBSET Cidrs]
  /\ reported \in {None, "ACTIVE", "ERROR"}

LEMMA NoLinkType == NoLink \in Links
BY DEF NoLink, Links, Contents

LEMMA DictTypes ==
  ASSUME NEW d \in Dicts
  PROVE  /\ BuildConf(d) \in Contents /\ d.addr \in Addresses
         /\ Range(d.ips) \subseteq Cidrs /\ Connected[d.addr] \subseteq Cidrs
BY DEF Contents, Addresses, Cidrs

LEMMA ConnectedCidrs ==
  ASSUME NEW s \in Seq(Addresses)
  PROVE  UNION {Connected[a] : a \in Range(s)} \subseteq Cidrs
<1> SUFFICES ASSUME NEW i \in DOMAIN s PROVE Connected[s[i]] \subseteq Cidrs
  BY DEF Range
<1>1. PICK d \in Dicts : s[i] = d.addr
  BY DEF Addresses
<1> QED
  BY <1>1, DictTypes

\* What "ip route del" and "ip route add" leave alone: everything but the
\* routes of the interface and what the thread knows of them.
RouteFrame(t) ==
  /\ UNCHANGED <<file, want, created, reported, history, budgets>>
  /\ link' \in Links /\ (~link.exists => link' = NoLink)
  /\ link'.exists = link.exists /\ link'.up = link.up
  /\ link'.conf = link.conf /\ link'.addrs = link.addrs

LEMMA SameRoutes ==
  ASSUME TypeOK, NEW routes \in SUBSET Cidrs, ~link.exists => routes = {},
         link' = [link EXCEPT !.routes = routes]
  PROVE  /\ link' \in Links /\ (~link.exists => link' = NoLink)
         /\ link'.exists = link.exists /\ link'.up = link.up
         /\ link'.conf = link.conf /\ link'.addrs = link.addrs
         /\ link'.routes = routes
<1>1. ~link.exists => link = NoLink /\ NoLink.routes = {}
  BY DEF TypeOK, NoLink
<1>2. [NoLink EXCEPT !.routes = {}] = NoLink
  BY NoLinkType, NoLink.routes = {} DEF Links, NoLink
<1> QED
  BY <1>1, <1>2 DEF TypeOK, Links

LEMMA DelFrame ==
  ASSUME TypeOK, NEW t \in Threads, DelRoute(t)
  PROVE  RouteFrame(t)
<1>1. CASE UNCHANGED link
  BY <1>1 DEF DelRoute, Move, RouteFrame, TypeOK, hostVars
<1>2. CASE ~UNCHANGED link
  <2>1. PICK c \in Stale(t) : link' = [link EXCEPT !.routes = @ \ {c}]
    BY <1>2 DEF DelRoute, hostVars
  <2> DEFINE routes == link.routes \ {c}
  <2>2. routes \in SUBSET Cidrs /\ (~link.exists => routes = {})
    BY DEF TypeOK, Links, NoLink
  <2>3. link' = [link EXCEPT !.routes = routes]
    BY <2>1
  <2> HIDE DEF routes
  <2> QED
    BY <1>2, <2>2, <2>3, SameRoutes DEF DelRoute, Move, RouteFrame, hostVars
<1> QED
  BY <1>1, <1>2

LEMMA AddFrame ==
  ASSUME TypeOK, NEW t \in Threads, AddRoute(t)
  PROVE  RouteFrame(t)
<1>1. CASE UNCHANGED link
  BY <1>1 DEF AddRoute, Move, RouteFrame, TypeOK, hostVars
<1>2. CASE ~UNCHANGED link
  <2>1. PICK c \in Missing(t) :
          link' = [link EXCEPT !.routes = IF link.up THEN @ \union {c} ELSE @]
    BY <1>2 DEF AddRoute, hostVars
  <2> DEFINE routes == IF link.up THEN link.routes \union {c} ELSE link.routes
  <2>2. want[t] \in Dicts
    BY DEF AddRoute, TypeOK, ConfigureSteps
  <2>3. routes \in SUBSET Cidrs /\ (~link.exists => routes = {})
    BY <2>2, DictTypes DEF TypeOK, Links, NoLink, Missing
  <2>4. link' = [link EXCEPT !.routes = routes]
    BY <2>1
  <2> HIDE DEF routes
  <2> QED
    BY <1>2, <2>3, <2>4, SameRoutes DEF AddRoute, Move, RouteFrame, hostVars
<1> QED
  BY <1>1, <1>2

\* What a thread takes for dealt with are routes.
LEMMA CurrentType ==
  ASSUME TypeOK, NEW t \in Threads, DelRoute(t) \/ AddRoute(t) \/ RouteFails(t)
  PROVE  current' \in [Threads -> SUBSET Cidrs]
<1>1. step[t] = "adds" => Missing(t) \subseteq Cidrs
  BY DictTypes DEF TypeOK, ConfigureSteps, Missing
<1>2. CASE \E c \in Stale(t) : Removed(t, c)
  BY <1>2 DEF Removed, TypeOK
<1>3. CASE step[t] = "adds" /\ \E c \in Missing(t) : Tried(t, c)
  BY <1>1, <1>3 DEF Tried, TypeOK
<1>4. CASE UNCHANGED current \/ current' = [current EXCEPT ![t] = {}]
  BY <1>4 DEF TypeOK
<1> QED
  BY <1>2, <1>3, <1>4 DEF DelRoute, AddRoute, RouteFails

\* Every command keeps the host's types.
LEMMA CommandTypes ==
  ASSUME TypeOK, NEW t \in Threads, Command(t)
  PROVE  HostTypes'
<1> USE DEF TypeOK, HostTypes, Move, Refused, hostVars
<1>0. step[t] \in ConfigureSteps => want[t] \in Dicts
  OBVIOUS
<1>1. CASE Show(t) \/ Check(t) \/ RestoreMarks(t) \/ Report(t) \/ Unmark(t)
  BY <1>1 DEF Show, Check, RestoreMarks, Report, Unmark
<1>2. CASE Add(t)
  <2>1. [NoLink EXCEPT !.exists = TRUE] \in Links /\ [NoLink EXCEPT !.exists = TRUE].exists
    BY NoLinkType DEF Links
  <2> QED
    BY <1>2, <2>1 DEF Add
<1>3. CASE OpenConf(t)
  BY <1>3 DEF OpenConf, Contents
<1>4. CASE FillConf(t)
  BY <1>0, <1>4, DictTypes DEF FillConf, ConfigureSteps
<1>5. CASE Setconf(t)
  <2>1. [link EXCEPT !.conf = file] \in Links /\ [link EXCEPT !.conf = file].exists = link.exists
    BY DEF Links
  <2> QED
    BY <1>5, <2>1 DEF Setconf
<1>6. CASE Flush(t)
  <2> DEFINE routes == link.routes \ Flushed
  <2>1. << >> \in Seq(Addresses) /\ routes \in SUBSET Cidrs
    BY DEF Links
  <2>2. link' = [link EXCEPT !.addrs = << >>, !.routes = routes]
    BY <1>6 DEF Flush, Links
  <2>3. link' \in Links /\ link'.exists = link.exists
    BY <2>1, <2>2 DEF Links
  <2>4. ASSUME link = NoLink PROVE link' = NoLink
    <3>1. NoLink.addrs = << >> /\ NoLink.routes = {}
      BY DEF NoLink
    <3>2. [NoLink EXCEPT !.addrs = << >>, !.routes = {}] = NoLink
      BY NoLinkType, <3>1 DEF Links
    <3>3. routes = {}
      BY <2>4 DEF NoLink
    <3> QED
      BY <2>2, <2>4, <3>2, <3>3
  <2> QED
    BY <1>6, <2>3, <2>4 DEF Flush
<1>7. CASE SetAddress(t)
  <2>1. CASE Refused(t, "addr")
    BY <2>1
  <2>2. CASE ~Refused(t, "addr")
    <3> DEFINE routes == IF link.up THEN link.routes \union Connected[want[t].addr] ELSE link.routes
    <3>1. want[t] \in Dicts
      BY <1>0, <1>7 DEF SetAddress, ConfigureSteps
    <3>2. routes \in SUBSET Cidrs /\ Append(link.addrs, want[t].addr) \in Seq(Addresses)
      BY <3>1, DictTypes DEF Links
    <3>3. link.exists /\ link' = [link EXCEPT !.addrs = Append(@, want[t].addr), !.routes = routes]
      BY <1>7, <2>2 DEF SetAddress, Links
    <3>4. link' \in Links /\ link'.exists
      BY <3>2, <3>3 DEF Links
    <3> QED
      BY <1>7, <2>2, <3>4 DEF SetAddress
  <2> QED
    BY <2>1, <2>2
<1>8. CASE BringUp(t)
  <2>1. CASE link.exists
    <3> DEFINE routes == link.routes \union ConnectedRoutes
    <3>1. routes \in SUBSET Cidrs
      BY ConnectedCidrs DEF ConnectedRoutes, Links
    <3>2. [link EXCEPT !.up = TRUE, !.routes = routes] \in Links
      BY <3>1 DEF Links
    <3>3. [link EXCEPT !.up = TRUE, !.routes = routes].exists
      BY <2>1 DEF Links
    <3>4. link' = [link EXCEPT !.up = TRUE, !.routes = routes]
      BY <1>8, <2>1 DEF BringUp, Links
    <3> QED
      BY <1>8, <2>1, <3>2, <3>3, <3>4 DEF BringUp
  <2>2. CASE ~link.exists
    BY <1>8, <2>2 DEF BringUp
  <2> QED
    BY <2>1, <2>2
<1>9. CASE ListRoutes(t)
  BY <1>9 DEF ListRoutes, Links
<1>10. CASE DelRoute(t) \/ AddRoute(t)
  BY <1>10, DelFrame, AddFrame, CurrentType DEF RouteFrame
<1>11. CASE Destroy(t) \/ Unlink(t)
  BY <1>11, NoLinkType DEF Destroy, Unlink, Contents
<1> QED
  BY <1>1, <1>2, <1>3, <1>4, <1>5, <1>6, <1>7, <1>8, <1>9, <1>10, <1>11 DEF Command

\* The other parts: the threads' control state and the budgets.
ControlTypes ==
  /\ step \in [Threads -> ConfigureSteps \union DeleteSteps \union {"idle", "done", "raised"}]
  /\ want \in [Threads -> Dicts \union {None}]
  /\ overlapped \in BOOLEAN /\ unseen \subseteq Unseeable
  /\ faults \in 0..MaxFaults /\ losses \in 0..MaxLosses /\ crashes \in 0..MaxCrashes
  /\ \A t \in Threads : step[t] # "idle" <=> pc[t] = "critical"
  /\ \A t \in Threads : step[t] \in ConfigureSteps => want[t] \in Dicts
  /\ \A t \in Threads : pc[t] = "waiting" => (call[t].kind = "delete" <=> want[t] = None)

LEMMA AfterFailureTypes ==
  ASSUME NEW s \in ConfigureSteps \union DeleteSteps
  PROVE  /\ AfterFailure(s) \in ConfigureSteps \union DeleteSteps \union {"raised"}
         /\ AfterFailure(s) \in ConfigureSteps => s \in ConfigureSteps
BY DEF AfterFailure, ConfigureSteps, DeleteSteps

LEMMA TypesSplit == TypeOK <=> LM!TypeOK /\ HostTypes /\ ControlTypes
BY DEF TypeOK, HostTypes, ControlTypes

\* The types hold in every behaviour of the agent.
THEOREM AgentTyping == Spec => []TypeOK
<1>1. Init => TypeOK
  <2> SUFFICES ASSUME Init, LM!TypeOK PROVE TypeOK
    BY NoneAssumption DEF Init, LM!Init, LM!TypeOK
  <2>1. HostTypes
    BY NoLinkType DEF Init, HostTypes, Contents
  <2>2. 0 \in 0..MaxFaults /\ 0 \in 0..MaxLosses /\ 0 \in 0..MaxCrashes
    BY BoundsAssumption
  <2>3. ControlTypes
    BY <2>2 DEF Init, LM!Init, ControlTypes, ConfigureSteps
  <2> QED
    BY <2>1, <2>3, TypesSplit
<1>2. LM!TypeOK' /\ TypeOK /\ [Next]_vars => TypeOK'
  <2> SUFFICES ASSUME LM!TypeOK', TypeOK, [Next]_vars
               PROVE  HostTypes' /\ ControlTypes'
    BY DEF TypeOK, HostTypes, ControlTypes
  <2>1. ASSUME NEW t \in Threads, NEW kind, NEW d \in Dicts \union {None}, Begin(t, kind, d)
        PROVE  HostTypes' /\ ControlTypes'
    <3>1. HostTypes'
      BY <2>1 DEF Begin, TypeOK, HostTypes, hostVars
    <3>2. ControlTypes'
      BY <2>1 DEF Begin, TypeOK, LM!TypeOK, ControlTypes, LM!GetLock, history, budgets, ConfigureSteps
    <3> QED
      BY <3>1, <3>2
  <2>2. ASSUME NEW t \in Threads, Enter(t)
        PROVE  HostTypes' /\ ControlTypes'
    <3>1. HostTypes'
      BY <2>2 DEF Enter, TypeOK, HostTypes, hostVars
    <3>2. step' \in [Threads -> ConfigureSteps \union DeleteSteps \union {"idle", "done", "raised"}]
      BY <2>2 DEF Enter, TypeOK, ConfigureSteps, DeleteSteps
    <3>3. step'[t] # "idle" /\ (step'[t] \in ConfigureSteps => want'[t] \in Dicts)
      BY <2>2 DEF Enter, LM!Acquire, TypeOK, ConfigureSteps
    <3>4. ControlTypes'
      BY <2>2, <3>2, <3>3 DEF Enter, TypeOK, LM!TypeOK, ControlTypes, LM!Acquire, history, budgets
    <3> QED
      BY <3>1, <3>4
  <2>3. ASSUME NEW t \in Threads, Leave(t)
        PROVE  HostTypes' /\ ControlTypes'
    <3>1. HostTypes'
      BY <2>3 DEF Leave, TypeOK, HostTypes, hostVars
    <3>2. \A u \in Threads \ {t} : pc'[u] = pc[u] /\ call'[u] = call[u]
      BY <2>3 DEF Leave, LM!Release, LM!Raise, LM!Return, TypeOK, LM!TypeOK
    <3>3. pc'[t] \in {"idle", "removing"}
      BY <2>3 DEF Leave, LM!Release, LM!Raise, LM!Return, TypeOK, LM!TypeOK
    <3>4. ControlTypes'
      BY <2>3, <3>2, <3>3 DEF Leave, TypeOK, ControlTypes, history, budgets, ConfigureSteps
    <3> QED
      BY <3>1, <3>4
  <2>4. ASSUME NEW t \in Threads, Forget(t)
        PROVE  HostTypes' /\ ControlTypes'
    <3>1. HostTypes'
      BY <2>4 DEF Forget, TypeOK, HostTypes, hostVars, localVars
    <3>2. ControlTypes'
      BY <2>4 DEF Forget, LM!RemoveLock, LM!Return, TypeOK, LM!TypeOK, ControlTypes, localVars, history, budgets
    <3> QED
      BY <3>1, <3>2
  <2>5. ASSUME NEW t \in Threads, Command(t)
        PROVE  HostTypes' /\ ControlTypes'
    <3>1. HostTypes'
      BY <2>5, CommandTypes
    <3>2. Commanded(t)
      BY <2>5, CommandFrame
    <3>3. ControlTypes'
      BY <3>2 DEF Commanded, TypeOK, ControlTypes, lockVars, history, budgets, ConfigureSteps, DeleteSteps
    <3> QED
      BY <3>1, <3>3
  <2>6. ASSUME NEW t \in Threads, CommandFails(t)
        PROVE  HostTypes' /\ ControlTypes'
    <3>1. HostTypes'
      BY <2>6 DEF CommandFails, TypeOK, HostTypes, hostVars
    <3>2. faults' \in 0..MaxFaults
      BY <2>6, BoundsAssumption DEF CommandFails, TypeOK
    <3>3. /\ UNCHANGED <<lockVars, want, overlapped, losses, crashes>>
          /\ step[t] \in ConfigureSteps \union DeleteSteps
          /\ step' = [step EXCEPT ![t] = AfterFailure(step[t])]
          /\ unseen' \subseteq Unseeable
      BY <2>6, FaultsAssumption DEF CommandFails, TypeOK
    <3>4. ControlTypes'
      BY <3>2, <3>3, AfterFailureTypes
         DEF TypeOK, ControlTypes, lockVars, ConfigureSteps, DeleteSteps
    <3> QED
      BY <3>1, <3>4
  <2>7. ASSUME NEW t \in Threads, RouteFails(t)
        PROVE  HostTypes' /\ ControlTypes'
    <3>1. HostTypes'
      BY <2>7, CurrentType DEF RouteFails, TypeOK, HostTypes, hostVars
    <3>2. faults' \in 0..MaxFaults
      BY <2>7, BoundsAssumption DEF RouteFails, TypeOK
    <3>3. unseen' \subseteq Unseeable
      BY <2>7 DEF RouteFails, TypeOK, Unseeable
    <3>4. ControlTypes'
      BY <2>7, <3>2, <3>3 DEF RouteFails, TypeOK, ControlTypes, lockVars
    <3> QED
      BY <3>1, <3>4
  <2>8. CASE LinkLost
    <3>1. HostTypes'
      BY <2>8, NoLinkType DEF LinkLost, TypeOK, HostTypes, localVars
    <3>2. losses' \in 0..MaxLosses
      BY <2>8, BoundsAssumption DEF LinkLost, TypeOK
    <3>3. ControlTypes'
      BY <2>8, <3>2 DEF LinkLost, TypeOK, ControlTypes, localVars, lockVars, history
    <3> QED
      BY <3>1, <3>3
  <2>9. CASE Crash
    <3>1. HostTypes'
      BY <2>9 DEF Crash, TypeOK, HostTypes, hostVars
    <3>2. crashes' \in 0..MaxCrashes
      BY <2>9, BoundsAssumption DEF Crash, TypeOK
    <3>3. ControlTypes'
      BY <2>9, <3>2 DEF Crash, TypeOK, ControlTypes, LM!Restart, history, ConfigureSteps
    <3> QED
      BY <3>1, <3>3
  <2>10. CASE UNCHANGED vars
    <3>1. HostTypes'
      BY <2>10 DEF vars, TypeOK, HostTypes, hostVars, localVars
    <3>2. ControlTypes'
      BY <2>10 DEF vars, TypeOK, ControlTypes, localVars, lockVars, history, budgets
    <3> QED
      BY <3>1, <3>2
  <2> QED
    BY <2>1, <2>2, <2>3, <2>4, <2>5, <2>6, <2>7, <2>8, <2>9, <2>10 DEF Next, Sync, RunStep
<1> QED
  BY <1>1, <1>2, LockTyping, PTL DEF Spec

-----------------------------------------------------------------------------

\* The inductive invariant behind ActiveReportIsTrue and UpLinkIsConfigured.
\* While operations have never overlapped, the one that runs has written the
\* file it applies, and what it has applied so far is in the kernel unless
\* the interface was lost.
AfterSetconf == {"flush", "addr", "up", "marks", "list", "dels", "adds", "active"}
AfterAddress == {"up", "marks", "list", "dels", "adds", "active"}

Alone == \A t, u \in Threads : step[t] # "idle" /\ step[u] # "idle" => t = u

AppliedBy(t) ==
  /\ step[t] = "setconf" => file = BuildConf(want[t])
  /\ step[t] \in AfterSetconf /\ link.exists => link.conf = BuildConf(want[t])
  /\ step[t] \in AfterAddress /\ link.exists => want[t].addr \in Range(link.addrs)

UpConf == link.up => link.conf \in {BuildConf(d) : d \in Dicts}

AppliedInv == ~overlapped => Alone /\ UpConf /\ \A t \in Threads : AppliedBy(t)

\* A step of thread t that leaves the interface and the file alone, or of a
\* thread that runs alone, concerns no other thread's part of the invariant.
LEMMA OthersApplied ==
  ASSUME AppliedInv, ~overlapped, NEW t \in Threads, step[t] # "idle",
         \A u \in Threads \ {t} : step'[u] = step[u]
  PROVE  \A u \in Threads \ {t} : step'[u] = "idle"
BY DEF AppliedInv, Alone

\* Commands, run by a thread that is alone, keep the invariant.
LEMMA CommandApplies ==
  ASSUME TypeOK, AppliedInv, ~overlapped, NEW t \in Threads, Command(t)
  PROVE  UpConf' /\ AppliedBy(t)'
<1> USE DEF TypeOK, AppliedInv, AppliedBy, UpConf, AfterSetconf, AfterAddress, Move, Refused, hostVars
<1>1. step[t] \in ConfigureSteps => want[t] \in Dicts
  OBVIOUS
<1>2. CASE Show(t) \/ Check(t) \/ RestoreMarks(t) \/ ListRoutes(t) \/ Report(t) \/ Unmark(t)
  BY <1>2 DEF Show, Check, RestoreMarks, ListRoutes, Report, Unmark
<1>3. CASE Add(t)
  <2>1. ~[NoLink EXCEPT !.exists = TRUE].up
    BY DEF NoLink
  <2> QED
    BY <1>3, <2>1 DEF Add
<1>4. CASE OpenConf(t) \/ FillConf(t) \/ Unlink(t)
  BY <1>4 DEF OpenConf, FillConf, Unlink
<1>5. CASE Setconf(t)
  <2>1. file = BuildConf(want[t]) /\ want[t] \in Dicts
    BY <1>1, <1>5 DEF Setconf, ConfigureSteps
  <2>2. CASE Refused(t, "setconf")
    BY <2>2
  <2>3. CASE ~Refused(t, "setconf")
    <3>1. link' = [link EXCEPT !.conf = file] /\ step' = [step EXCEPT ![t] = "flush"] /\ want' = want
      BY <1>5, <2>3 DEF Setconf
    <3>2. link'.conf = file /\ step'[t] = "flush"
      BY <3>1 DEF Links
    <3> QED
      BY <2>1, <3>1, <3>2
  <2> QED
    BY <2>2, <2>3
<1>6. CASE Flush(t)
  <2>1. link'.conf = link.conf /\ link'.exists = link.exists /\ link'.up = link.up
    BY <1>6 DEF Flush, Links
  <2> QED
    BY <1>6, <2>1 DEF Flush
<1>7. CASE SetAddress(t)
  <2>1. CASE Refused(t, "addr")
    BY <2>1
  <2>2. CASE ~Refused(t, "addr")
    <3>1. link.conf = BuildConf(want[t]) /\ want[t] \in Dicts
      BY <1>1, <1>7, <2>2 DEF SetAddress, ConfigureSteps
    <3>2. /\ link'.conf = link.conf /\ link'.exists = link.exists /\ link'.up = link.up
          /\ link'.addrs = Append(link.addrs, want[t].addr)
      BY <1>7, <2>2 DEF SetAddress, Links
    <3>3. link.addrs \in Seq(Addresses) /\ want[t].addr \in Addresses
      BY <3>1, DictTypes DEF Links
    <3>4. want[t].addr \in Range(link'.addrs)
      BY <3>2, <3>3 DEF Range
    <3> QED
      BY <1>7, <2>2, <3>1, <3>2, <3>4 DEF SetAddress
  <2> QED
    BY <2>1, <2>2
<1>8. CASE BringUp(t)
  <2>1. /\ link'.conf = link.conf /\ link'.exists = link.exists
        /\ link'.addrs = link.addrs
    BY <1>8 DEF BringUp, Links
  <2>2. link.exists => link.conf \in {BuildConf(d) : d \in Dicts}
    BY <1>1, <1>8 DEF BringUp, ConfigureSteps
  <2>3. ~link.exists => ~link'.up
    BY <1>8 DEF BringUp, NoLink
  <2> QED
    BY <1>8, <2>1, <2>2, <2>3 DEF BringUp
<1>9. CASE DelRoute(t) \/ AddRoute(t)
  <2>1. RouteFrame(t)
    BY <1>9, DelFrame, AddFrame
  <2>2. step[t] \in {"dels", "adds"} /\ step'[t] \in {"dels", "adds", "active"}
    BY <1>9 DEF DelRoute, AddRoute
  <2> QED
    BY <2>1, <2>2 DEF RouteFrame
<1>10. CASE Destroy(t)
  BY <1>10 DEF Destroy, NoLink
<1> QED
  BY <1>2, <1>3, <1>4, <1>5, <1>6, <1>7, <1>8, <1>9, <1>10 DEF Command

LEMMA AppliedStep == TypeOK /\ AppliedInv /\ [Next]_vars => AppliedInv'
<1> SUFFICES ASSUME TypeOK, AppliedInv, [Next]_vars, ~overlapped'
             PROVE  Alone' /\ UpConf' /\ \A t \in Threads : AppliedBy(t)'
  BY DEF AppliedInv
<1> USE DEF AppliedInv
<1>1. ASSUME NEW t \in Threads, NEW kind, NEW d, Begin(t, kind, d)
      PROVE  Alone' /\ UpConf' /\ \A u \in Threads : AppliedBy(u)'
  <2>1. UNCHANGED <<link, file, step, overlapped>> /\ \A u \in Threads \ {t} : want'[u] = want[u]
    BY <1>1 DEF Begin, hostVars, history, TypeOK
  <2>2. step[t] = "idle"
    BY <1>1 DEF Begin, LM!GetLock, TypeOK
  <2> QED
    BY <2>1, <2>2 DEF Alone, UpConf, AppliedBy, AfterSetconf, AfterAddress
<1>2. ASSUME NEW t \in Threads, Enter(t)
      PROVE  Alone' /\ UpConf' /\ \A u \in Threads : AppliedBy(u)'
  <2>1. ~overlapped /\ \A u \in Threads : step[u] = "idle"
    BY <1>2 DEF Enter, TypeOK
  <2>2. UNCHANGED <<link, file, want>>
    BY <1>2 DEF Enter, hostVars
  <2>3. step'[t] \in {"unmark", "show"} /\ \A u \in Threads \ {t} : step'[u] = "idle"
    BY <1>2, <2>1 DEF Enter, TypeOK
  <2> QED
    BY <2>1, <2>2, <2>3 DEF Alone, UpConf, AppliedBy, AfterSetconf, AfterAddress
<1>3. ASSUME NEW t \in Threads, Leave(t)
      PROVE  Alone' /\ UpConf' /\ \A u \in Threads : AppliedBy(u)'
  <2>1. /\ UNCHANGED <<link, file, overlapped>> /\ step'[t] = "idle"
        /\ \A u \in Threads \ {t} : want'[u] = want[u] /\ step'[u] = step[u]
    BY <1>3 DEF Leave, hostVars, history, TypeOK
  <2> QED
    BY <2>1 DEF Alone, UpConf, AppliedBy, AfterSetconf, AfterAddress
<1>4. ASSUME NEW t \in Threads, Forget(t)
      PROVE  Alone' /\ UpConf' /\ \A u \in Threads : AppliedBy(u)'
  BY <1>4 DEF Forget, hostVars, localVars, history, Alone, UpConf, AppliedBy
<1>5. ASSUME NEW t \in Threads, Command(t)
      PROVE  Alone' /\ UpConf' /\ \A u \in Threads : AppliedBy(u)'
  <2>1. Commanded(t)
    BY <1>5, CommandFrame
  <2>2. ~overlapped /\ step[t] # "idle" /\ \A u \in Threads \ {t} : step'[u] = step[u]
    BY <2>1 DEF Commanded, history, TypeOK
  <2>3. \A u \in Threads \ {t} : step'[u] = "idle"
    BY <2>2, OthersApplied
  <2>4. UpConf' /\ AppliedBy(t)'
    BY <1>5, <2>2, CommandApplies
  <2> QED
    BY <2>3, <2>4 DEF Alone, AppliedBy, AfterSetconf, AfterAddress
<1>6. ASSUME NEW t \in Threads, CommandFails(t)
      PROVE  Alone' /\ UpConf' /\ \A u \in Threads : AppliedBy(u)'
  <2>1. UNCHANGED <<link, file, want, overlapped>> /\ step' = [step EXCEPT ![t] = AfterFailure(step[t])]
    BY <1>6 DEF CommandFails, hostVars
  <2>2. step[t] \in ConfigureSteps \union DeleteSteps
    BY <1>6, FaultsAssumption DEF CommandFails
  <2>3. step[t] # "idle"
    BY <2>2 DEF ConfigureSteps, DeleteSteps
  <2>4. \A u \in Threads \ {t} : step'[u] = step[u]
    BY <2>1 DEF TypeOK
  <2>5. \A u \in Threads \ {t} : step'[u] = "idle"
    BY <2>1, <2>3, <2>4, OthersApplied
  <2>6. step'[t] = AfterFailure(step[t])
    BY <2>1 DEF TypeOK
  <2>7. /\ AfterFailure(step[t]) # "setconf"
        /\ AfterFailure(step[t]) \in AfterSetconf => step[t] \in AfterSetconf
        /\ AfterFailure(step[t]) \in AfterAddress => step[t] \in AfterAddress
    BY <2>2 DEF AfterFailure, ConfigureSteps, DeleteSteps, AfterSetconf, AfterAddress
  <2>8. UpConf' /\ AppliedBy(t)'
    BY <2>1, <2>6, <2>7 DEF UpConf, AppliedBy
  <2> QED
    BY <2>5, <2>8 DEF Alone, AppliedBy, AfterSetconf, AfterAddress
<1>7. ASSUME NEW t \in Threads, RouteFails(t)
      PROVE  Alone' /\ UpConf' /\ \A u \in Threads : AppliedBy(u)'
  BY <1>7 DEF RouteFails, hostVars, Alone, UpConf, AppliedBy
<1>8. CASE LinkLost
  BY <1>8 DEF LinkLost, localVars, history, NoLink, Alone, UpConf, AppliedBy
<1>9. CASE Crash
  <2>1. UNCHANGED <<link, overlapped>> /\ \A u \in Threads : step'[u] = "idle"
    BY <1>9 DEF Crash, hostVars, history
  <2> QED
    BY <2>1 DEF Alone, UpConf, AppliedBy, AfterSetconf, AfterAddress
<1>10. CASE UNCHANGED vars
  BY <1>10 DEF vars, hostVars, localVars, history, Alone, UpConf, AppliedBy
<1> QED
  BY <1>1, <1>2, <1>3, <1>4, <1>5, <1>6, <1>7, <1>8, <1>9, <1>10 DEF Next, Sync, RunStep

LEMMA AppliedInvariant == Spec => []AppliedInv
<1>1. Init => AppliedInv
  BY DEF Init, AppliedInv, Alone, UpConf, AppliedBy, NoLink, AfterSetconf, AfterAddress
<1> QED
  BY <1>1, AppliedStep, AgentTyping, PTL DEF Spec

\* Whatever fails, crashes or is lost, an operation that did not overlap with
\* another one reports ACTIVE only when its configuration is in the kernel.
THEOREM ActiveIsTrue == Spec => []ActiveReportIsTrue
<1>1. AppliedInv => ActiveReportIsTrue
  BY DEF AppliedInv, ActiveReportIsTrue, AppliedBy, AfterSetconf, AfterAddress
<1> QED
  BY <1>1, AppliedInvariant, PTL

\* And an interface that is up never runs the configuration of a truncated file.
THEOREM UpIsConfigured == Spec => []UpLinkIsConfigured
<1>1. AppliedInv => UpLinkIsConfigured
  BY DEF AppliedInv, UpLinkIsConfigured, UpConf
<1> QED
  BY <1>1, AppliedInvariant, PTL

-----------------------------------------------------------------------------

\* The invariant behind NoStaleInetRoutes and NoMissingRoutes.  What a thread
\* has listed covers the IPv4 routes of the interface and, while the interface
\* is up, is still there, command after command, until nothing but allowed IPs
\* is left; from then on what it has listed or added is there.
RoutesBy(t) ==
  /\ unseen \intersect {"list", "dels"} = {} =>
       /\ step[t] = "dels" => link.routes \ Inet6 \subseteq current[t]
       /\ step[t] \in {"adds", "active"} => link.routes \ Inet6 \subseteq Range(want[t].ips)
  /\ link.up =>
       /\ step[t] = "dels" => current[t] \subseteq link.routes
       /\ "adds" \notin unseen /\ step[t] = "adds" => current[t] \subseteq link.routes
       /\ "adds" \notin unseen /\ step[t] = "active" => Range(want[t].ips) \subseteq link.routes

Unlisted == \A t \in Threads : step[t] \notin {"dels", "adds"} => current[t] = {}

RoutesInv == Unlisted /\ (~overlapped => \A t \in Threads : RoutesBy(t))

LEMMA CommandRoutes ==
  ASSUME TypeOK, RoutesInv, ~overlapped, NEW t \in Threads, Command(t)
  PROVE  RoutesBy(t)'
<1> USE DEF TypeOK, RoutesInv, Unlisted, RoutesBy, Move, Refused, hostVars, history
<1>1. CASE Show(t) \/ Add(t) \/ Check(t) \/ OpenConf(t) \/ FillConf(t) \/ RestoreMarks(t)
  BY <1>1 DEF Show, Add, Check, OpenConf, FillConf, RestoreMarks
<1>2. CASE Setconf(t) \/ Flush(t) \/ SetAddress(t) \/ BringUp(t)
  BY <1>2 DEF Setconf, Flush, SetAddress, BringUp
<1>3. CASE ListRoutes(t)
  <2>1. step'[t] = "dels" /\ current'[t] = link.routes \ Inet6 /\ link' = link
    BY <1>3 DEF ListRoutes
  <2> QED
    BY <2>1
<1>4. CASE DelRoute(t)
  <2>1. step[t] = "dels" /\ UNCHANGED <<want, unseen>> /\ link'.up = link.up
    BY <1>4, DelFrame DEF DelRoute, RouteFrame
  <2>2. CASE Stale(t) = {} /\ step'[t] = "adds" /\ UNCHANGED <<link, current>>
    BY <2>1, <2>2 DEF Stale
  <2>3. ASSUME NEW c \in Stale(t), link' = [link EXCEPT !.routes = @ \ {c}], Removed(t, c),
               step'[t] = "dels"
        PROVE  RoutesBy(t)'
    <3>1. link'.routes = link.routes \ {c} /\ current'[t] = current[t] \ {c}
      BY <2>3 DEF Links, Removed
    <3> QED
      BY <2>1, <2>3, <3>1
  <2> QED
    BY <1>4, <2>2, <2>3 DEF DelRoute
<1>5. CASE AddRoute(t)
  <2>1. step[t] = "adds" /\ UNCHANGED <<want, unseen>> /\ link'.up = link.up
    BY <1>5, AddFrame DEF AddRoute, RouteFrame
  <2>2. CASE Missing(t) = {} /\ step'[t] = "active" /\ UNCHANGED link
    BY <2>1, <2>2 DEF Missing
  <2>3. ASSUME NEW c \in Missing(t), Tried(t, c), step'[t] = "adds",
               link' = [link EXCEPT !.routes = IF link.up THEN @ \union {c} ELSE @]
        PROVE  RoutesBy(t)'
    <3>1. /\ link'.routes = IF link.up THEN link.routes \union {c} ELSE link.routes
          /\ current'[t] = current[t] \union {c} /\ c \in Range(want[t].ips)
      BY <2>3 DEF Links, Tried, Missing
    <3> QED
      BY <2>1, <2>3, <3>1
  <2> QED
    BY <1>5, <2>2, <2>3 DEF AddRoute
<1>6. CASE Report(t) \/ Unmark(t) \/ Destroy(t) \/ Unlink(t)
  BY <1>6 DEF Report, Unmark, Destroy, Unlink
<1> QED
  BY <1>1, <1>2, <1>3, <1>4, <1>5, <1>6 DEF Command

LEMMA UnlistedStep == TypeOK /\ Unlisted /\ [Next]_vars => Unlisted'
<1> SUFFICES ASSUME TypeOK, Unlisted, [Next]_vars PROVE Unlisted'
  OBVIOUS
<1> USE DEF TypeOK, Unlisted
<1>1. ASSUME NEW t \in Threads, NEW kind, NEW d, Begin(t, kind, d) PROVE Unlisted'
  BY <1>1 DEF Begin
<1>2. ASSUME NEW t \in Threads, RunStep(t) PROVE Unlisted'
  <2>1. CASE Enter(t) \/ Forget(t)
    BY <2>1 DEF Enter, LM!Acquire, Forget, localVars
  <2>2. CASE Leave(t)
    BY <2>2 DEF Leave
  <2>3. CASE Command(t)
    <3> USE DEF Move, Refused
    <3>1. CASE Show(t) \/ Add(t) \/ Check(t) \/ OpenConf(t) \/ FillConf(t) \/ RestoreMarks(t)
      BY <3>1 DEF Show, Add, Check, OpenConf, FillConf, RestoreMarks
    <3>2. CASE Setconf(t) \/ Flush(t) \/ SetAddress(t) \/ BringUp(t)
      BY <3>2 DEF Setconf, Flush, SetAddress, BringUp
    <3>3. CASE ListRoutes(t) \/ DelRoute(t) \/ AddRoute(t)
      BY <3>3 DEF ListRoutes, DelRoute, AddRoute, Removed, Tried
    <3>4. CASE Report(t) \/ Unmark(t) \/ Destroy(t) \/ Unlink(t)
      BY <3>4 DEF Report, Unmark, Destroy, Unlink
    <3> QED
      BY <2>3, <3>1, <3>2, <3>3, <3>4 DEF Command
  <2> QED
    BY <1>2, <2>1, <2>2, <2>3 DEF RunStep
<1>3. ASSUME NEW t \in Threads, CommandFails(t) \/ RouteFails(t) PROVE Unlisted'
  BY <1>3 DEF CommandFails, RouteFails, Removed, Tried
<1>4. CASE LinkLost \/ UNCHANGED vars
  BY <1>4 DEF LinkLost, vars, localVars
<1>5. CASE Crash
  BY <1>5 DEF Crash
<1> QED
  BY <1>1, <1>2, <1>3, <1>4, <1>5 DEF Next, Sync

LEMMA RoutesStep == TypeOK /\ AppliedInv /\ RoutesInv /\ [Next]_vars => RoutesInv'
<1> SUFFICES ASSUME TypeOK, AppliedInv, RoutesInv, [Next]_vars, ~overlapped'
             PROVE  \A t \in Threads : RoutesBy(t)'
  BY UnlistedStep DEF RoutesInv
<1>1. ASSUME NEW t \in Threads, NEW kind, NEW d, Begin(t, kind, d)
      PROVE  \A u \in Threads : RoutesBy(u)'
  <2>1. /\ UNCHANGED <<link, step, current, history>>
        /\ \A u \in Threads \ {t} : want'[u] = want[u]
    BY <1>1 DEF Begin, hostVars, TypeOK
  <2>2. step[t] = "idle"
    BY <1>1 DEF Begin, LM!GetLock, TypeOK
  <2> QED
    BY <2>1, <2>2 DEF RoutesInv, RoutesBy, history
<1>2. ASSUME NEW t \in Threads, Enter(t)
      PROVE  \A u \in Threads : RoutesBy(u)'
  <2>1. step'[t] \in {"unmark", "show"} /\ \A u \in Threads \ {t} : step'[u] = "idle"
    BY <1>2 DEF Enter, TypeOK
  <2> QED
    BY <2>1 DEF RoutesBy
<1>3. ASSUME NEW t \in Threads, Leave(t)
      PROVE  \A u \in Threads : RoutesBy(u)'
  <2>1. /\ UNCHANGED <<link, history>> /\ step'[t] = "idle"
        /\ \A u \in Threads \ {t} :
             want'[u] = want[u] /\ step'[u] = step[u] /\ current'[u] = current[u]
    BY <1>3 DEF Leave, hostVars, TypeOK
  <2> QED
    BY <2>1 DEF RoutesInv, RoutesBy, history
<1>4. ASSUME NEW t \in Threads, Forget(t)
      PROVE  \A u \in Threads : RoutesBy(u)'
  BY <1>4 DEF Forget, hostVars, localVars, history, RoutesInv, RoutesBy
<1>5. ASSUME NEW t \in Threads, Command(t)
      PROVE  \A u \in Threads : RoutesBy(u)'
  <2>1. Commanded(t)
    BY <1>5, CommandFrame
  <2>2. ~overlapped /\ step[t] # "idle" /\ \A u \in Threads \ {t} : step'[u] = step[u]
    BY <2>1 DEF Commanded, TypeOK, history
  <2>3. \A u \in Threads \ {t} : step'[u] = "idle"
    BY <2>2, OthersApplied
  <2>4. RoutesBy(t)'
    BY <1>5, <2>2, CommandRoutes
  <2> QED
    BY <2>3, <2>4 DEF RoutesBy
<1>6. ASSUME NEW t \in Threads, CommandFails(t)
      PROVE  \A u \in Threads : RoutesBy(u)'
  <2>1. UNCHANGED <<link, want, current, overlapped>>
        /\ step' = [step EXCEPT ![t] = AfterFailure(step[t])]
        /\ unseen' = unseen \union ({step[t]} \intersect Unseeable)
    BY <1>6 DEF CommandFails, hostVars
  <2>2. step[t] \in (ConfigureSteps \union DeleteSteps) \ {"dels", "adds"}
    BY <1>6, FaultsAssumption DEF CommandFails
  <2>3. step'[t] = AfterFailure(step[t]) /\ \A u \in Threads \ {t} : step'[u] = step[u]
    BY <2>1 DEF TypeOK
  <2>4. /\ AfterFailure(step[t]) \notin {"adds", "active"}
        /\ AfterFailure(step[t]) = "dels" => step[t] = "list"
    BY <2>2 DEF AfterFailure, ConfigureSteps, DeleteSteps
  <2>5. step[t] = "list" => "list" \in unseen' /\ current'[t] = {}
    BY <2>1 DEF Unseeable, RoutesInv, Unlisted
  <2>6. RoutesBy(t)'
    BY <2>3, <2>4, <2>5 DEF RoutesBy
  <2>7. \A u \in Threads \ {t} : RoutesBy(u)'
    BY <2>1, <2>3 DEF RoutesInv, RoutesBy
  <2> QED
    BY <2>6, <2>7
<1>7. ASSUME NEW t \in Threads, RouteFails(t)
      PROVE  \A u \in Threads : RoutesBy(u)'
  <2>1. UNCHANGED <<link, want, step, overlapped>> /\ unseen' = unseen \union {step[t]}
    BY <1>7 DEF RouteFails, hostVars
  <2>2. CASE step[t] = "dels" /\ \E c \in Stale(t) : Removed(t, c)
    <3>1. "dels" \in unseen' /\ unseen \subseteq unseen'
      BY <2>1, <2>2
    <3>2. current'[t] \subseteq current[t] /\ \A u \in Threads \ {t} : current'[u] = current[u]
      BY <2>2 DEF Removed, TypeOK
    <3>3. ASSUME NEW u \in Threads PROVE RoutesBy(u)'
      <4>1. RoutesBy(u) /\ current'[u] \subseteq current[u]
        BY <2>1, <3>2 DEF RoutesInv
      <4>2. ~(unseen' \intersect {"list", "dels"} = {})
        BY <3>1
      <4> QED
        BY <2>1, <2>2, <3>1, <3>2, <4>1, <4>2 DEF RoutesBy
    <3> QED
      BY <3>3
  <2>3. CASE step[t] = "adds" /\ \E c \in Missing(t) : Tried(t, c)
    BY <2>1, <2>3 DEF Tried, TypeOK, RoutesInv, RoutesBy
  <2> QED
    BY <1>7, <2>2, <2>3 DEF RouteFails
<1>8. CASE LinkLost
  BY <1>8 DEF LinkLost, localVars, history, NoLink, RoutesInv, RoutesBy
<1>9. CASE Crash
  <2>1. \A u \in Threads : step'[u] = "idle"
    BY <1>9 DEF Crash
  <2> QED
    BY <2>1 DEF RoutesBy
<1>10. CASE UNCHANGED vars
  BY <1>10 DEF vars, hostVars, localVars, history, RoutesInv, RoutesBy
<1> QED
  BY <1>1, <1>2, <1>3, <1>4, <1>5, <1>6, <1>7, <1>8, <1>9, <1>10 DEF Next, Sync, RunStep

LEMMA RoutesInvariant == Spec => []RoutesInv
<1>1. Init => RoutesInv
  BY DEF Init, RoutesInv, Unlisted, RoutesBy
<1> QED
  BY <1>1, RoutesStep, AppliedInvariant, AgentTyping, PTL DEF Spec

\* An operation of which no listing and no removal of a route failed leaves no
\* IPv4 route but to its allowed IPs, whatever routes, addresses and other
\* failures came before, in whatever order it removes and adds.
THEOREM StaleRoutesGo == Spec => []NoStaleInetRoutes
<1>1. RoutesInv => NoStaleInetRoutes
  BY DEF RoutesInv, RoutesBy, NoStaleInetRoutes
<1> QED
  BY <1>1, RoutesInvariant, PTL

\* An operation on an interface that is up leaves all its allowed IPs routed,
\* unless an "ip route add" failed.
THEOREM RoutesCome == Spec => []NoMissingRoutes
<1>1. RoutesInv => NoMissingRoutes
  BY DEF RoutesInv, RoutesBy, NoMissingRoutes
<1> QED
  BY <1>1, RoutesInvariant, PTL

-----------------------------------------------------------------------------

\* The invariant behind QuietActiveMeansApplied.  Between creating the
\* interface (or finding a change) and reporting, the file and the kernel may
\* differ; outside of that an ACTIVE report stands for what the kernel runs,
\* because every failure on the way has replaced it by ERROR.
Reworking == ConfigureSteps \ {"show", "add", "check"}

Told == ~overlapped /\ crashes = 0 /\ "error" \notin unseen

FileWritten(t) == step[t] \in AfterSetconf => file = BuildConf(want[t])

Settled ==
  (\A t \in Threads : step[t] \notin Reworking) /\ reported = "ACTIVE"
    /\ link.exists /\ file # None => link.conf = file /\ link.addrs # << >>

SettledInv == Told => Settled /\ \A t \in Threads : FileWritten(t)

LEMMA CommandSettles ==
  ASSUME TypeOK, AppliedInv, SettledInv, Told, NEW t \in Threads, Command(t)
  PROVE  Settled' /\ FileWritten(t)'
<1> USE DEF TypeOK, SettledInv, Settled, FileWritten, Move, Refused, hostVars
<1>0. step[t] \in AfterSetconf \union {"setconf"} => AppliedBy(t)
  BY DEF AppliedInv, Told
<1>1. CASE Show(t) \/ Check(t) \/ Unmark(t)
  BY <1>1 DEF Show, Check, Unmark, Reworking, ConfigureSteps, AfterSetconf
<1>2. CASE Add(t)
  BY <1>2 DEF Add, Reworking, ConfigureSteps, AfterSetconf
<1>3. CASE OpenConf(t) \/ FillConf(t)
  BY <1>3 DEF OpenConf, FillConf, Reworking, ConfigureSteps, AfterSetconf
<1>4. CASE Setconf(t)
  BY <1>0, <1>4 DEF Setconf, Reworking, ConfigureSteps, AfterSetconf, AppliedBy
<1>5. CASE Flush(t) \/ SetAddress(t) \/ BringUp(t)
  BY <1>5 DEF Flush, SetAddress, BringUp, Reworking, ConfigureSteps, AfterSetconf
<1>6. CASE RestoreMarks(t) \/ ListRoutes(t) \/ DelRoute(t) \/ AddRoute(t)
  BY <1>6 DEF RestoreMarks, ListRoutes, DelRoute, AddRoute, Reworking, ConfigureSteps, AfterSetconf
<1>7. CASE Report(t)
  <2>1. step'[t] = "done" /\ link' = link /\ file' = file
    BY <1>7 DEF Report
  <2>2. CASE step[t] = "error"
    BY <1>7, <2>1, <2>2 DEF Report, AfterSetconf
  <2>3. CASE step[t] = "active"
    <3>1. link.exists => link.conf = file /\ want[t].addr \in Range(link.addrs)
      BY <1>0, <2>3 DEF AppliedBy, AfterSetconf, AfterAddress
    <3>2. Range(<< >>) = {}
      BY DEF Range
    <3> QED
      BY <2>1, <3>1, <3>2 DEF AfterSetconf
  <2> QED
    BY <1>7, <2>2, <2>3 DEF Report
<1>8. CASE Destroy(t)
  BY <1>8 DEF Destroy, NoLink, AfterSetconf
<1>9. CASE Unlink(t)
  BY <1>9 DEF Unlink, AfterSetconf
<1> QED
  BY <1>1, <1>2, <1>3, <1>4, <1>5, <1>6, <1>7, <1>8, <1>9 DEF Command

LEMMA FailureSettles ==
  ASSUME TypeOK, AppliedInv, SettledInv, Told, Told', NEW t \in Threads, CommandFails(t)
  PROVE  Settled' /\ FileWritten(t)'
<1> USE DEF TypeOK, SettledInv
<1>1. /\ UNCHANGED <<link, file, want, reported>>
      /\ step' = [step EXCEPT ![t] = AfterFailure(step[t])]
      /\ unseen' = unseen \union ({step[t]} \intersect Unseeable)
  BY DEF CommandFails, hostVars
<1>2. step'[t] = AfterFailure(step[t]) /\ \A u \in Threads \ {t} : step'[u] = step[u]
  BY <1>1
<1>3. step[t] \in (ConfigureSteps \union DeleteSteps) \ {"error"}
  BY <1>1, FaultsAssumption DEF CommandFails, Told, Unseeable
<1>4. FileWritten(t)'
  <2>1. AfterFailure(step[t]) \in AfterSetconf => step[t] \in AfterSetconf
    BY <1>3 DEF AfterFailure, ConfigureSteps, DeleteSteps, AfterSetconf
  <2> QED
    BY <1>1, <1>2, <2>1 DEF FileWritten
<1>5. Settled'
  <2>1. CASE step[t] = "active"
    <3>1. link.exists => link.conf = file /\ want[t].addr \in Range(link.addrs)
      BY <2>1 DEF AppliedInv, Told, AppliedBy, FileWritten, AfterSetconf, AfterAddress
    <3>2. Range(<< >>) = {}
      BY DEF Range
    <3> QED
      BY <1>1, <3>1, <3>2 DEF Settled
  <2>2. CASE step[t] \in Reworking \ {"active"}
    <3>1. AfterFailure(step[t]) \in Reworking
      BY <1>3, <2>2 DEF AfterFailure, Reworking, ConfigureSteps
    <3> QED
      BY <1>2, <3>1 DEF Settled
  <2>3. CASE step[t] \notin Reworking
    BY <1>1, <1>2, <2>3 DEF Settled
  <2> QED
    BY <2>1, <2>2, <2>3
<1> QED
  BY <1>4, <1>5

LEMMA SettledStep == TypeOK /\ AppliedInv /\ SettledInv /\ [Next]_vars => SettledInv'
<1> SUFFICES ASSUME TypeOK, AppliedInv, SettledInv, [Next]_vars, Told'
             PROVE  Settled' /\ \A t \in Threads : FileWritten(t)'
  BY DEF SettledInv
<1> USE DEF SettledInv
<1>1. ASSUME NEW t \in Threads, NEW kind, NEW d, Begin(t, kind, d)
      PROVE  Settled' /\ \A u \in Threads : FileWritten(u)'
  <2>1. /\ UNCHANGED <<link, file, step, reported>> /\ Told
        /\ \A u \in Threads \ {t} : want'[u] = want[u]
    BY <1>1 DEF Begin, hostVars, history, budgets, Told, TypeOK
  <2>2. step[t] = "idle"
    BY <1>1 DEF Begin, LM!GetLock, TypeOK
  <2> QED
    BY <2>1, <2>2 DEF Settled, FileWritten, AfterSetconf
<1>2. ASSUME NEW t \in Threads, Enter(t)
      PROVE  Settled' /\ \A u \in Threads : FileWritten(u)'
  <2>1. UNCHANGED <<link, file, want, reported>> /\ Told /\ \A u \in Threads : step[u] = "idle"
    BY <1>2 DEF Enter, hostVars, budgets, Told, TypeOK
  <2>2. step'[t] \in {"unmark", "show"} /\ \A u \in Threads \ {t} : step'[u] = "idle"
    BY <1>2, <2>1 DEF Enter, TypeOK
  <2>3. \A u \in Threads : step[u] \notin Reworking
    BY <2>1 DEF Reworking, ConfigureSteps
  <2> QED
    BY <2>1, <2>2, <2>3 DEF Settled, FileWritten, AfterSetconf
<1>3. ASSUME NEW t \in Threads, Leave(t)
      PROVE  Settled' /\ \A u \in Threads : FileWritten(u)'
  <2>1. /\ UNCHANGED <<link, file, reported>> /\ Told /\ step'[t] = "idle"
        /\ \A u \in Threads \ {t} : want'[u] = want[u] /\ step'[u] = step[u]
    BY <1>3 DEF Leave, hostVars, history, budgets, Told, TypeOK
  <2>2. step[t] \notin Reworking
    BY <1>3 DEF Leave, Reworking, ConfigureSteps
  <2> QED
    BY <2>1, <2>2 DEF Settled, FileWritten, AfterSetconf
<1>4. ASSUME NEW t \in Threads, Forget(t)
      PROVE  Settled' /\ \A u \in Threads : FileWritten(u)'
  BY <1>4 DEF Forget, hostVars, localVars, history, budgets, Told, Settled, FileWritten
<1>5. ASSUME NEW t \in Threads, Command(t)
      PROVE  Settled' /\ \A u \in Threads : FileWritten(u)'
  <2>1. Commanded(t)
    BY <1>5, CommandFrame
  <2>2. Told /\ step[t] # "idle" /\ \A u \in Threads \ {t} : step'[u] = step[u]
    BY <2>1 DEF Commanded, TypeOK, history, budgets, Told
  <2>3. \A u \in Threads \ {t} : step'[u] = "idle"
    BY <2>2, OthersApplied DEF Told
  <2>4. Settled' /\ FileWritten(t)'
    BY <1>5, <2>2, CommandSettles
  <2> QED
    BY <2>3, <2>4 DEF FileWritten, AfterSetconf
<1>6. ASSUME NEW t \in Threads, CommandFails(t)
      PROVE  Settled' /\ \A u \in Threads : FileWritten(u)'
  <2>1. Told /\ step[t] # "idle"
    BY <1>6, FaultsAssumption DEF CommandFails, Told, ConfigureSteps, DeleteSteps
  <2>2. \A u \in Threads \ {t} : step'[u] = step[u]
    BY <1>6 DEF CommandFails, TypeOK
  <2>3. \A u \in Threads \ {t} : step'[u] = "idle"
    BY <2>1, <2>2, OthersApplied DEF Told
  <2>4. Settled' /\ FileWritten(t)'
    BY <1>6, <2>1, FailureSettles
  <2> QED
    BY <2>3, <2>4 DEF FileWritten, AfterSetconf
<1>7. ASSUME NEW t \in Threads, RouteFails(t)
      PROVE  Settled' /\ \A u \in Threads : FileWritten(u)'
  BY <1>7 DEF RouteFails, hostVars, Told, Settled, FileWritten
<1>8. CASE LinkLost
  BY <1>8 DEF LinkLost, localVars, history, NoLink, Told, Settled, FileWritten
<1>9. CASE Crash
  BY <1>9, BoundsAssumption DEF Crash, Told, TypeOK
<1>10. CASE UNCHANGED vars
  BY <1>10 DEF vars, hostVars, localVars, history, budgets, Told, Settled, FileWritten
<1> QED
  BY <1>1, <1>2, <1>3, <1>4, <1>5, <1>6, <1>7, <1>8, <1>9, <1>10 DEF Next, Sync, RunStep

\* While the agent has not crashed and no ERROR report got lost, the last
\* report tells the truth about an interface nobody is working on.
THEOREM QuietIsTrue == Spec => []QuietActiveMeansApplied
<1>1. Init => SettledInv
  BY DEF Init, SettledInv, Settled, FileWritten, NoLink, AfterSetconf
<1>2. TypeOK /\ SettledInv => QuietActiveMeansApplied
  <2> SUFFICES ASSUME TypeOK, SettledInv, Told, Quiet, reported = "ACTIVE",
                      link.exists, file # None
               PROVE  link.conf = file /\ link.addrs # << >>
    BY DEF QuietActiveMeansApplied, Told
  <2>1. \A t \in Threads : step[t] = "idle"
    BY DEF TypeOK, Quiet
  <2>2. "idle" \notin Reworking
    BY DEF Reworking, ConfigureSteps
  <2> QED
    BY <2>1, <2>2 DEF SettledInv, Settled
<1> QED
  BY <1>1, <1>2, SettledStep, AppliedInvariant, AgentTyping, PTL DEF Spec

-----------------------------------------------------------------------------

\* The invariant behind DeleteLeavesNothing: nobody configures while a delete is
\* under way, so what it has removed stays removed until it returns.
RemovedBy(t) ==
  /\ step[t] = "unlink" => ~link.exists
  /\ step[t] = "done" /\ call[t].kind = "delete" => ~link.exists /\ file = None

RemovedInv ==
  /\ \A t \in Threads : step[t] \in ConfigureSteps => call[t].kind # "delete"
  /\ ~overlapped /\ "destroy" \notin unseen => \A t \in Threads : RemovedBy(t)

\* A command run by the only thread at work keeps its part of the invariant.
LEMMA CommandRemoves ==
  ASSUME TypeOK, NEW t \in Threads, Command(t), RemovedBy(t),
         step[t] \in ConfigureSteps => call[t].kind # "delete"
  PROVE  RemovedBy(t)'
<1> USE DEF TypeOK, RemovedBy, ConfigureSteps, Move, Refused, lockVars, hostVars
<1>1. CASE Show(t) \/ Add(t) \/ Check(t) \/ OpenConf(t) \/ FillConf(t)
  BY <1>1 DEF Show, Add, Check, OpenConf, FillConf
<1>2. CASE Setconf(t) \/ Flush(t) \/ SetAddress(t) \/ BringUp(t)
  BY <1>2 DEF Setconf, Flush, SetAddress, BringUp
<1>3. CASE RestoreMarks(t) \/ ListRoutes(t) \/ DelRoute(t) \/ AddRoute(t) \/ Report(t)
  BY <1>3 DEF RestoreMarks, ListRoutes, DelRoute, AddRoute, Report
<1>4. CASE Unmark(t) \/ Destroy(t) \/ Unlink(t)
  BY <1>4 DEF Unmark, Destroy, Unlink, NoLink
<1> QED
  BY <1>1, <1>2, <1>3, <1>4 DEF Command

LEMMA RemovedStep == TypeOK /\ AppliedInv /\ RemovedInv /\ [Next]_vars => RemovedInv'
<1> SUFFICES ASSUME TypeOK, AppliedInv, RemovedInv, [Next]_vars PROVE RemovedInv'
  OBVIOUS
<1>1. ASSUME NEW t \in Threads, NEW kind, NEW d, Begin(t, kind, d) PROVE RemovedInv'
  <2>1. UNCHANGED <<link, file, step, overlapped, unseen>>
    BY <1>1 DEF Begin, hostVars, history
  <2>2. step[t] = "idle" /\ \A u \in Threads \ {t} : call'[u] = call[u]
    BY <1>1 DEF Begin, LM!GetLock, TypeOK, LM!TypeOK
  <2> QED
    BY <2>1, <2>2 DEF RemovedInv, RemovedBy, ConfigureSteps
<1>2. ASSUME NEW t \in Threads, Enter(t) PROVE RemovedInv'
  <2>1. UNCHANGED <<link, file, call, unseen>> /\ (~overlapped' => ~overlapped)
    BY <1>2 DEF Enter, LM!Acquire, hostVars
  <2>2. /\ step'[t] = IF call[t].kind = "delete" THEN "unmark" ELSE "show"
        /\ \A u \in Threads \ {t} : step'[u] = step[u]
    BY <1>2 DEF Enter, TypeOK
  <2> QED
    BY <2>1, <2>2 DEF RemovedInv, RemovedBy, ConfigureSteps
<1>3. ASSUME NEW t \in Threads, Leave(t) PROVE RemovedInv'
  <2>1. UNCHANGED <<link, file, overlapped, unseen>> /\ step'[t] = "idle"
    BY <1>3 DEF Leave, hostVars, history, TypeOK
  <2>2. \A u \in Threads \ {t} : step'[u] = step[u] /\ call'[u] = call[u]
    BY <1>3 DEF Leave, LM!Release, LM!Raise, LM!Return, TypeOK, LM!TypeOK
  <2> QED
    BY <2>1, <2>2 DEF RemovedInv, RemovedBy, ConfigureSteps
<1>4. ASSUME NEW t \in Threads, Forget(t) PROVE RemovedInv'
  <2>1. UNCHANGED <<link, file, step, overlapped, unseen>> /\ step[t] = "idle"
    BY <1>4 DEF Forget, LM!RemoveLock, hostVars, localVars, history, TypeOK
  <2>2. \A u \in Threads \ {t} : call'[u] = call[u]
    BY <1>4 DEF Forget, LM!RemoveLock, LM!Return, TypeOK, LM!TypeOK
  <2> QED
    BY <2>1, <2>2 DEF RemovedInv, RemovedBy, ConfigureSteps
<1>5. ASSUME NEW t \in Threads, Command(t) PROVE RemovedInv'
  <2>1. Commanded(t)
    BY <1>5, CommandFrame
  <2>2. /\ UNCHANGED <<call, overlapped, unseen>> /\ step[t] # "idle"
        /\ step'[t] \in ConfigureSteps => step[t] \in ConfigureSteps
        /\ \A u \in Threads \ {t} : step'[u] = step[u]
    BY <2>1 DEF Commanded, lockVars, history, TypeOK
  <2>3. ASSUME ~overlapped, "destroy" \notin unseen PROVE \A u \in Threads : RemovedBy(u)'
    <3>1. RemovedBy(t)'
      BY <1>5, <2>3, CommandRemoves DEF RemovedInv
    <3>2. \A u \in Threads \ {t} : step'[u] = "idle"
      BY <2>2, <2>3, OthersApplied
    <3> QED
      BY <3>1, <3>2 DEF RemovedBy
  <2> QED
    BY <2>2, <2>3 DEF RemovedInv
<1>6. ASSUME NEW t \in Threads, CommandFails(t) PROVE RemovedInv'
  <2>1. /\ UNCHANGED <<link, file, call, overlapped>>
        /\ step' = [step EXCEPT ![t] = AfterFailure(step[t])]
        /\ unseen' = unseen \union ({step[t]} \intersect Unseeable)
    BY <1>6 DEF CommandFails, hostVars, lockVars
  <2>2. step[t] \in ConfigureSteps \union DeleteSteps
    BY <1>6, FaultsAssumption DEF CommandFails
  <2>3. step'[t] = AfterFailure(step[t]) /\ \A u \in Threads \ {t} : step'[u] = step[u]
    BY <2>1 DEF TypeOK
  \* A delete whose "ip link del" fails goes on, and is remembered for it.
  <2>4. /\ AfterFailure(step[t]) \in ConfigureSteps => step[t] \in ConfigureSteps
        /\ AfterFailure(step[t]) = "unlink" => step[t] = "destroy"
        /\ AfterFailure(step[t]) # "done"
    BY <2>2 DEF AfterFailure, ConfigureSteps, DeleteSteps
  <2>5. step[t] = "destroy" => "destroy" \in unseen'
    BY <2>1 DEF Unseeable
  <2> QED
    BY <2>1, <2>3, <2>4, <2>5 DEF RemovedInv, RemovedBy
<1>7. ASSUME NEW t \in Threads, RouteFails(t) PROVE RemovedInv'
  BY <1>7 DEF RouteFails, lockVars, hostVars, RemovedInv, RemovedBy
<1>8. CASE LinkLost
  BY <1>8 DEF LinkLost, lockVars, localVars, history, NoLink, RemovedInv, RemovedBy
<1>9. CASE Crash
  <2>1. \A u \in Threads : step'[u] = "idle"
    BY <1>9 DEF Crash
  <2> QED
    BY <2>1 DEF RemovedInv, RemovedBy, ConfigureSteps
<1>10. CASE UNCHANGED vars
  BY <1>10 DEF vars, lockVars, hostVars, localVars, history, RemovedInv, RemovedBy
<1> QED
  BY <1>1, <1>2, <1>3, <1>4, <1>5, <1>6, <1>7, <1>8, <1>9, <1>10 DEF Next, Sync, RunStep

\* A delete that returns without an exception has removed interface and file,
\* with any number of threads, faults, losses of the interface and crashes.
THEOREM DeleteIsThorough == Spec => []DeleteLeavesNothing
<1>1. Init => RemovedInv
  BY DEF Init, RemovedInv, RemovedBy, ConfigureSteps
<1>2. RemovedInv => DeleteLeavesNothing
  BY DEF RemovedInv, RemovedBy, DeleteLeavesNothing
<1> QED
  BY <1>1, <1>2, RemovedStep, AppliedInvariant, AgentTyping, PTL DEF Spec

=============================================================================
