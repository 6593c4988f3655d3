--------------------------- MODULE WireguardAgent ---------------------------
(***************************************************************************)
(* The L3 agent extension of agent/wireguard.py, on one host and for one   *)
(* wireguard: what its operations do, command by command, to the           *)
(* interface in the router's namespace and to the conf file, and what they *)
(* report.  Locking is WireguardLockManager's; the address scope marks are *)
(* only a command that may fail.                                           *)
(*                                                                         *)
(* Commands that can fail do so at most MaxFaults times, the namespace (or *)
(* the host) loses the interface at most MaxLosses times and the agent     *)
(* process dies at most MaxCrashes times.                                  *)
(***************************************************************************)
EXTENDS Naturals, Sequences, Functions

CONSTANTS Wg,           \* the wireguard
          Threads, Locks, Kinds, None,
          Dicts,        \* wireguard dicts: [peer, addr, ips]; "peer" stands
                        \* for keys, port and endpoint
          Inet6,        \* the addresses and networks that are IPv6
          Connected,    \* address -> routes the kernel adds for it
          Renamed,      \* IPv4 networks that "ip route show" does not print as
                        \* they were written: a /32, 0.0.0.0/0 ("default")
          FaultySteps,  \* commands that may fail
          MaxFaults, MaxLosses, MaxCrashes

ASSUME NoneAssumption == None \notin Locks
ASSUME KindsAssumption == Kinds \subseteq {"configure", "delete"}
ASSUME BoundsAssumption == MaxFaults \in Nat /\ MaxLosses \in Nat /\ MaxCrashes \in Nat

VARIABLES locks, locked, pc, call, lock, overtaken,  \* see WireguardLockManager
          link,      \* the interface, as the kernel has it
          file,      \* contents of the conf file; None: no such file
          step,      \* the command a thread runs next
          want,      \* argument "wireguard" of a thread's operation
          created,   \* local variable "created"
          current,   \* local variable "current_routes", less what the loop
                     \* over stale routes and with what the loop over
                     \* missing ones has dealt with
          reported,  \* last status sent to the server
          overlapped, \* history: two operations have run at the same time
          unseen,    \* history: steps that failed without a trace, of Unseeable
          faults, losses, crashes

lockVars == <<locks, locked, pc, call, lock, overtaken>>
hostVars == <<link, file>>
localVars == <<step, want, created, current>>
budgets == <<faults, losses, crashes>>
history == <<overlapped, unseen>>
vars == <<lockVars, hostVars, localVars, reported, history, budgets>>

LM == INSTANCE WireguardLockManager WITH Wireguards <- {Wg}

\* _build_allowed_ips: the peer's, then the wireguard's own address.
BuildAllowedIps(d) ==
  IF d.addr \in Range(d.ips) THEN d.ips ELSE Append(d.ips, d.addr)

BuildConf(d) == <<d.peer, BuildAllowedIps(d)>>

NoLink == [exists |-> FALSE, up |-> FALSE, conf |-> None, addrs |-> << >>, routes |-> {}]

\* _get_interface_address: the first "inet" word of the output; "inet6" is not one.
GetInterfaceAddress ==
  LET inet == SelectSeq(link.addrs, LAMBDA a : a \notin Inet6)
  IN IF inet = << >> THEN None ELSE Head(inet)

\* _is_config_changed looks at the conf file and at the address only.
IsConfigChanged(d) == file # BuildConf(d) \/ GetInterfaceAddress # d.addr

ConfigureSteps == {"show", "add", "check", "open", "fill", "setconf", "flush",
                   "addr", "up", "marks", "list", "dels", "adds", "active", "error"}
DeleteSteps == {"unmark", "destroy", "unlink"}

ASSUME FaultsAssumption == FaultySteps \subseteq ConfigureSteps \union DeleteSteps

\* Failures after which nothing tells, or keeps telling, what the interface
\* lacks or keeps: a lost ERROR report, a failing list of routes, a route that
\* cannot be removed or added, an interface that cannot be removed.
Unseeable == {"error", "list", "dels", "adds", "destroy"}

Addresses == {d.addr : d \in Dicts}
Contents == {BuildConf(d) : d \in Dicts} \union {<< >>, None}
Cidrs == UNION {Range(d.ips) \union Connected[d.addr] : d \in Dicts}
Links == [exists : BOOLEAN, up : BOOLEAN, conf : Contents,
          addrs : Seq(Addresses), routes : SUBSET Cidrs]

TypeOK ==
  /\ LM!TypeOK
  /\ link \in Links /\ (~link.exists => link = NoLink)
  /\ file \in Contents
  /\ step \in [Threads -> ConfigureSteps \union DeleteSteps \union {"idle", "done", "raised"}]
  /\ want \in [Threads -> Dicts \union {None}]
  /\ created \in [Threads -> BOOLEAN]
  /\ current \in [Threads -> SUBSET Cidrs]
  /\ reported \in {None, "ACTIVE", "ERROR"}
  /\ overlapped \in BOOLEAN /\ unseen \subseteq Unseeable
  /\ faults \in 0..MaxFaults /\ losses \in 0..MaxLosses /\ crashes \in 0..MaxCrashes
  /\ \A t \in Threads : step[t] # "idle" <=> pc[t] = "critical"
  /\ \A t \in Threads : step[t] \in ConfigureSteps => want[t] \in Dicts
  /\ \A t \in Threads : pc[t] = "waiting" => (call[t].kind = "delete" <=> want[t] = None)

Init ==
  /\ LM!Init
  /\ link = NoLink /\ file = None /\ reported = None /\ overlapped = FALSE /\ unseen = {}
  /\ step = [t \in Threads |-> "idle"]
  /\ want = [t \in Threads |-> None]
  /\ created = [t \in Threads |-> FALSE]
  /\ current = [t \in Threads |-> {}]
  /\ faults = 0 /\ losses = 0 /\ crashes = 0

-----------------------------------------------------------------------------
\* Calls: an RPC from the server or a worker of the periodic sync.

\* A configure call (created, updated, sync) brings a dict, a delete none.
Begin(t, kind, d) ==
  /\ kind \in Kinds
  /\ kind = "delete" <=> d = None
  /\ LM!GetLock(t, [kind |-> kind, wg |-> Wg])
  /\ want' = [want EXCEPT ![t] = d]
  /\ UNCHANGED <<hostVars, step, created, current, reported, history, budgets>>

\* Mutants of Enter: a delete does what a configure does; no lock is taken.
EnterShow(t) ==
  /\ LM!Acquire(t)
  /\ step' = [step EXCEPT ![t] = "show"]
  /\ UNCHANGED <<hostVars, want, created, current, reported, budgets>>
  /\ overlapped' = (overlapped \/ \E u \in Threads : pc[u] = "critical") /\ UNCHANGED unseen

EnterUnlocked(t) ==
  /\ pc[t] = "waiting"
  /\ pc' = [pc EXCEPT ![t] = "critical"]
  /\ step' = [step EXCEPT ![t] = IF call[t].kind = "delete" THEN "unmark" ELSE "show"]
  /\ UNCHANGED <<locks, locked, call, lock, overtaken>>
  /\ UNCHANGED <<hostVars, want, created, current, reported, budgets>>
  /\ overlapped' = (overlapped \/ \E u \in Threads : pc[u] = "critical") /\ UNCHANGED unseen

Enter(t) ==
  /\ LM!Acquire(t)
  /\ step' = [step EXCEPT ![t] = IF call[t].kind = "delete" THEN "unmark" ELSE "show"]
  /\ UNCHANGED <<hostVars, want, created, current, reported, budgets>>
  /\ overlapped' = (overlapped \/ \E u \in Threads : pc[u] = "critical") /\ UNCHANGED unseen

\* Leaving "with lock:", normally or with an exception.
Leave(t) ==
  /\ \/ step[t] = "done" /\ LM!Release(t)
     \/ step[t] = "raised" /\ LM!Raise(t)
  /\ step' = [step EXCEPT ![t] = "idle"]
  /\ want' = [want EXCEPT ![t] = None]
  /\ created' = [created EXCEPT ![t] = FALSE]
  /\ current' = [current EXCEPT ![t] = {}]
  /\ UNCHANGED <<hostVars, reported, history, budgets>>

Forget(t) ==
  /\ LM!RemoveLock(t)
  /\ UNCHANGED <<hostVars, localVars, reported, history, budgets>>

\* A thread goes from step "from" to step "to" of its operation.
Move(t, from, to) ==
  /\ step[t] = from
  /\ step' = [step EXCEPT ![t] = to]
  /\ UNCHANGED <<lockVars, want, history, budgets>>

\* A command that cannot succeed on this link: the except branch (line 519).
Refused(t, from) ==
  /\ Move(t, from, "error")
  /\ UNCHANGED <<hostVars, created, current, reported>>

-----------------------------------------------------------------------------
\* _do_configure_wireguard.

Show(t) ==
  /\ Move(t, "show", IF link.exists THEN "check" ELSE "add")
  /\ UNCHANGED <<hostVars, created, current, reported>>

\* Mutant of Add: "created" is not set, so nobody brings the link up.
AddUnnoticed(t) ==
  \/ /\ ~link.exists
     /\ Move(t, "add", "open")
     /\ link' = [NoLink EXCEPT !.exists = TRUE]
     /\ UNCHANGED <<file, created, current, reported>>
  \/ link.exists /\ Refused(t, "add")

Add(t) ==
  \/ /\ ~link.exists
     /\ Move(t, "add", "open")
     /\ link' = [NoLink EXCEPT !.exists = TRUE]
     /\ created' = [created EXCEPT ![t] = TRUE]
     /\ UNCHANGED <<file, current, reported>>
  \/ link.exists /\ Refused(t, "add")

\* Nothing changed: return without reporting anything.
Check(t) ==
  /\ Move(t, "check", IF IsConfigChanged(want[t]) THEN "open" ELSE "done")
  /\ UNCHANGED <<hostVars, created, current, reported>>

\* open(conf_path, 'w') truncates the file; write and close fill it.
OpenConf(t) ==
  /\ Move(t, "open", "fill")
  /\ file' = << >>
  /\ UNCHANGED <<link, created, current, reported>>

FillConf(t) ==
  /\ Move(t, "fill", "setconf")
  /\ file' = BuildConf(want[t])
  /\ UNCHANGED <<link, created, current, reported>>

\* "wg setconf" applies what the file holds by now.
Setconf(t) ==
  \/ /\ link.exists /\ file # None
     /\ Move(t, "setconf", "flush")
     /\ link' = [link EXCEPT !.conf = file]
     /\ UNCHANGED <<file, created, current, reported>>
  \/ (~link.exists \/ file = None) /\ Refused(t, "setconf")

\* The routes the kernel has added for the interface's addresses.
ConnectedRoutes == UNION {Connected[a] : a \in Range(link.addrs)}

\* An address takes its connected routes along, the last IPv4 address all
\* IPv4 routes; failing is ignored.
Flushed ==
  ConnectedRoutes \union
    (IF Range(link.addrs) \subseteq Inet6 THEN {} ELSE link.routes \ Inet6)

Flush(t) ==
  /\ Move(t, "flush", "addr")
  /\ link' = [link EXCEPT !.addrs = << >>, !.routes = @ \ Flushed]
  /\ UNCHANGED <<file, created, current, reported>>

\* "ip addr add" of an address that is already there fails.
SetAddress(t) ==
  /\ step[t] = "addr"
  /\ IF link.exists /\ want[t].addr \notin Range(link.addrs)
     THEN /\ Move(t, "addr", IF created[t] THEN "up" ELSE "marks")
          /\ link' = [link EXCEPT
               !.addrs = Append(@, want[t].addr),
               !.routes = IF link.up THEN @ \union Connected[want[t].addr] ELSE @]
          /\ UNCHANGED <<file, created, current, reported>>
     ELSE Refused(t, "addr")

BringUp(t) ==
  \/ /\ link.exists
     /\ Move(t, "up", "marks")
     /\ link' = [link EXCEPT !.up = TRUE,
                             !.routes = @ \union ConnectedRoutes]
     /\ UNCHANGED <<file, created, current, reported>>
  \/ ~link.exists /\ Refused(t, "up")

RestoreMarks(t) ==
  /\ Move(t, "marks", "list")
  /\ UNCHANGED <<hostVars, created, current, reported>>

\* "ip route show" lists IPv4 routes only.
ListRoutes(t) ==
  /\ Move(t, "list", "dels")
  /\ current' = [current EXCEPT ![t] = link.routes \ Inet6]
  /\ UNCHANGED <<hostVars, created, reported>>

\* Routes that are not listed under the name of an allowed IP.
Stale(t) == {c \in current[t] : c \notin Range(want[t].ips) \/ c \in Renamed}

Missing(t) == Range(want[t].ips) \ current[t]

\* A route is dealt with: by "ip route del", by "ip route add".
Removed(t, c) == current' = [current EXCEPT ![t] = @ \ {c}]
Tried(t, c) == current' = [current EXCEPT ![t] = @ \union {c}]

\* Mutant of DelRoute: stale routes stay.
DelNone(t) ==
  /\ Move(t, "dels", "adds")
  /\ UNCHANGED <<hostVars, created, current, reported>>

\* One "ip route del" for each stale route, in any order.
DelRoute(t) ==
  /\ step[t] = "dels"
  /\ \/ \E c \in Stale(t) :
          /\ Move(t, "dels", "dels")
          /\ link' = [link EXCEPT !.routes = @ \ {c}]
          /\ Removed(t, c)
          /\ UNCHANGED <<file, created, reported>>
     \/ /\ Stale(t) = {}
        /\ Move(t, "dels", "adds")
        /\ UNCHANGED <<hostVars, created, current, reported>>

\* Mutant of AddRoute: knows the networks that are listed under another name,
\* which DelRoute does not, and takes them for present.
AddUnlisted(t) ==
  /\ step[t] = "adds"
  /\ \/ \E c \in Missing(t) \ Renamed :
          /\ Move(t, "adds", "adds")
          /\ link' = [link EXCEPT !.routes = IF link.up THEN @ \union {c} ELSE @]
          /\ Tried(t, c)
          /\ UNCHANGED <<file, created, reported>>
     \/ /\ Missing(t) \subseteq Renamed
        /\ Move(t, "adds", "active")
        /\ current' = [current EXCEPT ![t] = {}]
        /\ UNCHANGED <<hostVars, created, reported>>

\* One "ip route add" for each missing route; on a link that is not up it
\* fails with a warning.  (So does adding a route that is there: no change.)
AddRoute(t) ==
  /\ step[t] = "adds"
  /\ \/ \E c \in Missing(t) :
          /\ Move(t, "adds", "adds")
          /\ link' = [link EXCEPT !.routes = IF link.up THEN @ \union {c} ELSE @]
          /\ Tried(t, c)
          /\ UNCHANGED <<file, created, reported>>
     \/ /\ Missing(t) = {}
        /\ Move(t, "adds", "active")
        /\ current' = [current EXCEPT ![t] = {}]
        /\ UNCHANGED <<hostVars, created, reported>>

\* Mutant of Report: an error is logged but not reported.
ReportActive(t) ==
  \/ /\ Move(t, "active", "done")
     /\ reported' = "ACTIVE"
     /\ UNCHANGED <<hostVars, created, current>>
  \/ /\ Move(t, "error", "done")
     /\ UNCHANGED <<hostVars, created, current, reported>>

Report(t) ==
  \/ /\ Move(t, "active", "done")
     /\ reported' = "ACTIVE"
     /\ UNCHANGED <<hostVars, created, current>>
  \/ /\ Move(t, "error", "done")
     /\ reported' = "ERROR"
     /\ UNCHANGED <<hostVars, created, current>>

-----------------------------------------------------------------------------
\* _do_delete_wireguard.

Unmark(t) ==
  /\ Move(t, "unmark", "destroy")
  /\ UNCHANGED <<hostVars, created, current, reported>>

Destroy(t) ==
  /\ Move(t, "destroy", "unlink")
  /\ link' = NoLink
  /\ UNCHANGED <<file, created, current, reported>>

Unlink(t) ==
  /\ Move(t, "unlink", "done")
  /\ file' = None
  /\ UNCHANGED <<link, created, current, reported>>

-----------------------------------------------------------------------------
\* Failures.

\* Mutant of AfterFailure: failing to write or to apply the file is ignored.
IgnoringFailures(s) ==
  CASE s = "show"    -> "add"
    [] s = "check"   -> "open"
    [] s = "fill"    -> "setconf"
    [] s = "setconf" -> "flush"
    [] s \in {"active", "error"} \union DeleteSteps -> "raised"
    [] OTHER         -> "error"

\* Mutant of AfterFailure: what fails in a delete is only logged.
LoggingDelete(s) ==
  CASE s = "show"    -> "add"
    [] s = "check"   -> "open"
    [] s = "flush"   -> "addr"
    [] s = "list"    -> "dels"
    [] s = "unmark"  -> "destroy"
    [] s = "destroy" -> "unlink"
    [] s = "unlink"  -> "done"
    [] s \in {"active", "error"} -> "raised"
    [] OTHER         -> "error"

\* Where an operation goes on when the command of its step fails: failures of
\* "show", "check", "flush", "list" and "destroy" are not seen as failures,
\* casting a status and the commands of a delete are outside any "try".
AfterFailure(s) ==
  CASE s = "show"    -> "add"
    [] s = "check"   -> "open"
    [] s = "flush"   -> "addr"
    [] s = "list"    -> "dels"
    [] s = "destroy" -> "unlink"
    [] s \in {"active", "error", "unmark", "unlink"} -> "raised"
    [] OTHER         -> "error"

CommandFails(t) ==
  /\ step[t] \in FaultySteps \ {"dels", "adds"}
  /\ faults < MaxFaults
  /\ faults' = faults + 1
  /\ unseen' = unseen \union ({step[t]} \intersect Unseeable)
  /\ step' = [step EXCEPT ![t] = AfterFailure(step[t])]
  /\ UNCHANGED <<lockVars, hostVars, want, created, current, reported, overlapped, losses, crashes>>

\* A route command fails and the loop goes on: the exit code of "ip route
\* del" is not looked at, a failing "ip route add" is a warning.
RouteFails(t) ==
  /\ step[t] \in FaultySteps
  /\ faults < MaxFaults
  /\ faults' = faults + 1
  /\ unseen' = unseen \union {step[t]}
  /\ \/ step[t] = "dels" /\ \E c \in Stale(t) : Removed(t, c)
     \/ step[t] = "adds" /\ \E c \in Missing(t) : Tried(t, c)
  /\ UNCHANGED <<lockVars, hostVars, step, want, created, reported, overlapped, losses, crashes>>

\* The namespace is rebuilt or the host reboots: the interface is gone, the
\* file is not.
LinkLost ==
  /\ link.exists /\ losses < MaxLosses
  /\ link' = NoLink
  /\ losses' = losses + 1
  /\ UNCHANGED <<lockVars, file, localVars, reported, history, faults, crashes>>

\* The agent process dies and starts again; interface and file stay.
Crash ==
  /\ crashes < MaxCrashes
  /\ crashes' = crashes + 1
  /\ LM!Restart
  /\ step' = [t \in Threads |-> "idle"]
  /\ want' = [t \in Threads |-> None]
  /\ created' = [t \in Threads |-> FALSE]
  /\ current' = [t \in Threads |-> {}]
  /\ UNCHANGED <<hostVars, reported, history, faults, losses>>

-----------------------------------------------------------------------------

Command(t) ==
  \/ Show(t) \/ Add(t) \/ Check(t) \/ OpenConf(t) \/ FillConf(t) \/ Setconf(t)
  \/ Flush(t) \/ SetAddress(t) \/ BringUp(t) \/ RestoreMarks(t) \/ ListRoutes(t)
  \/ DelRoute(t) \/ AddRoute(t) \/ Report(t)
  \/ Unmark(t) \/ Destroy(t) \/ Unlink(t)

RunStep(t) == Enter(t) \/ Leave(t) \/ Forget(t) \/ Command(t)

Sync == \E t \in Threads, d \in Dicts : Begin(t, "configure", d)

Next ==
  \/ Sync
  \/ \E t \in Threads : \/ Begin(t, "delete", None)
                        \/ RunStep(t)
                        \/ CommandFails(t)
                        \/ RouteFails(t)
  \/ LinkLost
  \/ Crash

Spec == Init /\ [][Next]_vars

\* Commands end, operations return, and the periodic sync comes round again
\* (periodic_sync_interval > 0).
FairSpec == Spec /\ WF_vars(Sync) /\ \A t \in Threads : WF_vars(RunStep(t))

-----------------------------------------------------------------------------

Quiet == \A t \in Threads : pc[t] = "idle"

\* The agent's operations use the locks as WireguardLockManager says, so
\* what holds of it (ExclusionUntilRemoved) holds of the agent.
LockDiscipline == LM!Spec

\* When an operation is about to report ACTIVE and no namespace loss hit it,
\* the interface has that operation's own configuration and address: no other
\* operation, failed command or half-written file got in between.
ActiveReportIsTrue ==
  \A t \in Threads : ~overlapped /\ step[t] = "active" /\ link.exists =>
    /\ link.conf = BuildConf(want[t])
    /\ want[t].addr \in Range(link.addrs)

\* An interface that is up always has a complete peer configuration, never
\* the empty one of a truncated file, whatever fails or crashes when.
UpLinkIsConfigured ==
  ~overlapped /\ link.up => link.conf \in {BuildConf(d) : d \in Dicts}

\* With no crash and no lost ERROR, what was last reported ACTIVE is what the
\* kernel runs: the skip of unchanged configurations, which looks at the file
\* instead of the kernel, never leaves an ACTIVE wireguard diverged.
\* (No file: a delete went by.)
QuietActiveMeansApplied ==
  ~overlapped /\ crashes = 0 /\ "error" \notin unseen
  /\ Quiet /\ reported = "ACTIVE" /\ link.exists /\ file # None =>
    link.conf = file /\ link.addrs # << >>

\* "Delete wireguard interface and configuration." (line 530): a delete that
\* does not raise has left neither the interface nor the conf file, whatever
\* went before, unless "ip link del" failed, which nobody sees (line 298).
DeleteLeavesNothing ==
  \A t \in Threads :
    ~overlapped /\ "destroy" \notin unseen /\ step[t] = "done" /\ call[t].kind = "delete" =>
      ~link.exists /\ file = None

\* "Removes stale routes" (line 424): after a run that reports ACTIVE, IPv4
\* traffic is routed to nothing outside the allowed IPs, the connected routes
\* of the interface's own address included, whatever else failed or crashed
\* than the listing or the removal of a route, whose failures are seen by
\* nobody (lines 436, 443-445).
NoStaleInetRoutes ==
  \A t \in Threads :
    ~overlapped /\ unseen \intersect {"list", "dels"} = {} /\ step[t] = "active" =>
      link.routes \ Inet6 \subseteq Range(want[t].ips)

\* "... and adds missing ones" (line 424): unless adding a route failed, the
\* allowed IPs of an interface that is up are then all routed, those that are
\* listed under another name, and so removed first, included.
NoMissingRoutes ==
  \A t \in Threads : ~overlapped /\ "adds" \notin unseen /\ step[t] = "active" /\ link.up =>
    Range(want[t].ips) \subseteq link.routes

\* "Removes stale routes" (line 424) of any family: an allowed IP that is no
\* longer wanted is not routed any more (the connected routes of the present
\* address aside).  IPv6 routes are not listed, so they stay.
NoStaleRoutes ==
  \A t \in Threads : ~overlapped /\ step[t] = "active" =>
    link.routes \subseteq Range(want[t].ips) \union ConnectedRoutes

Applied ==
  \E d \in Dicts : /\ link.exists /\ link.up
                   /\ link.conf = BuildConf(d)
                   /\ link.addrs = << d.addr >>
                   /\ link.routes = Range(d.ips)

\* "Fetches all wireguards that should be configured on this host and ensures
\* they are properly set up" (lines 108-112): when failures and losses of the
\* interface stop and the server keeps sending the same dict, the periodic
\* sync ends in an interface that is up with its configuration, address and
\* routes, and stays so.
SyncConverges == <>[]Applied

=============================================================================
