--------------------------- MODULE WireguardSystem ---------------------------
(***************************************************************************)
(* The distributed system around one wireguard: API workers running the    *)
(* service plugin (services/plugin.py), the database row, the casts to the *)
(* L3 agents that host its router, the agents' periodic sync and the       *)
(* status casts back to the RPC server.                                    *)
(*                                                                         *)
(* Casts are handled in any order and may be lost; identical casts in      *)
(* flight are merged into one.  An agent's operation is one step here,     *)
(* that completes, fails or dies half way (WireguardAgent has its          *)
(* commands, and the address, link, routes and mark), and so is the        *)
(* server's handling of a status (WireguardStatusDb has its transaction).  *)
(* The neutron side is external: the scheduler moves the router between    *)
(* hosts and the L3 agents make and remove its namespace.                  *)
(*                                                                         *)
(* The content of a wireguard is the set of API edits it has, and which of *)
(* the columns that make a peer configuration complete are set.            *)
(***************************************************************************)
EXTENDS Naturals

CONSTANTS Hosts, None,
          Edits,       \* API updates, each made at most once
          Columns,     \* peer_public_key and peer_allowed_ips
          Scheduled,   \* hosts of the router at first
          Prepared,    \* those of them that have its namespace at first
          MaxMoves,    \* reschedulings of the router
          MaxFaults,   \* operations of agents that fail
          MaxLosses,   \* casts and status casts lost
          MaxCrashes   \* deaths of API workers and agents

Contents == [edits : SUBSET Edits, peer : SUBSET Columns]
Complete(c) == c.peer = Columns

ASSUME NoneAssumption == None \notin Contents
ASSUME HostsAssumption == Scheduled \subseteq Hosts /\ Prepared \subseteq Scheduled

VARIABLES row,       \* the content in the database; None before and after
          deleted,   \* the row or its router has been deleted: no row will come
          hosting,   \* hosts the router is scheduled on
          namespaces, \* hosts that have the router's namespace
          edits,     \* update_wireguard transactions: edit -> content read, or None
          requests,  \* API requests past their commit: [op, content, hosts]
          casts,     \* casts in flight to agents: [op, content, host]
          sync,      \* per host: where its sync is, see SyncStates
          local,     \* per host: the content the interface runs, or None
          file,      \* per host: the content that an operation will find
                     \* unchanged in conf file and address, or None
          halfway,   \* hosts whose last configure to touch anything did not
                     \* complete (history)
          reports,   \* status casts in flight: [host, status]
          bindings, status,  \* see WireguardStatusBoard
          moves, faults, losses, crashes

apiVars == <<edits, requests>>
dbVars == <<row, deleted, bindings, status>>
routerVars == <<hosting, namespaces>>
agentVars == <<local, file, halfway>>
budgets == <<moves, faults, losses, crashes>>
vars == <<apiVars, dbVars, routerVars, casts, sync, agentVars, reports, budgets>>

Board == INSTANCE WireguardStatusBoard
           WITH Reports <- {"ACTIVE", "ERROR"}, exists <- row # None

Tunnel == INSTANCE WireguardTunnel

\* A sync at "routers" has found that the host hosts the router; one at
\* "fetched" holds the content to apply.
Idle == [at |-> "idle", content |-> None]
SyncStates == [at : {"idle", "routers", "fetched"}, content : Contents \union {None}]

TypeOK ==
  /\ row \in Contents \union {None} /\ deleted \in BOOLEAN
  /\ hosting \subseteq Hosts /\ namespaces \subseteq Hosts
  /\ edits \in [Edits -> Contents \union {None}]
  /\ requests \subseteq [op : {"configure", "delete"}, content : Contents \union {None},
                         hosts : (SUBSET Hosts) \union {None}]
  /\ casts \subseteq [op : {"configure", "delete"}, content : Contents \union {None},
                      host : Hosts]
  /\ sync \in [Hosts -> SyncStates]
  /\ local \in [Hosts -> Contents \union {None}]
  /\ file \in [Hosts -> Contents \union {None}] /\ halfway \subseteq Hosts
  /\ \A h \in Hosts : local[h] = None => file[h] = None
  /\ reports \subseteq [host : Hosts, status : {"ACTIVE", "ERROR"}]
  /\ bindings \in [Hosts -> {"ACTIVE", "ERROR", None}]
  /\ status \in {"PENDING_CREATE", "ACTIVE", "ERROR", "DEGRADED", None}
  /\ row = None => status = None /\ bindings = Board!NoBindings

Init ==
  /\ row = None /\ deleted = FALSE
  /\ hosting = Scheduled /\ namespaces = Prepared
  /\ edits = [e \in Edits |-> None] /\ requests = {} /\ casts = {}
  /\ sync = [h \in Hosts |-> Idle]
  /\ local = [h \in Hosts |-> None] /\ file = local /\ halfway = {}
  /\ reports = {}
  /\ bindings = Board!NoBindings /\ status = None
  /\ moves = 0 /\ faults = 0 /\ losses = 0 /\ crashes = 0

-----------------------------------------------------------------------------
\* The API: services/plugin.py on top of db/wireguard/db.py.

\* An incomplete wireguard is stored and no agent is told.
Notify(c) ==
  requests' = requests \union
    (IF Complete(c) THEN {[op |-> "configure", content |-> c, hosts |-> None]} ELSE {})

CreateWireguard ==
  /\ row = None /\ ~deleted
  /\ \E filled \in SUBSET Columns : /\ row' = [edits |-> {}, peer |-> filled]
                                    /\ Notify(row')
  /\ status' = "PENDING_CREATE"
  /\ UNCHANGED <<deleted, bindings, edits, routerVars, casts, sync, agentVars, reports, budgets>>

\* An update of some columns of the peer, which sets some and clears the rest.
Written(c, e, written, filled) ==
  [edits |-> c.edits \union {e}, peer |-> (c.peer \ written) \union filled]

\* Mutant of CommitUpdate: the whole row is written back as it was read.
CommitRead(e) ==
  /\ row # None /\ edits[e] # None /\ e \notin row.edits
  /\ \E written \in SUBSET Columns : \E filled \in SUBSET written :
       /\ row' = Written(edits[e], e, written, filled)
       /\ Notify(row')
  /\ edits' = [edits EXCEPT ![e] = None]
  /\ UNCHANGED <<deleted, bindings, status, routerVars, casts, sync, agentVars, reports, budgets>>

\* update_wireguard reads the row ...
BeginUpdate(e) ==
  /\ row # None /\ edits[e] = None /\ e \notin row.edits
  /\ edits' = [edits EXCEPT ![e] = row]
  /\ UNCHANGED <<requests, dbVars, routerVars, casts, sync, agentVars, reports, budgets>>

\* ... writes the columns it changes and returns the dict of what it read,
\* changed: it may lack what another update has committed meanwhile.
CommitUpdate(e) ==
  /\ row # None /\ edits[e] # None /\ e \notin row.edits
  /\ \E written \in SUBSET Columns : \E filled \in SUBSET written :
       /\ row' = Written(row, e, written, filled)
       /\ Notify(Written(edits[e], e, written, filled))
  /\ edits' = [edits EXCEPT ![e] = None]
  /\ UNCHANGED <<deleted, bindings, status, routerVars, casts, sync, agentVars, reports, budgets>>

DeleteWireguard ==
  /\ row' = None /\ deleted' = TRUE
  /\ Board!Delete
  /\ edits' = [e \in Edits |-> None]
  /\ requests' = requests \union {[op |-> "delete", content |-> None, hosts |-> None]}
  /\ UNCHANGED <<routerVars, casts, sync, agentVars, reports, budgets>>

\* _get_hosts_for_router, after the commit.
GetHosts(r) ==
  /\ r \in requests /\ r.hosts = None
  /\ requests' = (requests \ {r}) \union
                 (IF hosting = {} THEN {} ELSE {[r EXCEPT !.hosts = hosting]})
  /\ UNCHANGED <<edits, dbVars, routerVars, casts, sync, agentVars, reports, budgets>>

Cast(r, h) ==
  /\ r \in requests /\ r.hosts # None /\ h \in r.hosts
  /\ casts' = casts \union {[op |-> r.op, content |-> r.content, host |-> h]}
  /\ requests' = (requests \ {r}) \union
                 (IF r.hosts = {h} THEN {} ELSE {[r EXCEPT !.hosts = @ \ {h}]})
  /\ UNCHANGED <<edits, dbVars, routerVars, sync, agentVars, reports, budgets>>

\* An API worker dies, or fails to cast, between its commit and its last cast.
ApiCrash(r) ==
  /\ r \in requests /\ crashes < MaxCrashes
  /\ crashes' = crashes + 1
  /\ requests' = requests \ {r}
  /\ UNCHANGED <<edits, dbVars, routerVars, casts, sync, agentVars, reports, moves, faults, losses>>

\* External: neutron deletes the router, check_router_in_use being called by
\* nothing.  The foreign keys take the row along; no agent is told about the
\* wireguard, the L3 agents only remove the namespace.
DeleteRouter ==
  /\ hosting # {} /\ hosting' = {}
  /\ deleted' = TRUE
  /\ IF row # None THEN row' = None /\ Board!Delete
                   ELSE UNCHANGED <<row, bindings, status>>
  /\ edits' = [e \in Edits |-> None]
  /\ UNCHANGED <<requests, namespaces, casts, sync, agentVars, reports, budgets>>

-----------------------------------------------------------------------------
\* The agents: agent/wireguard.py.

ReportStatus(h, s) == reports' = reports \union {[host |-> h, status |-> s]}

\* A configure that ran to its end.
Applied(h, c) ==
  /\ local' = [local EXCEPT ![h] = c] /\ file' = [file EXCEPT ![h] = c]
  /\ halfway' = halfway \ {h}

\* A configure that ended before: the file was emptied or written, and the
\* interface runs the content or what it ran before.  The first address comes
\* after the content, so an interface that runs none is never unchanged.
AppliedHalfway(h, c) ==
  /\ h \in namespaces
  /\ local' \in {local, [local EXCEPT ![h] = c]}
  /\ file' \in {[file EXCEPT ![h] = None], [file EXCEPT ![h] = c]}
  /\ local'[h] = None => file'[h] = None
  /\ halfway' = halfway \union {h}

\* Mutant of Configure: commands run outside of the router's namespace.
ConfigureAnywhere(h, c) ==
  \/ /\ file[h] = c
     /\ UNCHANGED <<agentVars, reports, faults>>
  \/ /\ file[h] # c
     /\ Applied(h, c)
     /\ ReportStatus(h, "ACTIVE")
     /\ UNCHANGED faults
  \/ /\ faults < MaxFaults /\ faults' = faults + 1
     /\ UNCHANGED agentVars \/ AppliedHalfway(h, c)
     /\ ReportStatus(h, "ERROR")

\* What is found unchanged is skipped and nothing is reported, also where the
\* interface does not run it; without a namespace every command fails.
Configure(h, c) ==
  \/ /\ h \in namespaces /\ file[h] = c
     /\ UNCHANGED <<agentVars, reports, faults>>
  \/ /\ h \in namespaces /\ file[h] # c
     /\ Applied(h, c)
     /\ ReportStatus(h, "ACTIVE")
     /\ UNCHANGED faults
  \/ /\ h \in namespaces /\ faults < MaxFaults /\ faults' = faults + 1
     /\ UNCHANGED agentVars \/ AppliedHalfway(h, c)
     /\ ReportStatus(h, "ERROR")
  \/ /\ h \notin namespaces
     /\ ReportStatus(h, "ERROR")
     /\ UNCHANGED <<agentVars, faults>>

HandleConfigure(m) ==
  /\ m \in casts /\ m.op = "configure"
  /\ casts' = casts \ {m}
  /\ Configure(m.host, m.content)
  /\ UNCHANGED <<apiVars, dbVars, routerVars, sync, moves, losses, crashes>>

Removed(h) ==
  /\ local' = [local EXCEPT ![h] = None] /\ file' = [file EXCEPT ![h] = None]
  /\ UNCHANGED halfway

\* The mark may raise before anything is removed; a failing ip link del goes
\* unnoticed and the file is removed all the same.  Nothing is reported.
HandleDelete(m) ==
  /\ m \in casts /\ m.op = "delete"
  /\ casts' = casts \ {m}
  /\ \/ Removed(m.host) /\ UNCHANGED faults
     \/ /\ faults < MaxFaults /\ faults' = faults + 1
        /\ file' \in {file, [file EXCEPT ![m.host] = None]}
        /\ UNCHANGED <<local, halfway>>
  /\ UNCHANGED <<apiVars, dbVars, routerVars, sync, reports, moves, losses, crashes>>

\* Mutant of FetchRouters: the routers are those known at startup.
FetchFirstRouters(h) ==
  /\ sync[h] = Idle /\ h \in Scheduled
  /\ sync' = [sync EXCEPT ![h].at = "routers"]
  /\ UNCHANGED <<apiVars, dbVars, routerVars, casts, agentVars, reports, budgets>>

\* _sync_wireguards_from_server: get_wireguards_for_host reads the router
\* bindings in one transaction and the wireguards in another.
FetchRouters(h) ==
  /\ sync[h] = Idle /\ h \in hosting
  /\ sync' = [sync EXCEPT ![h].at = "routers"]
  /\ UNCHANGED <<apiVars, dbVars, routerVars, casts, agentVars, reports, budgets>>

\* Mutant of FetchWireguards: incomplete wireguards are listed too.
FetchAnyWireguard(h) ==
  /\ sync[h].at = "routers"
  /\ sync' = [sync EXCEPT ![h] = IF row # None
                                 THEN [at |-> "fetched", content |-> row] ELSE Idle]
  /\ UNCHANGED <<apiVars, dbVars, routerVars, casts, agentVars, reports, budgets>>

FetchWireguards(h) ==
  /\ sync[h].at = "routers"
  /\ sync' = [sync EXCEPT ![h] = IF row # None /\ Complete(row)
                                 THEN [at |-> "fetched", content |-> row] ELSE Idle]
  /\ UNCHANGED <<apiVars, dbVars, routerVars, casts, agentVars, reports, budgets>>

\* Mutant of ApplySync: only what is missing is configured.
ApplyMissing(h) ==
  /\ sync[h].at = "fetched"
  /\ IF local[h] = None THEN Configure(h, sync[h].content)
                        ELSE UNCHANGED <<agentVars, reports, faults>>
  /\ sync' = [sync EXCEPT ![h] = Idle]
  /\ UNCHANGED <<apiVars, dbVars, routerVars, casts, moves, losses, crashes>>

\* What the server no longer lists is left alone.
ApplySync(h) ==
  /\ sync[h].at = "fetched"
  /\ Configure(h, sync[h].content)
  /\ sync' = [sync EXCEPT ![h] = Idle]
  /\ UNCHANGED <<apiVars, dbVars, routerVars, casts, moves, losses, crashes>>

\* The agent dies: with it its sync, the casts it had taken, and the operation
\* at work on one of them, wherever it is.
AgentRestart(h) ==
  /\ crashes < MaxCrashes
  /\ crashes' = crashes + 1
  /\ \E taken \in SUBSET {m \in casts : m.host = h} :
       /\ casts' = casts \ taken
       /\ \/ UNCHANGED agentVars
          \/ \E m \in taken : m.op = "configure" /\ AppliedHalfway(h, m.content)
          \/ sync[h].at = "fetched" /\ AppliedHalfway(h, sync[h].content)
          \/ (\E m \in taken : m.op = "delete") /\ Removed(h)
  /\ sync' = [sync EXCEPT ![h] = Idle]
  /\ UNCHANGED <<apiVars, dbVars, routerVars, reports, moves, faults, losses>>

-----------------------------------------------------------------------------
\* Mutants of HandleReport: a binding outlives its wireguard; no binding is
\* ever inserted.
HandleAnyReport(m) ==
  /\ m \in reports
  /\ reports' = reports \ {m}
  /\ bindings' = [bindings EXCEPT ![m.host] = m.status]
  /\ UNCHANGED <<apiVars, row, deleted, status, routerVars, casts, sync, agentVars, budgets>>

HandleKnownReport(m) ==
  /\ m \in reports
  /\ reports' = reports \ {m}
  /\ IF bindings[m.host] # None THEN Board!Report(m.host, m.status) /\ UNCHANGED row
                               ELSE UNCHANGED <<row, bindings, status>>
  /\ UNCHANGED <<apiVars, deleted, routerVars, casts, sync, agentVars, budgets>>

\* The RPC server: a report on a deleted wireguard ends in WireguardNotFound.
HandleReport(m) ==
  /\ m \in reports
  /\ reports' = reports \ {m}
  /\ \/ UNCHANGED row /\ Board!Report(m.host, m.status)
     \/ row = None /\ UNCHANGED <<row, bindings, status>>
  /\ UNCHANGED <<apiVars, deleted, routerVars, casts, sync, agentVars, budgets>>

\* The network, external: a cast is lost.
LoseCast(m) ==
  /\ m \in casts /\ losses < MaxLosses
  /\ losses' = losses + 1
  /\ casts' = casts \ {m}
  /\ UNCHANGED <<apiVars, dbVars, routerVars, sync, agentVars, reports, moves, faults, crashes>>

LoseReport(m) ==
  /\ m \in reports /\ losses < MaxLosses
  /\ losses' = losses + 1
  /\ reports' = reports \ {m}
  /\ UNCHANGED <<apiVars, dbVars, routerVars, casts, sync, agentVars, moves, faults, crashes>>

\* Neutron, external: the router moves from one host to another, and the L3
\* agents follow; the interface goes with its namespace.
Reschedule(from, to) ==
  /\ from \in hosting /\ to \notin hosting /\ moves < MaxMoves
  /\ moves' = moves + 1
  /\ hosting' = (hosting \ {from}) \union {to}
  /\ UNCHANGED <<apiVars, dbVars, namespaces, casts, sync, agentVars, reports, faults, losses, crashes>>

NamespaceUp(h) ==
  /\ h \in hosting \ namespaces
  /\ namespaces' = namespaces \union {h}
  /\ UNCHANGED <<apiVars, dbVars, hosting, casts, sync, agentVars, reports, budgets>>

NamespaceDown(h) ==
  /\ h \in namespaces \ hosting
  /\ namespaces' = namespaces \ {h}
  /\ Removed(h)
  /\ UNCHANGED <<apiVars, dbVars, hosting, casts, sync, reports, budgets>>

-----------------------------------------------------------------------------

NotifyStep == \E r \in requests : GetHosts(r) \/ \E h \in Hosts : Cast(r, h)
HandleCast == \E m \in casts : HandleConfigure(m) \/ HandleDelete(m)
ServeReport == \E m \in reports : HandleReport(m)
SyncStep(h) == FetchRouters(h) \/ FetchWireguards(h) \/ ApplySync(h)
NamespaceStep(h) == NamespaceUp(h) \/ NamespaceDown(h)

Next ==
  \/ CreateWireguard \/ DeleteWireguard \/ DeleteRouter
  \/ \E e \in Edits : BeginUpdate(e) \/ CommitUpdate(e)
  \/ NotifyStep \/ (\E r \in requests : ApiCrash(r))
  \/ HandleCast \/ ServeReport
  \/ \E m \in casts : LoseCast(m)
  \/ \E m \in reports : LoseReport(m)
  \/ \E h \in Hosts : SyncStep(h) \/ AgentRestart(h) \/ NamespaceStep(h)
  \/ \E from, to \in Hosts : Reschedule(from, to)

Spec == Init /\ [][Next]_vars

\* Workers go on, queued messages are delivered unless lost, the L3 agents
\* follow the scheduler and the periodic sync comes round again.
FairSpec ==
  /\ Spec
  /\ WF_vars(NotifyStep) /\ WF_vars(HandleCast) /\ WF_vars(ServeReport)
  /\ \A h \in Hosts : WF_vars(SyncStep(h)) /\ WF_vars(NamespaceStep(h))

-----------------------------------------------------------------------------

\* However API workers, casts, syncs, agents and the L3 side are interleaved,
\* updates never undo each other in the row, and no agent ever configures what
\* is incomplete, was not committed, or has no namespace.
TunnelSpec == Tunnel!Spec

\* On each host, wherever the router moves and whatever arrives late: no
\* interface outlives its namespace, is incomplete, or has an update that the
\* database lacks.
InterfaceSound == Tunnel!InterfaceSound

\* No interface is ever configured from an incomplete peer configuration,
\* whether it comes by a cast or by the sync, late or out of order.
IncompleteNeverApplied == \A h \in Hosts : local[h] # None => Complete(local[h])

\* Whatever was lost, reordered, overtaken, failed or died, every host of the
\* router ends with the content of the database in its conf file, once the API
\* is quiet, and the interface runs it, unless the last configure that touched
\* it failed or died half way: the file may then claim what the interface does
\* not run, and every later sync skips it (agent/wireguard.py:502-507).
HostsConverge ==
  <>[](row # None /\ Complete(row) =>
         \A h \in hosting : file[h] = row /\ (h \in halfway \/ local[h] = row))

\* Where no status is lost, every host of the router ends with a status on the
\* server and the wireguard leaves PENDING_CREATE, although unchanged
\* configurations are not reported and nobody tells a new host of the router.
StatusArrives ==
  <>[](row # None /\ Complete(row) =>
         status # "PENDING_CREATE" /\ \A h \in hosting : bindings[h] # None)

\* "Delete wireguard interface and configuration." (agent/wireguard.py:530):
\* when all messages about a deleted wireguard are handled and no sync is
\* under way, no host has the interface.  A configure or a sync that the
\* delete overtakes brings it back, and nothing removes it again.
DeletedIsGone ==
  deleted /\ requests = {} /\ casts = {} /\ (\A h \in Hosts : sync[h] = Idle)
    => \A h \in hosting : local[h] = None

\* A router can be deleted under its wireguards (check_router_in_use, which
\* would refuse, is not called), without any cast to the agents: yet in the end
\* no host keeps an interface, not even one configured by a cast or a sync that
\* the deletion overtook.
DeletedRouterLeavesNothing == <>[](hosting = {} => \A h \in Hosts : local[h] = None)

=============================================================================
