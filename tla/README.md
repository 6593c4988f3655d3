# neutron-wireguard in TLA+

Formal models of neutron-wireguard: a Neutron service plugin, its database
layer, an RPC server and an L3 agent extension that together keep one
WireGuard interface per `wireguard` resource in the SNAT namespace of a router,
on every host of that router. Paths below are under `src/neutron_wireguard/`.

## 1. The system

| Component | Source | State | Operations |
|---|---|---|---|
| Lock manager | `agent/wireguard.py` 46-71 | `_locks`: wireguard -> `threading.Lock` | `get_lock`, `remove_lock` |
| Agent operations | `agent/wireguard.py` 175-357, 421-547 | the kernel's interface, a conf file | create, update (`_do_configure_wireguard`), delete |
| Agent sync | `agent/wireguard.py` 85-158, `conf/wireguard.py` | the looping call, the executor's queue | initial sync, periodic sync, one operation per wireguard on a pool of workers |
| Address scope marks | `agent/wireguard.py` 375-419, 549-565 | iptables rules of the router (in the L3 agent) | restore (configure, `add_router`, `update_router`), remove (delete) |
| RPC | `rpc/`, `cmd/rpc_server.py`, `common/topics.py` | messages in flight | casts `wireguard_created/updated/deleted` to an agent, cast `update_wireguard_agent_status` and call `get_wireguards_for_host` to the server |
| Service plugin | `services/plugin.py` | none | create, update, delete, then one cast per host of the router |
| Database: status | `db/wireguard/db.py` 135-182 | `wireguard_agent_bindings`, `wireguards.status` | record a host's status, recompute the aggregate |
| Database: wireguards | `db/wireguard/db.py`, `models.py` | `wireguards` | create, update, delete, `get_wireguards_for_host`, `check_router_in_use` |
| REST extension, key generation, options, migrations | `extensions/`, `services/plugin.py` 29-45, `opts.py`, `db/migration/` | none that changes | declarative or one-shot |

How they interact. An API worker commits a change to the row, then asks Neutron
for the router's hosts, then casts to each: three steps during which other
workers, the scheduler and the agents go on. An agent runs operations in
threads: RPC handlers and the pool of the sync. A per-wireguard lock is meant to
serialise them. An operation compares the wanted configuration with the conf
file, and otherwise runs some ten commands, each of which may fail, and casts a
status. The RPC server's threads record statuses in database transactions.
Every `periodic_sync_interval` an agent asks for all the wireguards of its host.

What makes it hard:

* casts are neither ordered nor acknowledged, and each carries a whole dict;
* the agent has no memory except the interface and the file, and decides by the
  file (written before it is applied) whether there is anything to do;
* the rules of the marks belong to the L3 agent, which throws them away whenever
  it processes the router; operations and hooks restore them without a common
  lock, reading first and adding later;
* several commands fail silently by design (`check_exit_code=False`, caught
  exceptions), the others end the operation half done;
* nothing removes an interface except the one delete cast;
* an unchanged configuration is skipped without a report, so a status that is
  lost, or overtaken by an older one, is not corrected;
* status transactions aggregate what their snapshot shows.

What makes each component correct: the lock manager, that operations on one
wireguard exclude each other and none is stranded; the agent's operations, that
a reported `ACTIVE` is true and stays true, that an interface that is up has a
complete configuration, that exactly the allowed IPs are routed, and that
re-applying ends in the wanted state; the sync, that it comes round to every
wireguard of the host; the marks, that none is missing for good and none piles
up; the status
transaction, that it amounts to one atomic report and swallows none that is
news; the whole, that every host
ends with the database's content and a status, and with nothing once the
wireguard is deleted. The hazards are listed, each at its line, in
`PROJECT.json`.

## 2. Modules

```
WireguardLockManager          locks of the agent
   ^ EXTENDS       ^ LM == INSTANCE
WireguardSync   WireguardAgent
the sync, its   one host, one wireguard,
pool, handlers  command by command

AddressScopeMarks             the marks of one router's wireguards on a host

WireguardStatusBoard                  WireguardTunnel
abstract: atomic reports              abstract: one row, its interfaces
   ^ Board == INSTANCE  ^ Board ==       ^ Tunnel == INSTANCE
WireguardStatusDb       `---- WireguardSystem ----'
the status transaction  API, casts, sync, agents, statuses
```

`MC<module>` has the values of the constants that a `.cfg` cannot write down,
and the symmetry; `<module>_proofs` holds a module's theorems. Operators whose
comment says *Mutant* are not part of the model: each is a faulty variant of the
definition that follows it, kept to show that some property notices the fault.

**WireguardLockManager.** `locks` is `_locks`, `locked` the locks that are held,
`pc`, `call` and `lock` the position, arguments and local variable of a thread.
`GetLock`, `Acquire`, `Release`, `Raise`, `RemoveLock` are the steps of
`_configure_wireguard` and `delete_wireguard`; `Restart` is a new process.
`get_lock` and `remove_lock` are atomic because all of each runs under
`_master_lock`. The history variable `overtaken` has the operations that had
fetched the lock of their wireguard when a `remove_lock` dropped it: the only
ones that another operation may join.

**WireguardSync.** The threads of one agent process around the lock manager:
`at` is where the sync is (fetching, serving a round, waiting for the timer, or
off for good when the interval is 0), `todo` the wireguards of the round that no
worker has taken. `FinishRound` is the end of `with ThreadPoolExecutor`, which
waits for every worker; `Fail` is an operation that raises and is caught by
`sync_one`; `Call` an RPC handler at work meanwhile. `SyncSpec` implements the
lock manager, whose exclusion and `Progress` are checked here, where the calls
come from the code's own callers.

**WireguardAgent.** The lock manager (the same variables) plus the kernel's
interface (`link`: existence, admin state, configuration, addresses, routes),
the conf file, and each thread's next command and local variables. One action
per command of `_do_configure_wireguard` and `_do_delete_wireguard`. What the
commands do to the interface is external and modelled from their man pages:
routes need a link that is up; an address that goes takes its connected routes
along, and the last IPv4 address all IPv4 routes; `ip addr add` of a present
address fails; bringing the link up adds the connected routes; `ip route show`
lists IPv4 only, and some networks under another name than they were added with
(`Renamed`), which the code then removes and adds again. Each `ip route del`
and each `ip route add` is an action (`DelRoute` for the `Stale`, then `AddRoute`
for the `Missing` routes, one of them at a time in any order). `open(..., 'w')` and the write are two steps (`OpenConf`,
`FillConf`). A command fails either because it must in that state (`Refused`) or
spuriously (`CommandFails`, `RouteFails`); `AfterFailure` says where the code
goes on. `LinkLost` is a rebuilt namespace or a reboot, `Crash` a restart of the
agent. The history variable `overlapped` records that two operations have run at
the same time, which is possible (section 5, first finding): the properties of
the operations are stated for histories in which it has not happened. `unseen`
records which of five failures that leave no trace have happened (a lost ERROR
report, a failing list of routes, a failing `ip route del`, a failing
`ip route add`, a failing `ip link del`), so that a property excludes exactly
those that break it.
A dict is `[peer, addr, ips]`; the keys, port and endpoint are one opaque value.

**AddressScopeMarks.** The marks of the wireguards of one router. Each wireguard
is one actor, since its operations exclude each other, and the thread of the
`add_router` and `update_router` hooks is another. `rules` counts a wireguard's
rules in the iptables manager (`add_rule` appends duplicates, `remove_rule`
takes one away), `kernel` says whose rule the kernel has. The restore is five
steps (manager, list of interfaces, compare, add, apply), of which the list and
the apply can fail; a delete removes the rule and then the interface. External:
the L3 agent, which processes the router (the chain is emptied, then the hook is
called), removes it, or starts again. Assumed: a router that is removed does not
come back while an operation still holds the removed router's manager.

**WireguardStatusBoard / WireguardStatusDb.** The board is the promise: a report
replaces the host's previous one and the status is recomputed, atomically. The
database module has the transaction: snapshot at the first query (`Begin`),
INSERT or UPDATE of the binding at `session.flush()` (`Flush`), aggregate from
the snapshot and write of the status (`Commit`), and any of the reasons why
InnoDB or SQLAlchemy rolls it back (`Abort`). `BoardSpec` is the refinement: what
the rows hold is at any time what some atomic reports leave. It allows a commit
to be no report at all, so `CommitsAreReports` says when it may: the report
changes nothing in the transaction's own snapshot. (A transaction that commits
in between may then have changed the rows, and this report does not bring them
back; nor does anything order the reports of a host.)

**WireguardSystem.** One wireguard across API workers, agents and the RPC
server. The content of a row is the set of edits it has had and which of the two
columns that make a peer configuration complete (`Columns`) are set, which is
all the notification logic looks at; this makes "older", "newer" and "lost
update" visible. `update_wireguard` reads (`BeginUpdate`) and later writes the
columns it changes (`CommitUpdate`), so the dict it casts may lack a concurrent
edit, and may be incomplete although the row is not. After the commit come `GetHosts` and
one `Cast` per host. An agent's operation is one step here: a configure finds its
content in the conf file and is skipped, runs to its end (`Applied`), or fails,
before it touches anything or half way (`AppliedHalfway`); a delete may fail
too, and a death of the agent (`AgentRestart`) hits its sync, the casts it had
taken, and an operation wherever it is. Per host, `local` is what the interface
runs, `file` what a later operation finds unchanged in the conf file and the
address, and `halfway` a history variable: the last configure that touched
anything did not complete. Link, routes and marks are left to the modules above.
The handling of a status is one step, too. `DeleteRouter` is Neutron's: the foreign keys take the
row along and no agent is told of the wireguard; the L3 agents remove the
namespace later (`NamespaceDown`). Identical casts in flight are merged: handling the
second of two identical ones in a row changes nothing.

**WireguardTunnel.** What an owner of a wireguard is promised, with no message,
worker or retry in it: updates accumulate in the row and none undoes another
(`Update`), an interface is configured only where the namespace is and only with
a complete content made of committed updates (`Configure`), possibly an old one,
and goes with its namespace. `row`, `deleted`, `namespaces` and `local` of
`WireguardSystem` are its variables; everything else there (edits between read
and commit, requests, casts, syncs, statuses) is hidden by the refinement
`TunnelSpec`. A stale update that wrote back the whole row it had read would
break it, as would an agent that applies what was never committed.

## 3. Checks

All runs are listed in `PROJECT.json`. Bounds and why they are enough:

| Run | Instance | What it shows |
|---|---|---|
| `sync` | 2 wireguards, 2 workers, 1 handler, 5 locks; 3 calls, 1 failing fetch, 1 restart | `ExclusionUntilRemoved`: operations exclude each other, but those whose lock a delete dropped after they had fetched it; `WaitsForOperation`, `SyncWaitsForHandlersOnly`: one waits only for one at work on the same wireguard, a worker only for a handler; `Progress`, `SyncServesAll`: none is stranded, and the sync comes round to every wireguard |
| `marks` | 2 wireguards and the hook; no bound on steps, failures or restarts | `MarksComplete`, `MarksBounded`, `MarksExact`: no mark is missing for good, duplicates do not pile up, and there are none, and none without an interface, where nothing overlapped |
| `agent` | 2 threads, 3 dicts (one IPv6), 1 failing command, 1 loss, 1 crash | `ActiveReportIsTrue`, `UpLinkIsConfigured`, `QuietActiveMeansApplied`, `NoStaleInetRoutes`, `NoMissingRoutes`, `DeleteLeavesNothing`, `LockDiscipline` |
| `agent_converges` | 1 dict, 2 failures before the link exists, 2 losses of it | `SyncConverges` |
| `status_one_host` | 1 host, 3 workers | `BoardSpec`: the rows are what atomic reports leave; `CommitsAreReports`: no commit swallows a report that is news to its snapshot; `NothingAfterDelete`: one that a delete overtakes leaves nothing |
| `system` | 1 host, 2 edits, 2 columns, 1 loss, 1 crash of a worker or the agent | `IncompleteNeverApplied`, `TunnelSpec`: the abstract tunnel, for two updates from one read; `HostsConverge` |
| `system_moves` | 2 hosts, 2 columns, 1 failing operation, the router moves once or is deleted, namespaces follow late | `InterfaceSound`: no interface outside of a namespace or ahead of the row; `HostsConverge`, `StatusArrives`, `DeletedRouterLeavesNothing` |
| `locks_docstring`, `agent_never_up`, `agent_routes6`, `status_docstring`, `system_orphan` | see section 5 | a counterexample to what the documentation says |

* Two threads are enough for one operation to meet another at any command; the
  lock race needs a third (one deletes, one waits, one comes later), which
  `sync` and `locks_docstring` have. Locks: one per thread and one registered
  per wireguard. Operations on different wireguards share nothing but the table
  of locks, the pool of workers and the marks; `sync` and `marks` have two
  wireguards for that, and the theorems hold for any set of them.
* `sync` bounds the calls, for handlers that take a lock again and again could
  starve a worker under any scheduling of `threading.Lock`; three calls let a
  delete, a waiting operation and a later one meet during one round.
* One spurious failure, one loss and one crash cover every position at which
  they can hit and every order of them. The theorems of section 4 lift the
  bounds for the properties they prove, and `marks` has none to begin with: the
  number of rules is bounded by what `MarksBounded` says.
* The three dicts of `agent` differ in peer, allowed IPs and address family, one
  has a `Renamed` network and one an IPv6 network, so every update changes
  something that another leaves alone.
* `UntilOverlap` cuts the state graph after the first overlap of two
  operations, since the properties claim nothing of the interface from there
  on. `TypeOK` and `LockDiscipline` do, and are theorems without that cut.
* `agent_converges` has its failures before the link exists, because those
  after are what `agent_never_up` is about.
* `system` makes two updates read the same row before either commits, and set
  the two columns between them. It has no failing operation, but its crash of
  the agent leaves file and interface wherever a failure could; `system_moves`
  has the failures, with their ERROR reports and the failing delete, and no
  edits, for two hosts double the number of casts. Its two columns are there for
  creations that are incomplete. No status is lost in it, and no agent dies
  before it reports, since the code does not repeat a status.
* Symmetry is used for threads, locks, workers and wireguards in runs of
  invariants and of step properties, never in a run with a liveness property.
* `CHECK_DEADLOCK FALSE` where a deleted wireguard leaves nothing to do.

Fairness. `WireguardSync` and `WireguardAgent`: weak fairness of each thread's
next step, since every command ends; nothing is assumed about which of several
waiting threads gets a lock, and an operation may raise at any time but need
not. The sync is weakly fair because `FixedIntervalLoopingCall` runs it again
and again when `periodic_sync_interval` is not 0 (default 300).
`WireguardSystem`: API workers go on unless they die, a cast that is not lost is
handled, the L3 agents follow the scheduler, the sync comes round again. API
requests, losses, failures and crashes are not fair and each is bounded, so the
liveness properties say "eventually, once they stop".

## 4. Proofs

Checked by TLAPS, for every value of the constants that satisfies the named
assumptions.

* `WireguardLockManager_proofs`: `Exclusion` (`ExclusionUntilRemoved`) and
  `ExclusionWithoutDelete` (`MutualExclusion` where nothing is deleted). The
  property alone is not inductive: that two threads cannot both be at work on a
  wireguard needs that each holds the lock object it fetched, that two threads at
  work never hold the same object, and that what was fetched is what is
  registered as long as no `remove_lock` has run for the wireguard. This is
  `IInv`, proved in `LocksInvariant`; its condition that an operation is not
  `overtaken` is exactly what fails after a delete, for that operation alone.
  `NoneStranded`
  (`WaitsForOperation`) needs two more facts, inductive together
  (`HeldInvariant`): a lock that is held is held by a thread at work
  (`LockedHeld`), so none is left acquired by an exception, a delete or a
  restart; and a lock belongs to one wireguard (`OneWireguard`), registered or
  not, because `get_lock` takes a lock no one uses for a new entry
  (`GetLockOwned`).
* `WireguardAgent_proofs`: `AgentLocks` shows step by step that the agent
  implements the lock manager (`LockDiscipline`), so `AgentExclusion` follows
  from the lock manager's theorem. `AgentTyping` is `TypeOK`, which relates a
  thread's command to its place in the lock protocol and to its dict.
  `AgentNoneStranded` carries the lock manager's `NoneStranded` over likewise.
  `ActiveIsTrue` and `UpIsConfigured` rest on the inductive invariant
  `AppliedInv`: while no overlap has happened, one thread at most is at a
  command (`Alone`); that thread's file is its own before `wg setconf`, its
  configuration is in the kernel from there on unless the interface is lost,
  and its address from `ip addr add` on (`AppliedBy`); and a link that is up has
  a complete configuration (`UpConf`), for it is brought up after `wg setconf`
  and `wg setconf` follows the write. `AppliedInv` was checked with TLC before
  it was proved. On it rest three more. `RoutesInv` follows the local variable
  of the route sync, command after command: while routes are removed it covers
  all IPv4 routes unless the listing or a removal failed, so that only allowed
  ones are left when none in it is stale; and what it holds is there on a link
  that is up, unless an addition failed, so that all are when none is missing.
  So `StaleRoutesGo` (`NoStaleInetRoutes`) and `RoutesCome` (`NoMissingRoutes`),
  each without the failures that break it. `SettledInv` says that as long as no thread is
  past its comparison with the file, an ACTIVE interface runs what the file
  holds, and that a thread past `wg setconf` has its own file: so `QuietIsTrue`
  (`QuietActiveMeansApplied`), until the first crash or lost ERROR.
  `DeleteIsThorough` (`DeleteLeavesNothing`) rests on `RemovedInv`: a delete past
  `ip link del` has no interface unless that command failed unseen, and one that
  ended has no file; the file may be gone before and the interface lost at any
  time, and neither comes back while the delete is alone (`Alone`).
* `WireguardSync_proofs`: `SyncLocks`, every step of the sync, its workers and
  the handlers is a step or a stutter of the lock manager, so `SyncExclusion`
  follows, and so does `SyncNoneStranded`; `SyncTyping`, where
  the part to prove is that no worker is busy outside of a round. `SyncTyping`
  is what `SyncHeldUpByHandlers` (`SyncWaitsForHandlersOnly`) needs: as rounds do
  not overlap, no two busy workers have the same wireguard, nor a wireguard
  that is still to be taken (`WorkersApart`), and with `SyncNoneStranded` whoever
  a worker waits for must then be a handler.
* `AddressScopeMarks_proofs`: `MarksTyping`; `Bounded` (`MarksBounded`), which is
  inductive: an actor that is about to add counts as having added, and it only
  begins to when there is no rule; and `Complete` (`MarksComplete`). The latter
  needs `OwedInv`: in a known router, an active wireguard, or one whose own
  restore has reached the adding, has its rule unless the hook still owes it
  (has yet to list it, or has it among what it will add), and `KernelInv`: the
  kernel lacks a rule only while some actor is about to apply, as long as no
  apply has failed. `Exact` (`MarksExact`) has `ExactInv`: as long as nothing has
  overlapped, one actor at most is at work (`AloneAtWork`); what it listed has
  its interface still, what it is about to add has no rule, and a delete that
  has removed a rule has removed the only one.
* `WireguardSystem_proofs`: `SystemTyping` (`TypeOK`) and `IncompleteNever`
  (`IncompleteNeverApplied`), from an invariant over every place a content
  passes: request, cast, sync and interface (`CompleteOnly`).
  `SystemImplementsTunnel` (`TunnelSpec`): every step, those of an agent that
  fails or dies half way included, is a step or a stutter of the abstract tunnel. The initial states map by `TunnelInit`, the steps by
  `TunnelStep`. Two invariants carry it: `CompleteOnly`, and `Behind`: what an
  update has read, and what requests, casts and syncs carry, never has an edit
  that the row lacks, and once the row is gone for good anything may be on its
  way. `Behind` is inductive because the row only gains edits while it exists
  and never comes back (`RowSteps`, `KnownStays`). `InterfacesSound`
  (`InterfaceSound`) is proved of the abstract tunnel alone (`TunnelSound`) and
  carried over by the refinement.
* `WireguardStatusDb_proofs`: `DeletedStaysDeleted` (`NothingAfterDelete`), for
  any hosts and workers, from `WrittenExists`: a transaction that has flushed
  holds the row, so it is not deleted before the commit; the foreign key does the
  rest. `OneHostImplementsBoard`: with one host and any
  number of concurrent workers every step of a transaction is a step or a
  stutter of the board. The invariant `SnapshotsMatch` says that binding and
  status agree, in the table and in every snapshot, and that a flushed
  transaction has written what its snapshot called for; the row locks do the rest.
  `OneHostReports` (`CommitsAreReports`) is from the same invariant: each commit
  is that report, or one its snapshot held already.
  `OneWorkerImplementsBoard` and `OneWorkerReports`: with one worker and any
  number of hosts it is so too, because nothing but a delete comes between its snapshot and its commit
  (`SnapshotCurrent`); `OneWorkerAggregates`: the status then always is that of
  the bindings in the table (`AggregateIsCurrent`). So the fourth finding of
  section 5 needs both, two hosts and two workers.

Only model-checked: the liveness properties (`Progress`, `SyncServesAll`,
`SyncConverges`, `HostsConverge`, `StatusArrives`, `DeletedRouterLeavesNothing`),
which need fairness and are beyond the prover, and the implementation of the
board by several workers of several hosts, which is false (section 5). The five
properties that section 5 refutes have no theorem, of course. Every invariant and
every refinement of a passing run is a theorem.

## 5. Where the code and its documentation disagree

Each is a run that TLC ends with a counterexample; the quotations are in
`PROJECT.json`.

1. `locks_docstring`: two operations on one wireguard at a time, after a delete
   has dropped the lock that another operation waits for.
2. `agent_never_up`: an `ip link set up` that fails once is never retried; every
   later sync skips the interface as unchanged.
3. `agent_routes6`: stale routes are looked for with `ip route show`, which lists
   IPv4 only, so the route of an IPv6 network that is no longer allowed stays.
4. `status_docstring`: concurrent reports leave an aggregate that is not that of
   the bindings in the table. With one host, or with one worker, this cannot
   happen: every interleaving implements the board (section 4).
5. `system_orphan`: a delete that overtakes a create leaves an interface that
   nothing removes.

Noticed on the way, not among the runs:

* A crash between writing the conf file and `wg setconf` makes every later
  operation with the same dict skip the wireguard, which the file claims to be
  applied. `QuietActiveMeansApplied` excludes crashes for this reason, and
  `HostsConverge` says of a host whose last configure was cut short, by a crash
  or by a failing `wg setconf`, only that its file has the row's content.
* A `wg setconf` that fails during the creation makes the next operation report
  ACTIVE with the link down (the cause is that of 2).
* A failing apply of the marks ends a configure in ERROR but leaves the rules in
  the manager, so later restores find them and apply nothing: the next configure
  is ACTIVE while the kernel lacks the mark, until something else is applied.
* A configure before the L3 agent knows the router, or with a failing list of
  interfaces, is ACTIVE without a mark; the next hook makes up for it.
* A delete removes the mark before the interface: a restore in between adds it
  again for good, and one `remove_rule` leaves a duplicate.
* An update that only adds the wireguard's own address to its allowed IPs
  changes no file, so its route is not synced; it is the interface's own address.
* An allowed IP with host bits set is refused by `ip route add`, with a warning.
* `ip link del` may fail unnoticed; lock and file go all the same. So may
  `ip route del`: the operation is ACTIVE, the stale route stays, and nothing
  looks at it again until the configuration changes (`NoStaleInetRoutes` excludes
  it).
* A status that is lost, or an ERROR that is handled after the ACTIVE of a later
  attempt, stays, because unchanged configurations are not reported. So does the
  binding of a host that the router has left.

## 6. Not modelled

* Key generation (an external library; the keys are part of the opaque peer
  value), the REST attribute map, policy, options, entry points, and the
  database migrations: declarative or one-shot, with no state that changes.
  The models take from the attribute map what an update may change.
* File and directory permissions, `os.chmod` and `os.makedirs`; text formats.
* The plain readers of the database layer; `check_router_in_use`, which nothing
  calls.
* In `WireguardAgent`, the rules of the marks (two commands that may fail there,
  a module of their own). In `WireguardSystem`, other wireguards of the router.

## 7. Plan

1. Done: the lock manager, the sync, the agent's operations, the marks, the
   status transaction and its abstraction, the distributed system and the
   abstract tunnel it implements, and the proofs of section 4.
2. Proofs: that `WireguardAgent`'s operation, where nothing overlaps, amounts to
   the single step that `WireguardSystem` makes of it.
3. Statuses: which status a host should end with when reports are lost, and
   what the binding of a former host should count for.
4. A configure that holds the manager of a router that is removed and added
   again meanwhile (the assumption of `AddressScopeMarks`).
