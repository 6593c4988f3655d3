-------------------------- MODULE WireguardStatusDb --------------------------
(***************************************************************************)
(* update_wireguard_agent_status of db/wireguard/db.py as the database     *)
(* transaction it is, for one wireguard.  The threads of the RPC server    *)
(* handle status casts concurrently; an API worker may delete the row.     *)
(*                                                                         *)
(* The database is external: InnoDB at its default isolation.  Plain       *)
(* SELECTs of a transaction all read the snapshot taken by the first of    *)
(* them; an UPDATE waits for the row's lock and changes the row as it is   *)
(* by then; an INSERT of a binding shares a lock on its wireguard (foreign *)
(* key) with other INSERTs.  The ORM issues an UPDATE only for a value     *)
(* that differs from the one it loaded.                                    *)
(***************************************************************************)

CONSTANTS Hosts,    \* L3 agents that report on the wireguard
          Workers,  \* threads of the RPC server
          Reports,  \* the statuses agents report
          None

ASSUME ReportsAssumption == Reports \subseteq {"ACTIVE", "ERROR"}
ASSUME NoneAssumption == None \notin {"ACTIVE", "ERROR", "DEGRADED", "PENDING_CREATE"}

VARIABLES exists, bindings, status,  \* the committed rows
          txn   \* the transaction each worker has open, or None

vars == <<exists, bindings, status, txn>>

Board == INSTANCE WireguardStatusBoard

Statuses == {"ACTIVE", "ERROR", "DEGRADED", "PENDING_CREATE"}
Bindings == [Hosts -> Reports \union {None}]

\* "bindings" and "status" are the snapshot's, "write" is the statement that
\* session.flush() issued for the binding: none, an INSERT or an UPDATE.
Transactions == [host : Hosts, report : Reports, bindings : Bindings,
                 status : Statuses, flushed : BOOLEAN,
                 write : {"none", "insert", "update"}]

TypeOK ==
  /\ exists \in BOOLEAN
  /\ bindings \in Bindings
  /\ status \in Statuses \union {None}
  /\ exists => status \in Statuses
  /\ txn \in [Workers -> Transactions \union {None}]

Init == Board!Init /\ txn = [w \in Workers |-> None]

\* Another transaction has written the binding of host h, or inserted one.
BindingLocked(w, h) ==
  \E v \in Workers \ {w} : /\ txn[v] # None
                           /\ txn[v].host = h /\ txn[v].write # "none"
RowShared(w) ==
  \E v \in Workers \ {w} : txn[v] # None /\ txn[v].write = "insert"

\* Mutant of Begin: the row is not checked for.
BeginUnchecked(w, h, s) ==
  /\ txn[w] = None
  /\ txn' = [txn EXCEPT ![w] = [host |-> h, report |-> s, bindings |-> bindings,
                                status |-> status, flushed |-> FALSE, write |-> "none"]]
  /\ UNCHANGED <<exists, bindings, status>>

\* _get_wireguard: takes the snapshot; without a row, WireguardNotFound.
Begin(w, h, s) ==
  /\ txn[w] = None
  /\ exists
  /\ txn' = [txn EXCEPT ![w] = [host |-> h, report |-> s, bindings |-> bindings,
                                status |-> status, flushed |-> FALSE, write |-> "none"]]
  /\ UNCHANGED <<exists, bindings, status>>

\* Mutant of Upsert: the status of an existing binding stays.
UpsertFirst(t) == IF t.bindings[t.host] = None THEN "insert" ELSE "none"

\* What session.flush() sends, from what the query for the binding returned.
Upsert(t) ==
  CASE t.bindings[t.host] = None     -> "insert"
    [] t.bindings[t.host] = t.report -> "none"
    [] OTHER                         -> "update"

\* An INSERT needs the wireguard and no such binding, an UPDATE the binding.
Possible(write, h) ==
  CASE write = "insert" -> exists /\ bindings[h] = None
    [] write = "update" -> exists
    [] write = "none"   -> TRUE

Flush(w) ==
  /\ txn[w] # None /\ ~txn[w].flushed
  /\ LET write == Upsert(txn[w])
     IN /\ write # "none" => ~BindingLocked(w, txn[w].host)
        /\ Possible(write, txn[w].host)
        /\ txn' = [txn EXCEPT ![w].flushed = TRUE, ![w].write = write]
  /\ UNCHANGED <<exists, bindings, status>>

\* The snapshot with the transaction's own write: what ".all()" returns.
AllBindings(t) == [t.bindings EXCEPT ![t.host] = t.report]
\* Mutant of NewStatus: no flush before the bindings are queried.
StatusBeforeFlush(t) == Board!Aggregate(t.bindings, t.report)

NewStatus(t) == Board!Aggregate(AllBindings(t), t.report)

\* The new status is written if it is not the one loaded, and all is committed.
Commit(w) ==
  /\ txn[w] # None /\ txn[w].flushed
  /\ LET t == txn[w]
         changed == NewStatus(t) # t.status
     IN /\ changed => exists /\ ~RowShared(w)
        /\ bindings' = IF t.write = "none" THEN bindings
                       ELSE [bindings EXCEPT ![t.host] = t.report]
        /\ status' = IF changed THEN NewStatus(t) ELSE status
  /\ txn' = [txn EXCEPT ![w] = None]
  /\ UNCHANGED exists

\* Duplicate key, missing parent, stale row, deadlock, lock wait timeout, death
\* of the worker: the transaction is rolled back and the report is lost, for
\* nothing retries it.
Abort(w) ==
  /\ txn[w] # None
  /\ txn' = [txn EXCEPT ![w] = None]
  /\ UNCHANGED <<exists, bindings, status>>

\* delete_wireguard of the API (or of the router, by cascade) waits for the
\* row locks; the bindings go with the row.
Delete ==
  /\ \A w \in Workers : txn[w] # None => txn[w].write = "none"
  /\ Board!Delete
  /\ UNCHANGED txn

Next ==
  \/ \E w \in Workers : \/ \E h \in Hosts, s \in Reports : Begin(w, h, s)
                        \/ Flush(w)
                        \/ Commit(w)
                        \/ Abort(w)
  \/ Delete

Spec == Init /\ [][Next]_vars

-----------------------------------------------------------------------------

\* The rows only ever change as if reports came one at a time, each with the
\* aggregate of its moment, whatever snapshots the transactions work on: never
\* a binding without its status or a status without its binding, and nothing
\* after a delete.  (For one host, or one worker.  It says nothing of the order
\* in which the reports of a host are recorded, nor of those of no effect.)
BoardSpec == Board!Spec

\* The transaction's snapshot already says what it reports.
AlreadyReported(t) ==
  t.bindings[t.host] = t.report /\ t.status = Board!Aggregate(t.bindings, t.report)

\* "Update the per-agent status and recompute aggregate status" (line 137): a
\* report is not swallowed.  Its transaction, if it commits, records it, with
\* the aggregate of all bindings of that moment; or it leaves the rows alone,
\* and then they said the same when it took its snapshot (though an overtaking
\* transaction may have changed them since).  (For one host, or one worker.)
CommitsAreReports ==
  [][\A w \in Workers : Commit(w) =>
       \/ Board!Report(txn[w].host, txn[w].report)
       \/ AlreadyReported(txn[w]) /\ UNCHANGED <<exists, bindings, status>>]_vars

\* Nothing about a deleted wireguard comes back: a transaction that began
\* before the deletion and goes on after it leaves no binding and no status.
NothingAfterDelete == ~exists => bindings = Board!NoBindings /\ status = None

\* "Compute aggregate status from all bindings" (line 160), "recompute
\* aggregate status" (line 137): once every transaction is over, the status is
\* that of the bindings.  With two hosts and two workers it is not: each
\* transaction reads the other host's binding from its snapshot.
AggregateIsCurrent ==
  exists /\ (\A w \in Workers : txn[w] = None) =>
    status = Board!Aggregate(bindings, "PENDING_CREATE")

=============================================================================
