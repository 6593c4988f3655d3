----------------------- MODULE WireguardStatusDb_proofs -----------------------
(***************************************************************************)
(* With a single host (a router that is not highly available),             *)
(* WireguardStatusDb implements WireguardStatusBoard for any number of     *)
(* RPC server threads; with a single thread it does for any number of      *)
(* hosts; whatever aborts or is deleted meanwhile.                         *)
(***************************************************************************)
EXTENDS WireguardStatusDb, TLAPS

\* The aggregate of reported statuses is one of the statuses of a wireguard.
LEMMA AggregateType ==
  ASSUME NEW b, NEW s \in Statuses PROVE Board!Aggregate(b, s) \in Statuses
<1> DEFINE statuses == {b[h] : h \in Hosts} \ {None}
<1>1. CASE statuses = {"ACTIVE"}
  BY <1>1 DEF Board!Aggregate, Statuses
<1>2. CASE statuses = {"ERROR"}
  <2>1. statuses # {"ACTIVE"}
    BY <1>2
  <2> QED
    BY <1>2, <2>1 DEF Board!Aggregate, Statuses
<1>3. CASE statuses = {"ACTIVE", "ERROR"}
  <2>1. statuses # {"ACTIVE"} /\ statuses # {"ERROR"}
    BY <1>3
  <2> QED
    BY <1>3, <2>1 DEF Board!Aggregate, Statuses
<1>4. CASE statuses \notin {{"ACTIVE"}, {"ERROR"}, {"ACTIVE", "ERROR"}}
  BY <1>4 DEF Board!Aggregate
<1> QED
  BY <1>1, <1>2, <1>3, <1>4

\* The types hold with any number of hosts and threads.
THEOREM Typing == Spec => []TypeOK
<1> USE ReportsAssumption, NoneAssumption
<1>1. Init => TypeOK
  BY DEF Init, TypeOK, Board!Init, Board!NoBindings, Bindings, Statuses
<1>2. TypeOK /\ [Next]_vars => TypeOK'
  <2> SUFFICES ASSUME TypeOK, [Next]_vars PROVE TypeOK'
    OBVIOUS
  <2> USE DEF TypeOK
  <2>1. ASSUME NEW w \in Workers, NEW h \in Hosts, NEW s \in Reports, Begin(w, h, s)
        PROVE  TypeOK'
    <3>1. [host |-> h, report |-> s, bindings |-> bindings, status |-> status,
           flushed |-> FALSE, write |-> "none"] \in Transactions
      BY <2>1 DEF Begin, Transactions
    <3> QED
      BY <2>1, <3>1 DEF Begin
  <2>2. ASSUME NEW w \in Workers, Flush(w) PROVE TypeOK'
    <3>1. txn[w] \in Transactions
      BY <2>2 DEF Flush
    <3>2. Upsert(txn[w]) \in {"none", "insert", "update"}
      BY DEF Upsert
    <3>3. [txn[w] EXCEPT !.flushed = TRUE, !.write = Upsert(txn[w])] \in Transactions
      BY <3>1, <3>2 DEF Transactions
    <3>4. txn' = [txn EXCEPT ![w] = [txn[w] EXCEPT !.flushed = TRUE, !.write = Upsert(txn[w])]]
      BY <2>2 DEF Flush
    <3> QED
      BY <2>2, <3>3, <3>4 DEF Flush
  <2>3. ASSUME NEW w \in Workers, Commit(w) PROVE TypeOK'
    <3>1. txn[w] \in Transactions
      BY <2>3 DEF Commit
    <3>2. txn[w].host \in Hosts /\ txn[w].report \in Reports
      BY <3>1 DEF Transactions
    <3>3. bindings' \in Bindings
      BY <2>3, <3>2 DEF Commit, Bindings
    <3>4. NewStatus(txn[w]) \in Statuses
      BY <3>2, AggregateType DEF NewStatus, Statuses
    <3> QED
      BY <2>3, <3>3, <3>4 DEF Commit
  <2>4. ASSUME NEW w \in Workers, Abort(w) PROVE TypeOK'
    BY <2>4 DEF Abort
  <2>5. CASE Delete
    BY <2>5 DEF Delete, Board!Delete, Board!NoBindings, Bindings
  <2>6. CASE UNCHANGED vars
    BY <2>6 DEF vars
  <2> QED
    BY <2>1, <2>2, <2>3, <2>4, <2>5, <2>6 DEF Next
<1> QED
  BY <1>1, <1>2, PTL DEF Spec

-----------------------------------------------------------------------------

\* A deletion waits for every transaction that has written a binding.
WrittenExists == \A w \in Workers : txn[w] # None /\ txn[w].write # "none" => exists

\* However many hosts report through however many threads, no transaction that
\* is under way when the wireguard is deleted brings a binding or a status back.
THEOREM DeletedStaysDeleted == Spec => []NothingAfterDelete
<1> DEFINE Inv == WrittenExists /\ NothingAfterDelete
<1>1. Init => Inv
  BY DEF Init, Board!Init, WrittenExists, NothingAfterDelete
<1>2. TypeOK /\ Inv /\ [Next]_vars => Inv'
  <2> SUFFICES ASSUME TypeOK, Inv, [Next]_vars PROVE Inv'
    OBVIOUS
  <2> USE DEF WrittenExists, NothingAfterDelete, Board!NoBindings
  <2>1. ASSUME NEW w \in Workers, NEW h \in Hosts, NEW s \in Reports, Begin(w, h, s)
        PROVE  Inv'
    BY <2>1 DEF Begin, TypeOK
  <2>2. ASSUME NEW w \in Workers, Flush(w) PROVE Inv'
    <3> DEFINE write == Upsert(txn[w])
    <3>1. write # "none" => exists
      <4>1. Possible(write, txn[w].host) /\ write \in {"none", "insert", "update"}
        BY <2>2 DEF Flush, Upsert
      <4> QED
        BY <4>1 DEF Possible
    <3>2. \A v \in Workers \ {w} : txn'[v] = txn[v]
      BY <2>2 DEF Flush, TypeOK
    <3>3. txn'[w].write = write
      BY <2>2 DEF Flush, TypeOK, Transactions
    <3>4. UNCHANGED <<exists, bindings, status>>
      BY <2>2 DEF Flush
    <3> HIDE DEF write
    <3> QED
      BY <3>1, <3>2, <3>3, <3>4
  <2>3. ASSUME NEW w \in Workers, Commit(w) PROVE Inv'
    <3>1. exists' = exists /\ \A v \in Workers : txn'[v] # None => txn'[v] = txn[v]
      BY <2>3 DEF Commit, TypeOK
    <3>2. ~exists => bindings' = bindings /\ status' = status
      BY <2>3 DEF Commit
    <3> QED
      BY <3>1, <3>2
  <2>4. ASSUME NEW w \in Workers, Abort(w) PROVE Inv'
    BY <2>4 DEF Abort, TypeOK
  <2>5. CASE Delete
    BY <2>5 DEF Delete, Board!Delete
  <2>6. CASE UNCHANGED vars
    BY <2>6 DEF vars
  <2> QED
    BY <2>1, <2>2, <2>3, <2>4, <2>5, <2>6 DEF Next
<1>3. Inv => NothingAfterDelete
  OBVIOUS
<1> QED
  BY <1>1, <1>2, <1>3, Typing, PTL DEF Spec

-----------------------------------------------------------------------------

\* A single host's binding and the wireguard's status say the same.
Matches(b, s) ==
  \A h \in Hosts : s = IF b[h] = None THEN "PENDING_CREATE" ELSE b[h]

\* So it is in the committed rows and in every snapshot; and a flushed
\* transaction has written what its snapshot called for.
SnapshotsMatch ==
  /\ exists => Matches(bindings, status)
  /\ \A w \in Workers : txn[w] # None =>
       /\ Matches(txn[w].bindings, txn[w].status)
       /\ txn[w].flushed => txn[w].write = Upsert(txn[w])

\* With one host, the aggregate of its report is that report.
LEMMA AggregateOfOne ==
  ASSUME NEW host, Hosts = {host}, NEW s \in Reports,
         NEW b, b[host] = s
  PROVE  Board!Aggregate(b, s) = s
<1> USE ReportsAssumption, NoneAssumption
<1> DEFINE statuses == {b[h] : h \in Hosts} \ {None}
<1>1. statuses = {s}
  <2>1. s # None
    OBVIOUS
  <2> QED
    BY <2>1
<1>2. CASE s = "ACTIVE"
  BY <1>1, <1>2 DEF Board!Aggregate
<1>3. CASE s = "ERROR"
  <2>1. statuses = {"ERROR"} /\ statuses # {"ACTIVE"}
    BY <1>1, <1>3
  <2> QED
    BY <2>1, <1>3 DEF Board!Aggregate
<1> QED
  BY <1>2, <1>3

\* What a commit does, with one host: the report reaches binding and status
\* together, or the snapshot had it and nothing changes.
LEMMA CommitIsReport ==
  ASSUME NEW host, Hosts = {host}, TypeOK, SnapshotsMatch,
         NEW w \in Workers, Commit(w)
  PROVE  \/ Board!Report(host, txn[w].report)
         \/ AlreadyReported(txn[w]) /\ UNCHANGED <<exists, bindings, status>>
<1> USE ReportsAssumption, NoneAssumption
<1> DEFINE t == txn[w]
<1>1. t \in Transactions /\ t.host = host /\ t.report \in Reports /\ t.bindings \in Bindings
  BY DEF Commit, TypeOK, Transactions
<1>2. NewStatus(t) = t.report
  <2>1. AllBindings(t)[host] = t.report
    BY <1>1 DEF AllBindings, Bindings
  <2> QED
    BY <1>1, <2>1, AggregateOfOne DEF NewStatus
<1>3. Matches(t.bindings, t.status) /\ t.write = Upsert(t)
  BY DEF SnapshotsMatch, Commit
<1>4. CASE t.bindings[host] = t.report
  <2>1. t.write = "none"
    BY <1>1, <1>3, <1>4 DEF Upsert
  <2>2. t.status = t.report
    BY <1>1, <1>3, <1>4 DEF Matches
  <2>3. Board!Aggregate(t.bindings, t.report) = t.report
    BY <1>1, <1>4, AggregateOfOne
  <2> QED
    BY <1>1, <1>2, <1>4, <2>1, <2>2, <2>3 DEF Commit, AlreadyReported
<1>5. CASE t.bindings[host] # t.report
  <2>1. t.write # "none"
    BY <1>1, <1>3, <1>5 DEF Upsert
  <2>2. t.status # t.report
    BY <1>1, <1>3, <1>5 DEF Matches
  <2>3. exists /\ exists' = exists
    BY <1>2, <2>2 DEF Commit
  <2>4. bindings' = [bindings EXCEPT ![host] = t.report] /\ status' = t.report
    BY <1>1, <1>2, <2>1, <2>2 DEF Commit
  <2>5. bindings'[host] = t.report
    BY <1>1, <2>4 DEF TypeOK, Bindings
  <2>6. Board!Aggregate(bindings', t.report) = t.report
    BY <1>1, <2>5, AggregateOfOne
  <2> QED
    BY <2>3, <2>4, <2>6 DEF Board!Report
<1> QED
  BY <1>4, <1>5

\* The strengthened invariant of the single-host case.
LEMMA OneHostInvariant ==
  ASSUME NEW host, Hosts = {host}
  PROVE  Spec => []SnapshotsMatch
<1> USE ReportsAssumption, NoneAssumption
<1>1. Init => SnapshotsMatch
  BY DEF Init, Board!Init, Board!NoBindings, SnapshotsMatch, Matches
<1>2. TypeOK /\ SnapshotsMatch /\ [Next]_vars => SnapshotsMatch'
  <2> SUFFICES ASSUME TypeOK, SnapshotsMatch, [Next]_vars PROVE SnapshotsMatch'
    OBVIOUS
  <2>1. ASSUME NEW w \in Workers, NEW h \in Hosts, NEW s \in Reports, Begin(w, h, s)
        PROVE  SnapshotsMatch'
    BY <2>1 DEF Begin, SnapshotsMatch, Matches, TypeOK, Upsert
  <2>2. ASSUME NEW w \in Workers, Flush(w) PROVE SnapshotsMatch'
    <3>1. txn[w] \in Transactions
      BY <2>2 DEF Flush, TypeOK
    <3>2. txn' = [txn EXCEPT ![w] = [txn[w] EXCEPT !.flushed = TRUE, !.write = Upsert(txn[w])]]
      BY <2>2 DEF Flush
    <3>3. txn'[w].write = Upsert(txn'[w]) /\ Matches(txn'[w].bindings, txn'[w].status)
      BY <2>2, <3>1, <3>2 DEF Flush, TypeOK, SnapshotsMatch, Transactions, Upsert, Matches
    <3> QED
      BY <2>2, <3>2, <3>3 DEF Flush, TypeOK, SnapshotsMatch, Matches
  <2>3. ASSUME NEW w \in Workers, Commit(w) PROVE SnapshotsMatch'
    <3>1. \A v \in Workers : txn'[v] # None => txn'[v] = txn[v]
      BY <2>3 DEF Commit, TypeOK
    <3>2. CASE Board!Report(host, txn[w].report)
      <4>1. txn[w].report \in Reports
        BY <2>3 DEF Commit, TypeOK, Transactions
      <4>2. bindings'[host] = txn[w].report
        BY <3>2 DEF Board!Report, TypeOK, Bindings
      <4>3. status' = txn[w].report
        BY <3>2, <4>1, <4>2, AggregateOfOne DEF Board!Report
      <4>4. Matches(bindings, status)'
        BY <4>1, <4>2, <4>3 DEF Matches
      <4> QED
        BY <3>1, <4>4 DEF SnapshotsMatch, Matches, Upsert
    <3>3. CASE UNCHANGED <<exists, bindings, status>>
      BY <3>1, <3>3 DEF SnapshotsMatch, Matches, Upsert
    <3> QED
      BY <2>3, <3>2, <3>3, CommitIsReport
  <2>4. ASSUME NEW w \in Workers, Abort(w) PROVE SnapshotsMatch'
    BY <2>4 DEF Abort, SnapshotsMatch, Matches, TypeOK, Upsert
  <2>5. CASE Delete
    BY <2>5 DEF Delete, Board!Delete, SnapshotsMatch, Matches, Upsert
  <2>6. CASE UNCHANGED vars
    BY <2>6 DEF vars, SnapshotsMatch, Matches, Upsert
  <2> QED
    BY <2>1, <2>2, <2>3, <2>4, <2>5, <2>6 DEF Next
<1> QED
  BY <1>1, <1>2, Typing, PTL DEF Spec

\* With one host, every transaction of every interleaving records its report
\* and the status that follows from it in one step, or does nothing.
THEOREM OneHostImplementsBoard ==
  ASSUME NEW host, Hosts = {host}
  PROVE  Spec => BoardSpec
<1>1. Init => Board!Init
  BY DEF Init
<1>2. TypeOK /\ SnapshotsMatch /\ [Next]_vars => [Board!Next]_(Board!vars)
  <2> SUFFICES ASSUME TypeOK, SnapshotsMatch, [Next]_vars
               PROVE  Board!Next \/ UNCHANGED <<exists, bindings, status>>
    BY DEF Board!vars
  <2>1. ASSUME NEW w \in Workers, NEW h \in Hosts, NEW s \in Reports, Begin(w, h, s)
        PROVE  UNCHANGED <<exists, bindings, status>>
    BY <2>1 DEF Begin
  <2>2. ASSUME NEW w \in Workers, Flush(w) PROVE UNCHANGED <<exists, bindings, status>>
    BY <2>2 DEF Flush
  <2>3. ASSUME NEW w \in Workers, Commit(w)
        PROVE  Board!Next \/ UNCHANGED <<exists, bindings, status>>
    <3>1. txn[w].report \in Reports
      BY <2>3 DEF Commit, TypeOK, Transactions
    <3> QED
      BY <2>3, <3>1, CommitIsReport DEF Board!Next
  <2>4. ASSUME NEW w \in Workers, Abort(w) PROVE UNCHANGED <<exists, bindings, status>>
    BY <2>4 DEF Abort
  <2>5. CASE Delete
    BY <2>5 DEF Delete, Board!Next
  <2>6. CASE UNCHANGED vars
    BY <2>6 DEF vars
  <2> QED
    BY <2>1, <2>2, <2>3, <2>4, <2>5, <2>6 DEF Next
<1> QED
  BY <1>1, <1>2, Typing, OneHostInvariant, PTL DEF Spec, BoardSpec, Board!Spec

\* With one host, no report is swallowed but by a row that said the same when
\* its transaction began, with any number of threads.
THEOREM OneHostReports ==
  ASSUME NEW host, Hosts = {host}
  PROVE  Spec => CommitsAreReports
<1>1. ASSUME TypeOK, SnapshotsMatch, NEW w \in Workers, Commit(w)
      PROVE  \/ Board!Report(txn[w].host, txn[w].report)
             \/ AlreadyReported(txn[w]) /\ UNCHANGED <<exists, bindings, status>>
  <2>1. txn[w].host = host
    BY <1>1 DEF Commit, TypeOK, Transactions
  <2> QED
    BY <1>1, <2>1, CommitIsReport
<1>2. TypeOK /\ SnapshotsMatch
        => [\A w \in Workers : Commit(w) =>
              \/ Board!Report(txn[w].host, txn[w].report)
              \/ AlreadyReported(txn[w]) /\ UNCHANGED <<exists, bindings, status>>]_vars
  BY <1>1
<1> QED
  BY <1>2, Typing, OneHostInvariant, PTL DEF CommitsAreReports

-----------------------------------------------------------------------------

\* The invariant for one thread.  While its transaction is open nobody else
\* changes the rows but a delete, which waits once a binding is written.
Unshared(w) ==
  /\ exists => txn[w].bindings = bindings /\ txn[w].status = status
  /\ txn[w].flushed => txn[w].write = Upsert(txn[w])
  /\ txn[w].write # "none" => exists

SnapshotCurrent == \A w \in Workers : txn[w] # None => Unshared(w)

LEMMA OneWorkerInvariant ==
  ASSUME NEW worker, Workers = {worker}
  PROVE  Spec => []SnapshotCurrent
<1> USE ReportsAssumption, NoneAssumption
<1>1. Init => SnapshotCurrent
  BY DEF Init, SnapshotCurrent
<1>2. TypeOK /\ SnapshotCurrent /\ [Next]_vars => SnapshotCurrent'
  <2> SUFFICES ASSUME TypeOK, SnapshotCurrent, [Next]_vars, txn'[worker] # None
               PROVE  Unshared(worker)'
    BY DEF SnapshotCurrent
  <2>1. ASSUME NEW w \in Workers, NEW h \in Hosts, NEW s \in Reports, Begin(w, h, s)
        PROVE  Unshared(worker)'
    BY <2>1 DEF Begin, TypeOK, Unshared
  <2>2. ASSUME NEW w \in Workers, Flush(w) PROVE Unshared(worker)'
    <3> DEFINE t == txn[worker]
    <3>1. t \in Transactions /\ Unshared(worker) /\ w = worker
      BY <2>2 DEF Flush, TypeOK, SnapshotCurrent
    <3>2. Upsert(t) # "none" => exists
      <4>1. Possible(Upsert(t), t.host)
        BY <2>2, <3>1 DEF Flush
      <4>2. Upsert(t) \in {"none", "insert", "update"}
        BY DEF Upsert
      <4> QED
        BY <4>1, <4>2 DEF Possible
    <3>3. txn' = [txn EXCEPT ![worker] = [t EXCEPT !.flushed = TRUE, !.write = Upsert(t)]]
      BY <2>2, <3>1 DEF Flush
    <3>4. txn'[worker] = [t EXCEPT !.flushed = TRUE, !.write = Upsert(t)]
      BY <3>3 DEF TypeOK
    <3>5. /\ txn'[worker].host = t.host /\ txn'[worker].report = t.report
          /\ txn'[worker].bindings = t.bindings /\ txn'[worker].status = t.status
          /\ txn'[worker].write = Upsert(t)
      BY <3>1, <3>4 DEF Transactions
    <3>6. Upsert(txn'[worker]) = Upsert(t)
      BY <3>5 DEF Upsert
    <3>7. UNCHANGED <<exists, bindings, status>>
      BY <2>2 DEF Flush
    <3>8. Upsert(txn[worker])' = Upsert(txn'[worker])
      BY DEF Upsert
    <3> QED
      BY <3>1, <3>2, <3>5, <3>6, <3>7, <3>8 DEF Unshared
  <2>3. ASSUME NEW w \in Workers, Commit(w) \/ Abort(w) PROVE FALSE
    BY <2>3 DEF Commit, Abort, TypeOK
  <2>4. CASE Delete
    <3>1. txn'[worker] = txn[worker] /\ txn[worker] # None /\ exists' = FALSE
      BY <2>4 DEF Delete, Board!Delete
    <3>2. txn[worker].write = "none" /\ Unshared(worker)
      BY <2>4, <3>1 DEF Delete, SnapshotCurrent
    <3> QED
      BY <3>1, <3>2 DEF Unshared, Upsert
  <2>5. CASE UNCHANGED vars
    BY <2>5 DEF vars, SnapshotCurrent, Unshared, Upsert
  <2> QED
    BY <2>1, <2>2, <2>3, <2>4, <2>5 DEF Next
<1> QED
  BY <1>1, <1>2, Typing, PTL DEF Spec

\* With one thread, a commit is a report to the board, or, when the row has
\* gone meanwhile, one that the board had already.
LEMMA CommitIsReportAlone ==
  ASSUME NEW worker, Workers = {worker}, TypeOK, SnapshotCurrent, Commit(worker)
  PROVE  \/ Board!Report(txn[worker].host, txn[worker].report)
         \/ AlreadyReported(txn[worker]) /\ UNCHANGED <<exists, bindings, status>>
<1> USE ReportsAssumption, NoneAssumption
<1> DEFINE t == txn[worker]
<1>1. t \in Transactions /\ Unshared(worker) /\ t.flushed
  BY DEF Commit, TypeOK, SnapshotCurrent
<1>2. t.host \in Hosts /\ t.report \in Reports /\ t.bindings \in Bindings
  BY <1>1 DEF Transactions
<1>3. t.write = Upsert(t)
  BY <1>1 DEF Unshared
<1>4. CASE exists
  <2>1. t.bindings = bindings /\ t.status = status
    BY <1>1, <1>4 DEF Unshared
  <2>2. bindings' = [bindings EXCEPT ![t.host] = t.report]
    <3>1. CASE t.write = "none"
      <4>1. bindings[t.host] = t.report
        BY <1>3, <2>1, <3>1 DEF Upsert
      <4>2. bindings' = bindings
        BY <3>1 DEF Commit
      <4> QED
        BY <1>2, <2>1, <4>1, <4>2 DEF Bindings
    <3>2. CASE t.write # "none"
      BY <3>2 DEF Commit
    <3> QED
      BY <3>1, <3>2
  <2>3. NewStatus(t) = Board!Aggregate(bindings', t.report)
    BY <2>1, <2>2 DEF NewStatus, AllBindings
  <2>4. status' = NewStatus(t)
    BY <2>1 DEF Commit
  <2> QED
    BY <1>4, <2>2, <2>3, <2>4 DEF Commit, Board!Report
<1>5. CASE ~exists
  <2>1. t.write = "none"
    BY <1>1, <1>5 DEF Unshared
  <2>2. NewStatus(t) = t.status
    BY <1>5 DEF Commit
  <2>3. t.bindings[t.host] = t.report
    BY <1>3, <2>1 DEF Upsert
  <2>4. AllBindings(t) = t.bindings
    BY <1>2, <2>3 DEF AllBindings, Bindings
  <2> QED
    BY <1>5, <2>1, <2>2, <2>3, <2>4 DEF Commit, NewStatus, AlreadyReported
<1> QED
  BY <1>4, <1>5

\* With one thread in the RPC server, any number of hosts report as if each
\* report were recorded and aggregated at once, deletes in between included.
THEOREM OneWorkerImplementsBoard ==
  ASSUME NEW worker, Workers = {worker}
  PROVE  Spec => BoardSpec
<1>1. Init => Board!Init
  BY DEF Init
<1>2. TypeOK /\ SnapshotCurrent /\ [Next]_vars => [Board!Next]_(Board!vars)
  <2> SUFFICES ASSUME TypeOK, SnapshotCurrent, [Next]_vars
               PROVE  Board!Next \/ UNCHANGED <<exists, bindings, status>>
    BY DEF Board!vars
  <2>1. ASSUME NEW w \in Workers, NEW h \in Hosts, NEW s \in Reports,
               Begin(w, h, s) \/ Flush(w) \/ Abort(w)
        PROVE  UNCHANGED <<exists, bindings, status>>
    BY <2>1 DEF Begin, Flush, Abort
  <2>2. ASSUME NEW w \in Workers, Flush(w) \/ Abort(w)
        PROVE  UNCHANGED <<exists, bindings, status>>
    BY <2>2 DEF Flush, Abort
  <2>3. ASSUME NEW w \in Workers, Commit(w)
        PROVE  Board!Next \/ UNCHANGED <<exists, bindings, status>>
    <3>1. w = worker
      OBVIOUS
    <3>2. txn[worker].host \in Hosts /\ txn[worker].report \in Reports
      BY <2>3, <3>1 DEF Commit, TypeOK, Transactions
    <3> QED
      BY <2>3, <3>1, <3>2, CommitIsReportAlone DEF Board!Next
  <2>4. CASE Delete
    BY <2>4 DEF Delete, Board!Next
  <2>5. CASE UNCHANGED vars
    BY <2>5 DEF vars
  <2> QED
    BY <2>1, <2>2, <2>3, <2>4, <2>5 DEF Next
<1> QED
  BY <1>1, <1>2, Typing, OneWorkerInvariant, PTL DEF Spec, BoardSpec, Board!Spec

\* And no report is swallowed but one of what the rows said already.
THEOREM OneWorkerReports ==
  ASSUME NEW worker, Workers = {worker}
  PROVE  Spec => CommitsAreReports
<1>1. ASSUME TypeOK, SnapshotCurrent, NEW w \in Workers, Commit(w)
      PROVE  \/ Board!Report(txn[w].host, txn[w].report)
             \/ AlreadyReported(txn[w]) /\ UNCHANGED <<exists, bindings, status>>
  <2>1. w = worker
    OBVIOUS
  <2> QED
    BY <1>1, <2>1, CommitIsReportAlone
<1>2. TypeOK /\ SnapshotCurrent
        => [\A w \in Workers : Commit(w) =>
              \/ Board!Report(txn[w].host, txn[w].report)
              \/ AlreadyReported(txn[w]) /\ UNCHANGED <<exists, bindings, status>>]_vars
  BY <1>1
<1> QED
  BY <1>2, Typing, OneWorkerInvariant, PTL DEF CommitsAreReports

-----------------------------------------------------------------------------

\* Once a host has reported, the aggregate does not depend on the last report.
LEMMA AggregateIgnoresLast ==
  ASSUME NEW b \in Bindings, NEW h \in Hosts, b[h] # None, NEW s, NEW r
  PROVE  Board!Aggregate(b, s) = Board!Aggregate(b, r)
<1> USE ReportsAssumption
<1> DEFINE statuses == {b[k] : k \in Hosts} \ {None}
<1>1. b[h] \in statuses /\ statuses \subseteq {"ACTIVE", "ERROR"}
  BY DEF Bindings
<1>2. statuses = {"ACTIVE"} \/ statuses = {"ERROR"} \/ statuses = {"ACTIVE", "ERROR"}
  BY <1>1
<1>3. CASE statuses = {"ACTIVE"}
  BY <1>3 DEF Board!Aggregate
<1>4. CASE statuses = {"ERROR"}
  <2>1. statuses # {"ACTIVE"}
    BY <1>4
  <2> QED
    BY <1>4, <2>1 DEF Board!Aggregate
<1>5. CASE statuses = {"ACTIVE", "ERROR"}
  <2>1. statuses # {"ACTIVE"} /\ statuses # {"ERROR"}
    BY <1>5
  <2> QED
    BY <1>5, <2>1 DEF Board!Aggregate
<1> QED
  BY <1>2, <1>3, <1>4, <1>5

\* The status of a wireguard is the aggregate of its bindings.
Aggregated == exists => status = Board!Aggregate(bindings, "PENDING_CREATE")

\* With one thread the status always is that of the bindings in the table,
\* which status_docstring shows to fail with two threads and two hosts.
THEOREM OneWorkerAggregates ==
  ASSUME NEW worker, Workers = {worker}
  PROVE  Spec => []AggregateIsCurrent
<1> USE ReportsAssumption, NoneAssumption
<1>1. Init => Aggregated
  <2>1. ASSUME NEW b, b = [h \in Hosts |-> None] PROVE {b[h] : h \in Hosts} \ {None} = {}
    BY <2>1
  <2>2. Board!Aggregate(Board!NoBindings, "PENDING_CREATE") = "PENDING_CREATE"
    BY <2>1 DEF Board!NoBindings, Board!Aggregate
  <2> QED
    BY <2>2 DEF Init, Board!Init, Aggregated
<1>2. ASSUME TypeOK, Aggregated, [Board!Next]_(Board!vars), TypeOK'
      PROVE  Aggregated'
  <2>1. ASSUME NEW h \in Hosts, NEW s \in Reports, Board!Report(h, s)
        PROVE  Aggregated'
    <3>1. bindings'[h] = s /\ s # None /\ bindings' \in Bindings
      BY <2>1, <1>2 DEF Board!Report, TypeOK, Bindings
    <3> QED
      BY <2>1, <3>1, AggregateIgnoresLast DEF Board!Report, Aggregated
  <2>2. CASE Board!Delete
    BY <2>2 DEF Board!Delete, Aggregated
  <2>3. CASE UNCHANGED Board!vars
    BY <1>2, <2>3 DEF Board!vars, Aggregated, Board!Aggregate
  <2> QED
    BY <1>2, <2>1, <2>2, <2>3 DEF Board!Next
<1>3. Aggregated => AggregateIsCurrent
  BY DEF Aggregated, AggregateIsCurrent
<1> QED
  BY <1>1, <1>2, <1>3, Typing, OneWorkerImplementsBoard, PTL DEF BoardSpec, Board!Spec, Spec

=============================================================================
