------------------------ MODULE WireguardSystem_proofs ------------------------
(***************************************************************************)
(* Proofs about WireguardSystem, for any number of hosts, API updates,     *)
(* moves of the router, failures, losses and crashes.                      *)
(***************************************************************************)
EXTENDS WireguardSystem, TLAPS

Requests == [op : {"configure", "delete"}, content : Contents \union {None},
             hosts : (SUBSET Hosts) \union {None}]
Casts == [op : {"configure", "delete"}, content : Contents \union {None}, host : Hosts]

LEMMA AggregateType ==
  ASSUME NEW b, NEW s \in {"ACTIVE", "ERROR"}
  PROVE  Board!Aggregate(b, s) \in {"ACTIVE", "ERROR", "DEGRADED"}
BY DEF Board!Aggregate

LEMMA WrittenContent ==
  ASSUME NEW c \in Contents, NEW e \in Edits,
         NEW written \in SUBSET Columns, NEW filled \in SUBSET written
  PROVE  /\ Written(c, e, written, filled) \in Contents
         /\ Written(c, e, written, filled).edits = c.edits \union {e}
BY DEF Written, Contents

LEMMA NotifyTypes ==
  ASSUME TypeOK, NEW c \in Contents, Notify(c)
  PROVE  requests' \subseteq Requests
<1>1. [op |-> "configure", content |-> c, hosts |-> None] \in Requests
  BY DEF Requests
<1>2. requests \subseteq Requests
  BY DEF TypeOK, Requests
<1> QED
  BY <1>1, <1>2 DEF Notify

\* The agents' part of TypeOK.
AgentTypes ==
  /\ local \in [Hosts -> Contents \union {None}]
  /\ file \in [Hosts -> Contents \union {None}] /\ halfway \subseteq Hosts
  /\ \A h \in Hosts : local[h] = None => file[h] = None

LEMMA HalfwayTypes ==
  ASSUME AgentTypes, NEW h \in Hosts, NEW c \in Contents \union {None},
         AppliedHalfway(h, c) \/ Removed(h)
  PROVE  AgentTypes'
<1>1. CASE AppliedHalfway(h, c)
  <2>1. /\ local' = local \/ local' = [local EXCEPT ![h] = c]
        /\ file' = [file EXCEPT ![h] = None] \/ file' = [file EXCEPT ![h] = c]
        /\ local'[h] = None => file'[h] = None
        /\ halfway' = halfway \union {h}
    BY <1>1 DEF AppliedHalfway
  <2>2. /\ local' \in [Hosts -> Contents \union {None}]
        /\ file' \in [Hosts -> Contents \union {None}]
        /\ \A g \in Hosts \ {h} : local'[g] = local[g] /\ file'[g] = file[g]
    BY <2>1 DEF AgentTypes
  <2>3. \A g \in Hosts : local'[g] = None => file'[g] = None
    BY <2>1, <2>2 DEF AgentTypes
  <2> QED
    BY <2>1, <2>2, <2>3 DEF AgentTypes
<1>2. CASE Removed(h)
  BY <1>2 DEF AgentTypes, Removed
<1> QED
  BY <1>1, <1>2

LEMMA ConfigureTypes ==
  ASSUME TypeOK, NEW h \in Hosts, NEW c \in Contents \union {None}, Configure(h, c)
  PROVE  /\ AgentTypes'
         /\ reports' \subseteq [host : Hosts, status : {"ACTIVE", "ERROR"}]
<1>1. \A s \in {"ACTIVE", "ERROR"} : ReportStatus(h, s) =>
        reports' \subseteq [host : Hosts, status : {"ACTIVE", "ERROR"}]
  BY DEF TypeOK, ReportStatus
<1>2. AgentTypes
  BY DEF TypeOK, AgentTypes
<1>3. Applied(h, c) => AgentTypes'
  BY <1>2 DEF Applied, AgentTypes
<1>4. AppliedHalfway(h, c) => AgentTypes'
  BY <1>2, HalfwayTypes
<1>5. UNCHANGED agentVars => AgentTypes'
  BY <1>2 DEF AgentTypes, agentVars
<1>6. AgentTypes'
  BY <1>3, <1>4, <1>5 DEF Configure
<1>7. reports' = reports \/ ReportStatus(h, "ACTIVE") \/ ReportStatus(h, "ERROR")
  BY DEF Configure
<1> QED
  BY <1>1, <1>6, <1>7 DEF TypeOK

\* The variables keep their types, and nothing remains of the status of a
\* wireguard that is gone.
THEOREM SystemTyping == Spec => []TypeOK
<1>1. Init => TypeOK
  <2> SUFFICES ASSUME Init PROVE TypeOK
    OBVIOUS
  <2>1. sync \in [Hosts -> SyncStates]
    BY DEF Init, Idle, SyncStates
  <2>2. bindings \in [Hosts -> {"ACTIVE", "ERROR", None}]
    BY DEF Init, Board!NoBindings
  <2> QED
    BY <2>1, <2>2, HostsAssumption DEF Init, TypeOK
<1>2. TypeOK /\ [Next]_vars => TypeOK'
  <2> SUFFICES ASSUME TypeOK, [Next]_vars PROVE TypeOK'
    OBVIOUS
  <2> USE NoneAssumption DEF apiVars, dbVars, routerVars, agentVars, budgets
  <2>1. CASE CreateWireguard
    <3>1. PICK filled \in SUBSET Columns : row' = [edits |-> {}, peer |-> filled] /\ Notify(row')
      BY <2>1 DEF CreateWireguard
    <3>2. row' \in Contents /\ requests' \subseteq Requests
      BY <3>1, NotifyTypes DEF Contents
    <3> QED
      BY <2>1, <3>2 DEF CreateWireguard, TypeOK, Requests
  <2>2. ASSUME NEW e \in Edits, BeginUpdate(e) PROVE TypeOK'
    BY <2>2 DEF BeginUpdate, TypeOK
  <2>3. ASSUME NEW e \in Edits, CommitUpdate(e) PROVE TypeOK'
    <3>1. edits[e] \in Contents /\ row \in Contents
      BY <2>3 DEF CommitUpdate, TypeOK
    <3>2. PICK written \in SUBSET Columns : \E filled \in SUBSET written :
            /\ row' = Written(row, e, written, filled)
            /\ Notify(Written(edits[e], e, written, filled))
      BY <2>3 DEF CommitUpdate
    <3>3. PICK filled \in SUBSET written :
            /\ row' = Written(row, e, written, filled)
            /\ Notify(Written(edits[e], e, written, filled))
      BY <3>2
    <3>4. row' \in Contents
      BY <3>1, <3>3, WrittenContent
    <3>5. requests' \subseteq Requests
      BY <3>1, <3>3, WrittenContent, NotifyTypes
    <3> QED
      BY <2>3, <3>4, <3>5 DEF CommitUpdate, TypeOK, Requests
  <2>4. CASE DeleteWireguard
    <3>1. [op |-> "delete", content |-> None, hosts |-> None] \in Requests
      BY DEF Requests
    <3>2. requests' \subseteq Requests
      BY <2>4, <3>1 DEF DeleteWireguard, TypeOK, Requests
    <3>3. bindings' = Board!NoBindings /\ bindings' \in [Hosts -> {"ACTIVE", "ERROR", None}]
      BY <2>4 DEF DeleteWireguard, Board!Delete, Board!NoBindings
    <3> QED
      BY <2>4, <3>2, <3>3 DEF DeleteWireguard, TypeOK, Board!Delete, Requests
  <2>5. CASE DeleteRouter
    <3>1. row' = None \/ UNCHANGED <<row, bindings, status>>
      BY <2>5 DEF DeleteRouter
    <3>2. /\ row' \in Contents \union {None}
          /\ bindings' \in [Hosts -> {"ACTIVE", "ERROR", None}]
          /\ status' \in {"PENDING_CREATE", "ACTIVE", "ERROR", "DEGRADED", None}
          /\ row' = None => status' = None /\ bindings' = Board!NoBindings
      BY <2>5 DEF DeleteRouter, TypeOK, Board!Delete, Board!NoBindings
    <3> QED
      BY <2>5, <3>2 DEF DeleteRouter, TypeOK
  <2>6. ASSUME NEW r \in requests, GetHosts(r) PROVE TypeOK'
    <3>1. r \in Requests /\ hosting \in SUBSET Hosts
      BY DEF TypeOK, Requests
    <3>2. [r EXCEPT !.hosts = hosting] \in Requests
      BY <3>1 DEF Requests
    <3> QED
      BY <2>6, <3>2 DEF GetHosts, TypeOK, Requests
  <2>7. ASSUME NEW r \in requests, NEW h \in Hosts, Cast(r, h) PROVE TypeOK'
    <3>1. r \in Requests /\ (r.hosts \in SUBSET Hosts \/ r.hosts = None) /\ r.hosts # None
      BY <2>7 DEF Cast, TypeOK, Requests
    <3>2. [r EXCEPT !.hosts = @ \ {h}] \in Requests
      BY <3>1 DEF Requests
    <3>3. [op |-> r.op, content |-> r.content, host |-> h] \in Casts
      BY <3>1 DEF Requests, Casts
    <3> QED
      BY <2>7, <3>2, <3>3 DEF Cast, TypeOK, Requests, Casts
  <2>8. ASSUME NEW r \in requests, ApiCrash(r) PROVE TypeOK'
    BY <2>8 DEF ApiCrash, TypeOK
  <2>9. ASSUME NEW m \in casts, HandleConfigure(m) PROVE TypeOK'
    <3>1. m.host \in Hosts /\ m.content \in Contents \union {None}
      BY DEF TypeOK
    <3> QED
      BY <2>9, <3>1, ConfigureTypes DEF HandleConfigure, TypeOK, AgentTypes
  <2>10. ASSUME NEW m \in casts, HandleDelete(m) PROVE TypeOK'
    BY <2>10 DEF HandleDelete, Removed, TypeOK
  <2>11. ASSUME NEW m \in reports, HandleReport(m) PROVE TypeOK'
    <3>1. m.host \in Hosts /\ m.status \in {"ACTIVE", "ERROR"}
      BY DEF TypeOK
    <3>2. CASE UNCHANGED <<row, bindings, status>>
      BY <2>11, <3>2 DEF HandleReport, TypeOK
    <3>3. CASE UNCHANGED row /\ Board!Report(m.host, m.status)
      <4>1. /\ row # None /\ bindings' \in [Hosts -> {"ACTIVE", "ERROR", None}]
            /\ status' \in {"ACTIVE", "ERROR", "DEGRADED"}
        BY <3>1, <3>3, AggregateType DEF Board!Report, TypeOK
      <4> QED
        BY <2>11, <3>3, <4>1 DEF HandleReport, TypeOK
    <3> QED
      BY <2>11, <3>2, <3>3 DEF HandleReport
  <2>12. ASSUME NEW m \in casts, LoseCast(m) PROVE TypeOK'
    BY <2>12 DEF LoseCast, TypeOK
  <2>13. ASSUME NEW m \in reports, LoseReport(m) PROVE TypeOK'
    BY <2>13 DEF LoseReport, TypeOK
  <2>14. ASSUME NEW h \in Hosts, FetchRouters(h) PROVE TypeOK'
    BY <2>14 DEF FetchRouters, TypeOK, SyncStates
  <2>15. ASSUME NEW h \in Hosts, FetchWireguards(h) PROVE TypeOK'
    BY <2>15 DEF FetchWireguards, TypeOK, SyncStates, Idle
  <2>16. ASSUME NEW h \in Hosts, ApplySync(h) PROVE TypeOK'
    <3>1. sync[h].content \in Contents \union {None} /\ sync' \in [Hosts -> SyncStates]
      BY <2>16 DEF ApplySync, TypeOK, SyncStates, Idle
    <3> QED
      BY <2>16, <3>1, ConfigureTypes DEF ApplySync, TypeOK, AgentTypes
  <2>17. ASSUME NEW h \in Hosts, AgentRestart(h) PROVE TypeOK'
    <3>1. sync' \in [Hosts -> SyncStates] /\ casts' \subseteq casts
      BY <2>17 DEF AgentRestart, TypeOK, SyncStates, Idle
    <3>2. AgentTypes'
      <4>1. AgentTypes
        BY DEF TypeOK, AgentTypes
      <4>2. CASE UNCHANGED agentVars
        BY <4>1, <4>2 DEF AgentTypes
      <4>3. ASSUME NEW c \in Contents \union {None}, AppliedHalfway(h, c) \/ Removed(h)
            PROVE  AgentTypes'
        BY <4>1, <4>3, HalfwayTypes
      <4>4. sync[h].content \in Contents \union {None}
        BY DEF TypeOK, SyncStates
      <4>5. \A m \in casts : m.content \in Contents \union {None}
        BY DEF TypeOK
      <4> QED
        BY <2>17, <4>2, <4>3, <4>4, <4>5 DEF AgentRestart
    <3> QED
      BY <2>17, <3>1, <3>2 DEF AgentRestart, TypeOK, AgentTypes
  <2>18. ASSUME NEW h \in Hosts, NamespaceStep(h) PROVE TypeOK'
    BY <2>18 DEF NamespaceStep, NamespaceUp, NamespaceDown, Removed, TypeOK
  <2>19. ASSUME NEW from \in Hosts, NEW to \in Hosts, Reschedule(from, to) PROVE TypeOK'
    BY <2>19 DEF Reschedule, TypeOK
  <2>20. CASE UNCHANGED vars
    BY <2>20 DEF vars, TypeOK
  <2> QED
    BY <2>1, <2>2, <2>3, <2>4, <2>5, <2>6, <2>7, <2>8, <2>9, <2>10, <2>11, <2>12, <2>13, <2>14,
       <2>15, <2>16, <2>17, <2>18, <2>19, <2>20
       DEF Next, NotifyStep, HandleCast, ServeReport, SyncStep
<1> QED
  BY <1>1, <1>2, PTL DEF Spec

-----------------------------------------------------------------------------

\* The invariant behind IncompleteNeverApplied: what is on its way to an agent,
\* from a notification or by a sync, is complete, whatever has become of the
\* row meanwhile.
CompleteOnly ==
  /\ \A r \in requests : r.op = "configure" => Complete(r.content)
  /\ \A m \in casts : m.op = "configure" => Complete(m.content)
  /\ \A h \in Hosts : sync[h].at = "fetched" => Complete(sync[h].content)
  /\ IncompleteNeverApplied

LEMMA NotifyComplete ==
  ASSUME CompleteOnly, NEW c, Notify(c)
  PROVE  \A r \in requests' : r.op = "configure" => Complete(r.content)
BY DEF CompleteOnly, Notify

\* An interface that is given a complete content, or removed.
LEMMA LocalComplete ==
  ASSUME TypeOK, IncompleteNeverApplied, NEW h \in Hosts, NEW c, Complete(c) \/ c = None,
         local' \in {local, [local EXCEPT ![h] = c]}
  PROVE  IncompleteNeverApplied'
<1>1. \A g \in Hosts : local'[g] \in {local[g], c}
  BY DEF TypeOK
<1> QED
  BY <1>1 DEF IncompleteNeverApplied, Complete

LEMMA ConfigureComplete ==
  ASSUME TypeOK, CompleteOnly, NEW h \in Hosts, NEW c, Complete(c), Configure(h, c)
  PROVE  IncompleteNeverApplied'
<1>1. local' \in {local, [local EXCEPT ![h] = c]}
  BY DEF Configure, Applied, AppliedHalfway, agentVars
<1> QED
  BY <1>1, LocalComplete DEF CompleteOnly

LEMMA CompleteInvariant == Spec => []CompleteOnly
<1>1. Init => CompleteOnly
  BY DEF Init, CompleteOnly, IncompleteNeverApplied, Idle
<1>2. TypeOK /\ CompleteOnly /\ [Next]_vars => CompleteOnly'
  <2> SUFFICES ASSUME TypeOK, CompleteOnly, [Next]_vars PROVE CompleteOnly'
    OBVIOUS
  <2> USE DEF apiVars, dbVars, routerVars, agentVars, budgets
  <2>1. CASE CreateWireguard
    <3>1. PICK c : Notify(c)
      BY <2>1 DEF CreateWireguard
    <3> QED
      BY <2>1, <3>1, NotifyComplete DEF CreateWireguard, CompleteOnly, IncompleteNeverApplied
  <2>2. ASSUME NEW e \in Edits, BeginUpdate(e) PROVE CompleteOnly'
    BY <2>2 DEF BeginUpdate, CompleteOnly, IncompleteNeverApplied
  <2>3. ASSUME NEW e \in Edits, CommitUpdate(e) PROVE CompleteOnly'
    <3>1. PICK c : Notify(c)
      BY <2>3 DEF CommitUpdate
    <3> QED
      BY <2>3, <3>1, NotifyComplete DEF CommitUpdate, CompleteOnly, IncompleteNeverApplied
  <2>4. CASE DeleteWireguard \/ DeleteRouter
    BY <2>4 DEF DeleteWireguard, DeleteRouter, CompleteOnly, IncompleteNeverApplied
  <2>5. ASSUME NEW r \in requests, GetHosts(r) \/ ApiCrash(r) PROVE CompleteOnly'
    <3>1. [r EXCEPT !.hosts = hosting].op = r.op /\ [r EXCEPT !.hosts = hosting].content = r.content
      BY DEF TypeOK
    <3> QED
      BY <2>5, <3>1 DEF GetHosts, ApiCrash, CompleteOnly, IncompleteNeverApplied
  <2>6. ASSUME NEW r \in requests, NEW h \in Hosts, Cast(r, h) PROVE CompleteOnly'
    <3> DEFINE rest == [r EXCEPT !.hosts = @ \ {h}]
               cast == [op |-> r.op, content |-> r.content, host |-> h]
    <3>1. rest.op = r.op /\ rest.content = r.content
      BY DEF TypeOK
    <3>2. requests' \subseteq requests \union {rest} /\ casts' = casts \union {cast}
      BY <2>6 DEF Cast
    <3>3. cast.op = r.op /\ cast.content = r.content
      OBVIOUS
    <3> HIDE DEF rest, cast
    <3> QED
      BY <2>6, <3>1, <3>2, <3>3 DEF Cast, CompleteOnly, IncompleteNeverApplied
  <2>7. ASSUME NEW m \in casts, HandleConfigure(m) PROVE CompleteOnly'
    <3>1. Complete(m.content) /\ m.host \in Hosts
      BY <2>7 DEF HandleConfigure, CompleteOnly, TypeOK
    <3>2. IncompleteNeverApplied'
      BY <2>7, <3>1, ConfigureComplete DEF HandleConfigure
    <3> QED
      BY <2>7, <3>2 DEF HandleConfigure, CompleteOnly
  <2>8. ASSUME NEW m \in casts, HandleDelete(m) \/ LoseCast(m) PROVE CompleteOnly'
    <3>1. m.host \in Hosts /\ local' \in {local, [local EXCEPT ![m.host] = None]}
      BY <2>8 DEF HandleDelete, Removed, LoseCast, TypeOK
    <3>2. IncompleteNeverApplied'
      BY <3>1, LocalComplete DEF CompleteOnly
    <3> QED
      BY <2>8, <3>2 DEF HandleDelete, LoseCast, CompleteOnly
  <2>9. ASSUME NEW m \in reports, HandleReport(m) \/ LoseReport(m) PROVE CompleteOnly'
    BY <2>9 DEF HandleReport, LoseReport, CompleteOnly, IncompleteNeverApplied
  <2>10. ASSUME NEW h \in Hosts, FetchRouters(h) PROVE CompleteOnly'
    BY <2>10 DEF FetchRouters, CompleteOnly, IncompleteNeverApplied, TypeOK, SyncStates
  <2>11. ASSUME NEW h \in Hosts, FetchWireguards(h) PROVE CompleteOnly'
    BY <2>11 DEF FetchWireguards, CompleteOnly, IncompleteNeverApplied, TypeOK, Idle
  <2>12. ASSUME NEW h \in Hosts, ApplySync(h) PROVE CompleteOnly'
    <3>1. Complete(sync[h].content)
      BY <2>12 DEF ApplySync, CompleteOnly
    <3>2. IncompleteNeverApplied'
      BY <2>12, <3>1, ConfigureComplete DEF ApplySync
    <3> QED
      BY <2>12, <3>2 DEF ApplySync, CompleteOnly, TypeOK, Idle
  <2>13. ASSUME NEW h \in Hosts, AgentRestart(h) PROVE CompleteOnly'
    <3>1. PICK c : /\ Complete(c) \/ c = None
                   /\ local' \in {local, [local EXCEPT ![h] = c]}
      BY <2>13 DEF AgentRestart, AppliedHalfway, Removed, CompleteOnly
    <3>2. IncompleteNeverApplied'
      BY <3>1, LocalComplete DEF CompleteOnly
    <3>3. casts' \subseteq casts /\ sync' = [sync EXCEPT ![h] = Idle] /\ requests' = requests
      BY <2>13 DEF AgentRestart
    <3> QED
      BY <3>2, <3>3 DEF CompleteOnly, TypeOK, Idle
  <2>14. ASSUME NEW h \in Hosts, NamespaceStep(h) PROVE CompleteOnly'
    BY <2>14 DEF NamespaceStep, NamespaceUp, NamespaceDown, Removed, CompleteOnly,
                 IncompleteNeverApplied, TypeOK
  <2>15. ASSUME NEW from \in Hosts, NEW to \in Hosts, Reschedule(from, to) PROVE CompleteOnly'
    BY <2>15 DEF Reschedule, CompleteOnly, IncompleteNeverApplied
  <2>16. CASE UNCHANGED vars
    BY <2>16 DEF vars, CompleteOnly, IncompleteNeverApplied
  <2> QED
    BY <2>1, <2>2, <2>3, <2>4, <2>5, <2>6, <2>7, <2>8, <2>9, <2>10, <2>11, <2>12, <2>13, <2>14,
       <2>15, <2>16
       DEF Next, NotifyStep, HandleCast, ServeReport, SyncStep
<1> QED
  BY <1>1, <1>2, SystemTyping, PTL DEF Spec

\* No host ever runs an incomplete peer configuration, however updates, casts,
\* syncs, deletions and moves of the router overtake each other.
THEOREM IncompleteNever == Spec => []IncompleteNeverApplied
<1>1. CompleteOnly => IncompleteNeverApplied
  BY DEF CompleteOnly
<1> QED
  BY <1>1, CompleteInvariant, PTL

-----------------------------------------------------------------------------

\* A content that was committed: the row has at least its edits, or is gone.
Known(c) == IF row = None THEN deleted ELSE c.edits \subseteq row.edits

\* What the API workers have read, what is on its way to an agent and what a
\* sync has fetched: never ahead of the row, and nothing before there is one.
Behind ==
  /\ \A e \in Edits : edits[e] # None => row # None /\ edits[e].edits \subseteq row.edits
  /\ \A r \in requests : r.op = "configure" => Known(r.content)
  /\ \A m \in casts : m.op = "configure" => Known(m.content)
  /\ \A h \in Hosts : sync[h].at = "fetched" => Known(sync[h].content)

\* What can happen to the row.
RowStep ==
  \/ row' = row /\ deleted' = deleted
  \/ row = None /\ ~deleted
  \/ row # None /\ row' # None /\ row.edits \subseteq row'.edits
  \/ row' = None /\ deleted'

LEMMA RowSteps == TypeOK /\ [Next]_vars => RowStep
<1> SUFFICES ASSUME TypeOK, [Next]_vars PROVE RowStep
  OBVIOUS
<1> USE DEF apiVars, dbVars, routerVars, agentVars, budgets
<1>1. CASE CreateWireguard \/ DeleteWireguard \/ DeleteRouter
  BY <1>1 DEF CreateWireguard, DeleteWireguard, DeleteRouter, RowStep
<1>2. ASSUME NEW e \in Edits, BeginUpdate(e) \/ CommitUpdate(e) PROVE RowStep
  <2>1. CASE BeginUpdate(e)
    BY <2>1 DEF BeginUpdate, RowStep
  <2>2. CASE CommitUpdate(e)
    <3>1. row \in Contents /\ row # None
      BY <2>2 DEF CommitUpdate, TypeOK
    <3>2. row' \in Contents /\ row'.edits = row.edits \union {e}
      BY <3>1, <2>2, WrittenContent DEF CommitUpdate
    <3> QED
      BY <3>1, <3>2, NoneAssumption DEF RowStep
  <2> QED
    BY <1>2, <2>1, <2>2
<1>3. CASE NotifyStep \/ (\E r \in requests : ApiCrash(r))
  BY <1>3 DEF NotifyStep, GetHosts, Cast, ApiCrash, RowStep
<1>4. CASE HandleCast \/ ServeReport
  BY <1>4 DEF HandleCast, HandleConfigure, HandleDelete, ServeReport, HandleReport, RowStep
<1>5. CASE (\E m \in casts : LoseCast(m)) \/ (\E m \in reports : LoseReport(m))
  BY <1>5 DEF LoseCast, LoseReport, RowStep
<1>6. ASSUME NEW h \in Hosts, SyncStep(h) \/ AgentRestart(h) \/ NamespaceStep(h) PROVE RowStep
  BY <1>6 DEF SyncStep, FetchRouters, FetchWireguards, ApplySync, AgentRestart, NamespaceStep,
              NamespaceUp, NamespaceDown, RowStep
<1>7. ASSUME NEW from \in Hosts, NEW to \in Hosts, Reschedule(from, to) PROVE RowStep
  BY <1>7 DEF Reschedule, RowStep
<1>8. CASE UNCHANGED vars
  BY <1>8 DEF vars, RowStep
<1> QED
  BY <1>1, <1>2, <1>3, <1>4, <1>5, <1>6, <1>7, <1>8 DEF Next

\* What is known stays known: edits are only ever added to the row, and nothing
\* is known before the row is created.
LEMMA KnownStays ==
  ASSUME TypeOK, [Next]_vars, NEW c, Known(c)
  PROVE  Known(c)'
<1>1. RowStep
  BY RowSteps
<1> QED
  BY <1>1 DEF RowStep, Known

LEMMA NotifyKnown ==
  ASSUME Behind, TypeOK, [Next]_vars, NEW c, Notify(c), Known(c)'
  PROVE  \A r \in requests' : r.op = "configure" => Known(r.content)'
<1>1. \A r \in requests : r.op = "configure" => Known(r.content)'
  BY KnownStays DEF Behind
<1>2. \A r \in requests' : r \in requests \/ r = [op |-> "configure", content |-> c, hosts |-> None]
  BY DEF Notify
<1> QED
  BY <1>1, <1>2

\* The parts of Behind that a step leaves alone.
LEMMA BehindFrame ==
  ASSUME Behind, TypeOK, [Next]_vars
  PROVE  /\ requests' \subseteq requests => \A r \in requests' : r.op = "configure" => Known(r.content)'
         /\ casts' \subseteq casts => \A m \in casts' : m.op = "configure" => Known(m.content)'
         /\ \A h \in Hosts : sync'[h] = sync[h] /\ sync[h].at = "fetched" => Known(sync[h].content)'
<1>1. \A c : Known(c) => Known(c)'
  BY KnownStays
<1> QED
  BY <1>1 DEF Behind

\* Steps that leave the row and the API workers alone and give the agents
\* nothing that was not on its way.
LEMMA Untouched ==
  ASSUME Behind, TypeOK, [Next]_vars,
         row' = row, deleted' = deleted, edits' = edits,
         requests' \subseteq requests, casts' \subseteq casts,
         \A h \in Hosts : sync'[h].at = "fetched" => sync'[h] = sync[h]
  PROVE  Behind'
<1>1. \A e \in Edits : edits'[e] # None => row' # None /\ edits'[e].edits \subseteq row'.edits
  BY DEF Behind
<1>2. \A h \in Hosts : sync'[h].at = "fetched" => Known(sync[h].content)'
  BY DEF Behind, Known
<1> QED
  BY <1>1, <1>2, BehindFrame DEF Behind

LEMMA BehindStep == TypeOK /\ Behind /\ [Next]_vars => Behind'
<1> SUFFICES ASSUME TypeOK, Behind, [Next]_vars PROVE Behind'
  OBVIOUS
<1> USE DEF apiVars, dbVars, routerVars, agentVars, budgets
<1>1. CASE CreateWireguard
  <2>1. PICK filled \in SUBSET Columns : row' = [edits |-> {}, peer |-> filled] /\ Notify(row')
    BY <1>1 DEF CreateWireguard
  <2>2. Known(row)'
    BY <2>1, NoneAssumption DEF Known, Contents
  <2>3. \A r \in requests' : r.op = "configure" => Known(r.content)'
    <3>1. PICK d : d = row'
      OBVIOUS
    <3>2. Notify(d) /\ Known(d)'
      BY <2>1, <2>2, <3>1 DEF Known, Notify
    <3> QED
      BY <3>2, NotifyKnown
  <2>4. \A e \in Edits : edits'[e] = None
    BY <1>1 DEF CreateWireguard, Behind
  <2>5. casts' = casts /\ sync' = sync
    BY <1>1 DEF CreateWireguard
  <2> QED
    BY <2>3, <2>4, <2>5, BehindFrame DEF Behind
<1>2. ASSUME NEW e \in Edits, BeginUpdate(e) PROVE Behind'
  <2>1. /\ row' = row /\ row # None /\ requests' = requests /\ casts' = casts /\ sync' = sync
        /\ \A f \in Edits : edits'[f] = IF f = e THEN row ELSE edits[f]
    BY <1>2 DEF BeginUpdate, TypeOK
  <2>2. \A f \in Edits : edits'[f] # None => row' # None /\ edits'[f].edits \subseteq row'.edits
    BY <2>1 DEF Behind
  <2> QED
    BY <2>1, <2>2, BehindFrame DEF Behind
<1>3. ASSUME NEW e \in Edits, CommitUpdate(e) PROVE Behind'
  <2>1. edits[e] \in Contents /\ row \in Contents /\ edits[e].edits \subseteq row.edits
    BY <1>3 DEF CommitUpdate, TypeOK, Behind
  <2>2. PICK written \in SUBSET Columns : \E filled \in SUBSET written :
          /\ row' = Written(row, e, written, filled)
          /\ Notify(Written(edits[e], e, written, filled))
    BY <1>3 DEF CommitUpdate
  <2>8. PICK filled \in SUBSET written :
          /\ row' = Written(row, e, written, filled)
          /\ Notify(Written(edits[e], e, written, filled))
    BY <2>2
  <2>0. PICK d : d = Written(edits[e], e, written, filled)
    OBVIOUS
  <2>3. row' # None /\ row'.edits = row.edits \union {e}
    BY <2>1, <2>8, WrittenContent, NoneAssumption
  \* What the update read may lack edits, but has none that the row has not.
  <2>4. Known(d)'
    BY <2>0, <2>1, <2>3, WrittenContent DEF Known
  <2>5. \A r \in requests' : r.op = "configure" => Known(r.content)'
    BY <2>0, <2>8, <2>4, NotifyKnown
  <2>6. /\ casts' = casts /\ sync' = sync
        /\ \A f \in Edits : edits'[f] = IF f = e THEN None ELSE edits[f]
    BY <1>3 DEF CommitUpdate, TypeOK
  <2>7. \A f \in Edits : edits'[f] # None => row' # None /\ edits'[f].edits \subseteq row'.edits
    BY <2>3, <2>6 DEF Behind
  <2> QED
    BY <2>5, <2>6, <2>7, BehindFrame DEF Behind
<1>4. CASE DeleteWireguard \/ DeleteRouter
  <2>1. casts' = casts /\ sync' = sync /\ \A e \in Edits : edits'[e] = None
    BY <1>4 DEF DeleteWireguard, DeleteRouter
  <2>2. \A r \in requests' : r.op = "configure" => r \in requests
    BY <1>4 DEF DeleteWireguard, DeleteRouter
  <2>3. \A r \in requests' : r.op = "configure" => Known(r.content)'
    BY <2>2, KnownStays DEF Behind
  <2> QED
    BY <2>1, <2>3, BehindFrame DEF Behind
<1>5. ASSUME NEW r \in requests, GetHosts(r) PROVE Behind'
  <2> DEFINE known == [r EXCEPT !.hosts = hosting]
  <2>1. known.op = r.op /\ known.content = r.content
    BY DEF TypeOK
  <2>2. row' = row /\ deleted' = deleted /\ edits' = edits /\ casts' = casts /\ sync' = sync
    BY <1>5 DEF GetHosts
  <2>3. requests' \subseteq requests \union {known}
    BY <1>5 DEF GetHosts
  <2> HIDE DEF known
  <2>4. \A q \in requests' : q.op = "configure" => Known(q.content)'
    BY <2>1, <2>2, <2>3 DEF Behind, Known
  <2>5. \A e \in Edits : edits'[e] # None => row' # None /\ edits'[e].edits \subseteq row'.edits
    BY <2>2 DEF Behind
  <2> QED
    BY <2>2, <2>4, <2>5, BehindFrame DEF Behind
<1>6. ASSUME NEW r \in requests, NEW h \in Hosts, Cast(r, h) PROVE Behind'
  <2> DEFINE rest == [r EXCEPT !.hosts = @ \ {h}]
             cast == [op |-> r.op, content |-> r.content, host |-> h]
  <2>1. rest.op = r.op /\ rest.content = r.content
    BY DEF TypeOK
  <2>2. cast.op = r.op /\ cast.content = r.content
    OBVIOUS
  <2>3. row' = row /\ deleted' = deleted /\ edits' = edits /\ sync' = sync
    BY <1>6 DEF Cast
  <2>4. requests' \subseteq requests \union {rest} /\ casts' = casts \union {cast}
    BY <1>6 DEF Cast
  <2> HIDE DEF rest, cast
  <2>5. \A q \in requests' : q.op = "configure" => Known(q.content)'
    BY <2>1, <2>3, <2>4 DEF Behind, Known
  <2>6. \A m \in casts' : m.op = "configure" => Known(m.content)'
    BY <2>2, <2>3, <2>4 DEF Behind, Known
  <2>7. \A e \in Edits : edits'[e] # None => row' # None /\ edits'[e].edits \subseteq row'.edits
    BY <2>3 DEF Behind
  <2> QED
    BY <2>3, <2>5, <2>6, <2>7, BehindFrame DEF Behind
<1>7. ASSUME NEW h \in Hosts, FetchWireguards(h) PROVE Behind'
  <2>1. /\ row' = row /\ deleted' = deleted /\ edits' = edits
        /\ requests' = requests /\ casts' = casts
    BY <1>7 DEF FetchWireguards
  <2>2. \A g \in Hosts : sync'[g].at = "fetched" =>
          \/ sync'[g] = sync[g]
          \/ row # None /\ sync'[g].content = row
    BY <1>7 DEF FetchWireguards, TypeOK, Idle
  <2>3. \A g \in Hosts : sync'[g].at = "fetched" => Known(sync[g].content)'
    BY <2>1, <2>2 DEF Behind, Known
  <2>4. \A e \in Edits : edits'[e] # None => row' # None /\ edits'[e].edits \subseteq row'.edits
    BY <2>1 DEF Behind
  <2> QED
    BY <2>1, <2>3, <2>4, BehindFrame DEF Behind
<1>8. ASSUME NEW r \in requests, ApiCrash(r) PROVE Behind'
  BY <1>8, Untouched DEF ApiCrash
<1>9. CASE HandleCast \/ ServeReport
  BY <1>9, Untouched
     DEF HandleCast, HandleConfigure, HandleDelete, ServeReport, HandleReport
<1>10. CASE (\E m \in casts : LoseCast(m)) \/ (\E m \in reports : LoseReport(m))
  BY <1>10, Untouched DEF LoseCast, LoseReport
<1>11. ASSUME NEW h \in Hosts, FetchRouters(h) \/ ApplySync(h) \/ AgentRestart(h) PROVE Behind'
  <2>1. \A g \in Hosts : sync'[g].at = "fetched" => sync'[g] = sync[g]
    BY <1>11 DEF FetchRouters, ApplySync, AgentRestart, TypeOK, Idle
  <2> QED
    BY <1>11, <2>1, Untouched DEF FetchRouters, ApplySync, AgentRestart
<1>12. ASSUME NEW h \in Hosts, NamespaceStep(h) PROVE Behind'
  BY <1>12, Untouched DEF NamespaceStep, NamespaceUp, NamespaceDown
<1>13. ASSUME NEW from \in Hosts, NEW to \in Hosts, Reschedule(from, to) PROVE Behind'
  BY <1>13, Untouched DEF Reschedule
<1>14. CASE UNCHANGED vars
  BY <1>14, Untouched DEF vars
<1> QED
  BY <1>1, <1>2, <1>3, <1>4, <1>5, <1>6, <1>7, <1>8, <1>9, <1>10, <1>11, <1>12, <1>13, <1>14
     DEF Next, NotifyStep, SyncStep

LEMMA BehindInvariant == Spec => []Behind
<1>1. Init => Behind
  BY DEF Init, Behind, Idle
<1> QED
  BY <1>1, BehindStep, SystemTyping, PTL DEF Spec

LEMMA TunnelInit == Init => Tunnel!Init
BY HostsAssumption DEF Init, Tunnel!Init

\* An agent that configures what is known and complete keeps the promise,
\* whether it gets to the end of it or not.
LEMMA LocalTunnel ==
  ASSUME TypeOK, NEW h \in Hosts, NEW c \in Contents \union {None}, Complete(c), Known(c),
         h \in namespaces, local' \in {local, [local EXCEPT ![h] = c]},
         UNCHANGED <<row, deleted, namespaces>>
  PROVE  [Tunnel!Next]_(Tunnel!vars)
<1>1. Tunnel!Committed(c)
  BY DEF Tunnel!Committed, Tunnel!Complete, Complete, Known
<1>2. CASE c \in Contents /\ local' = [local EXCEPT ![h] = c]
  BY <1>1, <1>2 DEF Tunnel!Next, Tunnel!Configure, Tunnel!Contents, Contents
<1>3. CASE c = None /\ local' = [local EXCEPT ![h] = c]
  BY <1>3 DEF Tunnel!Next, Tunnel!Remove
<1>4. CASE local' = local
  BY <1>4 DEF Tunnel!vars
<1> QED
  BY <1>2, <1>3, <1>4

LEMMA ConfigureTunnel ==
  ASSUME TypeOK, NEW h \in Hosts, NEW c \in Contents \union {None}, Complete(c), Known(c),
         Configure(h, c), UNCHANGED <<row, deleted, namespaces>>
  PROVE  [Tunnel!Next]_(Tunnel!vars)
<1>1. CASE h \in namespaces
  <2>1. local' \in {local, [local EXCEPT ![h] = c]}
    BY DEF Configure, Applied, AppliedHalfway, agentVars
  <2> QED
    BY <1>1, <2>1, LocalTunnel
<1>2. CASE h \notin namespaces
  BY <1>2 DEF Configure, agentVars, Tunnel!vars
<1> QED
  BY <1>1, <1>2

\* Every step of the system is one of the promise's, or none that it sees.
LEMMA TunnelStep ==
  ASSUME TypeOK, CompleteOnly, Behind, [Next]_vars
  PROVE  [Tunnel!Next]_(Tunnel!vars)
<1> USE DEF apiVars, dbVars, routerVars, agentVars, budgets
<1>1. CASE CreateWireguard
  BY <1>1 DEF CreateWireguard, Tunnel!Next, Tunnel!Create, Tunnel!Contents
<1>2. CASE DeleteWireguard \/ DeleteRouter
  <2>1. row' = None /\ deleted' = TRUE /\ UNCHANGED <<namespaces, local>>
    BY <1>2 DEF DeleteWireguard, DeleteRouter
  <2> QED
    BY <2>1 DEF Tunnel!Next, Tunnel!Delete
<1>3. ASSUME NEW e \in Edits, CommitUpdate(e) PROVE Tunnel!Next
  <2>1. row \in Contents /\ row # None
    BY <1>3 DEF CommitUpdate, TypeOK
  <2>3. row' \in Contents /\ row'.edits = row.edits \union {e}
    BY <1>3, <2>1, WrittenContent DEF CommitUpdate
  <2> QED
    BY <1>3, <2>1, <2>3
       DEF CommitUpdate, Contents, Tunnel!Next, Tunnel!Update, Tunnel!Contents
<1>4. ASSUME NEW m \in casts, HandleConfigure(m) PROVE [Tunnel!Next]_(Tunnel!vars)
  <2>1. m.host \in Hosts /\ m.content \in Contents \union {None}
    BY DEF TypeOK
  <2>2. Complete(m.content) /\ Known(m.content)
    BY <1>4 DEF HandleConfigure, CompleteOnly, Behind
  <2> QED
    BY <1>4, <2>1, <2>2, ConfigureTunnel DEF HandleConfigure
<1>5. ASSUME NEW m \in casts, HandleDelete(m) PROVE [Tunnel!Next]_(Tunnel!vars)
  <2>1. m.host \in Hosts
    BY DEF TypeOK
  <2> QED
    BY <1>5, <2>1 DEF HandleDelete, Removed, Tunnel!Next, Tunnel!Remove, Tunnel!vars
<1>6. ASSUME NEW h \in Hosts, ApplySync(h) PROVE [Tunnel!Next]_(Tunnel!vars)
  <2>1. sync[h].content \in Contents \union {None}
    BY DEF TypeOK, SyncStates
  <2>2. Complete(sync[h].content) /\ Known(sync[h].content)
    BY <1>6 DEF ApplySync, CompleteOnly, Behind
  <2>3. PICK c : c = sync[h].content
    OBVIOUS
  <2> QED
    BY <1>6, <2>1, <2>2, <2>3, ConfigureTunnel DEF ApplySync
<1>7. ASSUME NEW h \in Hosts, NamespaceStep(h) PROVE Tunnel!Next
  BY <1>7 DEF NamespaceStep, NamespaceUp, NamespaceDown, Removed,
              Tunnel!Next, Tunnel!NamespaceUp, Tunnel!NamespaceDown
<1>8. ASSUME NEW e \in Edits, BeginUpdate(e) PROVE UNCHANGED Tunnel!vars
  BY <1>8 DEF BeginUpdate, Tunnel!vars
<1>9. CASE NotifyStep \/ (\E r \in requests : ApiCrash(r))
  BY <1>9 DEF NotifyStep, GetHosts, Cast, ApiCrash, Tunnel!vars
<1>10. CASE ServeReport \/ (\E m \in casts : LoseCast(m)) \/ (\E m \in reports : LoseReport(m))
  BY <1>10 DEF ServeReport, HandleReport, LoseCast, LoseReport, Tunnel!vars
<1>11. ASSUME NEW h \in Hosts, FetchRouters(h) \/ FetchWireguards(h)
       PROVE  UNCHANGED Tunnel!vars
  BY <1>11 DEF FetchRouters, FetchWireguards, Tunnel!vars
<1>14. ASSUME NEW h \in Hosts, AgentRestart(h) PROVE [Tunnel!Next]_(Tunnel!vars)
  <2>1. UNCHANGED <<row, deleted, namespaces>>
    BY <1>14 DEF AgentRestart
  <2>2. ASSUME NEW c \in Contents \union {None}, Complete(c), Known(c), AppliedHalfway(h, c)
        PROVE  [Tunnel!Next]_(Tunnel!vars)
    BY <2>1, <2>2, LocalTunnel DEF AppliedHalfway
  <2>3. ASSUME NEW m \in casts, m.op = "configure", AppliedHalfway(h, m.content)
        PROVE  [Tunnel!Next]_(Tunnel!vars)
    <3>1. m.content \in Contents \union {None} /\ Complete(m.content) /\ Known(m.content)
      BY <2>3 DEF TypeOK, CompleteOnly, Behind
    <3>2. PICK c : c = m.content
      OBVIOUS
    <3> QED
      BY <2>2, <2>3, <3>1, <3>2
  <2>4. CASE sync[h].at = "fetched" /\ AppliedHalfway(h, sync[h].content)
    <3>1. /\ sync[h].content \in Contents \union {None}
          /\ Complete(sync[h].content) /\ Known(sync[h].content)
      BY <2>4 DEF TypeOK, SyncStates, CompleteOnly, Behind
    <3>2. PICK c : c = sync[h].content
      OBVIOUS
    <3> QED
      BY <2>2, <2>4, <3>1, <3>2
  <2>5. CASE UNCHANGED agentVars
    BY <2>1, <2>5 DEF Tunnel!vars
  <2>6. CASE Removed(h)
    BY <2>1, <2>6 DEF Removed, Tunnel!Next, Tunnel!Remove
  <2> QED
    BY <1>14, <2>3, <2>4, <2>5, <2>6 DEF AgentRestart
<1>12. ASSUME NEW from \in Hosts, NEW to \in Hosts, Reschedule(from, to)
       PROVE  UNCHANGED Tunnel!vars
  BY <1>12 DEF Reschedule, Tunnel!vars
<1>13. CASE UNCHANGED vars
  BY <1>13 DEF vars, Tunnel!vars
<1> QED
  BY <1>1, <1>2, <1>3, <1>4, <1>5, <1>6, <1>7, <1>8, <1>9, <1>10, <1>11, <1>12, <1>13, <1>14
     DEF Next, HandleCast, SyncStep

\* The whole system keeps the owner's promise: with any number of hosts, API
\* workers, lost and reordered messages, crashes and moves of the router, no
\* update undoes another in the row, and no agent runs ahead of the database.
THEOREM SystemImplementsTunnel == Spec => TunnelSpec
<1>1. TypeOK /\ CompleteOnly /\ Behind /\ [Next]_vars => [Tunnel!Next]_(Tunnel!vars)
  BY TunnelStep
<1> QED
  BY <1>1, TunnelInit, SystemTyping, CompleteInvariant, BehindInvariant, PTL
     DEF Spec, TunnelSpec, Tunnel!Spec

\* The promise is enough for a sound interface on every host: what was
\* committed stays committed, and the interface goes with its namespace.
LEMMA TunnelSound == Tunnel!Spec => [](Tunnel!InterfaceSound)
<1> DEFINE TunnelTypes == local \in [Hosts -> Tunnel!Contents \union {None}]
           Sound == TunnelTypes /\ Tunnel!InterfaceSound
<1> USE DEF Tunnel!InterfaceSound, Tunnel!Committed
<1>1. Tunnel!Init => Sound
  BY DEF Tunnel!Init
<1>2. Sound /\ [Tunnel!Next]_(Tunnel!vars) => Sound'
  <2> SUFFICES ASSUME Sound, [Tunnel!Next]_(Tunnel!vars) PROVE Sound'
    OBVIOUS
  <2>1. CASE Tunnel!Create
    BY <2>1 DEF Tunnel!Create
  <2>2. CASE Tunnel!Delete
    BY <2>2 DEF Tunnel!Delete
  <2>3. ASSUME NEW e \in Edits, Tunnel!Update(e) PROVE Sound'
    BY <2>3, NoneAssumption DEF Tunnel!Update, Tunnel!Contents, Contents
  <2>4. ASSUME NEW h \in Hosts, NEW c \in Tunnel!Contents, Tunnel!Configure(h, c) PROVE Sound'
    BY <2>4 DEF Tunnel!Configure
  <2>5. ASSUME NEW h \in Hosts, Tunnel!Remove(h) PROVE Sound'
    BY <2>5 DEF Tunnel!Remove
  <2>6. ASSUME NEW h \in Hosts, Tunnel!NamespaceUp(h) \/ Tunnel!NamespaceDown(h) PROVE Sound'
    BY <2>6 DEF Tunnel!NamespaceUp, Tunnel!NamespaceDown
  <2>7. CASE UNCHANGED Tunnel!vars
    BY <2>7 DEF Tunnel!vars
  <2> QED
    BY <2>1, <2>2, <2>3, <2>4, <2>5, <2>6, <2>7 DEF Tunnel!Next
<1> QED
  BY <1>1, <1>2, PTL DEF Tunnel!Spec

\* On every host, always.
THEOREM InterfacesSound == Spec => []InterfaceSound
BY SystemImplementsTunnel, TunnelSound, PTL DEF TunnelSpec, InterfaceSound

===============================================================================
