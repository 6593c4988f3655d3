------------------------ MODULE WireguardStatusBoard ------------------------
(***************************************************************************)
(* What update_wireguard_agent_status (db/wireguard/db.py) promises for    *)
(* one wireguard: a host's report replaces its previous one and, in the    *)
(* same step, the wireguard's status is recomputed from all reports.       *)
(***************************************************************************)

CONSTANTS Hosts, Reports, None

VARIABLES exists,    \* the wireguard has not been deleted
          bindings,  \* WireguardAgentBinding: host -> its last status, or None
          status     \* Wireguard.status

vars == <<exists, bindings, status>>

\* Lines 164-174; "last" is the status that is being reported.
Aggregate(b, last) ==
  LET statuses == {b[h] : h \in Hosts} \ {None}
  IN CASE statuses = {"ACTIVE"}          -> "ACTIVE"
       [] statuses = {"ERROR"}           -> "ERROR"
       [] statuses = {"ACTIVE", "ERROR"} -> "DEGRADED"
       [] OTHER                          -> last

NoBindings == [h \in Hosts |-> None]

Init == exists = TRUE /\ bindings = NoBindings /\ status = "PENDING_CREATE"

Report(h, s) ==
  /\ exists
  /\ bindings' = [bindings EXCEPT ![h] = s]
  /\ status' = Aggregate(bindings', s)
  /\ UNCHANGED exists

\* Mutant of Delete: the foreign key of the bindings does not cascade.
DeleteRowOnly ==
  /\ exists
  /\ exists' = FALSE
  /\ status' = None
  /\ UNCHANGED bindings

\* The bindings go with the wireguard (ON DELETE CASCADE).
Delete ==
  /\ exists
  /\ exists' = FALSE
  /\ bindings' = NoBindings
  /\ status' = None

Next == (\E h \in Hosts, s \in Reports : Report(h, s)) \/ Delete

Spec == Init /\ [][Next]_vars

=============================================================================
