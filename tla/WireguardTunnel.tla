--------------------------- MODULE WireguardTunnel ---------------------------
(***************************************************************************)
(* What the service promises the owner of one wireguard, whatever its      *)
(* messages, workers and agents do: API updates accumulate in the database *)
(* row, none undoing another, and an interface exists only in a namespace  *)
(* of the router and only with a complete configuration made of updates    *)
(* that were committed before.  It may be an old one.                      *)
(***************************************************************************)

CONSTANTS Hosts, Edits, Columns, None

VARIABLES row,         \* the content in the database; None before and after
          deleted,     \* no row will come
          namespaces,  \* hosts that have the router's namespace
          local        \* per host: the content its interface has, or None

vars == <<row, deleted, namespaces, local>>

Contents == [edits : SUBSET Edits, peer : SUBSET Columns]
Complete(c) == c.peer = Columns

Init ==
  /\ row = None /\ deleted = FALSE
  /\ namespaces \in SUBSET Hosts
  /\ local = [h \in Hosts |-> None]

Create ==
  /\ row = None /\ ~deleted
  /\ row' \in Contents /\ row'.edits = {}
  /\ UNCHANGED <<deleted, namespaces, local>>

Update(e) ==
  /\ row # None
  /\ row' \in Contents /\ row'.edits = row.edits \union {e}
  /\ UNCHANGED <<deleted, namespaces, local>>

Delete ==
  /\ row' = None /\ deleted' = TRUE
  /\ UNCHANGED <<namespaces, local>>

\* A content an agent may be given: after a deletion, any that was on its way.
Committed(c) == Complete(c) /\ IF row = None THEN deleted ELSE c.edits \subseteq row.edits

Configure(h, c) ==
  /\ h \in namespaces /\ Committed(c)
  /\ local' = [local EXCEPT ![h] = c]
  /\ UNCHANGED <<row, deleted, namespaces>>

Remove(h) ==
  /\ local' = [local EXCEPT ![h] = None]
  /\ UNCHANGED <<row, deleted, namespaces>>

\* The L3 agents' part, external; the interface goes with its namespace.
NamespaceUp(h) ==
  /\ namespaces' = namespaces \union {h}
  /\ UNCHANGED <<row, deleted, local>>

NamespaceDown(h) ==
  /\ namespaces' = namespaces \ {h}
  /\ local' = [local EXCEPT ![h] = None]
  /\ UNCHANGED <<row, deleted>>

Next ==
  \/ Create \/ Delete
  \/ \E e \in Edits : Update(e)
  \/ \E h \in Hosts : \/ \E c \in Contents : Configure(h, c)
                      \/ Remove(h) \/ NamespaceUp(h) \/ NamespaceDown(h)

Spec == Init /\ [][Next]_vars

-----------------------------------------------------------------------------

\* An interface never outlives its namespace, is never incomplete, and never
\* has an update that the database does not have.
InterfaceSound ==
  \A h \in Hosts : local[h] # None => h \in namespaces /\ Committed(local[h])

=============================================================================
