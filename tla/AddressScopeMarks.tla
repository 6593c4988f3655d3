-------------------------- MODULE AddressScopeMarks --------------------------
(***************************************************************************)
(* The address scope marks of the wireguards of one router on one host:    *)
(* _restore_address_scope_marks and _remove_address_scope_mark of          *)
(* agent/wireguard.py, run by the operations on the wireguards and by the  *)
(* add_router and update_router hooks, which hold none of their locks.     *)
(*                                                                         *)
(* A wireguard's operations exclude each other (WireguardLockManager), so  *)
(* each wireguard is one actor; the L3 agent's hook thread is another.  Of *)
(* an operation only what concerns the marks is left.                      *)
(*                                                                         *)
(* External: the L3 agent, which empties and refills the scope chain when  *)
(* it processes the router and calls the hook afterwards, and its iptables *)
(* manager: add_rule appends even what is there already, remove_rule takes *)
(* one occurrence away or only warns, leaving defer_apply() makes the      *)
(* kernel's table what the manager holds, or raises.                       *)
(***************************************************************************)
EXTENDS Naturals, FiniteSets

CONSTANTS Wireguards,   \* the wireguards of the router, each also an actor
          Hook          \* the thread that runs the hooks

ASSUME ActorsAssumption == IsFiniteSet(Wireguards) /\ Hook \notin Wireguards

Actors == Wireguards \union {Hook}

VARIABLES
  router,      \* "gone": no namespace; "unprocessed": the L3 agent has
               \* no router info yet; "known": get_router_info finds it
  exists,      \* wireguards whose interface is in the namespace
  active,      \* wireguards whose last operation was a successful configure
  rules,       \* per wireguard: its rules in the manager's scope chain
  kernel,      \* wireguards that have a rule in the kernel's table
  pc,          \* per actor: its next step
  listed,      \* per actor: if_names
  fresh,       \* per actor: new_rules
  unlisted,    \* history: listing the interfaces has failed
  unapplied,   \* history: applying the rules has failed
  overlapped   \* history: an actor has started while another was at work

routerVars == <<router, exists, active>>
tableVars == <<rules, kernel>>
actorVars == <<pc, listed, fresh>>
history == <<unlisted, unapplied, overlapped>>
vars == <<routerVars, tableVars, actorVars, history>>

Restoring == {"list", "compare", "add", "apply"}

TypeOK ==
  /\ router \in {"gone", "unprocessed", "known"}
  /\ exists \subseteq Wireguards /\ active \subseteq Wireguards
  /\ rules \in [Wireguards -> Nat] /\ kernel \subseteq Wireguards
  /\ pc \in [Actors -> {"idle", "restore", "destroy"} \union Restoring]
  /\ listed \in [Actors -> SUBSET Wireguards]
  /\ fresh \in [Actors -> SUBSET Wireguards]
  /\ unlisted \in BOOLEAN /\ unapplied \in BOOLEAN /\ overlapped \in BOOLEAN
  /\ \A w \in active : pc[w] = "idle"
  /\ \A a \in Actors : pc[a] \in Restoring => router = "known"

NoRules == [w \in Wireguards |-> 0]
Marked(table) == {w \in Wireguards : table[w] > 0}

Init ==
  /\ router = "unprocessed" /\ exists = {} /\ active = {}
  /\ rules = NoRules /\ kernel = {}
  /\ pc = [a \in Actors |-> "idle"]
  /\ listed = [a \in Actors |-> {}] /\ fresh = [a \in Actors |-> {}]
  /\ unlisted = FALSE /\ unapplied = FALSE /\ overlapped = FALSE

-----------------------------------------------------------------------------
\* _restore_address_scope_marks, by any actor.

Goto(a, from, to) == pc[a] = from /\ pc' = [pc EXCEPT ![a] = to]

\* The restore is over; what is left of a configure is not about marks, and
\* it ends ACTIVE.
Done(a, from) ==
  /\ Goto(a, from, "idle")
  /\ active' = active \union ({a} \intersect Wireguards)
  /\ listed' = [listed EXCEPT ![a] = {}]
  /\ fresh' = [fresh EXCEPT ![a] = {}]

GetManager(a) ==
  /\ \/ /\ router = "known"
        /\ Goto(a, "restore", "list")
        /\ UNCHANGED <<active, listed, fresh>>
     \/ router # "known" /\ Done(a, "restore")
  /\ UNCHANGED <<router, exists, tableVars, history>>

List(a) ==
  /\ Goto(a, "list", "compare")
  /\ listed' = [listed EXCEPT ![a] = exists]
  /\ UNCHANGED <<routerVars, tableVars, fresh, history>>

\* A failing "ip link show" counts as no interface at all.
ListFails(a) ==
  /\ Goto(a, "list", "compare")
  /\ unlisted' = TRUE
  /\ UNCHANGED <<routerVars, tableVars, listed, fresh, unapplied, overlapped>>

\* Mutant of Missing: rules are added whether they exist or not.
AnyRule(a) == listed[a]

Missing(a) == {w \in listed[a] : rules[w] = 0}

Compare(a) ==
  /\ IF Missing(a) = {}
     THEN Done(a, "compare")
     ELSE /\ Goto(a, "compare", "add")
          /\ fresh' = [fresh EXCEPT ![a] = Missing(a)]
          /\ UNCHANGED <<active, listed>>
  /\ UNCHANGED <<router, exists, tableVars, history>>

Add(a) ==
  /\ Goto(a, "add", "apply")
  /\ rules' = [w \in Wireguards |-> IF w \in fresh[a] THEN rules[w] + 1 ELSE rules[w]]
  /\ UNCHANGED <<routerVars, kernel, listed, fresh, history>>

Apply(a) ==
  /\ Done(a, "apply")
  /\ kernel' = Marked(rules)
  /\ UNCHANGED <<router, exists, rules, history>>

\* The exception ends a configure with ERROR; the rules stay in the manager.
ApplyFails(a) ==
  /\ Goto(a, "apply", "idle")
  /\ listed' = [listed EXCEPT ![a] = {}]
  /\ fresh' = [fresh EXCEPT ![a] = {}]
  /\ unapplied' = TRUE
  /\ UNCHANGED <<routerVars, tableVars, unlisted, overlapped>>

-----------------------------------------------------------------------------
\* The operations on a wireguard.

Start ==
  /\ overlapped' = (overlapped \/ \E a \in Actors : pc[a] # "idle")
  /\ UNCHANGED <<unlisted, unapplied>>

\* Everything up to the restore, which a changed configuration reaches.
Configure(w) ==
  /\ Goto(w, "idle", "restore")
  /\ router # "gone"
  /\ exists' = exists \union {w}
  /\ active' = active \ {w}
  /\ Start
  /\ UNCHANGED <<router, tableVars, listed, fresh>>

\* Mutant of Without: a rule that is not there is removed all the same.
WithoutUnchecked(w) == [rules EXCEPT ![w] = @ - 1]

Without(w) == IF rules[w] = 0 THEN rules ELSE [rules EXCEPT ![w] = @ - 1]

\* A delete first removes the rule, then the interface.
Unmark(w) ==
  /\ Goto(w, "idle", "destroy")
  /\ active' = active \ {w}
  /\ IF router = "known"
     THEN rules' = Without(w) /\ kernel' = Marked(rules')
     ELSE UNCHANGED tableVars
  /\ Start
  /\ UNCHANGED <<router, exists, listed, fresh>>

\* The exception ends the delete; the interface stays.
UnmarkFails(w) ==
  /\ pc[w] = "idle" /\ router = "known"
  /\ active' = active \ {w}
  /\ rules' = Without(w)
  /\ unapplied' = TRUE
  /\ UNCHANGED <<router, exists, kernel, actorVars, unlisted, overlapped>>

Destroy(w) ==
  /\ Goto(w, "destroy", "idle")
  /\ exists' = exists \ {w}
  /\ UNCHANGED <<router, active, tableVars, listed, fresh, history>>

-----------------------------------------------------------------------------
\* The L3 agent.

\* Mutant of ProcessRouter: no hook restores the marks.
ProcessUnhooked ==
  /\ pc[Hook] = "idle"
  /\ router' = "known"
  /\ rules' = NoRules /\ kernel' = {}
  /\ UNCHANGED <<exists, active, actorVars, history>>

\* The scope chain is emptied and refilled with the router's own ports, then
\* add_router or update_router is called.
ProcessRouter ==
  /\ router' = "known"
  /\ rules' = NoRules /\ kernel' = {}
  /\ Goto(Hook, "idle", "restore")
  /\ Start
  /\ UNCHANGED <<exists, active, listed, fresh>>

\* The namespace and its manager go; delete_router does nothing.  A restore
\* that holds the manager has nothing left to change.
RemoveRouter ==
  /\ pc[Hook] = "idle"
  /\ router' = "gone" /\ exists' = {} /\ active' = {}
  /\ rules' = NoRules /\ kernel' = {}
  /\ pc' = [a \in Actors |-> IF pc[a] \in Restoring THEN "idle" ELSE pc[a]]
  /\ listed' = [a \in Actors |-> {}] /\ fresh' = [a \in Actors |-> {}]
  /\ UNCHANGED history

\* The agent process starts again: interfaces and kernel rules stay, the
\* manager's rules and the router info come back with the first processing.
Restart ==
  /\ router' = IF router = "gone" THEN "gone" ELSE "unprocessed"
  /\ rules' = NoRules
  /\ pc' = [a \in Actors |-> "idle"]
  /\ listed' = [a \in Actors |-> {}] /\ fresh' = [a \in Actors |-> {}]
  /\ UNCHANGED <<exists, active, kernel, history>>

-----------------------------------------------------------------------------

RestoreStep(a) ==
  \/ GetManager(a) \/ List(a) \/ ListFails(a) \/ Compare(a)
  \/ Add(a) \/ Apply(a) \/ ApplyFails(a)

Operation(w) == Configure(w) \/ Unmark(w) \/ UnmarkFails(w) \/ Destroy(w)

Next ==
  \/ \E a \in Actors : RestoreStep(a)
  \/ \E w \in Wireguards : Operation(w)
  \/ ProcessRouter \/ RemoveRouter \/ Restart

Spec == Init /\ [][Next]_vars

-----------------------------------------------------------------------------

\* "Ensure address scope mark rule exists" (line 514): although the L3 agent
\* throws the marks away again and again and nobody holds a lock common to
\* the operations and the hooks, a wireguard that ended ACTIVE has its rule
\* whenever no hook is under way, and has it in the kernel once all restores
\* are over.  (Where an interface was listed; where the rules were applied.)
MarksComplete ==
  router = "known" /\ pc[Hook] = "idle" /\ ~unlisted =>
    \A w \in active \intersect exists :
      /\ rules[w] > 0
      /\ ~unapplied /\ (\A a \in Actors : pc[a] = "idle") => w \in kernel

\* Restores that compare before another one adds make duplicates of a rule,
\* but they do not pile up: at most one per actor, those about to be added
\* included, however often the marks are restored.
Adding(w) == {a \in Actors : pc[a] = "add" /\ w \in fresh[a]}

MarksBounded ==
  \A w \in Wireguards : rules[w] + Cardinality(Adding(w)) <= Cardinality(Actors)

\* Only restores and operations that overlap make duplicates or leave a rule
\* behind after a delete: as long as no two actors were at work together, a
\* wireguard has at most one rule, and only while it has its interface, whatever
\* failed and however often the router was processed or removed.
MarksExact ==
  ~overlapped => \A w \in Wireguards : rules[w] <= 1 /\ (rules[w] = 1 => w \in exists)

=============================================================================
