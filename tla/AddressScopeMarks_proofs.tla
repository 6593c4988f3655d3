----------------------- MODULE AddressScopeMarks_proofs -----------------------
(***************************************************************************)
(* Proofs about AddressScopeMarks, for any number of wireguards.           *)
(***************************************************************************)
EXTENDS AddressScopeMarks, FiniteSetTheorems, TLAPS

LEMMA RulesTypes ==
  ASSUME TypeOK, NEW w \in Wireguards
  PROVE  /\ Without(w) \in [Wireguards -> Nat]
         /\ \A v \in Wireguards : Without(w)[v] <= rules[v] /\ (v # w => Without(w)[v] = rules[v])
<1>1. CASE rules[w] = 0
  BY <1>1 DEF Without, TypeOK
<1>2. CASE rules[w] # 0
  <2>1. rules[w] - 1 \in Nat
    BY <1>2 DEF TypeOK
  <2> QED
    BY <1>2, <2>1 DEF Without, TypeOK
<1> QED
  BY <1>1, <1>2

\* The variables keep their types in every behaviour.
THEOREM MarksTyping == Spec => []TypeOK
<1>1. Init => TypeOK
  <2> SUFFICES ASSUME Init PROVE TypeOK
    OBVIOUS
  <2>1. rules \in [Wireguards -> Nat]
    BY DEF Init, NoRules
  <2>2. \A a \in Actors : pc[a] \notin Restoring
    BY DEF Init, Restoring
  <2> QED
    BY <2>1, <2>2 DEF Init, TypeOK
<1>2. TypeOK /\ [Next]_vars => TypeOK'
  <2> SUFFICES ASSUME TypeOK, [Next]_vars PROVE TypeOK'
    OBVIOUS
  <2> USE ActorsAssumption DEF TypeOK, Restoring, Actors, Goto, Done, NoRules, Marked,
                           routerVars, tableVars, actorVars, history
  <2>1. ASSUME NEW a \in Actors, GetManager(a) \/ List(a) \/ ListFails(a) PROVE TypeOK'
    BY <2>1 DEF GetManager, List, ListFails
  <2>2. ASSUME NEW a \in Actors, Compare(a) PROVE TypeOK'
    <3>1. Missing(a) \subseteq Wireguards
      BY DEF Missing
    <3> QED
      BY <2>2, <3>1 DEF Compare
  <2>3. ASSUME NEW a \in Actors, Add(a) PROVE TypeOK'
    <3>1. rules' \in [Wireguards -> Nat]
      BY <2>3 DEF Add
    <3> QED
      BY <2>3, <3>1 DEF Add
  <2>4. ASSUME NEW a \in Actors, Apply(a) \/ ApplyFails(a) PROVE TypeOK'
    BY <2>4 DEF Apply, ApplyFails
  <2>5. ASSUME NEW w \in Wireguards, Configure(w) \/ Destroy(w) PROVE TypeOK'
    BY <2>5 DEF Configure, Destroy, Start
  <2>6. ASSUME NEW w \in Wireguards, Unmark(w) \/ UnmarkFails(w) PROVE TypeOK'
    BY <2>6, RulesTypes DEF Unmark, UnmarkFails, Start
  <2>7. CASE ProcessRouter
    BY <2>7 DEF ProcessRouter, Start
  <2>8. CASE RemoveRouter \/ Restart
    BY <2>8 DEF RemoveRouter, Restart
  <2>9. CASE UNCHANGED vars
    BY <2>9 DEF vars
  <2> QED
    BY <2>1, <2>2, <2>3, <2>4, <2>5, <2>6, <2>7, <2>8, <2>9 DEF Next, RestoreStep, Operation
<1> QED
  BY <1>1, <1>2, PTL DEF Spec

-----------------------------------------------------------------------------
\* MarksBounded is inductive: a rule is added only by an actor that saw none,
\* so a step that makes an actor add a rule finds none in the table.

LEMMA ActorsFinite ==
  /\ IsFiniteSet(Actors) /\ Cardinality(Actors) \in Nat
  /\ \A S \in SUBSET Actors :
       IsFiniteSet(S) /\ Cardinality(S) \in Nat /\ Cardinality(S) <= Cardinality(Actors)
<1>1. IsFiniteSet(Actors)
  BY ActorsAssumption, FS_AddElement DEF Actors
<1> QED
  BY <1>1, FS_Subset, FS_CardinalityType

\* A step after which a wireguard has no more rules, and no more to come, than
\* before keeps its bound; so does one that leaves it without rules.
LEMMA BoundKept ==
  ASSUME TypeOK, TypeOK', MarksBounded, NEW w \in Wireguards,
         rules'[w] = 0 \/ (rules'[w] <= rules[w] /\ Adding(w)' \subseteq Adding(w))
  PROVE  rules'[w] + Cardinality(Adding(w)') <= Cardinality(Actors)
<1>1. Adding(w) \subseteq Actors /\ Adding(w)' \subseteq Actors
  BY DEF Adding
<1>2. rules[w] \in Nat /\ rules'[w] \in Nat
  BY DEF TypeOK
<1>3. CASE rules'[w] = 0
  BY <1>1, <1>2, <1>3, ActorsFinite
<1>4. CASE rules'[w] <= rules[w] /\ Adding(w)' \subseteq Adding(w)
  <2>1. Cardinality(Adding(w)') <= Cardinality(Adding(w))
    BY <1>1, <1>4, ActorsFinite, FS_Subset
  <2>2. rules[w] + Cardinality(Adding(w)) <= Cardinality(Actors)
    BY DEF MarksBounded
  <2>3. Cardinality(Adding(w)) \in Nat /\ Cardinality(Adding(w)') \in Nat /\ Cardinality(Actors) \in Nat
    BY <1>1, ActorsFinite
  <2> QED
    BY <1>2, <1>4, <2>1, <2>2, <2>3
<1> QED
  BY <1>3, <1>4

\* However often marks are restored, a wireguard never has more rules than
\* there are actors.
THEOREM Bounded == Spec => []MarksBounded
<1>1. Init => MarksBounded
  <2> SUFFICES ASSUME Init, NEW w \in Wireguards
               PROVE  rules[w] + Cardinality(Adding(w)) <= Cardinality(Actors)
    BY DEF MarksBounded
  <2>1. Adding(w) = {} /\ rules[w] = 0
    BY DEF Init, Adding, NoRules
  <2> QED
    BY <2>1, ActorsFinite, FS_EmptySet
<1>2. TypeOK /\ TypeOK' /\ MarksBounded /\ [Next]_vars => MarksBounded'
  <2> SUFFICES ASSUME TypeOK, TypeOK', MarksBounded, [Next]_vars, NEW w \in Wireguards
               PROVE  rules'[w] + Cardinality(Adding(w)') <= Cardinality(Actors)
    BY DEF MarksBounded, Actors
  <2> USE ActorsAssumption DEF TypeOK, Goto, Done, routerVars, tableVars, actorVars, history
  <2>1. ASSUME NEW a \in Actors, RestoreStep(a)
        PROVE  rules'[w] + Cardinality(Adding(w)') <= Cardinality(Actors)
    <3>1. CASE GetManager(a) \/ List(a) \/ ListFails(a) \/ Apply(a) \/ ApplyFails(a)
      <4>1. rules' = rules /\ Adding(w)' \subseteq Adding(w)
        BY <3>1 DEF GetManager, List, ListFails, Apply, ApplyFails, Adding
      <4> QED
        BY <4>1, BoundKept
    <3>2. CASE Compare(a)
      <4>1. rules' = rules /\ (rules[w] = 0 \/ Adding(w)' \subseteq Adding(w))
        BY <3>2 DEF Compare, Missing, Adding
      <4> QED
        BY <4>1, BoundKept
    <3>3. CASE Add(a)
      <4>1. CASE w \in fresh[a]
        <5>1. a \in Adding(w) /\ rules'[w] = rules[w] + 1
          BY <3>3, <4>1 DEF Add, Adding
        <5>2. Adding(w)' = Adding(w) \ {a}
          BY <3>3 DEF Add, Adding
        <5>3. Cardinality(Adding(w)') = Cardinality(Adding(w)) - 1
          <6>1. IsFiniteSet(Adding(w))
            BY ActorsFinite DEF Adding
          <6> QED
            BY <5>1, <5>2, <6>1, FS_RemoveElement
        <5>4. rules[w] + Cardinality(Adding(w)) <= Cardinality(Actors)
          BY DEF MarksBounded
        <5>5. rules[w] \in Nat /\ Cardinality(Adding(w)) \in Nat /\ Cardinality(Actors) \in Nat
          BY ActorsFinite DEF Adding
        <5> QED
          BY <5>1, <5>3, <5>4, <5>5
      <4>2. CASE w \notin fresh[a]
        <5>1. rules'[w] = rules[w] /\ Adding(w)' \subseteq Adding(w)
          BY <3>3, <4>2 DEF Add, Adding
        <5> QED
          BY <5>1, BoundKept
      <4> QED
        BY <4>1, <4>2
    <3> QED
      BY <2>1, <3>1, <3>2, <3>3 DEF RestoreStep
  <2>2. ASSUME NEW v \in Wireguards, Operation(v)
        PROVE  rules'[w] + Cardinality(Adding(w)') <= Cardinality(Actors)
    <3>1. rules'[w] <= rules[w]
      BY <2>2, RulesTypes DEF Operation, Configure, Unmark, UnmarkFails, Destroy
    <3>2. Adding(w)' \subseteq Adding(w)
      BY <2>2 DEF Operation, Configure, Unmark, UnmarkFails, Destroy, Adding
    <3> QED
      BY <3>1, <3>2, BoundKept
  <2>3. CASE ProcessRouter \/ RemoveRouter \/ Restart
    <3>1. rules'[w] = 0
      BY <2>3 DEF ProcessRouter, RemoveRouter, Restart, NoRules
    <3> QED
      BY <3>1, BoundKept
  <2>4. CASE UNCHANGED vars
    <3>1. rules' = rules /\ Adding(w)' = Adding(w)
      BY <2>4 DEF vars, Adding
    <3> QED
      BY <3>1, BoundKept
  <2> QED
    BY <2>1, <2>2, <2>3, <2>4 DEF Next
<1> QED
  BY <1>1, <1>2, MarksTyping, PTL DEF Spec

-----------------------------------------------------------------------------
\* The invariant behind MarksComplete.  A mark that is missing is owed, by the
\* hook that follows each emptying of the chain until it has added what it
\* found missing, or by the wireguard's own operation.

HookOwes(w) ==
  \/ pc[Hook] \in {"restore", "list"}
  \/ pc[Hook] = "compare" /\ w \in listed[Hook]
  \/ pc[Hook] = "add" /\ w \in fresh[Hook]

MarkOrOwed(w) ==
  /\ w \in active => rules[w] > 0 \/ HookOwes(w)
  /\ pc[w] = "compare" => w \in listed[w]
  /\ pc[w] = "add" => w \in fresh[w] \/ rules[w] > 0 \/ HookOwes(w)
  /\ pc[w] = "apply" => rules[w] > 0 \/ HookOwes(w)

OwedInv == router = "known" /\ ~unlisted => \A w \in exists : MarkOrOwed(w)

\* What the manager holds is in the kernel, or somebody is about to apply it.
KernelInv ==
  router = "known" /\ ~unapplied =>
    \A w \in Wireguards : rules[w] > 0 => w \in kernel \/ \E a \in Actors : pc[a] = "apply"

LEMMA KernelStep == TypeOK /\ KernelInv /\ [Next]_vars => KernelInv'
<1> SUFFICES ASSUME TypeOK, KernelInv, [Next]_vars,
                    router' = "known", ~unapplied', NEW w \in Wireguards, rules'[w] > 0
             PROVE  w \in kernel' \/ \E a \in Actors : pc'[a] = "apply"
  BY DEF KernelInv
<1> USE ActorsAssumption DEF TypeOK, KernelInv, Actors, Goto, Done, Marked, routerVars, tableVars,
                             actorVars, history, Start
<1>1. ASSUME NEW a \in Actors, RestoreStep(a)
      PROVE  w \in kernel' \/ \E b \in Actors : pc'[b] = "apply"
  <2>1. CASE GetManager(a) \/ List(a) \/ ListFails(a) \/ Compare(a)
    BY <2>1 DEF GetManager, List, ListFails, Compare
  <2>2. CASE Add(a)
    BY <2>2 DEF Add
  <2>3. CASE Apply(a) \/ ApplyFails(a)
    BY <2>3 DEF Apply, ApplyFails
  <2> QED
    BY <1>1, <2>1, <2>2, <2>3 DEF RestoreStep
<1>2. ASSUME NEW v \in Wireguards, Operation(v)
      PROVE  w \in kernel' \/ \E b \in Actors : pc'[b] = "apply"
  <2>1. CASE Configure(v) \/ Destroy(v)
    BY <2>1 DEF Configure, Destroy
  <2>2. CASE Unmark(v)
    BY <2>2, RulesTypes DEF Unmark
  <2>3. CASE UnmarkFails(v)
    BY <2>3 DEF UnmarkFails
  <2> QED
    BY <1>2, <2>1, <2>2, <2>3 DEF Operation
<1>3. CASE ProcessRouter \/ RemoveRouter \/ Restart
  BY <1>3 DEF ProcessRouter, RemoveRouter, Restart, NoRules
<1>4. CASE UNCHANGED vars
  BY <1>4 DEF vars
<1> QED
  BY <1>1, <1>2, <1>3, <1>4 DEF Next

LEMMA OwedStep == TypeOK /\ TypeOK' /\ OwedInv /\ [Next]_vars => OwedInv'
<1> SUFFICES ASSUME TypeOK, TypeOK', OwedInv, [Next]_vars,
                    router' = "known", ~unlisted', NEW w \in Wireguards, w \in exists'
             PROVE  MarkOrOwed(w)'
  BY DEF OwedInv, TypeOK
<1> USE ActorsAssumption DEF TypeOK, OwedInv, Actors, Goto, Done, routerVars, tableVars,
                             actorVars, history, Start
<1>1. ASSUME NEW a \in Actors, RestoreStep(a) PROVE MarkOrOwed(w)'
  <2>1. w \in exists /\ router = "known" /\ ~unlisted /\ MarkOrOwed(w)
    BY <1>1 DEF RestoreStep, GetManager, List, ListFails, Compare, Add, Apply, ApplyFails
  <2>2. CASE GetManager(a)
    BY <2>1, <2>2 DEF GetManager, MarkOrOwed, HookOwes
  <2>3. CASE List(a)
    BY <2>1, <2>3 DEF List, MarkOrOwed, HookOwes
  <2>4. CASE ListFails(a)
    BY <2>4 DEF ListFails
  <2>5. CASE Compare(a)
    \* Whoever compares either finds the rule or is going to add it.
    <3>1. w \in listed[a] => rules[w] > 0 \/ w \in Missing(a)
      BY DEF Missing
    <3> QED
      BY <2>1, <2>5, <3>1 DEF Compare, MarkOrOwed, HookOwes
  <2>6. CASE Add(a)
    <3>1. rules'[w] >= rules[w] /\ (w \in fresh[a] => rules'[w] > 0)
      BY <2>6 DEF Add
    <3> QED
      BY <2>1, <2>6, <3>1 DEF Add, MarkOrOwed, HookOwes
  <2>7. CASE Apply(a) \/ ApplyFails(a)
    BY <2>1, <2>7 DEF Apply, ApplyFails, MarkOrOwed, HookOwes
  <2> QED
    BY <1>1, <2>2, <2>3, <2>4, <2>5, <2>6, <2>7 DEF RestoreStep
<1>2. ASSUME NEW v \in Wireguards, Operation(v) PROVE MarkOrOwed(w)'
  <2>1. CASE v = w
    BY <1>2, <2>1 DEF Operation, Configure, Unmark, UnmarkFails, Destroy, MarkOrOwed
  <2>2. CASE v # w
    <3>1. rules'[w] = rules[w] /\ w \in exists /\ router = "known" /\ ~unlisted
      BY <1>2, <2>2, RulesTypes DEF Operation, Configure, Unmark, UnmarkFails, Destroy
    <3>2. /\ (w \in active' => w \in active) /\ pc'[w] = pc[w] /\ pc'[Hook] = pc[Hook]
          /\ UNCHANGED <<listed, fresh>>
      BY <1>2, <2>2 DEF Operation, Configure, Unmark, UnmarkFails, Destroy
    <3> QED
      BY <3>1, <3>2 DEF MarkOrOwed, HookOwes
  <2> QED
    BY <2>1, <2>2
<1>3. CASE ProcessRouter
  <2>1. HookOwes(w)' /\ (pc'[w] = "compare" => pc[w] = "compare")
        /\ UNCHANGED <<listed, exists, unlisted>>
    BY <1>3 DEF ProcessRouter, HookOwes
  <2>2. pc[w] = "compare" => router = "known"
    BY DEF Restoring
  <2> QED
    BY <2>1, <2>2 DEF MarkOrOwed
<1>4. CASE RemoveRouter \/ Restart
  BY <1>4 DEF RemoveRouter, Restart
<1>5. CASE UNCHANGED vars
  BY <1>5 DEF vars, MarkOrOwed, HookOwes
<1> QED
  BY <1>1, <1>2, <1>3, <1>4, <1>5 DEF Next

\* A wireguard that ended ACTIVE has its mark when no hook is under way, and
\* has it in the kernel when no restore is, however restores, operations,
\* processings and restarts interleave.
THEOREM Complete == Spec => []MarksComplete
<1>1. Init => OwedInv /\ KernelInv
  BY DEF Init, OwedInv, KernelInv
<1>2. TypeOK /\ OwedInv /\ KernelInv => MarksComplete
  <2> SUFFICES ASSUME TypeOK, OwedInv, KernelInv, router = "known", pc[Hook] = "idle", ~unlisted,
                      NEW w \in active \intersect exists
               PROVE  /\ rules[w] > 0
                      /\ ~unapplied /\ (\A a \in Actors : pc[a] = "idle") => w \in kernel
    BY DEF MarksComplete
  <2>1. rules[w] > 0
    BY DEF OwedInv, MarkOrOwed, HookOwes
  <2> QED
    BY <2>1 DEF KernelInv, TypeOK
<1> QED
  BY <1>1, <1>2, OwedStep, KernelStep, MarksTyping, PTL DEF Spec

-----------------------------------------------------------------------------
\* The invariant behind MarksExact.  The manager of a router that is not known
\* is empty; and an actor that is alone adds rules for listed interfaces that
\* have none, or has removed the rule of the interface it destroys.

Comparing == {"compare", "add", "apply"}

AloneAtWork == \A a, b \in Actors : pc[a] # "idle" /\ pc[b] # "idle" => a = b

OneRuleEach == \A w \in Wireguards : rules[w] <= 1 /\ (rules[w] = 1 => w \in exists)

AddsMissing(a) ==
  /\ pc[a] = "compare" => listed[a] \subseteq exists
  /\ pc[a] = "add" => fresh[a] \subseteq exists /\ \A w \in fresh[a] : rules[w] = 0

ExactInv ==
  /\ router # "known" => rules = NoRules
  /\ \A a \in Actors : pc[a] \notin Comparing => listed[a] = {}
  /\ ~overlapped => /\ AloneAtWork /\ OneRuleEach
                    /\ \A a \in Actors : AddsMissing(a)
                    /\ \A w \in Wireguards : pc[w] = "destroy" => rules[w] = 0

\* Steps of the restore.
LEMMA RestoreExact ==
  ASSUME TypeOK, TypeOK', ExactInv, NEW a \in Actors, RestoreStep(a)
  PROVE  ExactInv'
<1> USE ActorsAssumption DEF TypeOK, Actors, Goto, Done, routerVars, tableVars, actorVars,
                             history, Comparing, Restoring
<1>1. /\ UNCHANGED <<router, exists, overlapped>>
      /\ \A b \in Actors \ {a} : /\ pc'[b] = pc[b]
                                 /\ listed'[b] = listed[b] /\ fresh'[b] = fresh[b]
      /\ pc[a] # "idle" /\ pc[a] # "destroy" /\ pc'[a] # "destroy"
  BY DEF RestoreStep, GetManager, List, ListFails, Compare, Add, Apply, ApplyFails
<1>2. pc'[a] \notin Comparing => listed'[a] = {}
  BY DEF RestoreStep, GetManager, List, ListFails, Compare, Add, Apply, ApplyFails, ExactInv
<1>3. \A b \in Actors : pc'[b] \notin Comparing => listed'[b] = {}
  BY <1>1, <1>2 DEF ExactInv
<1>4. router' # "known" => rules' = NoRules
  <2>1. CASE Add(a)
    BY <1>1, <2>1 DEF Add
  <2>2. CASE ~Add(a)
    <3>1. rules' = rules
      BY <2>2 DEF RestoreStep, GetManager, List, ListFails, Compare, Apply, ApplyFails
    <3> QED
      BY <1>1, <3>1 DEF ExactInv
  <2> QED
    BY <2>1, <2>2
<1>5. ASSUME ~overlapped
      PROVE  /\ AloneAtWork' /\ OneRuleEach' /\ \A b \in Actors : AddsMissing(b)'
             /\ \A w \in Wireguards : pc'[w] = "destroy" => rules'[w] = 0
  <2>1. AloneAtWork /\ OneRuleEach /\ AddsMissing(a)
    BY <1>5 DEF ExactInv
  <2>2. \A b \in Actors \ {a} : pc'[b] = "idle"
    BY <1>1, <2>1 DEF AloneAtWork
  <2>3. OneRuleEach'
    <3>1. CASE Add(a)
      <4>1. \A w \in Wireguards : rules'[w] = IF w \in fresh[a] THEN rules[w] + 1 ELSE rules[w]
        BY <3>1 DEF Add
      <4>2. \A w \in fresh[a] : rules[w] = 0 /\ w \in exists
        BY <2>1, <3>1 DEF Add, AddsMissing
      <4> QED
        BY <1>1, <2>1, <4>1, <4>2 DEF OneRuleEach
    <3>2. CASE ~Add(a)
      <4>1. rules' = rules
        BY <3>2 DEF RestoreStep, GetManager, List, ListFails, Compare, Apply, ApplyFails
      <4> QED
        BY <1>1, <2>1, <4>1 DEF OneRuleEach
    <3> QED
      BY <3>1, <3>2
  <2>4. AddsMissing(a)'
    <3>1. CASE GetManager(a) \/ Add(a) \/ Apply(a) \/ ApplyFails(a)
      BY <3>1 DEF GetManager, Add, Apply, ApplyFails, AddsMissing
    <3>2. CASE List(a)
      BY <3>2 DEF List, AddsMissing
    <3>3. CASE ListFails(a)
      <4>1. listed'[a] = {} /\ pc'[a] = "compare"
        BY <3>3 DEF ListFails, ExactInv
      <4> QED
        BY <4>1 DEF AddsMissing
    <3>4. CASE Compare(a)
      BY <2>1, <3>4 DEF Compare, Missing, AddsMissing
    <3> QED
      BY <3>1, <3>2, <3>3, <3>4 DEF RestoreStep
  <2>5. AloneAtWork' /\ \A b \in Actors : AddsMissing(b)'
    BY <2>2, <2>4 DEF AloneAtWork, AddsMissing
  <2>6. \A w \in Wireguards : pc'[w] # "destroy"
    BY <1>1, <2>2
  <2> QED
    BY <2>3, <2>5, <2>6
<1> QED
  BY <1>1, <1>3, <1>4, <1>5 DEF ExactInv

\* Steps of the operations outside of the restore.
LEMMA OperationExact ==
  ASSUME TypeOK, TypeOK', ExactInv, NEW v \in Wireguards, Operation(v)
  PROVE  ExactInv'
<1> USE ActorsAssumption DEF TypeOK, Actors, Goto, routerVars, tableVars, actorVars, history, Comparing
<1>1. /\ UNCHANGED <<router, listed, fresh>>
      /\ \A b \in Actors \ {v} : pc'[b] = pc[b]
      /\ pc[v] \notin Comparing /\ pc'[v] \in {"idle", "restore", "destroy"}
      /\ ~overlapped' => ~overlapped
  BY DEF Operation, Configure, Unmark, UnmarkFails, Destroy, Start
<1>2. \A w \in Wireguards : rules'[w] <= rules[w] /\ (w # v => rules'[w] = rules[w])
  BY RulesTypes DEF Operation, Configure, Unmark, UnmarkFails, Destroy
<1>3. router' # "known" => rules' = NoRules
  BY DEF Operation, Configure, Unmark, UnmarkFails, Destroy, ExactInv
<1>4. \A b \in Actors : pc'[b] \notin Comparing => listed'[b] = {}
  BY <1>1 DEF ExactInv
<1>5. ASSUME ~overlapped'
      PROVE  /\ AloneAtWork' /\ OneRuleEach' /\ \A b \in Actors : AddsMissing(b)'
             /\ \A w \in Wireguards : pc'[w] = "destroy" => rules'[w] = 0
  <2>1. /\ AloneAtWork /\ OneRuleEach /\ \A b \in Actors : AddsMissing(b)
        /\ \A w \in Wireguards : pc[w] = "destroy" => rules[w] = 0
    BY <1>1, <1>5 DEF ExactInv
  <2>2. CASE Configure(v)
    <3>1. rules' = rules /\ exists \subseteq exists' /\ \A a \in Actors \ {v} : pc'[a] = "idle"
      BY <1>5, <2>2 DEF Configure, Start
    <3>2. pc'[v] = "restore"
      BY <2>2 DEF Configure
    <3> QED
      BY <2>1, <3>1, <3>2 DEF AloneAtWork, OneRuleEach, AddsMissing
  <2>3. CASE Unmark(v)
    <3>1. exists' = exists /\ \A a \in Actors \ {v} : pc'[a] = "idle"
      BY <1>5, <2>3 DEF Unmark, Start
    <3>2. pc'[v] = "destroy" /\ rules'[v] = 0
      <4>1. CASE router = "known"
        BY <2>1, <2>3, <4>1 DEF Unmark, Without, OneRuleEach
      <4>2. CASE router # "known"
        BY <2>3, <4>2 DEF Unmark, ExactInv, NoRules
      <4> QED
        BY <2>3, <4>1, <4>2 DEF Unmark
    <3> QED
      BY <1>2, <2>1, <3>1, <3>2 DEF AloneAtWork, OneRuleEach, AddsMissing
  <2>4. CASE UnmarkFails(v)
    <3>1. pc' = pc /\ exists' = exists
      BY <2>4 DEF UnmarkFails
    <3>2. \A w \in Wireguards : rules[w] = 0 => rules'[w] = 0
      BY <1>2
    <3>3. OneRuleEach'
      BY <1>2, <2>1, <3>1 DEF OneRuleEach
    <3>4. \A b \in Actors : AddsMissing(b)'
      BY <1>1, <2>1, <3>1, <3>2 DEF AddsMissing
    <3> QED
      BY <2>1, <3>1, <3>2, <3>3, <3>4 DEF AloneAtWork
  <2>5. CASE Destroy(v)
    <3>1. rules' = rules /\ exists' = exists \ {v} /\ rules[v] = 0 /\ pc'[v] = "idle"
      BY <2>1, <2>5 DEF Destroy
    <3>2. \A a \in Actors : pc'[a] = "idle"
      BY <1>1, <2>1, <2>5, <3>1 DEF Destroy, AloneAtWork
    <3> QED
      BY <2>1, <3>1, <3>2 DEF AloneAtWork, OneRuleEach, AddsMissing
  <2> QED
    BY <2>2, <2>3, <2>4, <2>5 DEF Operation
<1> QED
  BY <1>3, <1>4, <1>5 DEF ExactInv

\* Duplicates and left-over rules need an overlap, for any number of wireguards.
THEOREM Exact == Spec => []MarksExact
<1>1. Init => ExactInv
  BY DEF Init, ExactInv, AloneAtWork, OneRuleEach, AddsMissing, NoRules
<1>2. TypeOK /\ TypeOK' /\ ExactInv /\ [Next]_vars => ExactInv'
  <2> SUFFICES ASSUME TypeOK, TypeOK', ExactInv, [Next]_vars PROVE ExactInv'
    OBVIOUS
  <2> USE ActorsAssumption DEF TypeOK, Actors, Goto, routerVars, tableVars, actorVars, history,
                               Comparing, Restoring, NoRules
  <2>1. ASSUME NEW a \in Actors, RestoreStep(a) PROVE ExactInv'
    BY <2>1, RestoreExact
  <2>2. ASSUME NEW v \in Wireguards, Operation(v) PROVE ExactInv'
    BY <2>2, OperationExact
  <2>3. CASE ProcessRouter
    <3>1. router' = "known" /\ rules' = NoRules /\ listed' = listed
      BY <2>3 DEF ProcessRouter
    <3>2. \A b \in Actors : pc'[b] \notin Comparing => listed'[b] = {}
      BY <2>3 DEF ProcessRouter, ExactInv
    <3>3. ~overlapped' => (\A b \in Actors \ {Hook} : pc'[b] = "idle") /\ pc'[Hook] = "restore"
      BY <2>3 DEF ProcessRouter, Start
    <3> QED
      BY <3>1, <3>2, <3>3 DEF ExactInv, AloneAtWork, OneRuleEach, AddsMissing
  <2>4. CASE RemoveRouter
    <3>1. /\ rules' = NoRules /\ overlapped' = overlapped
          /\ \A a \in Actors : /\ listed'[a] = {}
                               /\ pc'[a] = IF pc[a] \in Restoring THEN "idle" ELSE pc[a]
      BY <2>4 DEF RemoveRouter
    <3> QED
      BY <3>1 DEF ExactInv, AloneAtWork, OneRuleEach, AddsMissing
  <2>5. CASE Restart
    <3>1. /\ rules' = NoRules
          /\ \A a \in Actors : listed'[a] = {} /\ pc'[a] = "idle"
      BY <2>5 DEF Restart
    <3> QED
      BY <3>1 DEF ExactInv, AloneAtWork, OneRuleEach, AddsMissing
  <2>6. CASE UNCHANGED vars
    BY <2>6 DEF vars, ExactInv, AloneAtWork, OneRuleEach, AddsMissing
  <2> QED
    BY <2>1, <2>2, <2>3, <2>4, <2>5, <2>6 DEF Next
<1>3. ExactInv => MarksExact
  BY DEF ExactInv, OneRuleEach, MarksExact
<1> QED
  BY <1>1, <1>2, <1>3, MarksTyping, PTL DEF Spec

===============================================================================
