------------------------- MODULE BindingRefinement -------------------------
(***************************************************************************)
(* BindingReconciler implements BindingContract: the refinement mapping.   *)
(***************************************************************************)
EXTENDS BindingReconciler

Specs == [uid : Nat, gen : Nat, group : Groups, role : Roles]

ASSUME SpecAssumption == None \notin Specs

SpecOf(b) == [uid |-> b.uid, gen |-> b.gen, group |-> b.group, role |-> b.role]

\* The objects a log has held.
Objects(log) == {log[i] : i \in 1..Len(log)} \ {None}

currentBar == [n \in Names |-> IF Live(bLog[n]) = None THEN None ELSE SpecOf(Live(bLog[n]))]
acceptedBar == [n \in Names |-> {SpecOf(b) : b \in Objects(bLog[n])}]
reportBar == [n \in Names |-> IF Live(bLog[n]) = None THEN None ELSE Live(bLog[n]).status]
grantBar == [n \in Names |-> Live(rbLog[n])]
grantedBar == [n \in Names |-> Objects(rbLog[n])]
answersBar == {[group |-> g, members |-> dirLog[d][g]] : g \in Groups, d \in 1..Len(dirLog)}
meddledBar == spent["drift"]

Contract == INSTANCE BindingContract WITH
  current  <- currentBar,
  accepted <- acceptedBar,
  report   <- reportBar,
  grant    <- grantBar,
  granted  <- grantedBar,
  answers  <- answersBar,
  meddled  <- meddledBar

\* The reconciler keeps its promise, whatever it reads too late, fails or
\* repeats: each step of it gives access from one spec and one answer, takes
\* access away only for another role, reports Ready only on what was granted
\* for the live spec, or changes none of this (reconcileRoleBinding, markReady,
\* markDegraded, markGroupNotFound).
KeepsContract == Contract!Spec

=============================================================================
