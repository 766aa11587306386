---------------------- MODULE BindingRefinementProofs ----------------------
(***************************************************************************)
(* BindingReconciler implements BindingContract, for every value of the    *)
(* constants: any number of bindings, groups, roles and users, and any     *)
(* number of edits, failures, crashes and stale reads.                     *)
(***************************************************************************)
EXTENDS BindingRefinement, BindingReconcilerProofs

----------------------------------------------------------------------------
(* The mapping. *)

\* Appending adds one object to those a log has held.
LEMMA ObjectsAppend ==
  ASSUME NEW S, NEW s \in Seq(S), NEW x \in S
  PROVE  Objects(Append(s, x)) = Objects(s) \cup ({x} \ {None})
<1>1. /\ Len(s) \in Nat /\ Len(Append(s, x)) = Len(s) + 1
      /\ \A i \in 1..Len(s) : Append(s, x)[i] = s[i]
      /\ Append(s, x)[Len(s) + 1] = x
  BY AppendRevision
<1>2. ASSUME NEW y \in Objects(Append(s, x)) PROVE y \in Objects(s) \cup ({x} \ {None})
  <2>1. PICK i \in 1..Len(Append(s, x)) : y = Append(s, x)[i] /\ y # None
    BY <1>2 DEF Objects
  <2>2. CASE i = Len(s) + 1
    BY <1>1, <2>1, <2>2
  <2>3. CASE i # Len(s) + 1
    <3>1. i \in 1..Len(s)
      BY <1>1, <2>3
    <3>2. QED
      BY <1>1, <2>1, <3>1 DEF Objects
  <2>4. QED
    BY <2>2, <2>3
<1>3. ASSUME NEW y \in Objects(s) PROVE y \in Objects(Append(s, x))
  <2>1. PICK i \in 1..Len(s) : y = s[i] /\ y # None
    BY <1>3 DEF Objects
  <2>2. i \in 1..Len(Append(s, x))
    BY <1>1
  <2>3. QED
    BY <1>1, <2>1, <2>2 DEF Objects
<1>4. x # None => x \in Objects(Append(s, x))
  BY <1>1 DEF Objects
<1>5. QED
  BY <1>2, <1>3, <1>4

\* Two functions that agree except at n.
LEMMA ExceptAt ==
  ASSUME NEW S, NEW f, NEW g, f = [m \in S |-> f[m]], g = [m \in S |-> g[m]],
         NEW n \in S, \A m \in S \ {n} : g[m] = f[m]
  PROVE  g = [f EXCEPT ![n] = g[n]]
<1> DEFINE h == [f EXCEPT ![n] = g[n]]
<1>1. DOMAIN f = S
  OBVIOUS
<1>2. h = [m \in S |-> IF m = n THEN g[n] ELSE f[m]]
  BY <1>1
<1>3. QED
  BY <1>2

\* The spec and the status of a binding, for the contract.
SpecOrNone(b) == IF b = None THEN None ELSE SpecOf(b)
StatusOrNone(b) == IF b = None THEN None ELSE b.status

\* A revision of a binding, for the contract.
LEMMA BindingBars ==
  ASSUME Base, NEW n \in Names, NEW x \in {None} \cup Binding,
         bLog' = [bLog EXCEPT ![n] = Append(@, x)]
  PROVE  /\ currentBar' = [currentBar EXCEPT ![n] = SpecOrNone(x)]
         /\ acceptedBar' = [acceptedBar EXCEPT ![n] = @ \cup Contract!Keeps(SpecOrNone(x))]
         /\ reportBar' = [reportBar EXCEPT ![n] = StatusOrNone(x)]
         /\ currentBar'[n] = SpecOrNone(x) /\ reportBar'[n] = StatusOrNone(x)
<1>1. TypeOK /\ bLog[n] \in Seq({None} \cup Binding)
  BY DEF Base, TypeOK, StoreTypeOK
<1>2. /\ Len(bLog[n]) \in Nat /\ Len(bLog'[n]) = Len(bLog[n]) + 1
      /\ bLog'[n][Len(bLog[n]) + 1] = x /\ \A m \in Names \ {n} : bLog'[m] = bLog[m]
  BY <1>1, AppendBinding
<1>3. Live(bLog'[n]) = x
  BY <1>2 DEF Live
<1>4. bLog'[n] = Append(bLog[n], x)
  BY <1>1 DEF TypeOK, StoreTypeOK
<1>5. Objects(bLog'[n]) = Objects(bLog[n]) \cup ({x} \ {None})
  BY <1>1, <1>4, ObjectsAppend
<1>6. currentBar' = [currentBar EXCEPT ![n] = SpecOrNone(x)] /\ currentBar'[n] = SpecOrNone(x)
  <2>1. currentBar'[n] = SpecOrNone(x)
    BY <1>2, <1>3 DEF currentBar, SpecOrNone
  <2>2. \A m \in Names \ {n} : currentBar'[m] = currentBar[m]
    BY <1>2 DEF currentBar, SpecOrNone
  <2>3. /\ currentBar = [m \in Names |-> currentBar[m]]
        /\ currentBar' = [m \in Names |-> currentBar'[m]]
    BY DEF currentBar
  <2>4. QED
    BY <2>1, <2>2, <2>3, ExceptAt
<1>7. reportBar' = [reportBar EXCEPT ![n] = StatusOrNone(x)] /\ reportBar'[n] = StatusOrNone(x)
  <2>1. reportBar'[n] = StatusOrNone(x)
    BY <1>2, <1>3 DEF reportBar, StatusOrNone
  <2>2. \A m \in Names \ {n} : reportBar'[m] = reportBar[m]
    BY <1>2 DEF reportBar, StatusOrNone
  <2>3. /\ reportBar = [m \in Names |-> reportBar[m]]
        /\ reportBar' = [m \in Names |-> reportBar'[m]]
    BY DEF reportBar
  <2>4. QED
    BY <2>1, <2>2, <2>3, ExceptAt
<1>8. {SpecOf(b) : b \in Objects(bLog'[n])}
        = {SpecOf(b) : b \in Objects(bLog[n])} \cup Contract!Keeps(SpecOrNone(x))
  <2>1. CASE x = None
    BY <1>5, <2>1 DEF Contract!Keeps, SpecOrNone
  <2>2. CASE x # None
    <3>1. SpecOf(x) \in Specs
      BY <2>2 DEF SpecOf, Specs, Binding
    <3>2. Contract!Keeps(SpecOrNone(x)) = {SpecOf(x)}
      BY <2>2, <3>1, SpecAssumption DEF Contract!Keeps, SpecOrNone
    <3>3. QED
      BY <1>5, <2>2, <3>2
  <2>3. QED
    BY <2>1, <2>2
<1>9. acceptedBar' = [acceptedBar EXCEPT ![n] = @ \cup Contract!Keeps(SpecOrNone(x))]
  BY <1>2, <1>8 DEF acceptedBar
<1>10. QED
  BY <1>6, <1>7, <1>9

\* A revision of a RoleBinding, for the contract.
LEMMA RoleBindingBars ==
  ASSUME Base, NEW n \in Names, NEW x \in {None} \cup RoleBinding,
         rbLog' = [rbLog EXCEPT ![n] = Append(@, x)]
  PROVE  /\ grantBar' = [grantBar EXCEPT ![n] = x] /\ grantBar'[n] = x
         /\ grantedBar' = [grantedBar EXCEPT ![n] = @ \cup Contract!Keeps(x)]
<1>1. TypeOK /\ rbLog[n] \in Seq({None} \cup RoleBinding)
  BY DEF Base, TypeOK, StoreTypeOK
<1>2. /\ Len(rbLog[n]) \in Nat /\ Len(rbLog'[n]) = Len(rbLog[n]) + 1
      /\ rbLog'[n][Len(rbLog[n]) + 1] = x /\ \A m \in Names \ {n} : rbLog'[m] = rbLog[m]
  BY <1>1, AppendRoleBinding
<1>3. Live(rbLog'[n]) = x
  BY <1>2 DEF Live
<1>4. rbLog'[n] = Append(rbLog[n], x)
  BY <1>1 DEF TypeOK, StoreTypeOK
<1>5. Objects(rbLog'[n]) = Objects(rbLog[n]) \cup ({x} \ {None})
  BY <1>1, <1>4, ObjectsAppend
<1>6. grantBar' = [grantBar EXCEPT ![n] = x] /\ grantBar'[n] = x
  <2>1. grantBar'[n] = x
    BY <1>2, <1>3 DEF grantBar
  <2>2. \A m \in Names \ {n} : grantBar'[m] = grantBar[m]
    BY <1>2 DEF grantBar
  <2>3. /\ grantBar = [m \in Names |-> grantBar[m]]
        /\ grantBar' = [m \in Names |-> grantBar'[m]]
    BY DEF grantBar
  <2>4. QED
    BY <2>1, <2>2, <2>3, ExceptAt
<1>7. Objects(rbLog'[n]) = Objects(rbLog[n]) \cup Contract!Keeps(x)
  BY <1>5 DEF Contract!Keeps
<1>8. grantedBar' = [grantedBar EXCEPT ![n] = grantedBar[n] \cup Contract!Keeps(x)] /\ grantedBar'[n] = grantedBar[n] \cup Contract!Keeps(x)
  <2>1. grantedBar'[n] = grantedBar[n] \cup Contract!Keeps(x)
    BY <1>7 DEF grantedBar
  <2>2. \A m \in Names \ {n} : grantedBar'[m] = grantedBar[m]
    BY <1>2 DEF grantedBar
  <2>3. /\ grantedBar = [m \in Names |-> grantedBar[m]]
        /\ grantedBar' = [m \in Names |-> grantedBar'[m]]
    BY DEF grantedBar
  <2>4. QED
    BY <2>1, <2>2, <2>3, ExceptAt
<1>9. QED
  BY <1>6, <1>8

\* What a step leaves alone stays the same for the contract.
LEMMA BarsStay ==
  /\ bLog' = bLog => UNCHANGED <<currentBar, acceptedBar, reportBar>>
  /\ rbLog' = rbLog => UNCHANGED <<grantBar, grantedBar>>
  /\ dirLog' = dirLog => UNCHANGED answersBar
  BY DEF currentBar, acceptedBar, reportBar, grantBar, grantedBar, answersBar

\* Only somebody else's change of a RoleBinding counts as one.
LEMMA MeddledCounts ==
  ASSUME Base, NEW k \in Kinds, Spend(k)
  PROVE  meddledBar' = IF k = "drift" THEN meddledBar + 1 ELSE meddledBar
  BY DEF Base, TypeOK, OutsideTypeOK, Spend, meddledBar, Kinds

\* The snapshot is an accepted spec, and members in hand are an answer.
LEMMA SnapshotAccepted ==
  ASSUME Base, pc # "idle"
  PROVE  /\ key \in Names /\ SpecOf(Snapshot) \in acceptedBar[key] /\ Snapshot \in Binding
         /\ SpecOf(Snapshot).role = Snapshot.role /\ SpecOf(Snapshot).uid = Snapshot.uid
         /\ SpecOf(Snapshot).group = Snapshot.group
<1>1. TypeOK /\ HoldsSnapshot
  BY DEF Base, WorkerInv
<1>2. key \in Names /\ Snapshot \in Binding /\ Snapshot = bLog[key][bAt]
  BY <1>1, ObjectTypes
<1>3. bAt \in 1..Len(bLog[key]) /\ bLog[key][bAt] # None
  BY <1>1 DEF HoldsSnapshot
<1>4. Snapshot \in Objects(bLog[key])
  BY <1>2, <1>3 DEF Objects
<1>5. QED
  BY <1>2, <1>4 DEF acceptedBar, SpecOf

\* What the directory has held for a group is an answer.
LEMMA AnswerKnown ==
  ASSUME NEW g \in Groups, NEW m, Answered(g, m)
  PROVE  [group |-> g, members |-> m] \in answersBar
  BY DEF Answered, answersBar

----------------------------------------------------------------------------
(* The steps: each one that is not a stutter for the contract. *)

\* A user's write to a binding is a Submit: a new binding has a new uid.
LEMMA UserSubmits ==
  ASSUME Base, UidsOld, NEW n \in Names,
         \/ \E g \in Groups, r \in Roles : CreateBinding(n, g, r) \/ EditSpec(n, g, r)
         \/ DeleteBinding(n)
  PROVE  Contract!Submit(n)
<1> DEFINE b == Live(bLog[n])
<1>1. TypeOK /\ HoldsSnapshot
  BY DEF Base, WorkerInv
<1>2. /\ b \in {None} \cup Binding /\ Len(bLog[n]) \in Nat
      /\ bLog[n] \in Seq({None} \cup Binding)
  BY <1>1, ObjectTypes DEF TypeOK, StoreTypeOK
<1>3. UNCHANGED <<answersBar, grantBar, grantedBar>>
  BY BarsStay DEF CreateBinding, EditSpec, DeleteBinding, outside
<1>4. meddledBar' = meddledBar
  BY MeddledCounts DEF CreateBinding, EditSpec, DeleteBinding, Kinds
<1>5. currentBar[n] = SpecOrNone(b) /\ reportBar[n] = StatusOrNone(b)
  BY DEF currentBar, reportBar, SpecOrNone, StatusOrNone
<1>6. ASSUME NEW c \in Binding PROVE SpecOf(c) \in Specs /\ SpecOf(c) # None /\ c # None
  BY <1>6, SpecAssumption, NoneAssumption DEF SpecOf, Specs, Binding
<1>7. ASSUME NEW g \in Groups, NEW r \in Roles, CreateBinding(n, g, r)
      PROVE  Contract!Submit(n)
  <2> DEFINE x == [uid |-> Len(bLog[n]), gen |-> 1, group |-> g, role |-> r,
                   status |-> NewStatus]
  <2>1. b = None /\ bLog' = [bLog EXCEPT ![n] = Append(@, x)]
    BY <1>7 DEF CreateBinding
  <2>2. x \in Binding /\ x.status.phase = "New" /\ x.uid = Len(bLog[n])
    BY <1>2 DEF Binding, NewStatus, Status, Phases, Causes, Memberships
  <2> HIDE DEF x
  <2>3. /\ currentBar' = [currentBar EXCEPT ![n] = SpecOf(x)] /\ currentBar'[n] = SpecOf(x)
        /\ acceptedBar' = [acceptedBar EXCEPT ![n] = @ \cup Contract!Keeps(SpecOf(x))]
        /\ reportBar' = [reportBar EXCEPT ![n] = x.status] /\ reportBar'[n] = x.status
    BY <1>6, <2>1, <2>2, BindingBars DEF SpecOrNone, StatusOrNone
  <2>4. currentBar[n] = None /\ SpecOf(x) # None
    BY <1>5, <1>6, <2>1, <2>2 DEF SpecOrNone
  <2>5. \A old \in acceptedBar[n] : SpecOf(x).uid # old.uid
    <3> SUFFICES ASSUME NEW old \in acceptedBar[n] PROVE SpecOf(x).uid # old.uid
      OBVIOUS
    <3>1. PICK i \in 1..Len(bLog[n]) : bLog[n][i] # None /\ old = SpecOf(bLog[n][i])
      BY DEF acceptedBar, Objects
    <3>2. bLog[n][i] \in Binding /\ bLog[n][i].uid < i
      BY <1>2, <3>1 DEF UidsOld
    <3>3. old.uid \in Nat /\ old.uid < i /\ SpecOf(x).uid = Len(bLog[n])
      BY <2>2, <3>1, <3>2 DEF SpecOf, Binding
    <3>4. QED
      BY <1>2, <3>3
  <2>6. QED
    BY <1>3, <1>4, <2>2, <2>3, <2>4, <2>5 DEF Contract!Submit
<1>8. ASSUME NEW g \in Groups, NEW r \in Roles, EditSpec(n, g, r)
      PROVE  Contract!Submit(n)
  <2> DEFINE x == [b EXCEPT !.gen = @ + 1, !.group = g, !.role = r]
  <2>1. b \in Binding /\ bLog' = [bLog EXCEPT ![n] = Append(@, x)]
    BY <1>2, <1>8 DEF EditSpec
  <2>2. b.gen + 1 \in Nat /\ b.gen + 1 # b.gen
    BY <2>1 DEF Binding
  <2> HIDE DEF b
  <2>3. /\ x \in Binding /\ x.uid = b.uid /\ x.gen = b.gen + 1 /\ x.status = b.status
    <3>1. [b EXCEPT !.gen = b.gen + 1] \in Binding
      BY <2>1, <2>2 DEF Binding
    <3>2. \A y \in Binding : [y EXCEPT !.group = g, !.role = r] \in Binding
      BY DEF Binding
    <3>3. x \in Binding
      BY <3>1, <3>2
    <3>4. QED
      BY <2>1, <3>3 DEF Binding
  <2> HIDE DEF x
  <2>4. /\ currentBar' = [currentBar EXCEPT ![n] = SpecOf(x)] /\ currentBar'[n] = SpecOf(x)
        /\ acceptedBar' = [acceptedBar EXCEPT ![n] = @ \cup Contract!Keeps(SpecOf(x))]
        /\ reportBar' = [reportBar EXCEPT ![n] = x.status] /\ reportBar'[n] = x.status
    BY <1>6, <2>1, <2>3, BindingBars DEF SpecOrNone, StatusOrNone
  <2>5. currentBar[n] = SpecOf(b) /\ SpecOf(b) # None /\ SpecOf(x) # None
    BY <1>5, <1>6, <2>1, <2>3 DEF SpecOrNone
  <2>6. SpecOf(x).uid = SpecOf(b).uid /\ SpecOf(x).gen = SpecOf(b).gen + 1
        /\ SpecOf(x) # SpecOf(b)
    BY <2>2, <2>3 DEF SpecOf
  <2>7. reportBar' = reportBar
    <3>1. reportBar[n] = b.status
      BY <1>5, <1>6, <2>1 DEF StatusOrNone
    <3>2. reportBar = [m \in Names |-> reportBar[m]]
      BY DEF reportBar
    <3>3. QED
      BY <2>3, <2>4, <3>1, <3>2
  <2>8. QED
    BY <1>3, <1>4, <2>4, <2>5, <2>6, <2>7 DEF Contract!Submit
<1>9. CASE DeleteBinding(n)
  <2>1. b \in Binding /\ bLog' = [bLog EXCEPT ![n] = Append(@, None)]
    BY <1>2, <1>9 DEF DeleteBinding
  <2>2. /\ currentBar' = [currentBar EXCEPT ![n] = None] /\ currentBar'[n] = None
        /\ acceptedBar' = [acceptedBar EXCEPT ![n] = @ \cup Contract!Keeps(None)]
        /\ reportBar' = [reportBar EXCEPT ![n] = None]
    BY <2>1, BindingBars DEF SpecOrNone, StatusOrNone
  <2>3. currentBar[n] # None
    BY <1>5, <1>6, <2>1 DEF SpecOrNone
  <2>4. QED
    BY <1>3, <1>4, <2>2, <2>3 DEF Contract!Submit
<1>10. QED
  BY <1>7, <1>8, <1>9

\* Somebody else's write to a RoleBinding is a Meddle.
LEMMA OthersMeddle ==
  ASSUME Base, NEW n \in Names,
         \/ \E m \in Memberships, drop \in BOOLEAN : EditRoleBinding(n, m, drop)
         \/ DeleteRoleBinding(n)
         \/ \E r \in Roles, m \in Memberships : CreateRoleBinding(n, r, m)
  PROVE  Contract!Meddle(n)
<1>1. TypeOK /\ HoldsSnapshot
  BY DEF Base, WorkerInv
<1>2. UNCHANGED <<currentBar, acceptedBar, reportBar, answersBar>>
  BY BarsStay DEF EditRoleBinding, DeleteRoleBinding, CreateRoleBinding, outside
<1>3. meddledBar' = meddledBar + 1
  BY MeddledCounts DEF EditRoleBinding, DeleteRoleBinding, CreateRoleBinding, Kinds
<1>4. ASSUME NEW x \in {None} \cup RoleBinding, x # None => x.by = "user",
             rbLog' = [rbLog EXCEPT ![n] = Append(@, x)]
      PROVE  Contract!Meddle(n)
  <2>1. /\ grantBar' = [grantBar EXCEPT ![n] = x] /\ grantBar'[n] = x
        /\ grantedBar' = [grantedBar EXCEPT ![n] = @ \cup Contract!Keeps(x)]
    BY <1>4, RoleBindingBars
  <2>2. QED
    BY <1>2, <1>3, <1>4, <2>1 DEF Contract!Meddle, Contract!Regrant
<1>5. ASSUME NEW m \in Memberships, NEW drop \in BOOLEAN, EditRoleBinding(n, m, drop)
      PROVE  Contract!Meddle(n)
  <2> DEFINE rb == Live(rbLog[n])
             o == IF drop THEN 0 ELSE rb.owner
             x == [rb EXCEPT !.subjects = m, !.owner = o, !.by = "user"]
  <2>1. rb \in RoleBinding /\ rbLog' = [rbLog EXCEPT ![n] = Append(@, x)]
    BY <1>1, <1>5, ObjectTypes DEF EditRoleBinding
  <2> HIDE DEF rb
  <2>2. x \in RoleBinding /\ x.by = "user"
    BY <2>1 DEF RoleBinding
  <2> HIDE DEF x
  <2>3. QED
    BY <1>4, <2>1, <2>2
<1>6. CASE DeleteRoleBinding(n)
  BY <1>4, <1>6 DEF DeleteRoleBinding
<1>7. ASSUME NEW r \in Roles, NEW m \in Memberships, CreateRoleBinding(n, r, m)
      PROVE  Contract!Meddle(n)
  <2> DEFINE x == [role |-> r, subjects |-> m, owner |-> 0, by |-> "user"]
  <2>1. x \in RoleBinding /\ x.by = "user" /\ rbLog' = [rbLog EXCEPT ![n] = Append(@, x)]
    BY <1>7 DEF CreateRoleBinding, RoleBinding
  <2> HIDE DEF x
  <2>2. QED
    BY <1>4, <2>1
<1>8. QED
  BY <1>5, <1>6, <1>7

\* The garbage collector collects.
LEMMA CollectorCollects ==
  ASSUME Base, NEW n \in Names, Collect(n)
  PROVE  Contract!Collect(n)
<1>1. TypeOK /\ HoldsSnapshot
  BY DEF Base, WorkerInv
<1>2. UNCHANGED <<currentBar, acceptedBar, reportBar, answersBar, meddledBar>>
  BY BarsStay DEF Collect, outside, meddledBar
<1>3. /\ grantBar' = [grantBar EXCEPT ![n] = None]
      /\ grantedBar' = [grantedBar EXCEPT ![n] = @ \cup Contract!Keeps(None)]
  BY RoleBindingBars DEF Collect
<1>4. grantBar[n] # None /\ grantBar[n].owner # 0
  BY DEF Collect, OwnerGone, Owned, grantBar
<1>5. currentBar[n] # None => currentBar[n].uid # grantBar[n].owner
  BY DEF Collect, OwnerGone, currentBar, grantBar, SpecOf
<1>6. QED
  BY <1>2, <1>3, <1>4, <1>5 DEF Contract!Collect, Contract!Regrant

\* What the worker does to a RoleBinding: nothing, Grant or Withdraw.
LEMMA WorkerGrants ==
  ASSUME Base, Reasons, NEW reply \in Replies,
         Create(reply) \/ Delete(reply) \/ Update(reply)
  PROVE  (\E n \in Names : Contract!Grant(n) \/ Contract!Withdraw(n)) \/ UNCHANGED Contract!vars
<1>1. /\ TypeOK /\ HoldsSnapshot /\ HoldsAnswer /\ HoldsRoleBinding
      /\ pc \in {"create", "delete", "update"}
  BY DEF Base, WorkerInv, Create, Delete, Update
<1>2. UNCHANGED <<currentBar, acceptedBar, reportBar, answersBar>>
  BY BarsStay DEF Create, Delete, Update, WriteRoleBinding, outside
<1>3. meddledBar' = meddledBar
  BY MeddledCounts DEF Create, Delete, Update, WriteRoleBinding, Replied, Kinds, meddledBar
<1>4. CASE rbLog' = rbLog
  BY <1>2, <1>3, <1>4, BarsStay DEF Contract!vars
<1> DEFINE spec == SpecOf(Snapshot)
           answer == [group |-> Snapshot.group, members |-> found]
<1>5. /\ key \in Names /\ Snapshot \in Binding /\ Snapshot = bLog[key][bAt]
      /\ spec \in acceptedBar[key] /\ spec.role = Snapshot.role /\ spec.uid = Snapshot.uid
      /\ spec.group = Snapshot.group
  BY <1>1, SnapshotAccepted DEF Snapshot
<1>6. answer \in answersBar /\ answer.group = spec.group /\ answer.members = found /\ found # None
  <2>1. Snapshot.group \in Groups
    BY <1>5 DEF Binding
  <2>2. Answered(Snapshot.group, found)
    BY <1>1, <1>5 DEF HoldsAnswer
  <2>3. found # None
    BY <1>1, NoneAssumption DEF TypeOK, WorkerTypeOK
  <2>4. QED
    BY <1>5, <2>1, <2>2, <2>3, AnswerKnown
<1>7. Desired = [role |-> spec.role, subjects |-> answer.members, owner |-> spec.uid,
                 by |-> "operator"]
  BY <1>5, <1>6 DEF Desired
<1>8. Desired \in RoleBinding
  BY <1>1, DesiredTypes
<1> HIDE DEF spec, answer
<1>9. ASSUME rbLog' = [rbLog EXCEPT ![key] = Append(@, Desired)],
             grantBar[key] # None => grantBar[key].role = spec.role
      PROVE  Contract!Grant(key)
  <2>1. /\ grantBar' = [grantBar EXCEPT ![key] = Desired]
        /\ grantedBar' = [grantedBar EXCEPT ![key] = @ \cup Contract!Keeps(Desired)]
    BY <1>5, <1>8, <1>9, RoleBindingBars
  <2>2. Contract!Regrant(key, Desired)
    BY <1>2, <2>1 DEF Contract!Regrant
  <2>3. QED
    BY <1>3, <1>5, <1>6, <1>7, <1>9, <2>2 DEF Contract!Grant
<1>10. CASE Create(reply) /\ rbLog' # rbLog
  <2>1. rbLog' = [rbLog EXCEPT ![key] = Append(@, Desired)] /\ Live(rbLog[key]) = None
    BY <1>10 DEF Create, WriteRoleBinding
  <2>2. QED
    BY <1>5, <1>9, <2>1 DEF grantBar
<1>11. CASE Update(reply) /\ rbLog' # rbLog
  <2> DEFINE patched == [rbLog[key][rbAt] EXCEPT !.subjects = Desired.subjects,
                                                !.owner = Desired.owner,
                                                !.by = "operator"]
  <2>1. /\ pc = "update" /\ rbLog' = [rbLog EXCEPT ![key] = Append(@, patched)]
        /\ rbAt = Len(rbLog[key])
    BY <1>11 DEF Update, WriteRoleBinding
  <2>2. patched = Desired
    BY <1>1, <2>1, UpdateYieldsDesired
  <2> HIDE DEF patched
  <2>3. grantBar[key].role = spec.role
    BY <1>1, <1>5, <2>1 DEF HoldsRoleBinding, grantBar, Live
  <2>4. QED
    BY <1>5, <1>9, <2>1, <2>2, <2>3
<1>12. CASE Delete(reply) /\ rbLog' # rbLog
  <2>1. /\ pc = "delete" /\ rbLog' = [rbLog EXCEPT ![key] = Append(@, None)]
        /\ Live(rbLog[key]) # None
    BY <1>12 DEF Delete, WriteRoleBinding
  <2>2. /\ grantBar' = [grantBar EXCEPT ![key] = None]
        /\ grantedBar' = [grantedBar EXCEPT ![key] = @ \cup Contract!Keeps(None)]
    BY <1>5, <2>1, RoleBindingBars
  <2>3. Contract!Regrant(key, None)
    BY <1>2, <2>2 DEF Contract!Regrant
  <2>4. rbLog[key][rbAt] \in grantedBar[key] /\ rbLog[key][rbAt].role # spec.role
    BY <1>5, <2>1 DEF Reasons, HoldsOutdated, grantedBar, Objects
  <2>5. grantBar[key] # None
    BY <1>5, <2>1 DEF grantBar
  <2>6. Contract!Withdraw(key)
    BY <1>3, <1>5, <1>6, <2>3, <2>4, <2>5 DEF Contract!Withdraw
  <2>7. QED
    BY <1>5, <2>6
<1>13. QED
  BY <1>4, <1>10, <1>11, <1>12

\* A status write is a Report, or nothing: on the live spec, and Ready only
\* with a RoleBinding that was granted for it.
LEMMA WorkerReports ==
  ASSUME Base, Reasons, NEW reply \in Replies, WriteStatus(reply)
  PROVE  (\E n \in Names : Contract!Report(n)) \/ UNCHANGED Contract!vars
<1> DEFINE new == [Snapshot EXCEPT !.status = MarkedStatus(Snapshot)]
           st == MarkedStatus(Snapshot)
<1>1. TypeOK /\ HoldsSnapshot /\ HoldsProof /\ HoldsOutcome /\ pc = "status"
  BY DEF Base, WorkerInv, Reasons, WriteStatus
<1>2. UNCHANGED <<grantBar, grantedBar, answersBar>>
  BY BarsStay DEF WriteStatus, outside
<1>3. meddledBar' = meddledBar
  BY MeddledCounts DEF WriteStatus, Replied, Kinds, meddledBar
<1>4. CASE bLog' = bLog
  BY <1>2, <1>3, <1>4, BarsStay DEF Contract!vars
<1>5. CASE bLog' # bLog
  <2>1. bAt = Len(bLog[key]) /\ bLog' = [bLog EXCEPT ![key] = Append(@, new)]
    BY <1>5 DEF WriteStatus
  <2>2. /\ key \in Names /\ Snapshot \in Binding /\ Snapshot = Live(bLog[key])
        /\ Snapshot = bLog[key][bAt] /\ Snapshot # None
    BY <1>1, <2>1, ObjectTypes, NoneAssumption DEF Live
  <2>3. new \in Binding /\ new # None
    BY <1>1, DesiredTypes, NoneAssumption
  <2>4. /\ verdict \in [phase : Phases, cause : Causes] /\ found \in Memberships /\ now \in Nat
        /\ Snapshot.status \in Status /\ Snapshot.gen \in Nat
    BY <1>1, <2>2 DEF TypeOK, WorkerTypeOK, OutsideTypeOK, Binding
  <2>5. /\ st.phase = verdict.phase /\ st.gen = Snapshot.gen
        /\ verdict.phase = "Ready" => st.members = found
        /\ verdict.phase # "Ready" => /\ st.members = Snapshot.status.members
                                      /\ st.syncTime = Snapshot.status.syncTime
    BY <2>4 DEF MarkedStatus, Status
  <2>6. new.status = st /\ SpecOf(new) = SpecOf(Snapshot)
    BY <2>2 DEF Binding, SpecOf
  <2>7. /\ currentBar[key] = SpecOf(Snapshot) /\ reportBar[key] = Snapshot.status
    BY <2>2 DEF currentBar, reportBar
  <2> HIDE DEF new, st
  <2>8. /\ currentBar' = [currentBar EXCEPT ![key] = SpecOf(new)]
        /\ acceptedBar' = [acceptedBar EXCEPT ![key] = @ \cup Contract!Keeps(SpecOf(new))]
        /\ reportBar' = [reportBar EXCEPT ![key] = st] /\ reportBar'[key] = st
    BY <2>1, <2>2, <2>3, <2>6, BindingBars DEF SpecOrNone, StatusOrNone
  <2>9. SpecOf(Snapshot) \in Specs /\ SpecOf(Snapshot) # None
    BY <2>2, SpecAssumption DEF SpecOf, Specs, Binding
  <2>10. currentBar' = currentBar
    <3>1. currentBar = [m \in Names |-> currentBar[m]]
      BY DEF currentBar
    <3>2. QED
      BY <2>2, <2>6, <2>7, <2>8, <3>1
  <2>11. acceptedBar' = acceptedBar
    <3>1. acceptedBar = [m \in Names |-> acceptedBar[m]]
      BY DEF acceptedBar
    <3>2. SpecOf(new) \in acceptedBar[key]
      BY <1>1, <2>6, SnapshotAccepted
    <3>3. acceptedBar[key] \cup Contract!Keeps(SpecOf(new)) = acceptedBar[key]
      BY <2>6, <2>9, <3>2 DEF Contract!Keeps
    <3>4. QED
      BY <2>2, <2>8, <3>1, <3>3
  <2>12. st.phase \in {"Ready", "Degraded", "GroupNotFound"}
    BY <1>1, <2>4, <2>5 DEF HoldsOutcome, Phases
  <2>13. /\ currentBar[key].gen = Snapshot.gen /\ currentBar[key].role = Snapshot.role
         /\ currentBar[key].uid = Snapshot.uid /\ currentBar[key].group = Snapshot.group
    BY <2>7 DEF SpecOf
  <2>14. ASSUME st.phase = "Ready"
         PROVE  \E g \in grantedBar[key] :
                  /\ g.role = currentBar[key].role /\ g.owner = currentBar[key].uid
                  /\ g.subjects = st.members
    <3>1. PICK i \in 1..Len(rbLog[key]) :
            /\ rbLog[key][i] # None /\ rbLog[key][i].role = bLog[key][bAt].role
            /\ rbLog[key][i].owner = bLog[key][bAt].uid /\ rbLog[key][i].subjects = found
      BY <1>1, <2>5, <2>14 DEF HoldsProof
    <3>2. rbLog[key][i] \in grantedBar[key]
      BY <2>2, <3>1 DEF grantedBar, Objects
    <3>3. QED
      BY <2>2, <2>5, <2>13, <2>14, <3>1, <3>2
  <2>15. st.phase = "GroupNotFound" => [group |-> currentBar[key].group, members |-> None] \in answersBar
    <3>1. Snapshot.group \in Groups
      BY <2>2 DEF Binding
    <3>2. QED
      BY <1>1, <2>2, <2>5, <2>13, <3>1, AnswerKnown DEF HoldsOutcome
  <2>16. st.phase # "Ready" => st.members = reportBar[key].members
                               /\ st.syncTime = reportBar[key].syncTime
    BY <2>5, <2>7
  <2>17. Contract!Report(key)
    BY <1>2, <1>3, <2>5, <2>7, <2>8, <2>9, <2>10, <2>11, <2>12, <2>13, <2>14, <2>15, <2>16
    DEF Contract!Report
  <2>18. QED
    BY <2>2, <2>17
<1>6. QED
  BY <1>4, <1>5

\* Everything else is a change of the directory, or nothing to the contract.
LEMMA OthersStutter ==
  ASSUME Base, bLog' = bLog, rbLog' = rbLog, DirectoryGrows, meddledBar' = meddledBar
  PROVE  Contract!Learn
<1>1. UNCHANGED <<currentBar, acceptedBar, reportBar, grantBar, grantedBar>>
  BY BarsStay
<1>2. answersBar \subseteq answersBar'
  BY DEF answersBar, DirectoryGrows
<1>3. QED
  BY <1>1, <1>2 DEF Contract!Learn

\* The reconciler keeps its contract: whatever it reads too late, fails or
\* repeats, each of its steps gives access from one spec and one answer, takes
\* access away only for another role, reports only what was granted for the
\* live spec, or changes none of this.
THEOREM Refinement == Spec => KeepsContract
<1> DEFINE I == Base /\ Reasons
<1>1. Init => I
  BY BaseInit, ReasonsInit
<1>2. I /\ [Next]_vars => I'
  BY BaseStep, ReasonsStep
<1>3. Init => Contract!Init
  <2> SUFFICES ASSUME Init PROVE Contract!Init
    OBVIOUS
  <2>1. \A n \in Names : bLog[n] = <<None>> /\ rbLog[n] = <<None>>
    BY DEF Init
  <2>2. Live(<<None>>) = None /\ Objects(<<None>>) = {}
    BY DEF Live, Objects
  <2>3. currentBar = [n \in Names |-> None] /\ reportBar = [n \in Names |-> None]
    BY <2>1, <2>2 DEF currentBar, reportBar
  <2>4. acceptedBar = [n \in Names |-> {}]
    BY <2>1, <2>2 DEF acceptedBar
  <2>5. grantBar = [n \in Names |-> None] /\ grantedBar = [n \in Names |-> {}]
    BY <2>1, <2>2 DEF grantBar, grantedBar
  <2>6. meddledBar = 0
    BY DEF Init, meddledBar, Kinds
  <2>7. QED
    BY <2>3, <2>4, <2>5, <2>6 DEF Contract!Init
<1>4. I /\ [Next]_vars => [Contract!Next]_(Contract!vars)
  <2> SUFFICES ASSUME I, [Next]_vars PROVE Contract!Next \/ UNCHANGED Contract!vars
    OBVIOUS
  <2>1. DirectoryGrows /\ UidsOld
    BY BaseStep DEF Reasons
  <2>2. ASSUME bLog' = bLog, rbLog' = rbLog, meddledBar' = meddledBar PROVE Contract!Next
    BY <2>1, <2>2, OthersStutter DEF Contract!Next
  <2>3. ASSUME NEW k \in Kinds \ {"drift"}, Spend(k) PROVE meddledBar' = meddledBar
    BY <2>3, MeddledCounts
  <2>4. UNCHANGED spent => meddledBar' = meddledBar
    BY DEF meddledBar
  <2>5. ASSUME NEW n \in Names,
               \/ Start(n) \/ DeliverBinding(n) \/ DeliverRoleBinding(n)
               \/ BackoffFires(n) \/ PeriodicFires(n)
        PROVE  Contract!Next
    <3>1. bLog' = bLog /\ rbLog' = rbLog
      BY <2>5 DEF Start, DeliverBinding, DeliverRoleBinding, BackoffFires, PeriodicFires, store
    <3>2. meddledBar' = meddledBar
      BY <2>3, <2>4, <2>5 DEF Start, DeliverBinding, DeliverRoleBinding, BackoffFires,
         PeriodicFires, Kinds
    <3>3. QED
      BY <2>2, <3>1, <3>2
  <2>6. CASE ReadFails \/ DiffFails \/ LoadProvider \/ GetGroupMembers \/ Diff \/ Crash
    <3>1. bLog' = bLog /\ rbLog' = rbLog
      BY <2>6 DEF ReadFails, DiffFails, LoadProvider, GetGroupMembers, Diff, Crash, store
    <3>2. meddledBar' = meddledBar
      BY <2>3, <2>4, <2>6 DEF ReadFails, DiffFails, LoadProvider, GetGroupMembers, Diff, Crash, Kinds
    <3>3. QED
      BY <2>2, <3>1, <3>2
  <2>7. ASSUME NEW reply \in Replies,
               Create(reply) \/ Delete(reply) \/ Update(reply) \/ WriteStatus(reply)
        PROVE  Contract!Next \/ UNCHANGED Contract!vars
    BY <2>7, WorkerGrants, WorkerReports DEF Contract!Next
  <2>8. ASSUME NEW n \in Names,
               \/ \E g \in Groups, r \in Roles : CreateBinding(n, g, r) \/ EditSpec(n, g, r)
               \/ DeleteBinding(n)
        PROVE  Contract!Next
    BY <2>1, <2>8, UserSubmits DEF Contract!Next
  <2>9. ASSUME NEW n \in Names,
               \/ \E m \in Memberships, drop \in BOOLEAN : EditRoleBinding(n, m, drop)
               \/ DeleteRoleBinding(n)
               \/ \E r \in Roles, m \in Memberships : CreateRoleBinding(n, r, m)
        PROVE  Contract!Next
    BY <2>9, OthersMeddle DEF Contract!Next
  <2>10. ASSUME NEW n \in Names, Collect(n) PROVE Contract!Next
    BY <2>10, CollectorCollects DEF Contract!Next
  <2>11. CASE \/ \E p \in Providers, listed \in BOOLEAN : ChangeProvider(p, listed)
              \/ \E d \in Reachabilities : ChangeReachability(d)
              \/ \E g \in Groups, m \in {None} \cup Memberships : ChangeGroup(g, m)
              \/ Tick
    <3>1. bLog' = bLog /\ rbLog' = rbLog
      BY <2>11 DEF ChangeProvider, ChangeReachability, ChangeGroup, Tick, store
    <3>2. Spend("directory") \/ Spend("tick")
      BY <2>11 DEF ChangeProvider, ChangeReachability, ChangeGroup, Tick
    <3>3. meddledBar' = meddledBar
      BY <2>3, <3>2 DEF Kinds
    <3>4. QED
      BY <2>2, <3>1, <3>3
  <2>12. CASE UNCHANGED vars
    <3>1. bLog' = bLog /\ rbLog' = rbLog /\ spent' = spent
      BY <2>12 DEF vars
    <3>2. QED
      BY <2>2, <2>4, <3>1
  <2>13. QED
    BY <2>5, <2>6, <2>7, <2>8, <2>9, <2>10, <2>11, <2>12 DEF Next, WorkerStep, Environment
<1>5. QED
  BY <1>1, <1>2, <1>3, <1>4, PTL DEF Spec, KeepsContract, Contract!Spec

=============================================================================
