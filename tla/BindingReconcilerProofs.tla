---------------------- MODULE BindingReconcilerProofs ----------------------
(***************************************************************************)
(* Safety of BindingReconciler for every value of its constants.           *)
(***************************************************************************)
EXTENDS BindingReconciler, TLAPS

(***************************************************************************)
(* What the worker holds between two steps of a reconcile.  Logs only      *)
(* grow, so that a revision read earlier is still there, however stale.    *)
(***************************************************************************)
HoldsSnapshot ==
  pc # "idle" => /\ bAt \in 1..Len(bLog[key])
                 /\ bLog[key][bAt] # None

\* The members at hand are an answer for the snapshot's group.
HoldsAnswer ==
  (pc \in {"diff", "create", "delete", "update"}
     \/ (pc = "status" /\ verdict.phase = "Ready"))
    => Answered(bLog[key][bAt].group, found)

\* An update is prepared only on a RoleBinding with the snapshot's roleRef.
HoldsRoleBinding ==
  pc = "update" => /\ rbAt \in 1..Len(rbLog[key])
                   /\ rbLog[key][rbAt] # None
                   /\ rbLog[key][rbAt].role = bLog[key][bAt].role

\* markReady runs only after a revision that carries the desired grants.
HoldsProof ==
  (pc = "status" /\ verdict.phase = "Ready") =>
    \E i \in 1..Len(rbLog[key]) :
      /\ rbLog[key][i] # None
      /\ rbLog[key][i].role = bLog[key][bAt].role
      /\ rbLog[key][i].owner = bLog[key][bAt].uid
      /\ rbLog[key][i].subjects = found

----------------------------------------------------------------------------
\* What appending a revision does to a log.
LEMMA AppendRevision ==
  ASSUME NEW S, NEW s \in Seq(S), NEW x \in S
  PROVE  /\ Append(s, x) \in Seq(S)
         /\ Len(s) \in Nat
         /\ Len(Append(s, x)) = Len(s) + 1
         /\ \A i \in 1..Len(s) : Append(s, x)[i] = s[i]
         /\ Append(s, x)[Len(s) + 1] = x
  OBVIOUS

\* The entries of a log have the log's type.
LEMMA RevisionType ==
  ASSUME NEW S, NEW s \in Seq(S), NEW i \in 1..Len(s)
  PROVE  s[i] \in S
  OBVIOUS

\* The live object of a non-empty log is one of its revisions.
LEMMA LiveType ==
  ASSUME NEW S, NEW s \in Seq(S), NEW k \in 1..Len(s)
  PROVE  Live(s) \in S
  BY DEF Live

\* The initial state is well typed.
LEMMA InitTypeOK == Init => TypeOK
<1> SUFFICES ASSUME Init PROVE TypeOK
  OBVIOUS
<1>1. bLog \in [Names -> Seq({None} \cup Binding)] /\ rbLog \in [Names -> Seq({None} \cup RoleBinding)]
  BY DEF Init
<1>2. \A n \in Names : /\ bSeen[n] \in 1..Len(bLog[n])
                       /\ rbSeen[n] \in 1..Len(rbLog[n])
  BY DEF Init
<1>3. dirLog \in Seq(Directory) /\ Len(dirLog) > 0
  BY ConstantsAssumption DEF Init
<1>4. verdict \in [phase : Phases, cause : Causes]
  BY DEF Init, Phases, Causes
<1>5. QED
  BY <1>1, <1>2, <1>3, <1>4 DEF Init, TypeOK, StoreTypeOK, SchedTypeOK, WorkerTypeOK, OutsideTypeOK, PCs, Memberships, Providers, Reachabilities, Kinds

----------------------------------------------------------------------------
\* The live binding, the live RoleBinding and the worker's copies are typed.
LEMMA ObjectTypes ==
  ASSUME TypeOK, HoldsSnapshot
  PROVE  /\ \A n \in Names : /\ Len(bLog[n]) \in Nat /\ Len(bLog[n]) > 0
                             /\ Len(rbLog[n]) \in Nat /\ Len(rbLog[n]) > 0
                             /\ Live(bLog[n]) \in {None} \cup Binding
                             /\ Live(rbLog[n]) \in {None} \cup RoleBinding
         /\ pc # "idle" => /\ key \in Names
                           /\ Snapshot \in Binding
                           /\ Snapshot = bLog[key][bAt]
<1>1. \A n \in Names : /\ bLog[n] \in Seq({None} \cup Binding)
                       /\ rbLog[n] \in Seq({None} \cup RoleBinding)
                       /\ bSeen[n] \in 1..Len(bLog[n])
                       /\ rbSeen[n] \in 1..Len(rbLog[n])
  BY DEF TypeOK, StoreTypeOK, SchedTypeOK, WorkerTypeOK, OutsideTypeOK
<1>2. \A n \in Names : /\ Len(bLog[n]) \in Nat /\ Len(bLog[n]) > 0
                       /\ Len(rbLog[n]) \in Nat /\ Len(rbLog[n]) > 0
  BY <1>1
<1>3. \A n \in Names : /\ Live(bLog[n]) \in {None} \cup Binding
                       /\ Live(rbLog[n]) \in {None} \cup RoleBinding
  BY <1>1, <1>2 DEF Live
<1>4. pc # "idle" => key \in Names
  BY DEF TypeOK, StoreTypeOK, SchedTypeOK, WorkerTypeOK, OutsideTypeOK
<1>5. pc # "idle" => Snapshot \in Binding
  BY <1>1, <1>4 DEF HoldsSnapshot, Snapshot
<1>6. QED
  BY <1>2, <1>3, <1>4, <1>5 DEF Snapshot

\* The RoleBinding the worker asks for is typed, and so is the status it writes.
LEMMA DesiredTypes ==
  ASSUME TypeOK, HoldsSnapshot, pc # "idle"
  PROVE  /\ Desired \in RoleBinding
         /\ Desired # None
         /\ [Snapshot EXCEPT !.status = MarkedStatus(Snapshot)] \in Binding
<1>1. Snapshot \in Binding
  BY ObjectTypes
<1>2. found \in Memberships /\ now \in Nat /\ verdict \in [phase : Phases, cause : Causes]
  BY DEF TypeOK, StoreTypeOK, SchedTypeOK, WorkerTypeOK, OutsideTypeOK
<1>3. Desired \in RoleBinding
  BY <1>1, <1>2 DEF Desired, RoleBinding, Binding
<1>4. MarkedStatus(Snapshot) \in Status
  BY <1>1, <1>2 DEF MarkedStatus, Binding, Status
<1>5. [Snapshot EXCEPT !.status = MarkedStatus(Snapshot)] \in Binding
  BY <1>1, <1>4 DEF Binding
<1>6. QED
  BY <1>3, <1>5, NoneAssumption

\* Appending a typed revision to one binding's log, everything else of the
\* log part of TypeOK unchanged.
LEMMA AppendBinding ==
  ASSUME TypeOK, NEW n \in Names, NEW x \in {None} \cup Binding,
         bLog' = [bLog EXCEPT ![n] = Append(@, x)]
  PROVE  /\ bLog' \in [Names -> Seq({None} \cup Binding)]
         /\ \A m \in Names : bSeen[m] \in 1..Len(bLog'[m])
         /\ \A m \in Names : Len(bLog[m]) \in Nat /\ Len(bLog[m]) <= Len(bLog'[m])
         /\ \A m \in Names : \A i \in 1..Len(bLog[m]) : bLog'[m][i] = bLog[m][i]
         /\ Len(bLog'[n]) = Len(bLog[n]) + 1
         /\ bLog'[n][Len(bLog[n]) + 1] = x
         /\ \A m \in Names \ {n} : bLog'[m] = bLog[m]
<1>1. \A m \in Names : bLog[m] \in Seq({None} \cup Binding) /\ bSeen[m] \in 1..Len(bLog[m])
  BY DEF TypeOK, StoreTypeOK, SchedTypeOK, WorkerTypeOK, OutsideTypeOK
<1>2. /\ bLog'[n] = Append(bLog[n], x)
      /\ \A m \in Names \ {n} : bLog'[m] = bLog[m]
  BY DEF TypeOK, StoreTypeOK, SchedTypeOK, WorkerTypeOK, OutsideTypeOK
<1>3. /\ bLog'[n] \in Seq({None} \cup Binding)
      /\ Len(bLog[n]) \in Nat
      /\ Len(bLog'[n]) = Len(bLog[n]) + 1
      /\ \A i \in 1..Len(bLog[n]) : bLog'[n][i] = bLog[n][i]
      /\ bLog'[n][Len(bLog[n]) + 1] = x
  BY <1>1, <1>2, AppendRevision
<1>4. bLog' \in [Names -> Seq({None} \cup Binding)]
  BY <1>1, <1>2, <1>3 DEF TypeOK, StoreTypeOK, SchedTypeOK, WorkerTypeOK, OutsideTypeOK
<1>5. \A m \in Names : Len(bLog[m]) \in Nat /\ Len(bLog[m]) <= Len(bLog'[m])
  BY <1>1, <1>2, <1>3
<1>6. \A m \in Names : bSeen[m] \in 1..Len(bLog'[m])
  BY <1>1, <1>2, <1>3, <1>5
<1>7. QED
  BY <1>2, <1>3, <1>4, <1>5, <1>6

\* The same for a RoleBinding's log.
LEMMA AppendRoleBinding ==
  ASSUME TypeOK, NEW n \in Names, NEW x \in {None} \cup RoleBinding,
         rbLog' = [rbLog EXCEPT ![n] = Append(@, x)]
  PROVE  /\ rbLog' \in [Names -> Seq({None} \cup RoleBinding)]
         /\ \A m \in Names : rbSeen[m] \in 1..Len(rbLog'[m])
         /\ \A m \in Names : Len(rbLog[m]) \in Nat /\ Len(rbLog[m]) <= Len(rbLog'[m])
         /\ \A m \in Names : \A i \in 1..Len(rbLog[m]) : rbLog'[m][i] = rbLog[m][i]
         /\ Len(rbLog'[n]) = Len(rbLog[n]) + 1
         /\ rbLog'[n][Len(rbLog[n]) + 1] = x
         /\ \A m \in Names \ {n} : rbLog'[m] = rbLog[m]
<1>1. \A m \in Names : rbLog[m] \in Seq({None} \cup RoleBinding) /\ rbSeen[m] \in 1..Len(rbLog[m])
  BY DEF TypeOK, StoreTypeOK, SchedTypeOK, WorkerTypeOK, OutsideTypeOK
<1>2. /\ rbLog'[n] = Append(rbLog[n], x)
      /\ \A m \in Names \ {n} : rbLog'[m] = rbLog[m]
  BY DEF TypeOK, StoreTypeOK, SchedTypeOK, WorkerTypeOK, OutsideTypeOK
<1>3. /\ rbLog'[n] \in Seq({None} \cup RoleBinding)
      /\ Len(rbLog[n]) \in Nat
      /\ Len(rbLog'[n]) = Len(rbLog[n]) + 1
      /\ \A i \in 1..Len(rbLog[n]) : rbLog'[n][i] = rbLog[n][i]
      /\ rbLog'[n][Len(rbLog[n]) + 1] = x
  BY <1>1, <1>2, AppendRevision
<1>4. rbLog' \in [Names -> Seq({None} \cup RoleBinding)]
  BY <1>1, <1>2, <1>3 DEF TypeOK, StoreTypeOK, SchedTypeOK, WorkerTypeOK, OutsideTypeOK
<1>5. \A m \in Names : Len(rbLog[m]) \in Nat /\ Len(rbLog[m]) <= Len(rbLog'[m])
  BY <1>1, <1>2, <1>3
<1>6. \A m \in Names : rbSeen[m] \in 1..Len(rbLog'[m])
  BY <1>1, <1>2, <1>3, <1>5
<1>7. QED
  BY <1>2, <1>3, <1>4, <1>5, <1>6

----------------------------------------------------------------------------
(***************************************************************************)
(* Revisions.  Every step leaves both logs alone or appends one revision   *)
(* to one of them; the two definitions say which revisions those are.      *)
(***************************************************************************)
BindingRevision(n, x) ==
  /\ n \in Names
  /\ x \in {None} \cup Binding
  /\ bLog' = [bLog EXCEPT ![n] = Append(@, x)]
  /\ \/ x = None
     \/ x # None /\ x.status = NewStatus /\ x.uid = Len(bLog[n])
     \/ /\ x # None /\ Live(bLog[n]) # None
        /\ x.uid = Live(bLog[n]).uid /\ x.status = Live(bLog[n]).status
     \/ /\ pc = "status" /\ key = n /\ x # None /\ bAt = Len(bLog[n])
        /\ x = [Snapshot EXCEPT !.status = MarkedStatus(Snapshot)]

RoleBindingRevision(n, x) ==
  /\ n \in Names
  /\ x \in {None} \cup RoleBinding
  /\ rbLog' = [rbLog EXCEPT ![n] = Append(@, x)]
  /\ \/ x = None
     \/ /\ x # None /\ x.by = "user"
        /\ \/ x.owner = 0
           \/ Live(rbLog[n]) # None /\ x.owner = Live(rbLog[n]).owner
     \/ /\ pc \in {"create", "update"} /\ key = n /\ x # None
        /\ x = Desired

NewBindingRevision == bLog' = bLog \/ \E n, x : BindingRevision(n, x)
NewRoleBindingRevision == rbLog' = rbLog \/ \E n, x : RoleBindingRevision(n, x)

\* Patching subjects and owner of the revision an update is based on gives the
\* desired object, because that revision already has the snapshot's roleRef.
LEMMA UpdateYieldsDesired ==
  ASSUME TypeOK, HoldsSnapshot, HoldsRoleBinding, pc = "update"
  PROVE  [rbLog[key][rbAt] EXCEPT !.subjects = Desired.subjects,
                                  !.owner = Desired.owner,
                                  !.by = "operator"] = Desired
<1> DEFINE old == rbLog[key][rbAt]
<1>1. key \in Names /\ Desired \in RoleBinding
  BY ObjectTypes, DesiredTypes
<1>2. old \in RoleBinding /\ old.role = Snapshot.role
  BY <1>1 DEF HoldsRoleBinding, TypeOK, StoreTypeOK, Snapshot
<1>3. old \in RoleBinding /\ old.role = Desired.role /\ Desired.by = "operator"
  BY <1>2 DEF Desired
<1> HIDE DEF old
<1>4. [old EXCEPT !.subjects = Desired.subjects, !.owner = Desired.owner,
                  !.by = "operator"] = Desired
  BY <1>1, <1>3 DEF RoleBinding
<1>5. QED
  BY <1>4 DEF old

\* A worker's step on the RoleBinding appends the desired object or nothing,
\* or None when it deletes.
LEMMA WorkerRevision ==
  ASSUME TypeOK, HoldsSnapshot, HoldsRoleBinding, NEW reply \in Replies,
         Create(reply) \/ Delete(reply) \/ Update(reply)
  PROVE  NewRoleBindingRevision
<1>1. pc # "idle" /\ key \in Names /\ Desired \in RoleBinding /\ Desired # None
  BY ObjectTypes, DesiredTypes DEF Create, Delete, Update
<1>2. CASE Create(reply)
  <2>1. rbLog' = rbLog \/ rbLog' = [rbLog EXCEPT ![key] = Append(@, Desired)]
    BY <1>2 DEF Create, WriteRoleBinding
  <2>2. CASE rbLog' = rbLog
    BY <2>2 DEF NewRoleBindingRevision
  <2>3. CASE rbLog' = [rbLog EXCEPT ![key] = Append(@, Desired)]
    <3>1. RoleBindingRevision(key, Desired)
      BY <1>1, <1>2, <2>3 DEF Create, RoleBindingRevision
    <3>2. QED
      BY <3>1 DEF NewRoleBindingRevision
  <2>4. QED
    BY <2>1, <2>2, <2>3
<1>3. CASE Delete(reply)
  <2>1. rbLog' = rbLog \/ rbLog' = [rbLog EXCEPT ![key] = Append(@, None)]
    BY <1>3 DEF Delete, WriteRoleBinding
  <2>2. CASE rbLog' = rbLog
    BY <2>2 DEF NewRoleBindingRevision
  <2>3. CASE rbLog' = [rbLog EXCEPT ![key] = Append(@, None)]
    <3>1. RoleBindingRevision(key, None)
      BY <1>1, <2>3 DEF RoleBindingRevision
    <3>2. QED
      BY <3>1 DEF NewRoleBindingRevision
  <2>4. QED
    BY <2>1, <2>2, <2>3
<1>4. CASE Update(reply)
  <2> DEFINE patched == [rbLog[key][rbAt] EXCEPT !.subjects = Desired.subjects,
                                                !.owner = Desired.owner,
                                                !.by = "operator"]
  <2>1. rbLog' = rbLog \/ rbLog' = [rbLog EXCEPT ![key] = Append(@, patched)]
    BY <1>4 DEF Update, WriteRoleBinding
  <2>3. patched = Desired
    BY <1>4, UpdateYieldsDesired DEF Update
  <2>4. CASE rbLog' = rbLog
    BY <2>4 DEF NewRoleBindingRevision
  <2>5. CASE rbLog' = [rbLog EXCEPT ![key] = Append(@, patched)]
    <3>1. RoleBindingRevision(key, Desired)
      BY <1>1, <1>4, <2>3, <2>5 DEF Update, RoleBindingRevision
    <3>2. QED
      BY <3>1 DEF NewRoleBindingRevision
  <2>6. QED
    BY <2>1, <2>4, <2>5
<1>5. QED
  BY <1>2, <1>3, <1>4

\* A status write appends the marked snapshot or nothing.
LEMMA StatusRevision ==
  ASSUME TypeOK, HoldsSnapshot, NEW reply \in Replies, WriteStatus(reply)
  PROVE  NewBindingRevision
<1> DEFINE new == [Snapshot EXCEPT !.status = MarkedStatus(Snapshot)]
<1>1. pc = "status" /\ key \in Names /\ new \in Binding /\ new # None
  BY ObjectTypes, DesiredTypes, NoneAssumption DEF WriteStatus
<1>2. \/ bLog' = bLog
      \/ bLog' = [bLog EXCEPT ![key] = Append(@, new)] /\ bAt = Len(bLog[key])
  BY DEF WriteStatus
<1>3. CASE bLog' = bLog
  BY <1>3 DEF NewBindingRevision
<1>4. CASE bLog' = [bLog EXCEPT ![key] = Append(@, new)] /\ bAt = Len(bLog[key])
  <2>1. BindingRevision(key, new)
    BY <1>1, <1>4 DEF BindingRevision
  <2>2. QED
    BY <2>1 DEF NewBindingRevision
<1>5. QED
  BY <1>2, <1>3, <1>4

\* A user's step on a binding.
LEMMA UserBindingRevision ==
  ASSUME TypeOK, HoldsSnapshot, NEW n \in Names, NEW g \in Groups, NEW r \in Roles,
         CreateBinding(n, g, r) \/ EditSpec(n, g, r)
  PROVE  NewBindingRevision
<1>1. Len(bLog[n]) \in Nat /\ Live(bLog[n]) \in {None} \cup Binding
  BY ObjectTypes
<1>2. CASE CreateBinding(n, g, r)
  <2> DEFINE x == [uid |-> Len(bLog[n]), gen |-> 1, group |-> g, role |-> r,
                   status |-> NewStatus]
  <2>1. x \in Binding
    BY <1>1 DEF Binding, NewStatus, Status, Phases, Causes, Memberships
  <2>2. BindingRevision(n, x)
    BY <2>1, <1>2, NoneAssumption DEF CreateBinding, BindingRevision
  <2>3. QED
    BY <2>2 DEF NewBindingRevision
<1>3. CASE EditSpec(n, g, r)
  <2> DEFINE b == Live(bLog[n])
             x == [b EXCEPT !.gen = @ + 1, !.group = g, !.role = r]
  <2>1. b \in Binding /\ b # None
    BY <1>1, <1>3 DEF EditSpec
  <2> HIDE DEF b
  <2>c. b.gen + 1 \in Nat
    BY <2>1 DEF Binding
  <2>a. x \in Binding
    <3>1. [b EXCEPT !.gen = b.gen + 1] \in Binding
      BY <2>1, <2>c DEF Binding
    <3>2. \A y \in Binding : [y EXCEPT !.group = g, !.role = r] \in Binding
      BY DEF Binding
    <3>3. QED
      BY <3>1, <3>2
  <2>b. x.uid = b.uid /\ x.status = b.status
    BY <2>1 DEF Binding
  <2>2. x \in Binding /\ x # None /\ x.uid = b.uid /\ x.status = b.status
    BY <2>a, <2>b, NoneAssumption
  <2>3. bLog' = [bLog EXCEPT ![n] = Append(@, x)]
    BY <1>3 DEF EditSpec, b
  <2> HIDE DEF x
  <2>4. BindingRevision(n, x)
    BY <2>1, <2>2, <2>3 DEF BindingRevision, b
  <2>5. QED
    BY <2>4 DEF NewBindingRevision
<1>4. QED
  BY <1>2, <1>3

\* A user's edit of a RoleBinding.
LEMMA ForeignEdit ==
  ASSUME TypeOK, HoldsSnapshot, NEW n \in Names,
         NEW s \in Memberships, NEW drop \in BOOLEAN, EditRoleBinding(n, s, drop)
  PROVE  NewRoleBindingRevision
<1> DEFINE rb == Live(rbLog[n])
           o == IF drop THEN 0 ELSE rb.owner
           x == [rb EXCEPT !.subjects = s, !.owner = o, !.by = "user"]
<1>1. rb \in RoleBinding /\ rb # None
  BY ObjectTypes DEF EditRoleBinding
<1> HIDE DEF rb
<1>2. x \in RoleBinding
  BY <1>1 DEF RoleBinding
<1>3. x.by = "user" /\ (x.owner = 0 \/ x.owner = rb.owner)
  BY <1>1 DEF RoleBinding
<1>4. x # None
  BY <1>2, NoneAssumption
<1>5. rbLog' = [rbLog EXCEPT ![n] = Append(@, x)]
  BY DEF EditRoleBinding, rb
<1> HIDE DEF x
<1>6. RoleBindingRevision(n, x)
  BY <1>1, <1>2, <1>3, <1>4, <1>5 DEF RoleBindingRevision, rb
<1>7. QED
  BY <1>6 DEF NewRoleBindingRevision

\* A user's RoleBinding under the name of a binding.
LEMMA ForeignCreate ==
  ASSUME NEW n \in Names, NEW r \in Roles, NEW s \in Memberships,
         CreateRoleBinding(n, r, s)
  PROVE  NewRoleBindingRevision
<1> DEFINE x == [role |-> r, subjects |-> s, owner |-> 0, by |-> "user"]
<1>1. x \in RoleBinding /\ x # None /\ x.by = "user" /\ x.owner = 0
  BY NoneAssumption DEF RoleBinding
<1>2. rbLog' = [rbLog EXCEPT ![n] = Append(@, x)]
  BY DEF CreateRoleBinding
<1> HIDE DEF x
<1>3. RoleBindingRevision(n, x)
  BY <1>1, <1>2 DEF RoleBindingRevision
<1>4. QED
  BY <1>3 DEF NewRoleBindingRevision

\* Every step of the system, one case per action: it appends at most the
\* revisions described above.
LEMMA Revisions ==
  ASSUME TypeOK, HoldsSnapshot, HoldsRoleBinding, [Next]_vars
  PROVE  NewBindingRevision /\ NewRoleBindingRevision
<1>1. ASSUME NEW n \in Names,
             \/ Start(n) \/ DeliverBinding(n) \/ DeliverRoleBinding(n)
             \/ BackoffFires(n) \/ PeriodicFires(n)
      PROVE  bLog' = bLog /\ rbLog' = rbLog
  BY <1>1 DEF Start, DeliverBinding, DeliverRoleBinding, BackoffFires,
              PeriodicFires, store
<1>2. CASE ReadFails \/ DiffFails \/ LoadProvider \/ GetGroupMembers \/ Diff \/ Crash
  <2>1. bLog' = bLog /\ rbLog' = rbLog
    BY <1>2 DEF ReadFails, DiffFails, LoadProvider, GetGroupMembers, Diff, Crash, store
  <2>2. QED
    BY <2>1 DEF NewBindingRevision, NewRoleBindingRevision
<1>3. ASSUME NEW reply \in Replies, Create(reply) \/ Delete(reply) \/ Update(reply)
      PROVE  NewBindingRevision /\ NewRoleBindingRevision
  <2>1. bLog' = bLog
    BY <1>3 DEF Create, Delete, Update, WriteRoleBinding
  <2>2. QED
    BY <1>3, <2>1, WorkerRevision DEF NewBindingRevision
<1>4. ASSUME NEW reply \in Replies, WriteStatus(reply)
      PROVE  NewBindingRevision /\ NewRoleBindingRevision
  <2>1. rbLog' = rbLog
    BY <1>4 DEF WriteStatus
  <2>2. QED
    BY <1>4, <2>1, StatusRevision DEF NewRoleBindingRevision
<1>5. ASSUME NEW n \in Names, NEW g \in Groups, NEW r \in Roles,
             CreateBinding(n, g, r) \/ EditSpec(n, g, r)
      PROVE  NewBindingRevision /\ NewRoleBindingRevision
  <2>1. rbLog' = rbLog
    BY <1>5 DEF CreateBinding, EditSpec
  <2>2. QED
    BY <1>5, <2>1, UserBindingRevision DEF NewRoleBindingRevision
<1>6. ASSUME NEW n \in Names, DeleteBinding(n)
      PROVE  NewBindingRevision /\ NewRoleBindingRevision
  <2>1. BindingRevision(n, None) /\ rbLog' = rbLog
    BY <1>6 DEF DeleteBinding, BindingRevision
  <2>2. QED
    BY <2>1 DEF NewBindingRevision, NewRoleBindingRevision
<1>7. ASSUME NEW n \in Names, NEW s \in Memberships, NEW drop \in BOOLEAN,
             EditRoleBinding(n, s, drop)
      PROVE  NewBindingRevision /\ NewRoleBindingRevision
  <2>1. bLog' = bLog
    BY <1>7 DEF EditRoleBinding
  <2>2. NewRoleBindingRevision
    BY <1>7, ForeignEdit
  <2>3. QED
    BY <2>1, <2>2 DEF NewBindingRevision
<1>8. ASSUME NEW n \in Names, NEW r \in Roles, NEW s \in Memberships,
             CreateRoleBinding(n, r, s)
      PROVE  NewBindingRevision /\ NewRoleBindingRevision
  <2>1. bLog' = bLog
    BY <1>8 DEF CreateRoleBinding
  <2>2. NewRoleBindingRevision
    BY <1>8, ForeignCreate
  <2>3. QED
    BY <2>1, <2>2 DEF NewBindingRevision
<1>9. ASSUME NEW n \in Names, DeleteRoleBinding(n) \/ Collect(n)
      PROVE  NewBindingRevision /\ NewRoleBindingRevision
  <2>1. RoleBindingRevision(n, None) /\ bLog' = bLog
    BY <1>9 DEF DeleteRoleBinding, Collect, RoleBindingRevision
  <2>2. QED
    BY <2>1 DEF NewBindingRevision, NewRoleBindingRevision
<1>10. ASSUME NEW p, NEW l, NEW d, NEW g, NEW m,
              \/ ChangeProvider(p, l) \/ ChangeReachability(d)
              \/ ChangeGroup(g, m) \/ Tick
       PROVE  bLog' = bLog /\ rbLog' = rbLog
  BY <1>10 DEF ChangeProvider, ChangeReachability, ChangeGroup, Tick, store
<1>11. CASE UNCHANGED vars
  BY <1>11 DEF vars, NewBindingRevision, NewRoleBindingRevision
<1>12. QED
  BY <1>1, <1>2, <1>3, <1>4, <1>5, <1>6, <1>7, <1>8, <1>9, <1>10, <1>11
  DEF Next, WorkerStep, Environment, NewBindingRevision, NewRoleBindingRevision

\* Logs only grow, and stay typed.
LogsGrow ==
  /\ bLog' \in [Names -> Seq({None} \cup Binding)]
  /\ rbLog' \in [Names -> Seq({None} \cup RoleBinding)]
  /\ \A n \in Names :
       /\ Len(bLog[n]) \in Nat /\ Len(rbLog[n]) \in Nat
       /\ Len(bLog'[n]) \in Nat /\ Len(rbLog'[n]) \in Nat
       /\ Len(bLog[n]) <= Len(bLog'[n])
       /\ Len(rbLog[n]) <= Len(rbLog'[n])
       /\ \A i \in 1..Len(bLog[n]) : bLog'[n][i] = bLog[n][i]
       /\ \A i \in 1..Len(rbLog[n]) : rbLog'[n][i] = rbLog[n][i]

\* Every step of Next keeps what the two kinds of logs already hold.
LEMMA Growth ==
  ASSUME TypeOK, NewBindingRevision, NewRoleBindingRevision
  PROVE  LogsGrow
<1>1. /\ bLog' \in [Names -> Seq({None} \cup Binding)]
      /\ \A n \in Names : /\ Len(bLog[n]) \in Nat /\ Len(bLog[n]) <= Len(bLog'[n])
                          /\ \A i \in 1..Len(bLog[n]) : bLog'[n][i] = bLog[n][i]
  <2>1. CASE bLog' = bLog
    BY <2>1 DEF TypeOK, StoreTypeOK
  <2>2. ASSUME NEW n, NEW x, BindingRevision(n, x)
        PROVE  <1>1!:
    BY <2>2, AppendBinding DEF BindingRevision
  <2>3. QED
    BY <2>1, <2>2 DEF NewBindingRevision
<1>2. /\ rbLog' \in [Names -> Seq({None} \cup RoleBinding)]
      /\ \A n \in Names : /\ Len(rbLog[n]) \in Nat /\ Len(rbLog[n]) <= Len(rbLog'[n])
                          /\ \A i \in 1..Len(rbLog[n]) : rbLog'[n][i] = rbLog[n][i]
  <2>1. CASE rbLog' = rbLog
    BY <2>1 DEF TypeOK, StoreTypeOK
  <2>2. ASSUME NEW n, NEW x, RoleBindingRevision(n, x)
        PROVE  <1>2!:
    BY <2>2, AppendRoleBinding DEF RoleBindingRevision
  <2>3. QED
    BY <2>1, <2>2 DEF NewRoleBindingRevision
<1>3. \A n \in Names : Len(bLog'[n]) \in Nat /\ Len(rbLog'[n]) \in Nat
  BY <1>1, <1>2
<1>4. QED
  BY <1>1, <1>2, <1>3 DEF LogsGrow

----------------------------------------------------------------------------
(* Type correctness of a step. *)

\* Spending keeps the counters natural numbers.
LEMMA SpendType ==
  ASSUME OutsideTypeOK, NEW k \in Kinds, Spend(k)
  PROVE  spent' \in [Kinds -> Nat]
  BY DEF OutsideTypeOK, Spend

\* Informers move forward inside the logs; nothing else moves a cache.
LEMMA StoreTypeStep ==
  ASSUME TypeOK, LogsGrow, [Next]_vars
  PROVE  StoreTypeOK'
<1>1. /\ bSeen \in [Names -> Nat] /\ rbSeen \in [Names -> Nat]
      /\ \A n \in Names : bSeen[n] \in 1..Len(bLog[n]) /\ rbSeen[n] \in 1..Len(rbLog[n])
  BY DEF TypeOK, StoreTypeOK
<1>2. CASE bSeen' = bSeen /\ rbSeen' = rbSeen
  <2>1. ASSUME NEW n \in Names
        PROVE  bSeen[n] \in 1..Len(bLog'[n]) /\ rbSeen[n] \in 1..Len(rbLog'[n])
    <3>1. /\ Len(bLog[n]) \in Nat /\ Len(bLog'[n]) \in Nat /\ Len(bLog[n]) <= Len(bLog'[n])
          /\ Len(rbLog[n]) \in Nat /\ Len(rbLog'[n]) \in Nat /\ Len(rbLog[n]) <= Len(rbLog'[n])
      BY DEF LogsGrow
    <3>2. QED
      BY <1>1, <3>1
  <2>2. QED
    BY <1>1, <1>2, <2>1 DEF StoreTypeOK, LogsGrow
<1>3. ASSUME NEW n \in Names, DeliverBinding(n)
      PROVE  StoreTypeOK'
  <2>1. bLog' = bLog /\ rbLog' = rbLog /\ rbSeen' = rbSeen
    BY <1>3 DEF DeliverBinding, store
  <2>2. bSeen[n] + 1 \in 1..Len(bLog[n])
    BY <1>1, <1>3 DEF DeliverBinding, LogsGrow
  <2>3. bSeen' \in [Names -> Nat] /\ \A m \in Names : bSeen'[m] \in 1..Len(bLog[m])
    BY <1>1, <1>3, <2>2 DEF DeliverBinding
  <2>4. QED
    BY <1>1, <2>1, <2>3 DEF StoreTypeOK, LogsGrow
<1>4. ASSUME NEW n \in Names, DeliverRoleBinding(n)
      PROVE  StoreTypeOK'
  <2>1. bLog' = bLog /\ rbLog' = rbLog /\ bSeen' = bSeen
    BY <1>4 DEF DeliverRoleBinding, store
  <2>2. rbSeen[n] + 1 \in 1..Len(rbLog[n])
    BY <1>1, <1>4 DEF DeliverRoleBinding, LogsGrow
  <2>3. rbSeen' \in [Names -> Nat] /\ \A m \in Names : rbSeen'[m] \in 1..Len(rbLog[m])
    BY <1>1, <1>4, <2>2 DEF DeliverRoleBinding
  <2>4. QED
    BY <1>1, <2>1, <2>3 DEF StoreTypeOK, LogsGrow
<1>5. CASE Crash
  <2>1. bLog' = bLog /\ rbLog' = rbLog
    BY <1>5 DEF Crash, store
  <2>2. /\ bSeen' \in [Names -> Nat] /\ rbSeen' \in [Names -> Nat]
        /\ \A n \in Names : /\ bSeen'[n] \in 1..Len(bLog[n])
                            /\ rbSeen'[n] \in 1..Len(rbLog[n])
    BY <1>1, <1>5 DEF Crash, LogsGrow
  <2>3. QED
    BY <2>1, <2>2 DEF StoreTypeOK, LogsGrow
<1>6. ASSUME NEW n \in Names, Start(n) \/ BackoffFires(n) \/ PeriodicFires(n)
      PROVE  bSeen' = bSeen /\ rbSeen' = rbSeen
  BY <1>6 DEF Start, BackoffFires, PeriodicFires, seen
<1>7. ASSUME ReadFails \/ DiffFails \/ WorkerStep
      PROVE  bSeen' = bSeen /\ rbSeen' = rbSeen
  BY <1>7 DEF ReadFails, DiffFails, WorkerStep, LoadProvider, GetGroupMembers, Diff,
              Create, Delete, Update, WriteRoleBinding, WriteStatus, seen
<1>8. ASSUME Environment
      PROVE  bSeen' = bSeen /\ rbSeen' = rbSeen
  BY <1>8 DEF Environment, CreateBinding, EditSpec, DeleteBinding, EditRoleBinding,
              DeleteRoleBinding, CreateRoleBinding, Collect, ChangeProvider,
              ChangeReachability, ChangeGroup, Tick, Inside, seen
<1>9. CASE UNCHANGED vars
  BY <1>2, <1>9 DEF vars
<1>10. QED
  BY <1>2, <1>3, <1>4, <1>5, <1>6, <1>7, <1>8, <1>9 DEF Next

\* The queue and the timers hold names of bindings.
LEMMA SchedTypeStep ==
  ASSUME TypeOK, [Next]_vars
  PROVE  SchedTypeOK'
<1>1. SchedTypeOK /\ (pc # "idle" => key \in Names)
  BY DEF TypeOK, WorkerTypeOK
<1>2. ASSUME NEW n \in Names,
             \/ Start(n) \/ DeliverBinding(n) \/ DeliverRoleBinding(n)
             \/ BackoffFires(n) \/ PeriodicFires(n)
      PROVE  SchedTypeOK'
  BY <1>1, <1>2 DEF Start, DeliverBinding, DeliverRoleBinding, BackoffFires,
                    PeriodicFires, SchedTypeOK
<1>3. CASE ReadFails
  BY <1>1, <1>3 DEF ReadFails, SchedTypeOK
<1>4. ASSUME NEW reply \in Replies, WriteStatus(reply)
      PROVE  SchedTypeOK'
  BY <1>1, <1>4 DEF WriteStatus, SchedTypeOK
<1>5. ASSUME NEW reply \in Replies,
             \/ DiffFails \/ LoadProvider \/ GetGroupMembers \/ Diff
             \/ Create(reply) \/ Delete(reply) \/ Update(reply)
      PROVE  UNCHANGED sched
  BY <1>5 DEF DiffFails, LoadProvider, GetGroupMembers, Diff, Create, Delete, Update,
              WriteRoleBinding
<1>6. CASE Crash
  BY <1>6 DEF Crash, SchedTypeOK
<1>7. ASSUME NEW p, NEW listed, ChangeProvider(p, listed)
      PROVE  SchedTypeOK'
  BY <1>1, <1>7 DEF ChangeProvider, SchedTypeOK
<1>8. ASSUME NEW n, NEW g, NEW r, NEW s, NEW drop, NEW d,
             \/ CreateBinding(n, g, r) \/ EditSpec(n, g, r) \/ DeleteBinding(n)
             \/ EditRoleBinding(n, s, drop) \/ DeleteRoleBinding(n)
             \/ CreateRoleBinding(n, r, s) \/ Collect(n)
             \/ ChangeReachability(d) \/ ChangeGroup(g, s) \/ Tick
      PROVE  UNCHANGED sched
  BY <1>8 DEF CreateBinding, EditSpec, DeleteBinding, EditRoleBinding,
              DeleteRoleBinding, CreateRoleBinding, Collect,
              ChangeReachability, ChangeGroup, Tick, Inside
<1>9. CASE UNCHANGED vars
  BY <1>1, <1>9 DEF vars, SchedTypeOK
<1>10. UNCHANGED sched => SchedTypeOK'
  BY <1>1 DEF sched, SchedTypeOK
<1>11. "ok" \in Replies
  BY DEF Replies
<1>12. QED
  BY <1>2, <1>3, <1>4, <1>5, <1>6, <1>7, <1>8, <1>9, <1>10, <1>11
  DEF Next, WorkerStep, Environment

\* The worker's variables.
LEMMA WorkerTypeStep ==
  ASSUME TypeOK, HoldsSnapshot, [Next]_vars
  PROVE  WorkerTypeOK'
<1>1. /\ WorkerTypeOK /\ None \notin Names
      /\ \A n \in Names : bSeen[n] \in Nat /\ rbSeen[n] \in Nat
  BY NoneAssumption DEF TypeOK, StoreTypeOK
<1>2. GoIdle => WorkerTypeOK'
  BY <1>1 DEF GoIdle, WorkerTypeOK, PCs, Memberships, Phases, Causes
<1>3. ASSUME NEW phase \in Phases, NEW cause \in Causes, pc # "idle", Mark(phase, cause)
      PROVE  WorkerTypeOK'
  BY <1>1, <1>3 DEF Mark, WorkerTypeOK, PCs
<1>4. ASSUME NEW n \in Names, Start(n)
      PROVE  WorkerTypeOK'
  <2>1. CASE UNCHANGED worker
    BY <1>1, <2>1 DEF worker, WorkerTypeOK
  <2>2. CASE /\ pc' = "provider" /\ key' = n /\ bAt' = bSeen[n]
             /\ UNCHANGED <<rbAt, found, verdict>>
    BY <1>1, <2>2 DEF WorkerTypeOK, PCs
  <2>3. QED
    BY <1>4, <2>1, <2>2 DEF Start
<1>5. CASE ReadFails \/ Crash
  BY <1>2, <1>5 DEF ReadFails, Crash
<1>6. CASE DiffFails
  BY <1>3, <1>6 DEF DiffFails, Phases, Causes
<1>7. CASE LoadProvider
  <2>1. \/ Mark("Degraded", "provider") \/ Mark("Degraded", "secret")
        \/ pc' = "lookup" /\ UNCHANGED <<key, bAt, rbAt, found, verdict>>
    BY <1>7 DEF LoadProvider, TypeOK, OutsideTypeOK, Providers
  <2>2. CASE Mark("Degraded", "provider") \/ Mark("Degraded", "secret")
    BY <1>3, <1>7, <2>2 DEF LoadProvider, Phases, Causes
  <2>3. CASE pc' = "lookup" /\ UNCHANGED <<key, bAt, rbAt, found, verdict>>
    BY <1>1, <1>7, <2>3 DEF LoadProvider, WorkerTypeOK, PCs
  <2>4. QED
    BY <2>1, <2>2, <2>3
<1>8. CASE GetGroupMembers
  <2> DEFINE answer == Live(dirLog)[Snapshot.group]
  <2>1. \/ Mark("Degraded", "ldap") \/ Mark("GroupNotFound", "none")
        \/ /\ pc' = "diff" /\ found' = answer /\ answer # None
           /\ UNCHANGED <<key, bAt, rbAt, verdict>>
    BY <1>8, ConstantsAssumption
    DEF GetGroupMembers, TypeOK, OutsideTypeOK, Reachabilities
  <2>2. CASE Mark("Degraded", "ldap") \/ Mark("GroupNotFound", "none")
    BY <1>3, <1>8, <2>2 DEF GetGroupMembers, Phases, Causes
  <2>3. CASE /\ pc' = "diff" /\ found' = answer /\ answer # None
             /\ UNCHANGED <<key, bAt, rbAt, verdict>>
    <3>1. answer \in Memberships
      <4>1. Live(dirLog) \in Directory
        BY DEF TypeOK, OutsideTypeOK, Live
      <4>2. Snapshot.group \in Groups
        BY <1>8, ObjectTypes DEF GetGroupMembers, Binding
      <4>3. QED
        BY <2>3, <4>1, <4>2 DEF Directory
    <3>2. QED
      BY <1>1, <1>8, <2>3, <3>1 DEF GetGroupMembers, WorkerTypeOK, PCs
  <2>4. QED
    BY <2>1, <2>2, <2>3
<1>9. CASE Diff
  <2>1. \/ Mark("Ready", "none")
        \/ /\ pc' \in {"create", "delete", "update"} /\ rbAt' = rbSeen[key]
           /\ UNCHANGED <<key, bAt, found, verdict>>
    BY <1>9 DEF Diff
  <2>2. CASE Mark("Ready", "none")
    BY <1>3, <1>9, <2>2 DEF Diff, Phases, Causes
  <2>3. CASE /\ pc' \in {"create", "delete", "update"} /\ rbAt' = rbSeen[key]
             /\ UNCHANGED <<key, bAt, found, verdict>>
    BY <1>1, <1>9, <2>3 DEF Diff, WorkerTypeOK, PCs
  <2>4. QED
    BY <2>1, <2>2, <2>3
<1>10. ASSUME NEW reply \in Replies, Create(reply) \/ Delete(reply) \/ Update(reply)
       PROVE  WorkerTypeOK'
  <2>1. \/ Mark("Ready", "none") \/ Mark("Degraded", "api")
        \/ pc' = "create" /\ UNCHANGED <<key, bAt, rbAt, found, verdict>>
    BY <1>10 DEF Create, Delete, Update, WriteRoleBinding
  <2>2. pc # "idle"
    BY <1>10 DEF Create, Delete, Update
  <2>3. CASE Mark("Ready", "none") \/ Mark("Degraded", "api")
    BY <1>3, <2>2, <2>3 DEF Phases, Causes
  <2>4. CASE pc' = "create" /\ UNCHANGED <<key, bAt, rbAt, found, verdict>>
    BY <1>1, <2>2, <2>4 DEF WorkerTypeOK, PCs
  <2>5. QED
    BY <2>1, <2>3, <2>4
<1>11. ASSUME NEW reply \in Replies, WriteStatus(reply)
       PROVE  WorkerTypeOK'
  BY <1>2, <1>11 DEF WriteStatus
<1>12. ASSUME NEW n, DeliverBinding(n) \/ DeliverRoleBinding(n) \/ BackoffFires(n) \/ PeriodicFires(n)
       PROVE  UNCHANGED worker
  BY <1>12 DEF DeliverBinding, DeliverRoleBinding, BackoffFires, PeriodicFires
<1>13. ASSUME Environment
       PROVE  UNCHANGED worker
  BY <1>13 DEF Environment, CreateBinding, EditSpec, DeleteBinding, EditRoleBinding,
              DeleteRoleBinding, CreateRoleBinding, Collect, ChangeProvider,
              ChangeReachability, ChangeGroup, Tick, Inside
<1>14. UNCHANGED worker => WorkerTypeOK'
  BY <1>1 DEF worker, WorkerTypeOK
<1>15. CASE UNCHANGED vars
  BY <1>14, <1>15 DEF vars, worker
<1>16. QED
  BY <1>4, <1>5, <1>6, <1>7, <1>8, <1>9, <1>10, <1>11, <1>12, <1>13, <1>14, <1>15
  DEF Next, WorkerStep

\* The provider, the directory, the clock and the bounds' counters.
LEMMA OutsideTypeStep ==
  ASSUME TypeOK, [Next]_vars
  PROVE  OutsideTypeOK'
<1>1. OutsideTypeOK
  BY DEF TypeOK
<1>2. \A k \in Kinds : Spend(k) => spent' \in [Kinds -> Nat]
  BY <1>1, SpendType
<1>3. {"edit", "drift", "directory", "fault", "crash", "stale", "tick"} = Kinds
  BY DEF Kinds
<1>4. ASSUME UNCHANGED outside, spent' \in [Kinds -> Nat]
      PROVE  OutsideTypeOK'
  BY <1>1, <1>4 DEF outside, OutsideTypeOK
<1>5. spent \in [Kinds -> Nat]
  BY <1>1 DEF OutsideTypeOK
<1>6. ASSUME NEW n \in Names,
             \/ Start(n) \/ DeliverBinding(n) \/ DeliverRoleBinding(n)
             \/ BackoffFires(n) \/ PeriodicFires(n)
      PROVE  OutsideTypeOK'
  BY <1>2, <1>3, <1>4, <1>5, <1>6
  DEF Start, DeliverBinding, DeliverRoleBinding, BackoffFires, PeriodicFires
<1>7. ASSUME NEW reply \in Replies,
             \/ ReadFails \/ DiffFails \/ LoadProvider \/ GetGroupMembers \/ Diff
             \/ Create(reply) \/ Delete(reply) \/ Update(reply) \/ WriteStatus(reply)
             \/ Crash
      PROVE  OutsideTypeOK'
  BY <1>2, <1>3, <1>4, <1>5, <1>7
  DEF ReadFails, DiffFails, LoadProvider, GetGroupMembers, Diff, Create, Delete,
      Update, WriteRoleBinding, WriteStatus, Replied, Crash
<1>8. ASSUME NEW n, NEW g, NEW r, NEW s, NEW drop,
             \/ CreateBinding(n, g, r) \/ EditSpec(n, g, r) \/ DeleteBinding(n)
             \/ EditRoleBinding(n, s, drop) \/ DeleteRoleBinding(n)
             \/ CreateRoleBinding(n, r, s) \/ Collect(n)
      PROVE  OutsideTypeOK'
  BY <1>2, <1>3, <1>4, <1>5, <1>8
  DEF CreateBinding, EditSpec, DeleteBinding, EditRoleBinding, DeleteRoleBinding,
      CreateRoleBinding, Collect
<1>9. ASSUME NEW p \in Providers, NEW listed, ChangeProvider(p, listed)
      PROVE  OutsideTypeOK'
  BY <1>1, <1>2, <1>3, <1>9 DEF ChangeProvider, OutsideTypeOK
<1>10. ASSUME NEW d \in Reachabilities, ChangeReachability(d)
       PROVE  OutsideTypeOK'
  BY <1>1, <1>2, <1>3, <1>10 DEF ChangeReachability, OutsideTypeOK
<1>11. ASSUME NEW g \in Groups, NEW m \in {None} \cup Memberships, ChangeGroup(g, m)
       PROVE  OutsideTypeOK'
  <2>1. Live(dirLog) \in Directory
    BY <1>1 DEF OutsideTypeOK, Live
  <2>2. [Live(dirLog) EXCEPT ![g] = m] \in Directory
    BY <2>1 DEF Directory
  <2>3. dirLog' \in Seq(Directory) /\ Len(dirLog') > 0
    BY <1>1, <1>11, <2>2, AppendRevision DEF ChangeGroup, OutsideTypeOK
  <2>4. QED
    BY <1>1, <1>2, <1>3, <1>11, <2>3 DEF ChangeGroup, OutsideTypeOK
<1>12. CASE Tick
  BY <1>1, <1>2, <1>3, <1>12 DEF Tick, OutsideTypeOK
<1>13. CASE UNCHANGED vars
  BY <1>4, <1>5, <1>13 DEF vars, outside
<1>14. "ok" \in Replies
  BY DEF Replies
<1>15. QED
  BY <1>6, <1>7, <1>8, <1>9, <1>10, <1>11, <1>12, <1>13, <1>14
  DEF Next, WorkerStep, Environment

----------------------------------------------------------------------------
(* What the worker holds stays true while others act. *)

\* The directory's past is kept.
DirectoryGrows ==
  \A i \in 1..Len(dirLog) : i \in 1..Len(dirLog') /\ dirLog'[i] = dirLog[i]

\* Every step keeps the earlier contents of the directory, so that an answer
\* it has given remains one it has given.
LEMMA AnswersStay ==
  ASSUME TypeOK, [Next]_vars
  PROVE  DirectoryGrows
<1>1. CASE dirLog' = dirLog
  BY <1>1 DEF DirectoryGrows
<1>2. ASSUME NEW h \in Groups, NEW x \in {None} \cup Memberships, ChangeGroup(h, x)
      PROVE  DirectoryGrows
  <2>1. [Live(dirLog) EXCEPT ![h] = x] \in Directory /\ dirLog \in Seq(Directory)
    BY DEF TypeOK, OutsideTypeOK, Live, Directory
  <2>2. /\ Len(dirLog) \in Nat /\ Len(dirLog') = Len(dirLog) + 1
        /\ \A i \in 1..Len(dirLog) : dirLog'[i] = dirLog[i]
    BY <1>2, <2>1, AppendRevision DEF ChangeGroup
  <2>3. QED
    BY <2>2 DEF DirectoryGrows
<1>3. ASSUME ~ \E h \in Groups, x \in {None} \cup Memberships : ChangeGroup(h, x)
      PROVE  dirLog' = dirLog
  BY <1>3 DEF Next, WorkerStep, Environment, Start, DeliverBinding, DeliverRoleBinding,
     BackoffFires, PeriodicFires, ReadFails, DiffFails, LoadProvider, GetGroupMembers,
     Diff, Create, Delete, Update, WriteRoleBinding, WriteStatus, Crash, CreateBinding,
     EditSpec, DeleteBinding, EditRoleBinding, DeleteRoleBinding, CreateRoleBinding,
     Collect, ChangeProvider, ChangeReachability, Tick, outside, vars
<1>4. QED
  BY <1>1, <1>2, <1>3

WorkerInv == HoldsSnapshot /\ HoldsAnswer /\ HoldsRoleBinding /\ HoldsProof

\* A step that leaves the worker alone leaves what it holds alone.
LEMMA WorkerInvKept ==
  ASSUME TypeOK, WorkerInv, LogsGrow, [Next]_vars, UNCHANGED worker
  PROVE  WorkerInv'
<1>1. /\ pc' = pc /\ key' = key /\ bAt' = bAt /\ rbAt' = rbAt
      /\ found' = found /\ verdict' = verdict
  BY DEF worker
<1>2. CASE pc = "idle"
  BY <1>1, <1>2 DEF WorkerInv, HoldsSnapshot, HoldsAnswer, HoldsRoleBinding, HoldsProof
<1>3. CASE pc # "idle"
  <2>1. key \in Names /\ bAt \in 1..Len(bLog[key]) /\ bLog[key][bAt] # None
    BY <1>3 DEF TypeOK, WorkerTypeOK, WorkerInv, HoldsSnapshot
  <2>2. bAt \in 1..Len(bLog'[key]) /\ bLog'[key][bAt] = bLog[key][bAt]
    BY <2>1 DEF LogsGrow
  <2>3. HoldsSnapshot'
    BY <1>1, <2>1, <2>2 DEF HoldsSnapshot
  <2>4. HoldsAnswer'
    <3>1. SUFFICES ASSUME HoldsAnswer!1 PROVE HoldsAnswer'
      BY <1>1 DEF HoldsAnswer
    <3>2. PICK d \in 1..Len(dirLog) : dirLog[d][bLog[key][bAt].group] = found
      BY <3>1 DEF WorkerInv, HoldsAnswer, Answered
    <3>3. d \in 1..Len(dirLog') /\ dirLog'[d] = dirLog[d]
      BY AnswersStay DEF DirectoryGrows
    <3>4. QED
      BY <1>1, <2>2, <3>2, <3>3 DEF HoldsAnswer, Answered
  <2>5. HoldsRoleBinding'
    BY <1>1, <2>1, <2>2 DEF WorkerInv, HoldsRoleBinding, LogsGrow
  <2>6. HoldsProof'
    <3>1. SUFFICES ASSUME HoldsProof!1 PROVE HoldsProof'
      BY <1>1 DEF HoldsProof
    <3>2. PICK i \in 1..Len(rbLog[key]) :
            /\ rbLog[key][i] # None
            /\ rbLog[key][i].role = bLog[key][bAt].role
            /\ rbLog[key][i].owner = bLog[key][bAt].uid
            /\ rbLog[key][i].subjects = found
      BY <3>1 DEF WorkerInv, HoldsProof
    <3>3. i \in 1..Len(rbLog'[key]) /\ rbLog'[key][i] = rbLog[key][i]
      BY <2>1 DEF LogsGrow
    <3>4. QED
      BY <1>1, <2>2, <3>2, <3>3 DEF HoldsProof
  <2>7. QED
    BY <2>3, <2>4, <2>5, <2>6 DEF WorkerInv
<1>4. QED
  BY <1>2, <1>3

\* The snapshot stays in hand while a reconcile goes on.
LEMMA SnapshotKept ==
  ASSUME TypeOK, HoldsSnapshot, LogsGrow, pc # "idle", key' = key, bAt' = bAt
  PROVE  /\ key \in Names
         /\ HoldsSnapshot'
         /\ bLog'[key][bAt] = bLog[key][bAt]
<1>1. key \in Names /\ bAt \in 1..Len(bLog[key]) /\ bLog[key][bAt] # None
  BY DEF TypeOK, WorkerTypeOK, HoldsSnapshot
<1>2. bAt \in 1..Len(bLog'[key]) /\ bLog'[key][bAt] = bLog[key][bAt]
  BY <1>1 DEF LogsGrow
<1>3. QED
  BY <1>1, <1>2 DEF HoldsSnapshot

\* Members in hand remain an answer for the snapshot's group.
LEMMA AnswerKept ==
  ASSUME TypeOK, HoldsSnapshot, LogsGrow, [Next]_vars, pc # "idle",
         key' = key, bAt' = bAt, found' = found,
         Answered(bLog[key][bAt].group, found)
  PROVE  HoldsAnswer'
<1>1. bLog'[key][bAt] = bLog[key][bAt]
  BY SnapshotKept
<1>2. PICK d \in 1..Len(dirLog) : dirLog[d][bLog[key][bAt].group] = found
  BY DEF Answered
<1>3. d \in 1..Len(dirLog') /\ dirLog'[d] = dirLog[d]
  BY AnswersStay DEF DirectoryGrows
<1>4. QED
  BY <1>1, <1>2, <1>3 DEF HoldsAnswer, Answered

\* A failed or GroupNotFound outcome needs nothing but the snapshot.
LEMMA MarkKeeps ==
  ASSUME TypeOK, WorkerInv, LogsGrow, pc # "idle",
         NEW phase \in {"Degraded", "GroupNotFound"}, NEW cause, Mark(phase, cause)
  PROVE  WorkerInv'
<1>1. /\ pc' = "status" /\ verdict'.phase # "Ready" /\ key' = key /\ bAt' = bAt
  BY DEF Mark
<1>2. HoldsSnapshot'
  BY <1>1, SnapshotKept DEF WorkerInv
<1>3. QED
  BY <1>1, <1>2 DEF WorkerInv, HoldsAnswer, HoldsRoleBinding, HoldsProof

\* Every step keeps what the worker holds true.
LEMMA WorkerInvStep ==
  ASSUME TypeOK, WorkerInv, LogsGrow, [Next]_vars
  PROVE  WorkerInv'
<1>1. GoIdle => WorkerInv'
  BY DEF GoIdle, WorkerInv, HoldsSnapshot, HoldsAnswer, HoldsRoleBinding, HoldsProof
<1>2. UNCHANGED worker => WorkerInv'
  BY WorkerInvKept
<1>3. ASSUME NEW n \in Names, Start(n)
      PROVE  WorkerInv'
  <2>1. CASE UNCHANGED worker
    BY <1>2, <2>1
  <2>2. CASE /\ Cached(bLog[n], bSeen[n]) # None
             /\ pc' = "provider" /\ key' = n /\ bAt' = bSeen[n]
    <3>1. bLog' = bLog /\ bSeen[n] \in 1..Len(bLog[n])
      BY <1>3 DEF Start, store, TypeOK, StoreTypeOK
    <3>2. QED
      BY <2>2, <3>1 DEF Cached, WorkerInv, HoldsSnapshot, HoldsAnswer,
                        HoldsRoleBinding, HoldsProof
  <2>3. QED
    BY <1>3, <2>1, <2>2 DEF Start
<1>4. CASE ReadFails \/ Crash
  BY <1>1, <1>4 DEF ReadFails, Crash
<1>5. CASE DiffFails
  BY <1>5, MarkKeeps DEF DiffFails
<1>6. CASE LoadProvider
  <2>1. \/ Mark("Degraded", "provider") \/ Mark("Degraded", "secret")
        \/ pc' = "lookup" /\ UNCHANGED <<key, bAt, rbAt, found, verdict>>
    BY <1>6 DEF LoadProvider, TypeOK, OutsideTypeOK, Providers
  <2>2. CASE Mark("Degraded", "provider") \/ Mark("Degraded", "secret")
    BY <1>6, <2>2, MarkKeeps DEF LoadProvider
  <2>3. CASE pc' = "lookup" /\ UNCHANGED <<key, bAt, rbAt, found, verdict>>
    <3>1. HoldsSnapshot'
      BY <1>6, <2>3, SnapshotKept DEF LoadProvider, WorkerInv
    <3>2. QED
      BY <2>3, <3>1 DEF WorkerInv, HoldsAnswer, HoldsRoleBinding, HoldsProof
  <2>4. QED
    BY <2>1, <2>2, <2>3
<1>7. CASE GetGroupMembers
  <2> DEFINE answer == Live(dirLog)[Snapshot.group]
  <2>1. \/ Mark("Degraded", "ldap") \/ Mark("GroupNotFound", "none")
        \/ pc' = "diff" /\ found' = answer /\ UNCHANGED <<key, bAt, rbAt, verdict>>
    BY <1>7, ConstantsAssumption
    DEF GetGroupMembers, TypeOK, OutsideTypeOK, Reachabilities
  <2>2. CASE Mark("Degraded", "ldap") \/ Mark("GroupNotFound", "none")
    BY <1>7, <2>2, MarkKeeps DEF GetGroupMembers
  <2>3. CASE pc' = "diff" /\ found' = answer /\ UNCHANGED <<key, bAt, rbAt, verdict>>
    <3>1. pc # "idle" /\ dirLog' = dirLog /\ bLog' = bLog
      BY <1>7 DEF GetGroupMembers, outside, store
    <3>2. HoldsSnapshot'
      BY <2>3, <3>1, SnapshotKept DEF WorkerInv
    <3>3. Len(dirLog) \in 1..Len(dirLog)
      BY DEF TypeOK, OutsideTypeOK
    <3>4. Answered(bLog[key][bAt].group, answer)
      BY <3>3 DEF Answered, Live, Snapshot
    <3>5. HoldsAnswer'
      BY <2>3, <3>1, <3>4 DEF HoldsAnswer, Answered
    <3>6. QED
      BY <2>3, <3>2, <3>5 DEF WorkerInv, HoldsRoleBinding, HoldsProof
  <2>4. QED
    BY <2>1, <2>2, <2>3
<1>8. CASE Diff
  <2> DEFINE existing == rbLog[key][rbSeen[key]]
  <2>1. /\ pc = "diff" /\ key' = key /\ bAt' = bAt /\ found' = found
        /\ bLog' = bLog /\ rbLog' = rbLog
    BY <1>8 DEF Diff, Mark, store
  <2>2. key \in Names /\ HoldsSnapshot'
    BY <2>1, SnapshotKept DEF WorkerInv
  <2>3. rbSeen[key] \in 1..Len(rbLog[key])
    BY <2>2 DEF TypeOK, StoreTypeOK
  <2>4. Answered(bLog[key][bAt].group, found)
    BY <2>1 DEF WorkerInv, HoldsAnswer
  <2>5. HoldsAnswer'
    BY <2>1, <2>4, AnswerKept DEF WorkerInv
  <2>6. \/ pc' \in {"create", "delete"}
        \/ /\ Mark("Ready", "none") /\ existing # None
           /\ existing.role = Desired.role /\ InSync(existing)
        \/ /\ pc' = "update" /\ rbAt' = rbSeen[key]
           /\ existing # None /\ existing.role = Desired.role
    BY <1>8 DEF Diff, Cached
  <2>7. CASE pc' \in {"create", "delete"}
    BY <2>2, <2>5, <2>7 DEF WorkerInv, HoldsRoleBinding, HoldsProof
  <2>8. CASE /\ Mark("Ready", "none") /\ existing # None
             /\ existing.role = Desired.role /\ InSync(existing)
    <3>1. /\ existing.role = bLog[key][bAt].role
          /\ existing.owner = bLog[key][bAt].uid
          /\ existing.subjects = found
      BY <2>8 DEF InSync, Desired, Snapshot
    <3>2. HoldsProof'
      BY <2>1, <2>3, <2>8, <3>1 DEF HoldsProof
    <3>3. pc' = "status"
      BY <2>8 DEF Mark
    <3>4. QED
      BY <2>2, <2>5, <3>2, <3>3 DEF WorkerInv, HoldsRoleBinding
  <2>9. CASE /\ pc' = "update" /\ rbAt' = rbSeen[key]
             /\ existing # None /\ existing.role = Desired.role
    <3>1. HoldsRoleBinding'
      BY <2>1, <2>3, <2>9 DEF HoldsRoleBinding, Desired, Snapshot
    <3>2. QED
      BY <2>2, <2>5, <2>9, <3>1 DEF WorkerInv, HoldsProof
  <2>10. QED
    BY <2>6, <2>7, <2>8, <2>9
<1>9. ASSUME NEW reply \in Replies, Create(reply) \/ Delete(reply) \/ Update(reply)
      PROVE  WorkerInv'
  <2>1. /\ pc \in {"create", "delete", "update"} /\ bLog' = bLog
    BY <1>9 DEF Create, Delete, Update, WriteRoleBinding
  <2>2. \/ Mark("Degraded", "api")
        \/ /\ Mark("Ready", "none")
           /\ rbLog' = [rbLog EXCEPT ![key] = Append(@, Desired)]
        \/ pc' = "create" /\ UNCHANGED <<key, bAt, rbAt, found, verdict>>
    BY <1>9, UpdateYieldsDesired
    DEF Create, Delete, Update, WriteRoleBinding, WorkerInv
  <2>3. Answered(bLog[key][bAt].group, found)
    BY <2>1 DEF WorkerInv, HoldsAnswer
  <2>4. CASE Mark("Degraded", "api")
    BY <2>1, <2>4, MarkKeeps
  <2>5. CASE pc' = "create" /\ UNCHANGED <<key, bAt, rbAt, found, verdict>>
    <3>1. HoldsSnapshot'
      BY <2>1, <2>5, SnapshotKept DEF WorkerInv
    <3>2. HoldsAnswer'
      BY <2>1, <2>3, <2>5, AnswerKept DEF WorkerInv
    <3>3. QED
      BY <2>5, <3>1, <3>2 DEF WorkerInv, HoldsRoleBinding, HoldsProof
  <2>6. CASE /\ Mark("Ready", "none")
             /\ rbLog' = [rbLog EXCEPT ![key] = Append(@, Desired)]
    <3>1. /\ pc' = "status" /\ key' = key /\ bAt' = bAt /\ found' = found
      BY <2>6 DEF Mark
    <3>2. key \in Names /\ HoldsSnapshot' /\ bLog'[key][bAt] = bLog[key][bAt]
      BY <2>1, <3>1, SnapshotKept DEF WorkerInv
    <3>3. HoldsAnswer'
      BY <2>1, <2>3, <3>1, AnswerKept DEF WorkerInv
    <3>4. Desired \in RoleBinding /\ Desired # None
      BY <2>1, DesiredTypes DEF WorkerInv
    <3>5. /\ Len(rbLog[key]) \in Nat
          /\ Len(rbLog'[key]) = Len(rbLog[key]) + 1
          /\ rbLog'[key][Len(rbLog[key]) + 1] = Desired
      BY <2>6, <3>2, <3>4, AppendRoleBinding DEF LogsGrow
    <3>6. /\ Desired.role = bLog[key][bAt].role
          /\ Desired.owner = bLog[key][bAt].uid
          /\ Desired.subjects = found
      BY DEF Desired, Snapshot
    <3>7. Len(rbLog[key]) + 1 \in 1..Len(rbLog'[key])
      BY <3>5
    <3>8. HoldsProof'
      BY <3>1, <3>2, <3>4, <3>5, <3>6, <3>7 DEF HoldsProof
    <3>9. QED
      BY <3>1, <3>2, <3>3, <3>8 DEF WorkerInv, HoldsRoleBinding
  <2>7. QED
    BY <2>2, <2>4, <2>5, <2>6
<1>10. ASSUME NEW reply \in Replies, WriteStatus(reply)
       PROVE  WorkerInv'
  BY <1>1, <1>10 DEF WriteStatus
<1>11. ASSUME NEW n, DeliverBinding(n) \/ DeliverRoleBinding(n) \/ BackoffFires(n) \/ PeriodicFires(n)
       PROVE  UNCHANGED worker
  BY <1>11 DEF DeliverBinding, DeliverRoleBinding, BackoffFires, PeriodicFires
<1>12. ASSUME Environment
       PROVE  UNCHANGED worker
  BY <1>12 DEF Environment, CreateBinding, EditSpec, DeleteBinding, EditRoleBinding,
              DeleteRoleBinding, CreateRoleBinding, Collect, ChangeProvider,
              ChangeReachability, ChangeGroup, Tick, Inside
<1>13. CASE UNCHANGED vars
  BY <1>2, <1>13 DEF vars, worker
<1>14. QED
  BY <1>2, <1>3, <1>4, <1>5, <1>6, <1>7, <1>8, <1>9, <1>10, <1>11, <1>12, <1>13
  DEF Next, WorkerStep

----------------------------------------------------------------------------
(***************************************************************************)
(* The base invariant: types and what the worker holds, both at once,      *)
(* since the worker's copies are typed only because they are revisions.    *)
(***************************************************************************)
Base == TypeOK /\ WorkerInv

\* The base invariant holds initially.
LEMMA BaseInit == Init => Base
<1>1. Init => WorkerInv
  BY DEF Init, WorkerInv, HoldsSnapshot, HoldsAnswer, HoldsRoleBinding, HoldsProof
<1>2. QED
  BY <1>1, InitTypeOK DEF Base

\* The base invariant is inductive; along the way, logs and directory grow.
LEMMA BaseStep ==
  ASSUME Base, [Next]_vars
  PROVE  /\ Base'
         /\ LogsGrow /\ DirectoryGrows
         /\ NewBindingRevision /\ NewRoleBindingRevision
<1>1. TypeOK /\ WorkerInv /\ HoldsSnapshot /\ HoldsRoleBinding
  BY DEF Base, WorkerInv
<1>2. NewBindingRevision /\ NewRoleBindingRevision
  BY <1>1, Revisions
<1>3. LogsGrow
  BY <1>1, <1>2, Growth
<1>4. TypeOK'
  BY <1>1, <1>3, StoreTypeStep, SchedTypeStep, WorkerTypeStep, OutsideTypeStep DEF TypeOK
<1>5. WorkerInv'
  BY <1>1, <1>3, WorkerInvStep
<1>6. QED
  BY <1>1, <1>2, <1>3, <1>4, <1>5, AnswersStay DEF Base

\* The base invariant holds in every reachable state.
THEOREM BaseInvariant == Spec => []Base
<1>1. Base /\ [Next]_vars => Base'
  BY BaseStep
<1>2. QED
  BY <1>1, BaseInit, PTL DEF Spec

\* Type correctness of the reconciler model, for all constants.
THEOREM TypeCorrect == Spec => []TypeOK
<1>1. Base => TypeOK
  BY DEF Base
<1>2. QED
  BY <1>1, BaseInvariant, PTL

----------------------------------------------------------------------------
(***************************************************************************)
(* Why the worker does what it is about to do, and how uids are given out. *)
(***************************************************************************)
\* A RoleBinding is deleted only because a revision had another roleRef.
HoldsOutdated ==
  pc = "delete" => /\ rbAt \in 1..Len(rbLog[key])
                   /\ rbLog[key][rbAt] # None
                   /\ rbLog[key][rbAt].role # bLog[key][bAt].role

\* A status is written with an outcome, and GroupNotFound is what the directory
\* said.
HoldsOutcome ==
  pc = "status" =>
    /\ verdict.phase # "New"
    /\ verdict.phase = "GroupNotFound" => Answered(bLog[key][bAt].group, None)

\* A uid is older than the revisions that carry it, so that the next one to be
\* given out is new.
UidsOld ==
  \A n \in Names : \A i \in 1..Len(bLog[n]) :
    bLog[n][i] # None => bLog[n][i].uid > 0 /\ bLog[n][i].uid < i

Reasons == HoldsOutdated /\ HoldsOutcome /\ UidsOld

\* Uids stay older than the revisions that carry them.
LEMMA UidsStep ==
  ASSUME Base, UidsOld, [Next]_vars
  PROVE  UidsOld'
<1>1. TypeOK /\ HoldsSnapshot
  BY DEF Base, WorkerInv
<1>2. CASE bLog' = bLog
  BY <1>2 DEF UidsOld
<1>3. ASSUME NEW n, NEW x, BindingRevision(n, x)
      PROVE  UidsOld'
  <2>1. /\ n \in Names /\ x \in {None} \cup Binding
        /\ bLog' = [bLog EXCEPT ![n] = Append(@, x)]
    BY <1>3 DEF BindingRevision
  <2>2. /\ Len(bLog[n]) \in Nat /\ Len(bLog[n]) > 0
        /\ Len(bLog'[n]) = Len(bLog[n]) + 1 /\ bLog'[n][Len(bLog[n]) + 1] = x
        /\ \A i \in 1..Len(bLog[n]) : bLog'[n][i] = bLog[n][i]
        /\ \A m \in Names \ {n} : bLog'[m] = bLog[m]
    BY <1>1, <2>1, AppendBinding, ObjectTypes
  <2>3. x # None => x.uid > 0 /\ x.uid < Len(bLog[n]) + 1
    <3>1. CASE x # None /\ x.uid = Len(bLog[n])
      BY <2>2, <3>1
    <3>2. CASE x # None /\ Live(bLog[n]) # None /\ x.uid = Live(bLog[n]).uid
      <4>1. /\ Live(bLog[n]).uid > 0 /\ Live(bLog[n]).uid < Len(bLog[n])
            /\ Live(bLog[n]) \in Binding
        BY <1>1, <2>1, <2>2, <3>2, ObjectTypes DEF UidsOld, Live
      <4>2. Live(bLog[n]).uid \in Nat
        BY <4>1 DEF Binding
      <4>3. QED
        BY <2>2, <3>2, <4>1, <4>2
    <3>3. CASE /\ pc = "status" /\ key = n /\ x # None
               /\ x = [Snapshot EXCEPT !.status = MarkedStatus(Snapshot)]
      <4>1. Snapshot \in Binding /\ bAt \in 1..Len(bLog[n]) /\ Snapshot = bLog[n][bAt]
            /\ Snapshot # None
        BY <1>1, <3>3, ObjectTypes DEF HoldsSnapshot
      <4>2. x.uid = Snapshot.uid /\ Snapshot.uid \in Nat
        BY <3>3, <4>1 DEF Binding
      <4>3. Snapshot.uid > 0 /\ Snapshot.uid < bAt
        BY <2>1, <4>1 DEF UidsOld
      <4>4. QED
        BY <2>2, <4>1, <4>2, <4>3
    <3>4. QED
      BY <1>3, <3>1, <3>2, <3>3 DEF BindingRevision
  <2>4. ASSUME NEW m \in Names, NEW i \in 1..Len(bLog'[m]), bLog'[m][i] # None
        PROVE  bLog'[m][i].uid > 0 /\ bLog'[m][i].uid < i
    <3>1. CASE m # n
      BY <2>2, <2>4, <3>1 DEF UidsOld
    <3>2. CASE m = n /\ i = Len(bLog[n]) + 1
      BY <2>2, <2>3, <2>4, <3>2
    <3>3. CASE m = n /\ i # Len(bLog[n]) + 1
      <4>1. i \in 1..Len(bLog[n])
        BY <2>2, <3>3
      <4>2. QED
        BY <2>1, <2>2, <2>4, <3>3, <4>1 DEF UidsOld
    <3>4. QED
      BY <3>1, <3>2, <3>3
  <2>5. QED
    BY <2>4 DEF UidsOld
<1>4. QED
  BY <1>2, <1>3, BaseStep DEF NewBindingRevision

\* What the worker decided, it decided for a reason that still stands.
LEMMA OutcomeStep ==
  ASSUME Base, Reasons, [Next]_vars
  PROVE  HoldsOutdated' /\ HoldsOutcome'
<1>1. TypeOK /\ WorkerInv /\ HoldsSnapshot /\ LogsGrow /\ DirectoryGrows
  BY BaseStep DEF Base, WorkerInv
<1>2. CASE pc' \notin {"delete", "status"}
  BY <1>2 DEF HoldsOutdated, HoldsOutcome
<1>3. ASSUME pc # "idle", UNCHANGED <<pc, key, bAt, rbAt, verdict>>
      PROVE  HoldsOutdated' /\ HoldsOutcome'
  <2>1. key \in Names /\ bLog'[key][bAt] = bLog[key][bAt]
    BY <1>1, <1>3, SnapshotKept
  <2>2. HoldsOutdated'
    BY <1>1, <1>3, <2>1 DEF Reasons, HoldsOutdated, LogsGrow
  <2>3. HoldsOutcome'
    <3>1. SUFFICES ASSUME pc = "status", verdict.phase = "GroupNotFound"
                   PROVE  Answered(bLog[key][bAt].group, None)'
      BY <1>3 DEF Reasons, HoldsOutcome
    <3>2. Answered(bLog[key][bAt].group, None)
      BY <3>1 DEF Reasons, HoldsOutcome
    <3>3. QED
      BY <1>1, <1>3, <2>1, <3>2 DEF Answered, DirectoryGrows
  <2>4. QED
    BY <2>2, <2>3
<1>4. ASSUME UNCHANGED worker
      PROVE  HoldsOutdated' /\ HoldsOutcome'
  <2>1. UNCHANGED <<pc, key, bAt, rbAt, verdict>>
    BY <1>4 DEF worker
  <2>2. CASE pc = "idle"
    BY <1>2, <2>1, <2>2
  <2>3. QED
    BY <1>3, <2>1, <2>2
<1>5. ASSUME NEW phase \in {"Ready", "Degraded"}, NEW cause, Mark(phase, cause)
      PROVE  HoldsOutdated' /\ HoldsOutcome'
  BY <1>5 DEF Mark, HoldsOutdated, HoldsOutcome
<1>6. ASSUME NEW n \in Names, Start(n) PROVE HoldsOutdated' /\ HoldsOutcome'
  BY <1>2, <1>4, <1>6 DEF Start
<1>7. CASE ReadFails \/ Crash
  BY <1>2, <1>7 DEF ReadFails, Crash, GoIdle
<1>8. CASE DiffFails
  BY <1>5, <1>8 DEF DiffFails
<1>9. CASE LoadProvider
  BY <1>1, <1>2, <1>5, <1>9 DEF LoadProvider, TypeOK, OutsideTypeOK, Providers
<1>10. CASE GetGroupMembers
  <2> DEFINE answer == Live(dirLog)[Snapshot.group]
  <2>1. \/ Mark("Degraded", "ldap") \/ pc' = "diff"
        \/ Mark("GroupNotFound", "none") /\ answer = None
    BY <1>1, <1>10, ConstantsAssumption
    DEF GetGroupMembers, TypeOK, OutsideTypeOK, Reachabilities
  <2>2. CASE Mark("GroupNotFound", "none") /\ answer = None
    <3>1. /\ pc' = "status" /\ verdict'.phase = "GroupNotFound" /\ key' = key /\ bAt' = bAt
          /\ dirLog' = dirLog /\ bLog' = bLog
      BY <1>10, <2>2 DEF Mark, GetGroupMembers, outside, store
    <3>2. Len(dirLog) \in 1..Len(dirLog)
      BY <1>1 DEF TypeOK, OutsideTypeOK
    <3>3. Answered(bLog[key][bAt].group, None)
      BY <2>2, <3>2 DEF Answered, Live, Snapshot
    <3>4. QED
      BY <3>1, <3>3 DEF HoldsOutdated, HoldsOutcome, Answered
  <2>3. QED
    BY <1>2, <1>5, <2>1, <2>2
<1>11. CASE Diff
  <2> DEFINE existing == rbLog[key][rbSeen[key]]
  <2>1. /\ pc = "diff" /\ bLog' = bLog /\ rbLog' = rbLog /\ key' = key /\ bAt' = bAt
    BY <1>11 DEF Diff, Mark, store
  <2>2. \/ pc' \in {"create", "update"} \/ Mark("Ready", "none")
        \/ /\ pc' = "delete" /\ rbAt' = rbSeen[key]
           /\ existing # None /\ existing.role # Desired.role
    BY <1>11 DEF Diff, Cached
  <2>3. CASE /\ pc' = "delete" /\ rbAt' = rbSeen[key]
             /\ existing # None /\ existing.role # Desired.role
    <3>1. key \in Names /\ rbSeen[key] \in 1..Len(rbLog[key])
      BY <1>1, <2>1 DEF TypeOK, WorkerTypeOK, StoreTypeOK
    <3>2. existing.role # bLog[key][bAt].role
      BY <2>3 DEF Desired, Snapshot
    <3>3. QED
      BY <2>1, <2>3, <3>1, <3>2 DEF HoldsOutdated, HoldsOutcome
  <2>4. QED
    BY <1>2, <1>5, <2>2, <2>3
<1>12. ASSUME NEW reply \in Replies, Create(reply) \/ Delete(reply) \/ Update(reply)
       PROVE  HoldsOutdated' /\ HoldsOutcome'
  BY <1>2, <1>5, <1>12 DEF Create, Delete, Update, WriteRoleBinding
<1>13. ASSUME NEW reply \in Replies, WriteStatus(reply)
       PROVE  HoldsOutdated' /\ HoldsOutcome'
  BY <1>2, <1>13 DEF WriteStatus, GoIdle
<1>14. ASSUME NEW n, DeliverBinding(n) \/ DeliverRoleBinding(n) \/ BackoffFires(n) \/ PeriodicFires(n)
       PROVE  UNCHANGED worker
  BY <1>14 DEF DeliverBinding, DeliverRoleBinding, BackoffFires, PeriodicFires
<1>15. ASSUME Environment
       PROVE  UNCHANGED worker
  BY <1>15 DEF Environment, CreateBinding, EditSpec, DeleteBinding, EditRoleBinding,
              DeleteRoleBinding, CreateRoleBinding, Collect, ChangeProvider,
              ChangeReachability, ChangeGroup, Tick, Inside
<1>16. CASE UNCHANGED vars
  BY <1>4, <1>16 DEF vars, worker
<1>17. QED
  BY <1>4, <1>6, <1>7, <1>8, <1>9, <1>10, <1>11, <1>12, <1>13, <1>14, <1>15, <1>16
  DEF Next, WorkerStep

\* There is nothing to explain initially.
LEMMA ReasonsInit == Init => Reasons
<1> SUFFICES ASSUME Init PROVE Reasons
  OBVIOUS
<1>1. \A n \in Names : bLog[n] = <<None>>
  BY DEF Init
<1>2. QED
  BY <1>1 DEF Init, Reasons, HoldsOutdated, HoldsOutcome, UidsOld

\* The reasons stay.
LEMMA ReasonsStep ==
  ASSUME Base, Reasons, [Next]_vars
  PROVE  Reasons'
  BY UidsStep, OutcomeStep DEF Reasons

----------------------------------------------------------------------------
(* No mixing of grants. *)

\* One accepted spec explains a revision of the RoleBinding.
Explained(n, rb) ==
  \E v \in 1..Len(bLog[n]) :
    /\ bLog[n][v] # None
    /\ bLog[n][v].uid = rb.owner
    /\ bLog[n][v].role = rb.role
    /\ Answered(bLog[n][v].group, rb.subjects)

\* An explanation is never lost.
LEMMA ExplainedStays ==
  ASSUME LogsGrow, DirectoryGrows, NEW n \in Names, NEW rb, Explained(n, rb)
  PROVE  Explained(n, rb)'
<1>1. PICK v \in 1..Len(bLog[n]) :
        /\ bLog[n][v] # None
        /\ bLog[n][v].uid = rb.owner
        /\ bLog[n][v].role = rb.role
        /\ Answered(bLog[n][v].group, rb.subjects)
  BY DEF Explained
<1>2. v \in 1..Len(bLog'[n]) /\ bLog'[n][v] = bLog[n][v]
  BY DEF LogsGrow
<1>3. PICK d \in 1..Len(dirLog) : dirLog[d][bLog[n][v].group] = rb.subjects
  BY <1>1 DEF Answered
<1>4. d \in 1..Len(dirLog') /\ dirLog'[d] = dirLog[d]
  BY DEF DirectoryGrows
<1>5. QED
  BY <1>1, <1>2, <1>3, <1>4 DEF Explained, Answered

\* What the worker is about to write is explained by its snapshot.
LEMMA DesiredExplained ==
  ASSUME Base, pc \in {"create", "update"}
  PROVE  Explained(key, Desired)
<1>1. bAt \in 1..Len(bLog[key]) /\ bLog[key][bAt] # None
  BY DEF Base, WorkerInv, HoldsSnapshot
<1>2. Answered(bLog[key][bAt].group, found)
  BY DEF Base, WorkerInv, HoldsAnswer
<1>3. /\ Desired.owner = bLog[key][bAt].uid
      /\ Desired.role = bLog[key][bAt].role
      /\ Desired.subjects = found
  BY DEF Desired, Snapshot
<1>4. QED
  BY <1>1, <1>2, <1>3 DEF Explained

\* The operator never writes a RoleBinding that mixes two specs or names
\* somebody the directory did not: GrantsFromOneSpec holds for any number of
\* bindings, groups, users, faults, crashes and any cache lag.
THEOREM GrantsSound == Spec => []GrantsFromOneSpec
<1>1. Init => GrantsFromOneSpec
  BY DEF Init, GrantsFromOneSpec
<1>2. ASSUME Base, GrantsFromOneSpec, [Next]_vars
      PROVE  GrantsFromOneSpec'
  <2>1. LogsGrow /\ DirectoryGrows /\ NewRoleBindingRevision /\ TypeOK
    BY <1>2, BaseStep DEF Base
  <2>2. \A n \in Names : \A i \in 1..Len(rbLog[n]) :
          rbLog[n][i] # None /\ rbLog[n][i].by = "operator" => Explained(n, rbLog[n][i])
    BY <1>2 DEF GrantsFromOneSpec, Explained
  <2>3. ASSUME NEW n \in Names, NEW i \in 1..Len(rbLog'[n]), NEW rb,
               rb = rbLog'[n][i], rb # None, rb.by = "operator"
        PROVE  Explained(n, rb)'
    <3>1. CASE i \in 1..Len(rbLog[n])
      <4>1. rb = rbLog[n][i]
        BY <2>1, <2>3, <3>1 DEF LogsGrow
      <4>2. Explained(n, rb)
        BY <2>2, <2>3, <3>1, <4>1
      <4>3. QED
        BY <2>1, <4>2, ExplainedStays
    <3>2. CASE i \notin 1..Len(rbLog[n])
      <4>1. PICK m, x : RoleBindingRevision(m, x)
        BY <2>1, <2>3, <3>2 DEF NewRoleBindingRevision
      <4>2. m \in Names /\ x \in {None} \cup RoleBinding /\ rbLog' = [rbLog EXCEPT ![m] = Append(@, x)]
        BY <4>1 DEF RoleBindingRevision
      <4>3. /\ Len(rbLog[m]) \in Nat
            /\ Len(rbLog'[m]) = Len(rbLog[m]) + 1
            /\ rbLog'[m][Len(rbLog[m]) + 1] = x
            /\ \A k \in Names \ {m} : rbLog'[k] = rbLog[k]
        BY <2>1, <4>2, AppendRoleBinding DEF LogsGrow
      <4>4. n = m /\ i = Len(rbLog[n]) + 1
        BY <2>3, <3>2, <4>3
      <4>5. x = rb
        BY <2>3, <4>3, <4>4
      <4>6. pc \in {"create", "update"} /\ key = n /\ rb = Desired
        BY <2>3, <4>1, <4>4, <4>5 DEF RoleBindingRevision
      <4>7. Explained(n, rb)
        BY <1>2, <4>6, DesiredExplained
      <4>8. QED
        BY <2>1, <4>7, ExplainedStays
    <3>3. QED
      BY <3>1, <3>2
  <2>4. QED
    BY <2>3 DEF GrantsFromOneSpec, Explained
<1>3. QED
  BY <1>1, <1>2, BaseInvariant, PTL DEF Spec

----------------------------------------------------------------------------
(* Ready is earned. *)

\* Some RoleBinding carried what status st of the binding uid promises, for
\* the spec that was current at one of the first v revisions.
Earned(n, v, uid, st) ==
  \E i \in 1..Len(rbLog[n]), u \in 1..v :
    /\ rbLog[n][i] # None /\ bLog[n][u] # None
    /\ bLog[n][u].uid = uid /\ bLog[n][u].gen = st.gen
    /\ rbLog[n][i].role = bLog[n][u].role
    /\ rbLog[n][i].owner = uid
    /\ rbLog[n][i].subjects = st.members

\* What was earned stays earned, also for a later revision with that status.
LEMMA EarnedStays ==
  ASSUME LogsGrow, NEW n \in Names, NEW v \in 1..Len(bLog[n]),
         NEW w \in Nat, v <= w, NEW uid, NEW st, Earned(n, v, uid, st)
  PROVE  Earned(n, w, uid, st)'
<1>1. PICK i \in 1..Len(rbLog[n]), u \in 1..v :
        /\ rbLog[n][i] # None /\ bLog[n][u] # None
        /\ bLog[n][u].uid = uid /\ bLog[n][u].gen = st.gen
        /\ rbLog[n][i].role = bLog[n][u].role
        /\ rbLog[n][i].owner = uid
        /\ rbLog[n][i].subjects = st.members
  BY DEF Earned
<1>2. i \in 1..Len(rbLog'[n]) /\ rbLog'[n][i] = rbLog[n][i]
  BY DEF LogsGrow
<1>3. Len(bLog[n]) \in Nat
  BY DEF LogsGrow
<1>4. u \in 1..w /\ u \in 1..Len(bLog[n])
  BY <1>3
<1>5. bLog'[n][u] = bLog[n][u]
  BY <1>4 DEF LogsGrow
<1>6. QED
  BY <1>1, <1>2, <1>4, <1>5 DEF Earned

\* Every status that says Ready was preceded by a RoleBinding with the role of
\* the observed generation, the right owner and exactly the reported members.
THEOREM ReadySound == Spec => []ReadyWasEarned
<1>1. Init => ReadyWasEarned
  BY DEF Init, ReadyWasEarned
<1>2. ASSUME Base, ReadyWasEarned, [Next]_vars
      PROVE  ReadyWasEarned'
  <2>1. LogsGrow /\ NewBindingRevision /\ TypeOK /\ HoldsSnapshot
    BY <1>2, BaseStep DEF Base, WorkerInv
  <2>2. \A n \in Names : \A v \in 1..Len(bLog[n]) :
          bLog[n][v] # None /\ bLog[n][v].status.phase = "Ready"
            => Earned(n, v, bLog[n][v].uid, bLog[n][v].status)
    BY <1>2 DEF ReadyWasEarned, Earned
  <2>3. ASSUME NEW n \in Names, NEW v \in 1..Len(bLog'[n]), NEW b,
               b = bLog'[n][v], b # None, b.status.phase = "Ready"
        PROVE  Earned(n, v, b.uid, b.status)'
    <3>1. CASE v \in 1..Len(bLog[n])
      <4>1. b = bLog[n][v]
        BY <2>1, <2>3, <3>1 DEF LogsGrow
      <4>2. Earned(n, v, b.uid, b.status)
        BY <2>2, <2>3, <3>1, <4>1
      <4>3. v \in Nat /\ v <= v
        BY <3>1
      <4>4. QED
        BY <2>1, <3>1, <4>2, <4>3, EarnedStays
    <3>2. CASE v \notin 1..Len(bLog[n])
      <4>1. PICK m, x : BindingRevision(m, x)
        BY <2>1, <2>3, <3>2 DEF NewBindingRevision
      <4>2. m \in Names /\ x \in {None} \cup Binding /\ bLog' = [bLog EXCEPT ![m] = Append(@, x)]
        BY <4>1 DEF BindingRevision
      <4>3. /\ Len(bLog[m]) \in Nat
            /\ Len(bLog'[m]) = Len(bLog[m]) + 1
            /\ bLog'[m][Len(bLog[m]) + 1] = x
            /\ \A k \in Names \ {m} : bLog'[k] = bLog[k]
        BY <2>1, <4>2, AppendBinding DEF LogsGrow
      <4>4. n = m /\ v = Len(bLog[n]) + 1
        BY <2>3, <3>2, <4>3
      <4>5. x = b
        BY <2>3, <4>3, <4>4
      <4>6. Len(bLog[n]) \in 1..Len(bLog[n]) /\ v \in Nat /\ Len(bLog[n]) <= v
        BY <2>1, <4>3, <4>4, ObjectTypes
      <4>7. CASE b.status = NewStatus
        BY <2>3, <4>7 DEF NewStatus
      <4>8. CASE /\ Live(bLog[n]) # None
                 /\ b.uid = Live(bLog[n]).uid /\ b.status = Live(bLog[n]).status
        <5>1. Earned(n, Len(bLog[n]), b.uid, b.status)
          BY <2>2, <2>3, <4>6, <4>8 DEF Live
        <5>2. QED
          BY <2>1, <4>6, <5>1, EarnedStays
      <4>9. CASE /\ pc = "status" /\ key = n
                 /\ b = [Snapshot EXCEPT !.status = MarkedStatus(Snapshot)]
        <5>1. Snapshot \in Binding /\ Snapshot = bLog[n][bAt] /\ bAt \in 1..Len(bLog[n])
              /\ bLog[n][bAt] # None
          BY <2>1, <4>9, ObjectTypes DEF HoldsSnapshot
        <5>2. b.uid = Snapshot.uid /\ b.status = MarkedStatus(Snapshot)
          BY <4>9, <5>1 DEF Binding
        <5>3. Snapshot.status \in Status
          BY <5>1 DEF Binding
        <5>4. /\ verdict.phase = "Ready"
              /\ MarkedStatus(Snapshot).gen = Snapshot.gen
              /\ MarkedStatus(Snapshot).members = found
          <6>1. MarkedStatus(Snapshot).phase = "Ready"
            BY <2>3, <5>2
          <6>2. CASE verdict.phase = "Ready"
            BY <5>3, <6>2 DEF MarkedStatus, Status
          <6>3. CASE verdict.phase # "Ready"
            BY <5>3, <6>1, <6>3 DEF MarkedStatus, Status
          <6>4. QED
            BY <6>2, <6>3
        <5>5. PICK i \in 1..Len(rbLog[n]) :
                /\ rbLog[n][i] # None
                /\ rbLog[n][i].role = bLog[n][bAt].role
                /\ rbLog[n][i].owner = bLog[n][bAt].uid
                /\ rbLog[n][i].subjects = found
          BY <1>2, <4>9, <5>4 DEF Base, WorkerInv, HoldsProof
        <5>6. Earned(n, Len(bLog[n]), b.uid, b.status)
          BY <5>1, <5>2, <5>4, <5>5 DEF Earned
        <5>7. QED
          BY <2>1, <4>6, <5>6, EarnedStays
      <4>10. QED
        BY <2>3, <4>1, <4>4, <4>5, <4>7, <4>8, <4>9 DEF BindingRevision
    <3>3. QED
      BY <3>1, <3>2
  <2>4. QED
    BY <2>3 DEF ReadyWasEarned, Earned
<1>3. QED
  BY <1>1, <1>2, BaseInvariant, PTL DEF Spec

----------------------------------------------------------------------------
(* No binding is forgotten. *)

\* A new revision of a binding is one the informer has not delivered yet.
LEMMA NewRevisionUnseen ==
  ASSUME Base, [Next]_vars, NEW n \in Names, bLog'[n] # bLog[n]
  PROVE  bSeen'[n] < Len(bLog'[n])
<1>1. NewBindingRevision /\ TypeOK /\ bSeen[n] \in 1..Len(bLog[n]) /\ Len(bLog[n]) \in Nat
  BY BaseStep, ObjectTypes DEF Base, WorkerInv, TypeOK, StoreTypeOK
<1>2. bSeen' = bSeen
  BY DEF Next, WorkerStep, Environment, Start, DeliverBinding,
     DeliverRoleBinding, BackoffFires, PeriodicFires, ReadFails, DiffFails,
     LoadProvider, GetGroupMembers, Diff, Create, Delete, Update, WriteRoleBinding,
     WriteStatus, Crash, CreateBinding, EditSpec, DeleteBinding, EditRoleBinding,
     DeleteRoleBinding, CreateRoleBinding, Collect, ChangeProvider,
     ChangeReachability, ChangeGroup, Tick, Inside, store, seen, vars
<1>3. PICK m, x : BindingRevision(m, x)
  BY <1>1 DEF NewBindingRevision
<1>4. m \in Names /\ x \in {None} \cup Binding /\ bLog' = [bLog EXCEPT ![m] = Append(@, x)]
  BY <1>3 DEF BindingRevision
<1>5. n = m /\ Len(bLog'[n]) = Len(bLog[n]) + 1
  BY <1>1, <1>4, AppendBinding
<1>6. QED
  BY <1>1, <1>2, <1>5

\* With a positive sync interval every existing binding always has another
\* reconcile coming, whatever was lost, refused or interrupted.
THEOREM AlwaysScheduled ==
  ASSUME SyncInterval > 0
  PROVE  Spec => []NeverForgotten
<1>1. Init => NeverForgotten
  BY DEF Init, NeverForgotten, Live
<1>2. ASSUME Base, NeverForgotten, [Next]_vars
      PROVE  NeverForgotten'
  <2> SUFFICES ASSUME NEW n \in Names, Live(bLog'[n]) # None
               PROVE  Scheduled(n)'
    BY DEF NeverForgotten, Live
  <2>1. /\ LogsGrow /\ NewBindingRevision /\ TypeOK /\ HoldsSnapshot
        /\ bSeen[n] \in 1..Len(bLog[n]) /\ Len(bLog[n]) \in Nat
    BY <1>2, BaseStep, ObjectTypes DEF Base, WorkerInv, TypeOK, StoreTypeOK
  <2>2. CASE bLog'[n] # bLog[n]
    BY <1>2, <2>2, NewRevisionUnseen DEF Scheduled
  <2>3. CASE bLog'[n] = bLog[n]
    <3>1. Scheduled(n)
      BY <1>2, <2>3 DEF NeverForgotten
    <3>2. (/\ queue \subseteq queue' /\ backoff \subseteq backoff' /\ periodic \subseteq periodic'
           /\ key' = key /\ bSeen'[n] = bSeen[n]) => Scheduled(n)'
      BY <2>3, <3>1 DEF Scheduled
    <3>3. ASSUME NEW m \in Names, Start(m)
          PROVE  Scheduled(n)'
      <4>1. bSeen' = bSeen /\ backoff' = backoff /\ periodic' = periodic
        BY <3>3 DEF Start, seen
      <4>2. key = None /\ queue' = queue \ {m}
        BY <2>1, <3>3 DEF Start, TypeOK, WorkerTypeOK
      <4>3. CASE n # m
        BY <2>3, <3>1, <4>1, <4>2, <4>3, NoneAssumption DEF Scheduled
      <4>4. CASE n = m /\ Cached(bLog[n], bSeen[n]) # None
        BY <3>3, <4>4 DEF Start, Scheduled
      <4>5. CASE n = m /\ Cached(bLog[n], bSeen[n]) = None
        <5>1. bSeen[n] # Len(bLog[n])
          BY <2>3, <4>5 DEF Cached, Live
        <5>2. QED
          BY <2>1, <2>3, <4>1, <5>1 DEF Scheduled
      <4>6. QED
        BY <4>3, <4>4, <4>5
    <3>4. ASSUME NEW m \in Names, DeliverBinding(m)
          PROVE  Scheduled(n)'
      <4>1. /\ queue' = queue \cup {m} /\ backoff' = backoff /\ periodic' = periodic
            /\ key' = key
        BY <3>4 DEF DeliverBinding, worker
      <4>2. CASE n # m
        <5>1. bSeen'[n] = bSeen[n]
          BY <3>4, <4>2 DEF DeliverBinding, TypeOK, StoreTypeOK
        <5>2. QED
          BY <3>2, <4>1, <5>1
      <4>3. CASE n = m
        BY <4>1, <4>3 DEF Scheduled
      <4>4. QED
        BY <4>2, <4>3
    <3>5. ASSUME NEW m \in Names,
                 DeliverRoleBinding(m) \/ BackoffFires(m) \/ PeriodicFires(m)
          PROVE  Scheduled(n)'
      BY <2>3, <3>1, <3>5
      DEF DeliverRoleBinding, BackoffFires, PeriodicFires, Scheduled, seen, worker
    <3>6. CASE ReadFails
      <4>1. /\ backoff' = backoff \cup {key} /\ queue' = queue /\ periodic' = periodic
            /\ bSeen' = bSeen
        BY <3>6 DEF ReadFails, seen
      <4>2. QED
        BY <2>3, <3>1, <4>1 DEF Scheduled
    <3>7. ASSUME NEW reply \in Replies, WriteStatus(reply)
          PROVE  Scheduled(n)'
      <4>1. /\ queue' = queue /\ bSeen' = bSeen
            /\ backoff \subseteq backoff' /\ periodic \subseteq periodic'
            /\ key \in backoff' \cup periodic'
        BY <3>7 DEF WriteStatus, seen
      <4>2. QED
        BY <2>3, <3>1, <4>1 DEF Scheduled
    <3>8. ASSUME NEW reply \in Replies,
                 \/ DiffFails \/ LoadProvider \/ GetGroupMembers \/ Diff
                 \/ Create(reply) \/ Delete(reply) \/ Update(reply)
          PROVE  UNCHANGED sched /\ key' = key /\ bSeen' = bSeen
      <4>1. provider \in Providers /\ directory \in Reachabilities
        BY <2>1 DEF TypeOK, OutsideTypeOK
      <4>2. CASE DiffFails
        BY <4>2 DEF DiffFails, Mark, seen
      <4>3. CASE LoadProvider
        BY <4>1, <4>3 DEF LoadProvider, Mark, Providers, seen
      <4>4. CASE GetGroupMembers
        BY <4>1, <4>4, ConstantsAssumption DEF GetGroupMembers, Mark, Reachabilities, seen
      <4>5. CASE Diff
        BY <4>5 DEF Diff, Mark, seen
      <4>6. CASE Create(reply) \/ Delete(reply) \/ Update(reply)
        BY <4>6 DEF Create, Delete, Update, WriteRoleBinding, Mark, seen
      <4>7. QED
        BY <3>8, <4>2, <4>3, <4>4, <4>5, <4>6
    <3>9. CASE Crash
      <4>1. n \in queue'
        BY <2>3, <3>9 DEF Crash, Live
      <4>2. QED
        BY <4>1 DEF Scheduled
    <3>10. ASSUME Environment
           PROVE  /\ queue \subseteq queue' /\ UNCHANGED <<backoff, periodic>>
                  /\ key' = key /\ bSeen' = bSeen
      BY <3>10 DEF Environment, CreateBinding, EditSpec, DeleteBinding, EditRoleBinding,
              DeleteRoleBinding, CreateRoleBinding, Collect, ChangeProvider,
              ChangeReachability, ChangeGroup, Tick, Inside, seen, sched, worker
    <3>11. CASE UNCHANGED vars
      BY <3>2, <3>11 DEF vars
    <3>12. "ok" \in Replies
      BY DEF Replies
    <3>13. QED
      BY <1>2, <3>2, <3>3, <3>4, <3>5, <3>6, <3>7, <3>8, <3>9, <3>10, <3>11, <3>12
      DEF Next, WorkerStep, sched
  <2>4. QED
    BY <2>2, <2>3
<1>3. QED
  BY <1>1, <1>2, BaseInvariant, PTL DEF Spec

=============================================================================
