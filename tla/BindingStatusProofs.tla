------------------------ MODULE BindingStatusProofs ------------------------
(***************************************************************************)
(* What the status of a binding is worth: a binding at rest tells the      *)
(* truth, and an outage costs no access.  Both for every value of the      *)
(* constants.                                                              *)
(***************************************************************************)
EXTENDS BindingReconcilerProofs

(***************************************************************************)
(* At rest.  The grants a Ready status speaks of are those of a revision   *)
(* the informer has reached or has yet to reach.  Should that revision not *)
(* be the live one, the events in between begin with an owned object, and  *)
(* the first of them brings the request back.                              *)
(***************************************************************************)
SeenGrant(n, role, uid, members) ==
  \E j \in rbSeen[n]..Len(rbLog[n]) :
    /\ rbLog[n][j] # None
    /\ rbLog[n][j].role = role
    /\ rbLog[n][j].owner = uid
    /\ rbLog[n][j].subjects = members

\* markReady is about to speak of grants that are seen or still to be seen,
\* unless the next reconcile is queued behind it.
HoldsGrant ==
  pc = "status" /\ verdict.phase = "Ready" =>
    \/ key \in queue
    \/ SeenGrant(key, bLog[key][bAt].role, bLog[key][bAt].uid, found)

\* A reconcile of n comes without the periodic timer.
Due(n) == n \in queue \cup backoff \/ key = n \/ bSeen[n] < Len(bLog[n])

Truthful(n, b) ==
  /\ b.status.gen = b.gen
  /\ b.status.phase \in {"Ready", "GroupNotFound"}
  /\ b.status.phase = "Ready" => SeenGrant(n, b.role, b.uid, b.status.members)

DueOrTruthful ==
  \A n \in Names : Live(bLog[n]) # None => Due(n) \/ Truthful(n, Live(bLog[n]))

AtRest == HoldsGrant /\ DueOrTruthful

----------------------------------------------------------------------------
\* The informers move by deliveries and restarts only.
LEMMA Deliveries ==
  ASSUME [Next]_vars, ~Crash
  PROVE  /\ rbSeen' = rbSeen \/ \E m \in Names : DeliverRoleBinding(m)
         /\ bSeen' = bSeen \/ \E m \in Names : DeliverBinding(m)
  BY DEF Next, WorkerStep, Environment, Start, DeliverBinding,
     DeliverRoleBinding, BackoffFires, PeriodicFires, ReadFails, DiffFails,
     LoadProvider, GetGroupMembers, Diff, Create, Delete, Update, WriteRoleBinding,
     WriteStatus, CreateBinding, EditSpec, DeleteBinding, EditRoleBinding,
     DeleteRoleBinding, CreateRoleBinding, Collect, ChangeProvider,
     ChangeReachability, ChangeGroup, Tick, Inside, seen, vars

\* Requests leave the queue into the worker only.
LEMMA QueueKeeps ==
  ASSUME [Next]_vars, ~Crash, NEW n \in Names, n \in queue
  PROVE  n \in queue' \/ Start(n)
  BY DEF Next, WorkerStep, Environment, Start, DeliverBinding,
     DeliverRoleBinding, BackoffFires, PeriodicFires, ReadFails, DiffFails,
     LoadProvider, GetGroupMembers, Diff, Create, Delete, Update, WriteRoleBinding,
     WriteStatus, CreateBinding, EditSpec, DeleteBinding, EditRoleBinding,
     DeleteRoleBinding, CreateRoleBinding, Collect, ChangeProvider,
     ChangeReachability, ChangeGroup, Tick, Inside, sched, vars

\* Grants that were to be seen are passed by the informer only with an event
\* that enqueues their owner (Owns(&RoleBinding{})).
LEMMA GrantNoticed ==
  ASSUME Base, [Next]_vars, ~Crash, NEW n \in Names, NEW role, NEW uid, NEW members,
         uid # 0, SeenGrant(n, role, uid, members)
  PROVE  n \in queue' \/ SeenGrant(n, role, uid, members)'
<1>1. TypeOK /\ LogsGrow
  BY BaseStep DEF Base
<1>2. /\ rbSeen \in [Names -> Nat] /\ rbSeen[n] \in 1..Len(rbLog[n])
      /\ Len(rbLog[n]) \in Nat /\ Len(rbLog'[n]) \in Nat /\ Len(rbLog[n]) <= Len(rbLog'[n])
  BY <1>1 DEF TypeOK, StoreTypeOK, LogsGrow
<1>3. PICK j \in rbSeen[n]..Len(rbLog[n]) :
        /\ rbLog[n][j] # None /\ rbLog[n][j].role = role
        /\ rbLog[n][j].owner = uid /\ rbLog[n][j].subjects = members
  BY DEF SeenGrant
<1>4. j \in 1..Len(rbLog[n]) /\ rbLog'[n][j] = rbLog[n][j] /\ j \in 1..Len(rbLog'[n])
  BY <1>1, <1>2 DEF LogsGrow
<1>5. ASSUME rbSeen'[n] \in Nat, rbSeen'[n] <= j PROVE SeenGrant(n, role, uid, members)'
  <2>1. j \in rbSeen'[n]..Len(rbLog'[n])
    BY <1>2, <1>4, <1>5
  <2>2. QED
    BY <1>3, <1>4, <2>1 DEF SeenGrant
<1>6. CASE rbSeen'[n] = rbSeen[n]
  BY <1>2, <1>5, <1>6
<1>7. ASSUME NEW m \in Names, DeliverRoleBinding(m), m # n PROVE rbSeen'[n] = rbSeen[n]
  BY <1>2, <1>7 DEF DeliverRoleBinding
<1>8. CASE DeliverRoleBinding(n)
  <2>1. rbSeen'[n] = rbSeen[n] + 1
    BY <1>2, <1>8 DEF DeliverRoleBinding
  <2>2. CASE j = rbSeen[n]
    BY <1>3, <1>8, <2>2 DEF DeliverRoleBinding, Owned
  <2>3. CASE j # rbSeen[n]
    BY <1>2, <1>5, <2>1, <2>3
  <2>4. QED
    BY <2>2, <2>3
<1>9. QED
  BY <1>6, <1>7, <1>8, Deliveries

\* The steps after which markReady is next.
LEMMA ReadySteps ==
  ASSUME Base, [Next]_vars, pc' = "status", verdict'.phase = "Ready"
  PROVE  \/ UNCHANGED worker
         \/ Diff
         \/ \E reply \in Replies : Create(reply) \/ Update(reply)
<1>1. TypeOK
  BY DEF Base
<1>2. ~GoIdle
  BY DEF GoIdle
<1>3. ~ReadFails /\ ~Crash /\ \A reply \in Replies : ~WriteStatus(reply)
  BY <1>2 DEF ReadFails, Crash, WriteStatus
<1>4. ~DiffFails
  BY DEF DiffFails, Mark
<1>5. \A phase \in {"Degraded", "GroupNotFound"}, cause \in Causes : ~Mark(phase, cause)
  BY DEF Mark
<1>6. ~LoadProvider /\ ~GetGroupMembers
  <2>1. LoadProvider => Mark("Degraded", "provider") \/ Mark("Degraded", "secret") \/ pc' = "lookup"
    BY <1>1 DEF LoadProvider, TypeOK, OutsideTypeOK, Providers
  <2>2. GetGroupMembers => Mark("Degraded", "ldap") \/ Mark("GroupNotFound", "none") \/ pc' = "diff"
    BY <1>1, ConstantsAssumption DEF GetGroupMembers, TypeOK, OutsideTypeOK, Reachabilities
  <2>3. QED
    BY <1>5, <2>1, <2>2 DEF Causes
<1>7. \A reply \in Replies : ~Delete(reply)
  BY DEF Delete, WriteRoleBinding, Mark
<1>8. ASSUME NEW n \in Names,
             \/ Start(n) \/ DeliverBinding(n) \/ DeliverRoleBinding(n)
             \/ BackoffFires(n) \/ PeriodicFires(n)
      PROVE  UNCHANGED worker
  BY <1>8 DEF Start, DeliverBinding, DeliverRoleBinding, BackoffFires, PeriodicFires
<1>9. ASSUME Environment PROVE UNCHANGED worker
  BY <1>9 DEF Environment, CreateBinding, EditSpec, DeleteBinding, EditRoleBinding,
              DeleteRoleBinding, CreateRoleBinding, Collect, ChangeProvider,
              ChangeReachability, ChangeGroup, Tick, Inside
<1>10. QED
  BY <1>3, <1>4, <1>5, <1>6, <1>7, <1>8, <1>9 DEF Next, WorkerStep, vars, worker

\* A reconcile goes on with its request and its copy until it ends.
LEMMA WorkerGoesOn ==
  ASSUME Base, [Next]_vars, pc # "idle"
  PROVE  \/ key' = key /\ bAt' = bAt
         \/ ReadFails \/ Crash \/ \E reply \in Replies : WriteStatus(reply)
<1> DEFINE Same == key' = key /\ bAt' = bAt
<1>1. provider \in Providers /\ directory \in Reachabilities
  BY DEF Base, TypeOK, OutsideTypeOK
<1>2. LoadProvider => Same
  BY <1>1 DEF LoadProvider, Mark, Providers
<1>3. GetGroupMembers => Same
  BY <1>1, ConstantsAssumption DEF GetGroupMembers, Mark, Reachabilities
<1>4. Diff \/ DiffFails => Same
  BY DEF Diff, DiffFails, Mark
<1>5. \A reply \in Replies : Create(reply) \/ Delete(reply) \/ Update(reply) => Same
  BY DEF Create, Delete, Update, WriteRoleBinding, Mark
<1>6. ASSUME NEW m \in Names,
             \/ Start(m) \/ DeliverBinding(m) \/ DeliverRoleBinding(m)
             \/ BackoffFires(m) \/ PeriodicFires(m)
      PROVE  Same
  BY <1>6 DEF Start, DeliverBinding, DeliverRoleBinding, BackoffFires, PeriodicFires, worker
<1>7. Environment => Same
  BY DEF Environment, CreateBinding, EditSpec, DeleteBinding, EditRoleBinding,
     DeleteRoleBinding, CreateRoleBinding, Collect, ChangeProvider,
     ChangeReachability, ChangeGroup, Tick, Inside, worker
<1>8. UNCHANGED vars => Same
  BY DEF vars
<1>9. QED
  BY <1>2, <1>3, <1>4, <1>5, <1>6, <1>7, <1>8 DEF Next, WorkerStep

\* A write of the desired object is a grant still to be seen.
LEMMA WriteSeen ==
  ASSUME Base, UidsOld, LogsGrow, pc \in {"create", "update"},
         rbLog' = [rbLog EXCEPT ![key] = Append(@, Desired)],
         rbSeen' = rbSeen, bLog' = bLog, key' = key, bAt' = bAt, found' = found
  PROVE  SeenGrant(key, bLog[key][bAt].role, bLog[key][bAt].uid, found)'
<1>1. /\ TypeOK /\ HoldsSnapshot /\ key \in Names
      /\ Desired \in RoleBinding /\ Desired # None
  BY ObjectTypes, DesiredTypes DEF Base, WorkerInv
<1>2. /\ Len(rbLog[key]) \in Nat /\ Len(rbLog'[key]) = Len(rbLog[key]) + 1
      /\ rbLog'[key][Len(rbLog[key]) + 1] = Desired
  BY <1>1, AppendRoleBinding
<1>3. rbSeen[key] \in 1..Len(rbLog[key])
  BY <1>1 DEF TypeOK, StoreTypeOK
<1>4. Len(rbLog[key]) + 1 \in rbSeen'[key]..Len(rbLog'[key])
  BY <1>2, <1>3
<1>5. /\ Desired.role = bLog[key][bAt].role /\ Desired.owner = bLog[key][bAt].uid
      /\ Desired.subjects = found
  BY DEF Desired, Snapshot
<1>6. QED
  BY <1>1, <1>2, <1>4, <1>5 DEF SeenGrant

\* What markReady is about to speak of stays so.
LEMMA HoldsGrantStep ==
  ASSUME Base, UidsOld, HoldsGrant, [Next]_vars
  PROVE  HoldsGrant'
<1> SUFFICES ASSUME pc' = "status", verdict'.phase = "Ready"
             PROVE  \/ key' \in queue'
                    \/ SeenGrant(key, bLog[key][bAt].role, bLog[key][bAt].uid, found)'
  BY DEF HoldsGrant
<1>1. TypeOK /\ HoldsSnapshot /\ HoldsRoleBinding /\ LogsGrow
  BY BaseStep DEF Base, WorkerInv
<1>2. CASE UNCHANGED worker
  <2>1. /\ pc = "status" /\ verdict.phase = "Ready" /\ key' = key /\ bAt' = bAt
        /\ found' = found
    BY <1>2 DEF worker
  <2>2. /\ key \in Names /\ bLog'[key][bAt] = bLog[key][bAt] /\ bAt \in 1..Len(bLog[key])
        /\ bLog[key][bAt] # None
    BY <1>1, <2>1, SnapshotKept DEF HoldsSnapshot
  <2>3. bLog[key][bAt].uid # 0
    BY <2>2 DEF UidsOld
  <2>4. ~Crash /\ ~Start(key)
    BY <2>1 DEF Crash, GoIdle, Start
  <2>5. CASE key \in queue
    BY <2>1, <2>2, <2>4, <2>5, QueueKeeps
  <2>6. CASE SeenGrant(key, bLog[key][bAt].role, bLog[key][bAt].uid, found)
    <3>1. ASSUME NEW n \in Names, NEW role, NEW uid, NEW members, uid # 0,
                 SeenGrant(n, role, uid, members), n = key, role = bLog[key][bAt].role,
                 uid = bLog[key][bAt].uid, members = found
          PROVE  n \in queue' \/ SeenGrant(n, bLog[key][bAt].role, bLog[key][bAt].uid, found)'
      BY <2>1, <2>2, <2>4, <3>1, GrantNoticed
    <3>2. QED
      BY <2>1, <2>2, <2>3, <2>6, <3>1
  <2>7. QED
    BY <2>1, <2>5, <2>6 DEF HoldsGrant
<1>3. CASE Diff
  <2> DEFINE existing == rbLog[key][rbSeen[key]]
  <2>1. /\ key' = key /\ bAt' = bAt /\ found' = found /\ bLog' = bLog /\ rbLog' = rbLog
        /\ rbSeen' = rbSeen /\ pc = "diff"
    BY <1>3 DEF Diff, Mark, store, seen
  <2>2. key \in Names
    BY <1>1, <2>1, ObjectTypes
  <2>3. existing # None /\ existing.role = Desired.role /\ InSync(existing)
    BY <1>3 DEF Diff, Cached
  <2>4. /\ existing.role = bLog[key][bAt].role /\ existing.owner = bLog[key][bAt].uid
        /\ existing.subjects = found
    BY <2>3 DEF InSync, Desired, Snapshot
  <2>5. rbSeen[key] \in rbSeen[key]..Len(rbLog[key])
    BY <1>1, <2>2 DEF TypeOK, StoreTypeOK
  <2>6. QED
    BY <2>1, <2>3, <2>4, <2>5 DEF SeenGrant
<1>4. ASSUME NEW reply \in Replies, Create(reply) \/ Update(reply)
      PROVE  SeenGrant(key, bLog[key][bAt].role, bLog[key][bAt].uid, found)'
  <2>1. /\ pc \in {"create", "update"} /\ bLog' = bLog /\ rbSeen' = rbSeen
    BY <1>4 DEF Create, Update, WriteRoleBinding, seen
  <2>2. ~Mark("Degraded", "api")
    BY DEF Mark
  <2>3. Mark("Ready", "none") /\ rbLog' = [rbLog EXCEPT ![key] = Append(@, Desired)]
    BY <1>1, <1>4, <2>2, UpdateYieldsDesired DEF Create, Update, WriteRoleBinding
  <2>4. key' = key /\ bAt' = bAt /\ found' = found
    BY <2>3 DEF Mark
  <2>5. QED
    BY <1>1, <2>1, <2>3, <2>4, WriteSeen
<1>5. QED
  BY <1>2, <1>3, <1>4, ReadySteps

\* The end of a reconcile: the request is queued again, or the status is true.
LEMMA StatusTruthful ==
  ASSUME Base, Reasons, HoldsGrant, NEW reply \in Replies, WriteStatus(reply),
         bLog'[key] = bLog[key], Live(bLog[key]) # None
  PROVE  key \in queue' \cup backoff' \/ Truthful(key, Live(bLog[key]))
<1> DEFINE new == [Snapshot EXCEPT !.status = MarkedStatus(Snapshot)]
<1>1. /\ TypeOK /\ HoldsSnapshot /\ pc = "status" /\ verdict.phase # "New"
  BY DEF Base, WorkerInv, Reasons, HoldsOutcome, WriteStatus
<1>2. /\ key \in Names /\ Snapshot \in Binding /\ Snapshot = bLog[key][bAt]
      /\ new \in Binding
  BY <1>1, ObjectTypes, DesiredTypes
<1>3. queue' = queue
  BY DEF WriteStatus
<1>4. CASE ~(bAt = Len(bLog[key]) /\ reply = "ok") \/ verdict.phase = "Degraded"
  BY <1>4 DEF WriteStatus
<1>5. CASE bAt = Len(bLog[key]) /\ reply = "ok" /\ verdict.phase # "Degraded"
  <2>1. Snapshot = Live(bLog[key])
    BY <1>2, <1>5 DEF Live
  <2>2. new = Snapshot
    <3>1. SUFFICES ASSUME new # Snapshot PROVE FALSE
      OBVIOUS
    <3>2. bLog' = [bLog EXCEPT ![key] = Append(@, new)]
      BY <1>5, <3>1 DEF WriteStatus
    <3>3. Len(bLog'[key]) = Len(bLog[key]) + 1 /\ Len(bLog[key]) \in Nat
      BY <1>1, <1>2, <3>2, AppendBinding
    <3>4. QED
      BY <3>3
  <2>3. Snapshot.status = MarkedStatus(Snapshot)
    <3>1. new.status = MarkedStatus(Snapshot)
      BY <1>2 DEF Binding
    <3>2. QED
      BY <2>2, <3>1
  <2>4. /\ verdict \in [phase : Phases, cause : Causes] /\ Snapshot.status \in Status
    BY <1>1, <1>2 DEF TypeOK, WorkerTypeOK, Binding
  <2>5. /\ MarkedStatus(Snapshot).gen = Snapshot.gen
        /\ MarkedStatus(Snapshot).phase = verdict.phase
        /\ verdict.phase = "Ready" => MarkedStatus(Snapshot).members = found
    BY <2>4 DEF MarkedStatus, Status
  <2>6. /\ Snapshot.status.gen = Snapshot.gen /\ Snapshot.status.phase = verdict.phase
        /\ verdict.phase = "Ready" => Snapshot.status.members = found
    BY <2>3, <2>5
  <2>7. verdict.phase \in {"Ready", "GroupNotFound"}
    BY <1>1, <1>5, <2>4 DEF Phases
  <2>8. verdict.phase = "Ready" =>
          key \in queue \/ SeenGrant(key, Snapshot.role, Snapshot.uid, Snapshot.status.members)
    BY <1>1, <1>2, <2>6 DEF HoldsGrant
  <2>9. QED
    BY <1>3, <2>1, <2>6, <2>7, <2>8 DEF Truthful
<1>6. QED
  BY <1>4, <1>5

\* A binding stays due or truthful.
LEMMA DueOrTruthfulStep ==
  ASSUME Base, Reasons, HoldsGrant, DueOrTruthful, [Next]_vars
  PROVE  DueOrTruthful'
<1> SUFFICES ASSUME NEW n \in Names, Live(bLog'[n]) # None
             PROVE  Due(n)' \/ Truthful(n, Live(bLog[n]))'
  BY DEF DueOrTruthful, Live
<1>1. /\ LogsGrow /\ TypeOK /\ HoldsSnapshot /\ UidsOld
      /\ bSeen \in [Names -> Nat] /\ bSeen[n] \in 1..Len(bLog[n]) /\ Len(bLog[n]) \in Nat
  BY BaseStep, ObjectTypes DEF Base, WorkerInv, Reasons, TypeOK, StoreTypeOK
<1>2. CASE bLog'[n] # bLog[n]
  BY <1>2, NewRevisionUnseen DEF Due
<1>3. CASE Crash
  BY <1>3 DEF Crash, Live, Due, store
<1>4. CASE bLog'[n] = bLog[n] /\ ~Crash
  <2> DEFINE b == Live(bLog[n])
  <2>1. Live(bLog'[n]) = b /\ b # None /\ b \in Binding
    BY <1>1, <1>4, ObjectTypes DEF Live
  <2>2. b.uid # 0
    BY <1>1, <2>1 DEF UidsOld, Live
  <2> HIDE DEF b
  <2>3. CASE Truthful(n, b)
    <3>1. ASSUME NEW x, Truthful(n, x), x = b PROVE n \in queue' \/ Truthful(n, x)'
      <4>1. CASE x.status.phase # "Ready"
        BY <3>1, <4>1 DEF Truthful
      <4>2. CASE x.status.phase = "Ready"
        <5>1. SeenGrant(n, x.role, x.uid, x.status.members) /\ x.uid # 0
          BY <2>2, <3>1, <4>2 DEF Truthful
        <5>2. n \in queue' \/ SeenGrant(n, x.role, x.uid, x.status.members)'
          BY <1>4, <5>1, GrantNoticed
        <5>3. QED
          BY <3>1, <5>2 DEF Truthful
      <4>3. QED
        BY <4>1, <4>2
    <3>2. QED
      BY <2>1, <2>3, <3>1 DEF Due
  <2>4. CASE n \in queue
    <3>1. CASE ~Start(n)
      BY <1>4, <2>4, <3>1, QueueKeeps DEF Due
    <3>2. CASE Start(n) /\ Cached(bLog[n], bSeen[n]) # None
      BY <3>2 DEF Start, Due
    <3>3. CASE Start(n) /\ Cached(bLog[n], bSeen[n]) = None
      <4>1. bSeen[n] # Len(bLog[n]) /\ bSeen' = bSeen
        BY <2>1, <3>3 DEF Cached, Live, b, Start, seen
      <4>2. QED
        BY <1>1, <1>4, <4>1 DEF Due
    <3>4. QED
      BY <3>1, <3>2, <3>3
  <2>5. CASE bSeen[n] < Len(bLog[n])
    <3>1. CASE bSeen'[n] = bSeen[n]
      BY <1>4, <2>5, <3>1 DEF Due
    <3>2. ASSUME NEW m \in Names, DeliverBinding(m) PROVE bSeen'[n] = bSeen[n] \/ n \in queue'
      BY <1>1, <3>2 DEF DeliverBinding
    <3>3. QED
      BY <1>4, <3>1, <3>2, Deliveries DEF Due
  <2>6. CASE n \in backoff
    <3>1. n \in backoff' \/ n \in queue'
      BY <1>4, <2>6 DEF Next, WorkerStep, Environment, Start, DeliverBinding,
         DeliverRoleBinding, BackoffFires, PeriodicFires, ReadFails, DiffFails,
         LoadProvider, GetGroupMembers, Diff, Create, Delete, Update, WriteRoleBinding,
         WriteStatus, CreateBinding, EditSpec, DeleteBinding, EditRoleBinding,
         DeleteRoleBinding, CreateRoleBinding, Collect, ChangeProvider,
         ChangeReachability, ChangeGroup, Tick, Inside, sched, vars
    <3>2. QED
      BY <3>1 DEF Due
  <2>7. CASE key = n
    <3>1. CASE key' = key
      BY <2>7, <3>1 DEF Due
    <3>2. CASE ReadFails
      BY <2>7, <3>2 DEF ReadFails, Due
    <3>3. ASSUME NEW reply \in Replies, WriteStatus(reply) PROVE Due(n)' \/ Truthful(n, Live(bLog[n]))'
      <4>1. n \in queue' \cup backoff' \/ Truthful(n, Live(bLog[n]))
        BY <1>4, <2>1, <2>7, <3>3, StatusTruthful DEF b
      <4>2. CASE n \in queue' \cup backoff'
        BY <4>2 DEF Due
      <4>3. CASE Truthful(n, Live(bLog[n]))
        BY <2>3, <4>3 DEF b
      <4>4. QED
        BY <4>1, <4>2, <4>3
    <3>4. pc # "idle"
      BY <1>1, <2>7, NoneAssumption DEF TypeOK, WorkerTypeOK
    <3>5. QED
      BY <1>4, <3>1, <3>2, <3>3, <3>4, WorkerGoesOn
  <2>8. QED
    BY <2>1, <2>3, <2>4, <2>5, <2>6, <2>7 DEF DueOrTruthful, Due, b
<1>5. QED
  BY <1>2, <1>3, <1>4

\* A binding at rest tells the truth: QuietMeansSynced holds for any number of
\* bindings and roles, any cache lag, drift, lost calls and restarts.
THEOREM RestIsTruthful == Spec => []QuietMeansSynced
<1> DEFINE I == Base /\ Reasons /\ AtRest
<1>1. Init => I
  <2> SUFFICES ASSUME Init PROVE AtRest
    BY BaseInit, ReasonsInit
  <2>1. \A n \in Names : Live(bLog[n]) = None
    BY DEF Init, Live
  <2>2. QED
    BY <2>1 DEF Init, AtRest, HoldsGrant, DueOrTruthful
<1>2. I /\ [Next]_vars => I'
  BY BaseStep, ReasonsStep, HoldsGrantStep, DueOrTruthfulStep DEF AtRest, Reasons
<1>3. I => QuietMeansSynced
  <2> SUFFICES ASSUME I, NEW n \in Names, Live(bLog[n]) # None, Quiet(n)
               PROVE  LET b == Live(bLog[n]) IN
                      /\ b.status.gen = b.gen
                      /\ b.status.phase \in {"Ready", "GroupNotFound"}
                      /\ b.status.phase = "Ready" => Matches(b, Live(rbLog[n]))
    BY DEF QuietMeansSynced
  <2> DEFINE b == Live(bLog[n])
  <2>1. /\ bSeen[n] = Len(bLog[n]) /\ Len(bLog[n]) \in Nat
        /\ rbSeen[n] = Len(rbLog[n]) /\ Len(rbLog[n]) \in Nat
    BY ObjectTypes DEF Base, WorkerInv, Quiet
  <2>2. ~Due(n)
    BY <2>1 DEF Due, Quiet
  <2>3. Truthful(n, b)
    BY <2>2 DEF AtRest, DueOrTruthful
  <2>4. SeenGrant(n, b.role, b.uid, b.status.members) => Matches(b, Live(rbLog[n]))
    BY <2>1 DEF SeenGrant, Matches, Live
  <2>5. QED
    BY <2>3, <2>4 DEF Truthful
<1>4. QED
  BY <1>1, <1>2, <1>3, PTL DEF Spec

----------------------------------------------------------------------------
(***************************************************************************)
(* Access.  A RoleBinding that was once granted to a binding is there as   *)
(* long as the binding is, but for the moment between Delete and Create;   *)
(* so say the steps of the operator, when no call fails.  What makes this  *)
(* hard is the stale cache: a reconcile may still hold a copy of an older  *)
(* binding of the same name, and grant to that.  It cannot once the        *)
(* present one has been granted anything, because then the informer has    *)
(* seen it.                                                                *)
(***************************************************************************)
GrantedTo(n, uid) ==
  \E j \in 1..Len(rbLog[n]) : rbLog[n][j] # None /\ rbLog[n][j].owner = uid

\* The revisions since its creation are the live binding's own.
SameObject ==
  \A n \in Names : Live(bLog[n]) # None =>
    \A i \in (Live(bLog[n]).uid + 1)..Len(bLog[n]) :
      bLog[n][i] # None /\ bLog[n][i].uid = Live(bLog[n]).uid

\* The uid of the next binding owns nothing yet.
OwnersOld ==
  \A n \in Names : \A j \in 1..Len(rbLog[n]) :
    rbLog[n][j] # None => rbLog[n][j].owner < Len(bLog[n])

\* The copy in hand has been delivered.
ReadWasSeen == pc # "idle" => bAt <= bSeen[key]

\* A binding that has synced has been granted its RoleBinding.
SyncedWasGranted ==
  \A n \in Names :
    Live(bLog[n]) # None /\ Live(bLog[n]).status.syncTime # None =>
      GrantedTo(n, Live(bLog[n]).uid)

\* A binding that has been granted something has been seen, and is what the
\* worker works on.
GrantedWasSeen ==
  \A n \in Names :
    Live(bLog[n]) # None /\ GrantedTo(n, Live(bLog[n]).uid) =>
      bSeen[n] > Live(bLog[n]).uid /\ (key = n => bAt > Live(bLog[n]).uid)

Ownership ==
  SameObject /\ OwnersOld /\ ReadWasSeen /\ SyncedWasGranted /\ GrantedWasSeen

Calm == \A k \in {"fault", "crash", "drift"} : spent[k] = 0

\* What was granted stays granted.
HasGrant(n, uid) ==
  IF Live(rbLog[n]) = None THEN key = n /\ pc = "create" ELSE Live(rbLog[n]).owner = uid

GrantKept ==
  Calm => \A n \in Names :
    Live(bLog[n]) # None /\ GrantedTo(n, Live(bLog[n]).uid) => HasGrant(n, Live(bLog[n]).uid)

----------------------------------------------------------------------------
\* The live binding after a step: untouched, a new one, or the same with
\* another spec or status.
LEMMA LiveStep ==
  ASSUME Base, [Next]_vars, NEW n \in Names, Live(bLog'[n]) # None
  PROVE  \/ bLog'[n] = bLog[n]
         \/ /\ Len(bLog'[n]) = Len(bLog[n]) + 1
            /\ \/ /\ Live(bLog'[n]).uid = Len(bLog[n])
                  /\ Live(bLog'[n]).status = NewStatus
               \/ /\ Live(bLog[n]) # None /\ Live(bLog'[n]).uid = Live(bLog[n]).uid
                  /\ \/ Live(bLog'[n]).status = Live(bLog[n]).status
                     \/ /\ key = n /\ pc = "status" /\ Snapshot = Live(bLog[n])
                        /\ Live(bLog'[n]).status = MarkedStatus(Snapshot)
<1>1. TypeOK /\ HoldsSnapshot /\ NewBindingRevision
  BY BaseStep DEF Base, WorkerInv
<1>2. CASE bLog'[n] = bLog[n]
  BY <1>2
<1>3. CASE bLog'[n] # bLog[n]
  <2>1. PICK m, x : BindingRevision(m, x)
    BY <1>1, <1>3 DEF NewBindingRevision
  <2>2. m \in Names /\ x \in {None} \cup Binding /\ bLog' = [bLog EXCEPT ![m] = Append(@, x)]
    BY <2>1 DEF BindingRevision
  <2>3. /\ m = n /\ Len(bLog'[n]) = Len(bLog[n]) + 1 /\ Len(bLog[n]) \in Nat
        /\ bLog'[n][Len(bLog[n]) + 1] = x
    BY <1>1, <1>3, <2>2, AppendBinding
  <2>4. Live(bLog'[n]) = x
    BY <2>3 DEF Live
  <2>5. CASE /\ pc = "status" /\ key = n /\ x # None /\ bAt = Len(bLog[n])
             /\ x = [Snapshot EXCEPT !.status = MarkedStatus(Snapshot)]
    <3>1. Snapshot \in Binding /\ Snapshot = Live(bLog[n]) /\ Snapshot # None
      BY <1>1, <2>5, ObjectTypes, NoneAssumption DEF Live
    <3>2. x.uid = Snapshot.uid /\ x.status = MarkedStatus(Snapshot)
      BY <2>5, <3>1 DEF Binding
    <3>3. QED
      BY <2>3, <2>4, <2>5, <3>1, <3>2
  <2>6. QED
    BY <2>1, <2>3, <2>4, <2>5 DEF BindingRevision
<1>4. QED
  BY <1>2, <1>3

\* The owner of a new revision: nobody, the present owner, or the binding the
\* worker works on.
LEMMA OwnerStep ==
  ASSUME Base, [Next]_vars, NEW n \in Names, NEW uid, uid # 0, GrantedTo(n, uid)'
  PROVE  \/ GrantedTo(n, uid)
         \/ /\ key = n /\ pc # "idle" /\ uid = Snapshot.uid
            /\ Live(rbLog'[n]) # None /\ Live(rbLog'[n]).owner = uid
<1>1. TypeOK /\ HoldsSnapshot /\ NewRoleBindingRevision
  BY BaseStep DEF Base, WorkerInv
<1>2. CASE rbLog'[n] = rbLog[n]
  BY <1>2 DEF GrantedTo
<1>3. CASE rbLog'[n] # rbLog[n]
  <2>1. PICK m, x : RoleBindingRevision(m, x)
    BY <1>1, <1>3 DEF NewRoleBindingRevision
  <2>2. /\ m \in Names /\ x \in {None} \cup RoleBinding
        /\ rbLog' = [rbLog EXCEPT ![m] = Append(@, x)]
    BY <2>1 DEF RoleBindingRevision
  <2>3. /\ m = n /\ Len(rbLog'[n]) = Len(rbLog[n]) + 1 /\ Len(rbLog[n]) \in Nat
        /\ rbLog'[n][Len(rbLog[n]) + 1] = x
        /\ \A i \in 1..Len(rbLog[n]) : rbLog'[n][i] = rbLog[n][i]
    BY <1>1, <1>3, <2>2, AppendRoleBinding
  <2>4. Live(rbLog'[n]) = x /\ Len(rbLog[n]) > 0
    BY <1>1, <2>3, ObjectTypes DEF Live
  <2>5. PICK j \in 1..Len(rbLog'[n]) : rbLog'[n][j] # None /\ rbLog'[n][j].owner = uid
    BY DEF GrantedTo
  <2>6. CASE j \in 1..Len(rbLog[n])
    BY <2>3, <2>5, <2>6 DEF GrantedTo
  <2>7. CASE j \notin 1..Len(rbLog[n])
    <3>1. x # None /\ x.owner = uid
      BY <2>3, <2>5, <2>7
    <3>2. CASE Live(rbLog[n]) # None /\ uid = Live(rbLog[n]).owner
      BY <2>3, <2>4, <3>2 DEF GrantedTo, Live
    <3>3. CASE pc \in {"create", "update"} /\ key = n /\ x = Desired
      BY <2>4, <3>1, <3>3 DEF Desired
    <3>4. QED
      BY <2>1, <2>3, <3>1, <3>2, <3>3 DEF RoleBindingRevision
  <2>8. QED
    BY <2>6, <2>7
<1>4. QED
  BY <1>2, <1>3

\* What was granted has been granted.
LEMMA GrantedStays ==
  ASSUME LogsGrow, NEW n \in Names, NEW uid, GrantedTo(n, uid)
  PROVE  GrantedTo(n, uid)'
<1>1. PICK j \in 1..Len(rbLog[n]) : rbLog[n][j] # None /\ rbLog[n][j].owner = uid
  BY DEF GrantedTo
<1>2. j \in 1..Len(rbLog'[n]) /\ rbLog'[n][j] = rbLog[n][j]
  BY DEF LogsGrow
<1>3. QED
  BY <1>1, <1>2 DEF GrantedTo

\* The informer does not go back.
LEMMA SeenGrows ==
  ASSUME Base, [Next]_vars, NEW n \in Names
  PROVE  bSeen[n] <= bSeen'[n] /\ bSeen[n] \in Nat /\ bSeen'[n] \in Nat
<1>1. /\ bSeen \in [Names -> Nat] /\ bSeen[n] \in 1..Len(bLog[n])
      /\ Len(bLog[n]) \in Nat /\ bSeen' \in [Names -> Nat]
  <2>1. TypeOK /\ TypeOK' /\ HoldsSnapshot
    BY BaseStep DEF Base, WorkerInv
  <2>2. QED
    BY <2>1, ObjectTypes DEF TypeOK, StoreTypeOK
<1>2. CASE Crash
  BY <1>1, <1>2 DEF Crash
<1>3. ASSUME NEW m \in Names, DeliverBinding(m) PROVE bSeen[n] <= bSeen'[n]
  BY <1>1, <1>3 DEF DeliverBinding
<1>4. QED
  BY <1>1, <1>2, <1>3, Deliveries

\* The worker's copy is the one it had, or what the cache shows now.
LEMMA CopyStep ==
  ASSUME Base, [Next]_vars, NEW n \in Names, key' = n
  PROVE  (key = n /\ pc # "idle" /\ bAt' = bAt) \/ bAt' = bSeen[n]
<1>1. TypeOK /\ key' # None
  BY NoneAssumption DEF Base
<1>2. CASE pc # "idle"
  <2>1. ~GoIdle
    BY <1>1 DEF GoIdle
  <2>2. QED
    BY <1>2, <2>1, WorkerGoesOn DEF ReadFails, Crash, WriteStatus
<1>3. CASE pc = "idle"
  <2>1. key = None
    BY <1>1, <1>3 DEF TypeOK, WorkerTypeOK
  <2>2. UNCHANGED worker => FALSE
    BY <1>1, <2>1 DEF worker
  <2>3. ~Crash
    BY <1>1 DEF Crash, GoIdle
  <2>4. ~Environment
    BY <2>2 DEF Environment, CreateBinding, EditSpec, DeleteBinding, EditRoleBinding,
       DeleteRoleBinding, CreateRoleBinding, Collect, ChangeProvider,
       ChangeReachability, ChangeGroup, Tick, Inside
  <2>5. ASSUME NEW m \in Names,
               \/ DeliverBinding(m) \/ DeliverRoleBinding(m)
               \/ BackoffFires(m) \/ PeriodicFires(m)
        PROVE  FALSE
    BY <2>2, <2>5 DEF DeliverBinding, DeliverRoleBinding, BackoffFires, PeriodicFires
  <2>6. ~ReadFails /\ ~DiffFails /\ ~WorkerStep
    BY <1>3 DEF ReadFails, DiffFails, WorkerStep, LoadProvider, GetGroupMembers, Diff,
       Create, Delete, Update, WriteStatus
  <2>7. ~UNCHANGED vars
    BY <2>2 DEF vars, worker
  <2>8. PICK m \in Names : Start(m)
    BY <2>3, <2>4, <2>5, <2>6, <2>7 DEF Next
  <2>9. QED
    BY <2>2, <2>8 DEF Start
<1>4. QED
  BY <1>2, <1>3

\* The revisions since a binding's creation stay its own.
LEMMA SameObjectStep ==
  ASSUME Base, UidsOld, SameObject, [Next]_vars
  PROVE  SameObject'
<1> SUFFICES ASSUME NEW n \in Names, Live(bLog'[n]) # None,
                    NEW i \in (Live(bLog'[n]).uid + 1)..Len(bLog'[n])
             PROVE  bLog'[n][i] # None /\ bLog'[n][i].uid = Live(bLog'[n]).uid
  BY DEF SameObject, Live
<1>1. /\ TypeOK /\ HoldsSnapshot /\ LogsGrow /\ Len(bLog[n]) \in Nat /\ Len(bLog[n]) > 0
      /\ Live(bLog[n]) \in {None} \cup Binding
  BY BaseStep, ObjectTypes DEF Base, WorkerInv
<1>2. CASE bLog'[n] = bLog[n]
  BY <1>2 DEF SameObject
<1>3. CASE i = Len(bLog'[n])
  BY <1>3 DEF Live
<1>4. CASE bLog'[n] # bLog[n] /\ i # Len(bLog'[n])
  <2>1. Len(bLog'[n]) = Len(bLog[n]) + 1
    BY <1>4, LiveStep
  <2>2. CASE Live(bLog'[n]).uid = Len(bLog[n])
    BY <1>1, <1>4, <2>1, <2>2
  <2>3. CASE Live(bLog[n]) # None /\ Live(bLog'[n]).uid = Live(bLog[n]).uid
    <3>1. Live(bLog[n]).uid \in Nat
      BY <1>1, <2>3 DEF Binding
    <3>2. i \in (Live(bLog[n]).uid + 1)..Len(bLog[n]) /\ i \in 1..Len(bLog[n])
      BY <1>1, <1>4, <2>1, <2>3, <3>1
    <3>3. bLog'[n][i] = bLog[n][i]
      BY <1>1, <3>2 DEF LogsGrow
    <3>4. QED
      BY <2>3, <3>2, <3>3 DEF SameObject
  <2>4. QED
    BY <1>4, <2>2, <2>3, LiveStep
<1>5. QED
  BY <1>2, <1>3, <1>4

\* Owners stay older than the next uid.
LEMMA OwnersOldStep ==
  ASSUME Base, UidsOld, OwnersOld, [Next]_vars
  PROVE  OwnersOld'
<1> SUFFICES ASSUME NEW n \in Names, NEW j \in 1..Len(rbLog'[n]), rbLog'[n][j] # None
             PROVE  rbLog'[n][j].owner < Len(bLog'[n])
  BY DEF OwnersOld
<1>1. /\ TypeOK /\ HoldsSnapshot /\ LogsGrow /\ Len(bLog[n]) \in Nat /\ Len(bLog[n]) > 0
      /\ Len(bLog'[n]) \in Nat /\ Len(bLog[n]) <= Len(bLog'[n])
  BY BaseStep, ObjectTypes DEF Base, WorkerInv, LogsGrow
<1>2. rbLog'[n][j].owner \in Nat
  <2>1. rbLog'[n] \in Seq({None} \cup RoleBinding)
    BY <1>1 DEF LogsGrow
  <2>2. rbLog'[n][j] \in RoleBinding
    BY <2>1
  <2>3. QED
    BY <2>2 DEF RoleBinding
<1>3. ASSUME NEW uid, uid = rbLog'[n][j].owner, uid # 0
      PROVE  uid < Len(bLog[n])
  <2>1. GrantedTo(n, uid)'
    BY <1>3 DEF GrantedTo
  <2>2. CASE GrantedTo(n, uid)
    BY <2>2 DEF GrantedTo, OwnersOld
  <2>3. CASE key = n /\ pc # "idle" /\ uid = Snapshot.uid
    <3>1. Snapshot \in Binding /\ Snapshot = bLog[n][bAt] /\ bAt \in 1..Len(bLog[n])
          /\ Snapshot # None
      BY <1>1, <2>3, ObjectTypes, NoneAssumption DEF HoldsSnapshot
    <3>2. Snapshot.uid < bAt /\ Snapshot.uid \in Nat
      BY <3>1 DEF UidsOld, Binding
    <3>3. QED
      BY <1>1, <2>3, <3>1, <3>2
  <2>4. QED
    BY <1>3, <2>1, <2>2, <2>3, OwnerStep
<1>4. QED
  BY <1>1, <1>2, <1>3

\* What the worker reads is delivered, and stays so.
LEMMA ReadWasSeenStep ==
  ASSUME Base, ReadWasSeen, [Next]_vars
  PROVE  ReadWasSeen'
<1> SUFFICES ASSUME pc' # "idle" PROVE bAt' <= bSeen'[key']
  BY DEF ReadWasSeen
<1>1. key' \in Names /\ bAt \in Nat
  BY BaseStep DEF Base, TypeOK, WorkerTypeOK
<1>2. ASSUME NEW n \in Names, key' = n PROVE bAt' <= bSeen'[n]
  <2>1. bSeen[n] <= bSeen'[n] /\ bSeen[n] \in Nat /\ bSeen'[n] \in Nat
    BY SeenGrows
  <2>2. CASE key = n /\ pc # "idle" /\ bAt' = bAt
    BY <1>1, <2>1, <2>2 DEF ReadWasSeen
  <2>3. CASE bAt' = bSeen[n]
    BY <2>1, <2>3
  <2>4. QED
    BY <1>2, <2>2, <2>3, CopyStep
<1>3. QED
  BY <1>1, <1>2

\* A binding that has synced has been granted its RoleBinding.
LEMMA SyncedWasGrantedStep ==
  ASSUME Base, SyncedWasGranted, [Next]_vars
  PROVE  SyncedWasGranted'
<1> SUFFICES ASSUME NEW n \in Names, Live(bLog'[n]) # None,
                    Live(bLog'[n]).status.syncTime # None
             PROVE  GrantedTo(n, Live(bLog[n]).uid)'
  BY DEF SyncedWasGranted, Live
<1>1. TypeOK /\ HoldsSnapshot /\ HoldsProof /\ LogsGrow
  BY BaseStep DEF Base, WorkerInv
<1>2. ASSUME NEW uid, uid = Live(bLog'[n]).uid, GrantedTo(n, uid)
      PROVE  GrantedTo(n, Live(bLog[n]).uid)'
  <2>1. GrantedTo(n, uid)'
    BY <1>1, <1>2, GrantedStays
  <2>2. QED
    BY <1>2, <2>1
<1>3. CASE bLog'[n] = bLog[n]
  BY <1>2, <1>3 DEF SyncedWasGranted
<1>4. CASE Live(bLog'[n]).status = NewStatus
  BY <1>4 DEF NewStatus
<1>5. CASE /\ Live(bLog[n]) # None /\ Live(bLog'[n]).uid = Live(bLog[n]).uid
           /\ Live(bLog'[n]).status = Live(bLog[n]).status
  BY <1>2, <1>5 DEF SyncedWasGranted
<1>6. CASE /\ Live(bLog[n]) # None /\ Live(bLog'[n]).uid = Live(bLog[n]).uid
           /\ key = n /\ pc = "status" /\ Snapshot = Live(bLog[n])
           /\ Live(bLog'[n]).status = MarkedStatus(Snapshot)
  <2>1. Snapshot \in Binding /\ Snapshot = bLog[n][bAt]
    BY <1>1, <1>6, ObjectTypes
  <2>2. CASE verdict.phase = "Ready"
    <3>1. GrantedTo(n, Snapshot.uid)
      BY <1>1, <1>6, <2>1, <2>2 DEF HoldsProof, GrantedTo
    <3>2. QED
      BY <1>2, <1>6, <3>1
  <2>3. CASE verdict.phase # "Ready"
    <3>1. Snapshot.status \in Status
      BY <2>1 DEF Binding
    <3>2. MarkedStatus(Snapshot).syncTime = Snapshot.status.syncTime
      BY <2>3, <3>1 DEF MarkedStatus, Status
    <3>3. QED
      BY <1>2, <1>6, <3>2 DEF SyncedWasGranted
  <2>4. QED
    BY <2>2, <2>3
<1>7. QED
  BY <1>3, <1>4, <1>5, <1>6, LiveStep

\* Where the live binding's grants came from: they were there before, for the
\* same binding, or the worker has just written them.
LEMMA GrantSource ==
  ASSUME Base, UidsOld, OwnersOld, [Next]_vars, NEW n \in Names, Live(bLog'[n]) # None,
         NEW uid, uid = Live(bLog'[n]).uid, GrantedTo(n, uid)'
  PROVE  \/ Live(bLog[n]) # None /\ uid = Live(bLog[n]).uid /\ GrantedTo(n, uid)
         \/ /\ key = n /\ pc # "idle" /\ uid = Snapshot.uid
            /\ Live(rbLog'[n]) # None /\ Live(rbLog'[n]).owner = uid
<1>1. /\ TypeOK /\ HoldsSnapshot /\ UidsOld' /\ TypeOK' /\ HoldsSnapshot'
  BY BaseStep, UidsStep DEF Base, WorkerInv
<1>2. uid # 0
  <2>1. Len(bLog'[n]) \in 1..Len(bLog'[n])
    BY <1>1, ObjectTypes DEF TypeOK, StoreTypeOK
  <2>2. QED
    BY <1>1, <2>1 DEF UidsOld, Live
<1>3. CASE GrantedTo(n, uid)
  <2>1. uid # Len(bLog[n])
    BY <1>1, <1>3, ObjectTypes DEF GrantedTo, OwnersOld
  <2>2. QED
    BY <1>3, <2>1, LiveStep
<1>4. QED
  BY <1>2, <1>3, OwnerStep

\* A binding that has been granted something stays seen.
LEMMA GrantedWasSeenStep ==
  ASSUME Base, UidsOld, Ownership, [Next]_vars
  PROVE  GrantedWasSeen'
<1> SUFFICES ASSUME NEW n \in Names, Live(bLog'[n]) # None,
                    NEW uid, uid = Live(bLog'[n]).uid, GrantedTo(n, uid)'
             PROVE  bSeen'[n] > uid /\ (key' = n => bAt' > uid)
  BY DEF GrantedWasSeen, Live
<1>1. TypeOK /\ HoldsSnapshot /\ Live(bLog[n]) \in {None} \cup Binding
  BY ObjectTypes DEF Base, WorkerInv
<1>2. bSeen[n] <= bSeen'[n] /\ bSeen[n] \in Nat /\ bSeen'[n] \in Nat /\ bAt \in Nat
  BY <1>1, SeenGrows DEF TypeOK, WorkerTypeOK
<1>3. uid \in Nat /\ bSeen[n] > uid /\ (key = n => bAt > uid)
  <2>1. CASE Live(bLog[n]) # None /\ uid = Live(bLog[n]).uid /\ GrantedTo(n, uid)
    BY <1>1, <2>1 DEF Ownership, GrantedWasSeen, Binding
  <2>2. CASE key = n /\ pc # "idle" /\ uid = Snapshot.uid
    <3>1. /\ Snapshot \in Binding /\ Snapshot = bLog[n][bAt] /\ Snapshot # None
          /\ bAt \in 1..Len(bLog[n]) /\ bAt <= bSeen[n]
      BY <1>1, <2>2, ObjectTypes, NoneAssumption DEF HoldsSnapshot, Ownership, ReadWasSeen
    <3>2. uid \in Nat /\ uid < bAt
      BY <2>2, <3>1 DEF UidsOld, Binding
    <3>3. QED
      BY <1>2, <3>1, <3>2
  <2>3. QED
    BY <2>1, <2>2, GrantSource DEF Ownership
<1>4. key' = n => (key = n /\ bAt' = bAt) \/ bAt' = bSeen[n]
  BY CopyStep
<1>5. QED
  BY <1>2, <1>3, <1>4

----------------------------------------------------------------------------
\* In a calm behaviour no call fails, the process lives and nobody meddles.
LEMMA CalmStep ==
  ASSUME Base, [Next]_vars, Calm'
  PROVE  Calm /\ ~Spend("fault") /\ ~Spend("crash") /\ ~Spend("drift")
<1>1. spent \in [Kinds -> Nat]
  BY DEF Base, TypeOK, OutsideTypeOK
<1>2. ASSUME NEW k \in {"fault", "crash", "drift"} PROVE ~Spend(k)
  BY <1>1 DEF Calm, Spend, Kinds
<1>3. ASSUME NEW k \in Kinds, Spend(k) PROVE Calm
  BY <1>1, <1>3 DEF Calm, Spend, Kinds
<1>4. spent' = spent => Calm
  BY DEF Calm
<1>5. spent' = spent \/ \E k \in Kinds : Spend(k)
  BY DEF Kinds, Next, WorkerStep, Environment, Start, DeliverBinding, Replied,
     DeliverRoleBinding, BackoffFires, PeriodicFires, ReadFails, DiffFails,
     LoadProvider, GetGroupMembers, Diff, Create, Delete, Update, WriteRoleBinding,
     WriteStatus, Crash, CreateBinding, EditSpec, DeleteBinding, EditRoleBinding,
     DeleteRoleBinding, CreateRoleBinding, Collect, ChangeProvider,
     ChangeReachability, ChangeGroup, Tick, vars
<1>6. QED
  BY <1>2, <1>3, <1>4, <1>5

\* Who writes a RoleBinding when nobody meddles.
LEMMA Writers ==
  ASSUME [Next]_vars, ~Spend("drift"), NEW n \in Names, rbLog'[n] # rbLog[n]
  PROVE  \/ \E m \in Names : Collect(m)
         \/ \E reply \in Replies : Create(reply) \/ Delete(reply) \/ Update(reply)
  BY DEF Next, WorkerStep, Environment, Start, DeliverBinding,
     DeliverRoleBinding, BackoffFires, PeriodicFires, ReadFails, DiffFails,
     LoadProvider, GetGroupMembers, Diff,
     WriteStatus, Crash, CreateBinding, EditSpec, DeleteBinding, EditRoleBinding,
     DeleteRoleBinding, CreateRoleBinding, ChangeProvider,
     ChangeReachability, ChangeGroup, Tick, store, vars

\* A worker that is to create goes on with that.
LEMMA CreateNext ==
  ASSUME [Next]_vars, ~Spend("crash"), pc = "create"
  PROVE  UNCHANGED worker \/ \E reply \in Replies : Create(reply)
<1>1. ~Crash /\ ~ReadFails /\ ~DiffFails
  BY DEF Crash, ReadFails, DiffFails
<1>2. ~LoadProvider /\ ~GetGroupMembers /\ ~Diff
  BY DEF LoadProvider, GetGroupMembers, Diff
<1>3. \A reply \in Replies : ~Delete(reply) /\ ~Update(reply) /\ ~WriteStatus(reply)
  BY DEF Delete, Update, WriteStatus
<1>4. ASSUME NEW n \in Names,
             \/ Start(n) \/ DeliverBinding(n) \/ DeliverRoleBinding(n)
             \/ BackoffFires(n) \/ PeriodicFires(n)
      PROVE  UNCHANGED worker
  BY <1>4 DEF Start, DeliverBinding, DeliverRoleBinding, BackoffFires, PeriodicFires
<1>5. Environment => UNCHANGED worker
  BY DEF Environment, CreateBinding, EditSpec, DeleteBinding, EditRoleBinding,
     DeleteRoleBinding, CreateRoleBinding, Collect, ChangeProvider,
     ChangeReachability, ChangeGroup, Tick, Inside
<1>6. UNCHANGED vars => UNCHANGED worker
  BY DEF vars, worker
<1>7. QED
  BY <1>1, <1>2, <1>3, <1>4, <1>5, <1>6 DEF Next, WorkerStep

\* In a calm step a grant the binding has is not lost.
LEMMA GrantKeptStep ==
  ASSUME Base, UidsOld, Ownership, GrantKept, [Next]_vars
  PROVE  GrantKept'
<1> SUFFICES ASSUME Calm', NEW n \in Names, Live(bLog'[n]) # None,
                    NEW uid, uid = Live(bLog'[n]).uid, GrantedTo(n, uid)'
             PROVE  HasGrant(n, uid)'
  BY DEF GrantKept, Live
<1>1. Calm /\ ~Spend("fault") /\ ~Spend("crash") /\ ~Spend("drift")
  BY CalmStep
<1>2. TypeOK /\ HoldsSnapshot /\ HoldsRoleBinding
  BY DEF Base, WorkerInv
<1>3. CASE Live(rbLog'[n]) # None /\ Live(rbLog'[n]).owner = uid
  BY <1>3 DEF HasGrant
<1>4. CASE Live(bLog[n]) # None /\ uid = Live(bLog[n]).uid /\ GrantedTo(n, uid)
  <2>1. HasGrant(n, uid)
    BY <1>1, <1>4 DEF GrantKept
  <2>2. key = n /\ pc # "idle" => Snapshot.uid = uid /\ Desired.owner = uid
    <3> SUFFICES ASSUME key = n, pc # "idle" PROVE Snapshot.uid = uid
      BY DEF Desired
    <3>1. Snapshot = bLog[n][bAt] /\ bAt \in 1..Len(bLog[n]) /\ bAt > uid
      BY <1>2, <1>4, ObjectTypes DEF HoldsSnapshot, Ownership, GrantedWasSeen
    <3>2. uid \in Nat /\ Len(bLog[n]) \in Nat
      BY <1>2, <1>4, ObjectTypes DEF Binding
    <3>3. bAt \in (uid + 1)..Len(bLog[n])
      BY <3>1, <3>2
    <3>4. QED
      BY <1>4, <3>1, <3>3 DEF Ownership, SameObject
  <2>3. \A reply \in Replies : Replied(reply) => reply = "ok"
    BY <1>1 DEF Replied
  <2>4. CASE rbLog'[n] = rbLog[n]
    <3>1. CASE Live(rbLog[n]) # None
      BY <2>1, <2>4, <3>1 DEF HasGrant
    <3>2. CASE Live(rbLog[n]) = None
      <4>1. key = n /\ pc = "create"
        BY <2>1, <3>2 DEF HasGrant
      <4>2. ASSUME NEW reply \in Replies, Create(reply) PROVE FALSE
        <5>1. rbLog' = [rbLog EXCEPT ![n] = Append(@, Desired)]
          BY <2>3, <3>2, <4>1, <4>2 DEF Create, WriteRoleBinding
        <5>2. Desired \in RoleBinding
          BY <1>2, <4>1, DesiredTypes
        <5>3. Len(rbLog'[n]) = Len(rbLog[n]) + 1 /\ Len(rbLog[n]) \in Nat
          BY <1>2, <5>1, <5>2, AppendRoleBinding
        <5>4. QED
          BY <2>4, <5>3
      <4>3. UNCHANGED worker
        BY <1>1, <4>1, <4>2, CreateNext
      <4>4. QED
        BY <2>4, <3>2, <4>1, <4>3 DEF HasGrant, worker
    <3>3. QED
      BY <3>1, <3>2
  <2>5. CASE rbLog'[n] # rbLog[n]
    <3>1. ASSUME NEW m \in Names, Collect(m) PROVE FALSE
      <4>1. m = n
        BY <1>2, <2>5, <3>1 DEF Collect, TypeOK, StoreTypeOK
      <4>2. QED
        BY <1>4, <2>1, <3>1, <4>1 DEF Collect, OwnerGone, Owned, HasGrant
    <3>2. ASSUME NEW reply \in Replies, Create(reply) \/ Update(reply)
          PROVE  HasGrant(n, uid)'
      <4>1. pc \in {"create", "update"} /\ Desired \in RoleBinding /\ Desired # None
            /\ key \in Names
        BY <1>2, <3>2, DesiredTypes, ObjectTypes DEF Create, Update
      <4>2. rbLog' = [rbLog EXCEPT ![key] = Append(@, Desired)]
        BY <1>2, <2>5, <3>2, UpdateYieldsDesired DEF Create, Update, WriteRoleBinding
      <4>3. key = n
        BY <1>2, <2>5, <4>1, <4>2 DEF TypeOK, StoreTypeOK
      <4>4. Live(rbLog'[n]) = Desired
        <5>1. /\ Len(rbLog'[n]) = Len(rbLog[n]) + 1
              /\ rbLog'[n][Len(rbLog[n]) + 1] = Desired
          BY <1>2, <4>1, <4>2, <4>3, AppendRoleBinding
        <5>2. QED
          BY <5>1 DEF Live
      <4>5. QED
        BY <2>2, <4>1, <4>3, <4>4 DEF HasGrant
    <3>3. ASSUME NEW reply \in Replies, Delete(reply) PROVE HasGrant(n, uid)'
      <4>1. rbLog' = [rbLog EXCEPT ![key] = Append(@, None)] /\ key \in Names
        BY <1>2, <2>5, <3>3, ObjectTypes DEF Delete, WriteRoleBinding
      <4>2. key = n
        BY <1>2, <2>5, <4>1 DEF TypeOK, StoreTypeOK
      <4>3. reply = "ok" /\ Live(rbLog[key]) # None
        BY <2>3, <2>5, <3>3 DEF Delete, WriteRoleBinding
      <4>4. pc' = "create" /\ key' = key
        BY <3>3, <4>3 DEF Delete, WriteRoleBinding
      <4>5. Live(rbLog'[n]) = None
        <5>1. /\ Len(rbLog'[n]) = Len(rbLog[n]) + 1
              /\ rbLog'[n][Len(rbLog[n]) + 1] = None
          BY <1>2, <4>1, <4>2, AppendRoleBinding
        <5>2. QED
          BY <5>1 DEF Live
      <4>6. QED
        BY <4>2, <4>4, <4>5 DEF HasGrant
    <3>4. QED
      BY <1>1, <2>5, <3>1, <3>2, <3>3, Writers
  <2>6. QED
    BY <2>4, <2>5
<1>5. QED
  BY <1>3, <1>4, GrantSource DEF Ownership

\* The fail-safe contract: as long as no call fails, the process lives and
\* nobody else writes the RoleBinding, no outage, vanished group, unusable
\* provider or stale cache costs a binding its access.  The proof does not use
\* the phase: a binding that has synced once keeps a RoleBinding.
THEOREM OutagesAreSafe == Spec => []OutageIsSafe
<1> DEFINE I == Base /\ Reasons /\ Ownership /\ GrantKept
<1>1. Init => I
  <2> SUFFICES ASSUME Init PROVE Ownership /\ GrantKept
    BY BaseInit, ReasonsInit
  <2>1. \A n \in Names : /\ bLog[n] = <<None>> /\ rbLog[n] = <<None>>
                         /\ Live(bLog[n]) = None
    BY DEF Init, Live
  <2>2. QED
    BY <2>1 DEF Init, Ownership, SameObject, OwnersOld, ReadWasSeen, SyncedWasGranted,
       GrantedWasSeen, GrantKept
<1>2. I /\ [Next]_vars => I'
  <2> SUFFICES ASSUME I, [Next]_vars PROVE I'
    OBVIOUS
  <2>1. Base' /\ Reasons' /\ UidsOld
    BY BaseStep, ReasonsStep DEF Reasons
  <2>2. Ownership'
    BY <2>1, SameObjectStep, OwnersOldStep, ReadWasSeenStep, SyncedWasGrantedStep,
       GrantedWasSeenStep DEF Ownership
  <2>3. QED
    BY <2>1, <2>2, GrantKeptStep
<1>3. I => OutageIsSafe
  <2> SUFFICES ASSUME I, Calm, NEW n \in Names, Live(bLog[n]) # None,
                      Live(bLog[n]).status.syncTime # None, ~(key = n /\ pc = "create")
               PROVE  Live(rbLog[n]) # None /\ Live(rbLog[n]).owner = Live(bLog[n]).uid
    BY DEF OutageIsSafe, FailSafe, Calm
  <2>1. GrantedTo(n, Live(bLog[n]).uid)
    BY DEF Ownership, SyncedWasGranted
  <2>2. HasGrant(n, Live(bLog[n]).uid)
    BY <2>1 DEF GrantKept
  <2>3. QED
    BY <2>2 DEF HasGrant
<1>4. QED
  BY <1>1, <1>2, <1>3, PTL DEF Spec

=============================================================================
