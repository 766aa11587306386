---------------------- MODULE ProviderLifecycleProofs ----------------------
(***************************************************************************)
(* Safety of ProviderLifecycle for any set of bindings, sync interval and  *)
(* budget: the finalizer comes before the status, a binding that stays     *)
(* keeps its provider, and the health check leaks no limiter.              *)
(***************************************************************************)
EXTENDS ProviderLifecycle, TLAPS

\* What the worker knows of the revision it works on: it is a provider, the
\* health check runs on a protected one, and finalize on one that is being
\* deleted and that the informer has shown.
Held ==
  /\ pc # "idle" => pAt \in 1..Len(pLog) /\ pLog[pAt] # None
  /\ pc = "finalizer" => ~pLog[pAt].protected
  /\ pc \in {"validate", "pinger", "ping", "status"} => pLog[pAt].protected
  /\ pc \in {"list", "release"} => pLog[pAt].deleting /\ pAt <= pSeen
  /\ pc = "status" => outcome # "none"

Base == TypeOK /\ Held

\* The directory comes up, goes down or hangs.
HealthChanges == \E reachability \in Reachabilities : ChangeHealth(reachability)

\* The bindings that protect the provider are in the index, and a worker that
\* is about to remove the finalizer of the live revision has seen none.
SteadySeen ==
  /\ steady \subseteq refsSeen
  /\ pc = "release" /\ pAt = Len(pLog) => steady = {}
  /\ SteadyDependentsProtect

\* The live revision is protected.
LiveProtected == Live # None /\ Live.protected

\* A protected revision that is not being deleted, and that the worker has read
\* or may still read, has not been removed since: only the worker itself
\* removes a protected provider, and only after it has seen it deleted.
ProtectedStays ==
  /\ \A i \in pSeen..Len(pLog) :
       pLog[i] # None /\ pLog[i].protected /\ ~pLog[i].deleting => LiveProtected
  /\ pc \in {"validate", "pinger", "ping", "status"} => LiveProtected

\* While no binding has ever referred to the provider, the registry has a
\* limiter for a protected provider only, and for none that is being released.
LimiterOwned ==
  spent["refer"] = 0 =>
    /\ refs = {} /\ refsSeen = {} /\ \A d \in Dependents : ~lookup[d]
    /\ limiter => LiveProtected /\ pc # "release"

----------------------------------------------------------------------------
(* Revisions. *)

\* The log is never empty, and its entries are providers or None.
LEMMA LogType ==
  ASSUME TypeOK
  PROVE  /\ Len(pLog) \in Nat \ {0}
         /\ \A i \in 1..Len(pLog) : pLog[i] \in {None} \cup Provider
         /\ Live \in {None} \cup Provider
  BY DEF TypeOK, Live

\* Appending a revision keeps the earlier ones.
LEMMA AppendLog ==
  ASSUME TypeOK, NEW r \in {None} \cup Provider, pLog' = Append(pLog, r)
  PROVE  /\ pLog' \in Seq({None} \cup Provider)
         /\ Len(pLog') = Len(pLog) + 1
         /\ \A i \in 1..Len(pLog) : pLog'[i] = pLog[i]
         /\ pLog'[Len(pLog')] = r /\ Live' = r
  BY DEF TypeOK, Live

\* What the worker writes is a provider.
LEMMA WrittenTypes ==
  ASSUME TypeOK, NEW p \in Provider
  PROVE  /\ [p EXCEPT !.protected = TRUE] \in Provider
         /\ [p EXCEPT !.protected = TRUE].status = p.status
         /\ [p EXCEPT !.protected = TRUE].protected
         /\ outcome # "none" =>
              /\ [p EXCEPT !.status = MarkedStatus(p)] \in Provider
              /\ [p EXCEPT !.status = MarkedStatus(p)].protected = p.protected
<1>1. p.status \in Status /\ p.gen \in Nat /\ p.protected \in BOOLEAN
  BY DEF Provider
<1>2. [p EXCEPT !.protected = TRUE] \in Provider
      /\ [p EXCEPT !.protected = TRUE].status = p.status
      /\ [p EXCEPT !.protected = TRUE].protected
  BY DEF Provider
<1>3. ASSUME outcome # "none" PROVE MarkedStatus(p) \in Status
  <2> DEFINE s == [p.status EXCEPT !.gen = p.gen]
  <2>1. s \in Status
    BY <1>1 DEF Status
  <2>2. now \in Nat /\ outcome \in {"ready", "degraded", "invalid"}
    BY <1>3 DEF TypeOK, Outcomes
  <2>3. CASE outcome = "ready"
    <3>1. MarkedStatus(p) = [s EXCEPT !.ready = "True", !.degraded = "False", !.verified = now]
      BY <2>3 DEF MarkedStatus
    <3> HIDE DEF s
    <3>2. QED
      BY <2>1, <2>2, <3>1 DEF Status, Conditions
  <2>4. CASE outcome = "degraded"
    <3>1. MarkedStatus(p) = [s EXCEPT !.ready = "False", !.degraded = "True"]
      BY <2>4 DEF MarkedStatus
    <3> HIDE DEF s
    <3>2. QED
      BY <2>1, <3>1 DEF Status, Conditions
  <2>5. CASE outcome = "invalid"
    <3>1. MarkedStatus(p) = [s EXCEPT !.ready = "False"]
      BY <2>5 DEF MarkedStatus
    <3> HIDE DEF s
    <3>2. QED
      BY <2>1, <3>1 DEF Status, Conditions
  <2>6. QED
    BY <2>2, <2>3, <2>4, <2>5
<1>4. ASSUME NEW s \in Status
      PROVE  /\ [p EXCEPT !.status = s] \in Provider
             /\ [p EXCEPT !.status = s].protected = p.protected
  BY <1>4 DEF Provider
<1>5. QED
  BY <1>2, <1>3, <1>4

\* What the user writes is a provider, with the finalizer and the status as
\* they were.
LEMMA EditedTypes ==
  ASSUME NEW p \in Provider
  PROVE  /\ [p EXCEPT !.gen = @ + 1, !.tls = ~@] \in Provider
         /\ [p EXCEPT !.gen = @ + 1, !.tls = ~@].protected = p.protected
         /\ [p EXCEPT !.gen = @ + 1, !.tls = ~@].status = p.status
         /\ [p EXCEPT !.gen = @ + 1, !.deleting = TRUE] \in Provider
         /\ [p EXCEPT !.gen = @ + 1, !.deleting = TRUE].protected = p.protected
         /\ [p EXCEPT !.gen = @ + 1, !.deleting = TRUE].status = p.status
<1>1. p.gen + 1 \in Nat /\ (~p.tls) \in BOOLEAN
  BY DEF Provider
<1>2. ASSUME NEW g \in Nat, NEW t \in BOOLEAN
      PROVE  /\ [p EXCEPT !.gen = g, !.tls = t] \in Provider
             /\ [p EXCEPT !.gen = g, !.tls = t].protected = p.protected
             /\ [p EXCEPT !.gen = g, !.tls = t].status = p.status
             /\ [p EXCEPT !.gen = g, !.deleting = t] \in Provider
             /\ [p EXCEPT !.gen = g, !.deleting = t].protected = p.protected
             /\ [p EXCEPT !.gen = g, !.deleting = t].status = p.status
  BY DEF Provider
<1>3. QED
  BY <1>1, <1>2

\* The three ways in which the provider changes: it is created, without
\* finalizer and conditions; it is revised, keeping the finalizer, and gets its
\* first condition only when it has one; or it is removed, by the user while it
\* has no finalizer or by the worker on the live revision.
Created(r) ==
  /\ Live = None /\ r \in Provider
  /\ ~r.protected /\ r.status.ready = "None"

Revised(r) ==
  /\ Live # None /\ r \in Provider
  /\ Live.protected => r.protected
  /\ r.status.ready # "None" => Live.status.ready # "None" \/ r.protected

Removed(r) ==
  /\ Live # None /\ r = None
  /\ \/ DeleteProvider /\ ~Live.protected
     \/ pc = "release" /\ pAt = Len(pLog)

Revision(r) == Created(r) \/ Revised(r) \/ Removed(r)

\* The log grows by at most one such revision at a time.
LogStep ==
  \/ pLog' = pLog
  \/ \E r \in {None} \cup Provider : pLog' = Append(pLog, r) /\ Revision(r)

\* A write of the worker changes the log only when its revision is the live
\* one.
LEMMA WriteRevises ==
  ASSUME TypeOK, NEW reply, NEW r \in {None} \cup Provider, Write(reply, r),
         pAt = Len(pLog) => Revision(r)
  PROVE  LogStep
  BY DEF Write, Current, LogStep

\* Every step changes the provider in one of the three ways.
LEMMA Revisions ==
  ASSUME Base, [Next]_vars
  PROVE  LogStep
<1>1. TypeOK /\ Held /\ Live \in {None} \cup Provider /\ Len(pLog) \in Nat \ {0}
  BY LogType DEF Base
<1>2. ASSUME pc # "idle", pAt = Len(pLog) PROVE Live = Snapshot /\ Live \in Provider
  BY <1>1, <1>2 DEF Held, Live, Snapshot
<1>3. pc # "idle" => Snapshot \in Provider
  BY <1>1, LogType DEF Held, Snapshot
<1>4. ASSUME NEW reply, AddFinalizer(reply) PROVE LogStep
  <2>1. pc = "finalizer" /\ Write(reply, [Snapshot EXCEPT !.protected = TRUE])
    BY <1>4 DEF AddFinalizer
  <2>2. [Snapshot EXCEPT !.protected = TRUE] \in Provider
    BY <1>1, <1>3, <2>1, WrittenTypes
  <2>3. pAt = Len(pLog) => Revised([Snapshot EXCEPT !.protected = TRUE])
    BY <1>1, <1>2, <1>3, <2>1, <2>2, WrittenTypes, NoneAssumption DEF Revised
  <2>4. QED
    BY <1>1, <2>1, <2>2, <2>3, WriteRevises DEF Revision
<1>5. ASSUME NEW reply, WriteStatus(reply) PROVE LogStep
  <2> DEFINE r == [Snapshot EXCEPT !.status = MarkedStatus(Snapshot)]
  <2>1. pc = "status" /\ Write(reply, r)
    BY <1>5 DEF WriteStatus
  <2>2. outcome # "none" /\ Snapshot.protected
    BY <1>1, <2>1 DEF Held, Snapshot
  <2>3. r \in Provider /\ r.protected
    BY <1>1, <1>3, <2>1, <2>2, WrittenTypes
  <2> HIDE DEF r
  <2>4. pAt = Len(pLog) => Revised(r)
    BY <1>2, <2>1, <2>3, NoneAssumption DEF Revised
  <2>5. QED
    BY <1>1, <2>1, <2>3, <2>4, WriteRevises DEF Revision
<1>6. ASSUME NEW reply, RemoveFinalizer(reply) PROVE LogStep
  <2>1. pc = "release" /\ Write(reply, None)
    BY <1>6 DEF RemoveFinalizer
  <2>2. pAt = Len(pLog) => Removed(None)
    BY <1>2, <2>1, NoneAssumption DEF Removed
  <2>3. QED
    BY <1>1, <2>1, <2>2, WriteRevises DEF Revision
<1>7. ASSUME NEW tls \in BOOLEAN, CreateProvider(tls) PROVE LogStep
  <2> DEFINE s == [ready |-> "None", degraded |-> "None", gen |-> 0, verified |-> None]
             r == [gen |-> 1, tls |-> tls, protected |-> FALSE, deleting |-> FALSE,
                   status |-> s]
  <2>1. pLog' = Append(pLog, r) /\ Live = None
    BY <1>7 DEF CreateProvider
  <2>2. s \in Status
    BY DEF Status, Conditions
  <2>3. r \in Provider /\ Created(r)
    BY <1>7, <2>1, <2>2 DEF Provider, Created
  <2>4. QED
    BY <2>1, <2>3 DEF LogStep, Revision
<1>8. CASE EditProvider
  <2> DEFINE r == [Live EXCEPT !.gen = @ + 1, !.tls = ~@]
  <2>1. pLog' = Append(pLog, r) /\ Live # None /\ Live \in Provider
    BY <1>1, <1>8 DEF EditProvider
  <2>2. r \in Provider /\ r.protected = Live.protected /\ r.status = Live.status
    BY <2>1, EditedTypes
  <2> HIDE DEF r
  <2>3. Revised(r)
    BY <2>1, <2>2 DEF Revised
  <2>4. QED
    BY <2>1, <2>2, <2>3 DEF LogStep, Revision
<1>9. CASE DeleteProvider
  <2> DEFINE r == [Live EXCEPT !.gen = @ + 1, !.deleting = TRUE]
  <2>1. pLog' = Append(pLog, IF Live.protected THEN r ELSE None)
        /\ Live # None /\ Live \in Provider
    BY <1>1, <1>9 DEF DeleteProvider
  <2>2. r \in Provider /\ r.protected = Live.protected /\ r.status = Live.status
    BY <2>1, EditedTypes
  <2> HIDE DEF r
  <2>3. Live.protected => Revised(r)
    BY <2>1, <2>2 DEF Revised
  <2>4. ~Live.protected => Removed(None)
    BY <1>9, <2>1 DEF Removed
  <2>5. QED
    BY <2>1, <2>2, <2>3, <2>4 DEF LogStep, Revision
<1>10. CASE Start \/ ReadFails \/ Validate \/ Pinger \/ Ping \/ Finalize \/ PingerFails \/ ListFails
    \/ DeliverProvider \/ BackoffFires \/ TimerFires \/ Crash \/ HealthChanges \/ Tick
    \/ UNCHANGED vars
  BY <1>10 DEF Start, ReadFails, Validate, Pinger, Ping, Finalize, PingerFails, ListFails,
       DeliverProvider, BackoffFires, TimerFires, Crash, HealthChanges, ChangeHealth, Tick, vars, LogStep
<1>11. ASSUME NEW d \in Dependents,
              \/ DeliverBinding(d) \/ Refer(d) \/ Unrefer(d)
              \/ BindingReadsProvider(d) \/ BindingTakesLimiter(d)
       PROVE  LogStep
  BY <1>11 DEF DeliverBinding, Refer, Unrefer, BindingReadsProvider, BindingTakesLimiter, LogStep
<1>12. QED
  BY <1>4, <1>5, <1>6, <1>7, <1>8, <1>9, <1>10, <1>11 DEF Next, ProviderStep, HealthChanges

\* The log keeps its type and its past, and the informer's position keeps
\* within it.
LEMMA LogGrows ==
  ASSUME Base, [Next]_vars
  PROVE  /\ pLog' \in Seq({None} \cup Provider)
         /\ Len(pLog') \in {Len(pLog), Len(pLog) + 1}
         /\ \A i \in 1..Len(pLog) : pLog'[i] = pLog[i]
<1>1. CASE pLog' = pLog
  BY <1>1, LogType DEF Base, TypeOK
<1>2. ASSUME NEW r \in {None} \cup Provider, pLog' = Append(pLog, r)
      PROVE  /\ pLog' \in Seq({None} \cup Provider)
             /\ Len(pLog') \in {Len(pLog), Len(pLog) + 1}
             /\ \A i \in 1..Len(pLog) : pLog'[i] = pLog[i]
  BY <1>2, AppendLog DEF Base
<1>3. QED
  BY <1>1, <1>2, Revisions DEF LogStep

----------------------------------------------------------------------------
(* Types and the worker's revision. *)

\* The parts of TypeOK besides the log.
SchedTypeOK == queued \in BOOLEAN /\ backoff \in BOOLEAN /\ timer \in BOOLEAN
WorkerTypeOK == pc \in PCs /\ pAt \in Nat /\ outcome \in Outcomes
InputTypeOK ==
  /\ refs \subseteq Dependents /\ refsSeen \subseteq Dependents /\ steady \subseteq refs
  /\ lookup \in [Dependents -> BOOLEAN]
  /\ limiter \in BOOLEAN /\ directory \in Reachabilities /\ now \in Nat

\* TypeOK is the conjunction of its parts.
LEMMA TypeParts ==
  TypeOK <=> /\ pLog \in Seq({None} \cup Provider) /\ pSeen \in 1..Len(pLog)
             /\ SchedTypeOK /\ WorkerTypeOK /\ InputTypeOK
             /\ spent \in [Kinds -> Nat]
  BY DEF TypeOK, SchedTypeOK, WorkerTypeOK, InputTypeOK

\* A move is counted, and only its own kind.
LEMMA SpendType ==
  ASSUME spent \in [Kinds -> Nat], NEW k \in Kinds, Spend(k)
  PROVE  /\ spent' \in [Kinds -> Nat]
         /\ spent'["refer"] = IF k = "refer" THEN spent["refer"] + 1 ELSE spent["refer"]
  BY DEF Spend, Kinds

\* Moves are counted, and only changes of the bindings count as such.
LEMMA SpentStep ==
  ASSUME TypeOK, [Next]_vars
  PROVE  /\ spent' \in [Kinds -> Nat]
         /\ spent'["refer"] = 0 =>
              /\ spent["refer"] = 0
              /\ \A d \in Dependents : ~Refer(d) /\ ~Unrefer(d)
<1>1. spent \in [Kinds -> Nat] /\ spent["refer"] \in Nat
  BY DEF TypeOK, Kinds
<1>2. CASE \E k \in Kinds \ {"refer"} : Spend(k)
  <2>1. PICK k \in Kinds \ {"refer"} : Spend(k)
    BY <1>2
  <2>2. spent' \in [Kinds -> Nat] /\ spent'["refer"] = spent["refer"]
    BY <1>1, <2>1, SpendType
  <2>3. ASSUME NEW d \in Dependents, Refer(d) \/ Unrefer(d) PROVE spent'["refer"] = spent["refer"] + 1
    BY <1>1, <2>3, SpendType DEF Refer, Unrefer, Kinds
  <2>4. QED
    BY <1>1, <2>2, <2>3
<1>3. CASE Spend("refer")
  BY <1>1, <1>3, SpendType DEF Kinds
<1>4. CASE UNCHANGED spent
  <2>1. ASSUME NEW d \in Dependents, Refer(d) \/ Unrefer(d) PROVE spent'["refer"] = spent["refer"] + 1
    BY <1>1, <2>1, SpendType DEF Refer, Unrefer, Kinds
  <2>2. QED
    BY <1>1, <1>4, <2>1
<1>5. (\E k \in Kinds : Spend(k)) \/ UNCHANGED spent
  <2>1. CASE ProviderStep
    BY <2>1 DEF ProviderStep, Validate, Pinger, Ping, Finalize, AddFinalizer, WriteStatus, RemoveFinalizer,
         Replied, Kinds
  <2>2. CASE Start \/ ReadFails \/ PingerFails \/ ListFails \/ DeliverProvider \/ BackoffFires
          \/ TimerFires \/ Crash \/ EditProvider \/ DeleteProvider \/ HealthChanges \/ Tick
          \/ UNCHANGED vars
    BY <2>2 DEF Start, ReadFails, PingerFails, ListFails, DeliverProvider, BackoffFires, TimerFires,
         Crash, EditProvider, DeleteProvider, HealthChanges, ChangeHealth, Tick, vars, Kinds
  <2>3. ASSUME NEW d \in Dependents,
               \/ DeliverBinding(d) \/ Refer(d) \/ Unrefer(d)
               \/ BindingReadsProvider(d) \/ BindingTakesLimiter(d)
        PROVE  (\E k \in Kinds : Spend(k)) \/ UNCHANGED spent
    BY <2>3 DEF DeliverBinding, Refer, Unrefer, BindingReadsProvider, BindingTakesLimiter, Kinds
  <2>4. ASSUME NEW tls \in BOOLEAN, CreateProvider(tls)
        PROVE  (\E k \in Kinds : Spend(k)) \/ UNCHANGED spent
    BY <2>4 DEF CreateProvider, Kinds
  <2>5. QED
    BY <2>1, <2>2, <2>3, <2>4 DEF Next, HealthChanges
<1>6. QED
  BY <1>2, <1>3, <1>4, <1>5

\* The initial state is well typed, and the worker holds nothing.
LEMMA BaseInit == Init => Base
<1> SUFFICES ASSUME Init PROVE Base
  OBVIOUS
<1>1. pLog \in Seq({None} \cup Provider) /\ pSeen \in 1..Len(pLog)
  BY DEF Init
<1>2. SchedTypeOK /\ WorkerTypeOK /\ InputTypeOK /\ spent \in [Kinds -> Nat]
  BY DEF Init, SchedTypeOK, WorkerTypeOK, InputTypeOK, PCs, Outcomes
<1>3. Held
  BY DEF Init, Held
<1>4. QED
  BY <1>1, <1>2, <1>3, TypeParts DEF Base

\* Every step keeps the types.
LEMMA TypeStep ==
  ASSUME Base, [Next]_vars
  PROVE  TypeOK'
<1>1. /\ pLog \in Seq({None} \cup Provider) /\ pSeen \in 1..Len(pLog)
      /\ SchedTypeOK /\ WorkerTypeOK /\ InputTypeOK /\ Len(pLog) \in Nat \ {0}
  BY TypeParts, LogType DEF Base
<1>2. pLog' \in Seq({None} \cup Provider) /\ Len(pLog') \in {Len(pLog), Len(pLog) + 1}
  BY LogGrows
<1>3. spent' \in [Kinds -> Nat]
  BY SpentStep DEF Base
<1>4. pSeen' \in 1..Len(pLog') /\ SchedTypeOK' /\ WorkerTypeOK' /\ InputTypeOK'
  <2>1. CASE Start
    <3>1. pSeen' \in 1..Len(pLog')
      BY <1>1, <1>2, <2>1 DEF Start
    <3>2. SchedTypeOK'
      BY <1>1, <2>1 DEF Start, worker, inputs, SchedTypeOK
    <3>3. WorkerTypeOK'
      BY <1>1, <2>1 DEF Start, worker, inputs, WorkerTypeOK, PCs, Outcomes
    <3>4. InputTypeOK'
      BY <1>1, <2>1 DEF Start, worker, inputs, InputTypeOK
    <3>5. QED
      BY <3>1, <3>2, <3>3, <3>4
  <2>2. CASE ReadFails \/ DeliverProvider \/ BackoffFires \/ TimerFires
    <3>1. pSeen' \in 1..Len(pLog')
      BY <1>1, <1>2, <2>2 DEF ReadFails, DeliverProvider, BackoffFires, TimerFires
    <3>2. SchedTypeOK'
      BY <1>1, <2>2 DEF ReadFails, DeliverProvider, BackoffFires, TimerFires, worker, inputs, SchedTypeOK
    <3>3. WorkerTypeOK'
      BY <1>1, <2>2 DEF ReadFails, DeliverProvider, BackoffFires, TimerFires, worker, inputs, WorkerTypeOK, PCs, Outcomes
    <3>4. InputTypeOK'
      BY <1>1, <2>2 DEF ReadFails, DeliverProvider, BackoffFires, TimerFires, worker, inputs, InputTypeOK
    <3>5. QED
      BY <3>1, <3>2, <3>3, <3>4
  <2>3. CASE Validate \/ Pinger \/ Ping \/ PingerFails
    BY <1>1, <2>3 DEF Validate, Pinger, Ping, PingerFails, Goto, Mark, sched, inputs,
         SchedTypeOK, WorkerTypeOK, InputTypeOK, PCs, Outcomes
  <2>4. CASE Finalize \/ ListFails
    <3>1. pSeen' \in 1..Len(pLog')
      BY <1>1, <1>2, <2>4 DEF Finalize, ListFails
    <3>2. SchedTypeOK'
      BY <1>1, <2>4 DEF Finalize, ListFails, Goto, GoIdle, inputs, SchedTypeOK
    <3>3. WorkerTypeOK'
      BY <1>1, <2>4 DEF Finalize, ListFails, Goto, GoIdle, inputs, WorkerTypeOK, PCs, Outcomes
    <3>4. InputTypeOK'
      BY <1>1, <2>4 DEF Finalize, ListFails, Goto, GoIdle, inputs, InputTypeOK
    <3>5. QED
      BY <3>1, <3>2, <3>3, <3>4
  <2>5. ASSUME NEW reply, AddFinalizer(reply) \/ WriteStatus(reply) \/ RemoveFinalizer(reply)
        PROVE  pSeen' \in 1..Len(pLog') /\ SchedTypeOK' /\ WorkerTypeOK' /\ InputTypeOK'
    <3>1. pSeen' = pSeen /\ InputTypeOK'
      BY <1>1, <2>5 DEF AddFinalizer, WriteStatus, RemoveFinalizer, inputs, InputTypeOK
    <3>2. SchedTypeOK'
      BY <1>1, <2>5 DEF AddFinalizer, WriteStatus, RemoveFinalizer, SchedTypeOK
    <3>3. WorkerTypeOK'
      BY <1>1, <2>5 DEF AddFinalizer, WriteStatus, RemoveFinalizer, GoIdle, WorkerTypeOK, PCs, Outcomes
    <3>4. QED
      BY <1>1, <1>2, <3>1, <3>2, <3>3
  <2>6. ASSUME NEW d \in Dependents,
               \/ DeliverBinding(d) \/ Refer(d) \/ Unrefer(d)
               \/ BindingReadsProvider(d) \/ BindingTakesLimiter(d)
        PROVE  pSeen' \in 1..Len(pLog') /\ SchedTypeOK' /\ WorkerTypeOK' /\ InputTypeOK'
    <3>1. pSeen' = pSeen /\ UNCHANGED <<queued, backoff, timer, pc, pAt, outcome, pLog>>
      BY <2>6 DEF DeliverBinding, Refer, Unrefer, BindingReadsProvider, BindingTakesLimiter,
           Operator, sched, worker
    <3>2. CASE DeliverBinding(d) \/ Refer(d) \/ Unrefer(d)
      BY <1>1, <3>2 DEF DeliverBinding, Refer, Unrefer, Operator, InputTypeOK,
           SchedTypeOK, WorkerTypeOK, sched, worker
    <3>3. CASE BindingReadsProvider(d) \/ BindingTakesLimiter(d)
      BY <1>1, <3>3 DEF BindingReadsProvider, BindingTakesLimiter, InputTypeOK,
           SchedTypeOK, WorkerTypeOK, sched, worker
    <3>4. QED
      BY <2>6, <3>2, <3>3
  <2>7. CASE Crash
    <3>1. pSeen' \in 1..Len(pLog')
      BY <1>1, <1>2, <2>7 DEF Crash
    <3>2. SchedTypeOK'
      BY <1>1, <2>7 DEF Crash, GoIdle, SchedTypeOK
    <3>3. WorkerTypeOK'
      BY <1>1, <2>7 DEF Crash, GoIdle, WorkerTypeOK, PCs, Outcomes
    <3>4. InputTypeOK'
      BY <1>1, <2>7 DEF Crash, GoIdle, InputTypeOK
    <3>5. QED
      BY <3>1, <3>2, <3>3, <3>4
  <2>8. CASE EditProvider \/ DeleteProvider \/ HealthChanges \/ Tick
             \/ \E tls \in BOOLEAN : CreateProvider(tls)
    <3>1. UNCHANGED <<pSeen, queued, backoff, timer, pc, pAt, outcome, limiter, refsSeen, lookup>>
      BY <2>8 DEF EditProvider, DeleteProvider, HealthChanges, ChangeHealth, Tick, CreateProvider, Operator, sched, worker
    <3>2. refs' = refs /\ (steady' = steady \/ steady' \subseteq refs)
      BY <2>8 DEF EditProvider, DeleteProvider, HealthChanges, ChangeHealth, Tick, CreateProvider
    <3>3. directory' = directory \/ directory' \in Reachabilities
      BY <2>8 DEF EditProvider, DeleteProvider, HealthChanges, ChangeHealth, Tick, CreateProvider
    <3>4. now' = now \/ now' = now + 1
      BY <2>8 DEF EditProvider, DeleteProvider, HealthChanges, ChangeHealth, Tick, CreateProvider
    <3>5. InputTypeOK'
      <4>1. directory' \in Reachabilities
        BY <1>1, <3>3 DEF InputTypeOK
      <4>2. now' \in Nat /\ refs' \subseteq Dependents /\ steady' \subseteq refs'
        BY <1>1, <3>2, <3>4 DEF InputTypeOK
      <4>3. QED
        BY <1>1, <3>1, <4>1, <4>2 DEF InputTypeOK
    <3>6. QED
      BY <1>1, <1>2, <3>1, <3>5 DEF SchedTypeOK, WorkerTypeOK
  <2>9. CASE UNCHANGED vars
    BY <1>1, <2>9 DEF vars, SchedTypeOK, WorkerTypeOK, InputTypeOK
  <2>10. QED
    BY <2>1, <2>2, <2>3, <2>4, <2>5, <2>6, <2>7, <2>8, <2>9 DEF Next, ProviderStep, HealthChanges
<1>5. QED
  BY <1>2, <1>3, <1>4 DEF TypeOK, SchedTypeOK, WorkerTypeOK, InputTypeOK

\* Every step keeps what the worker knows of its revision.
LEMMA HeldStep ==
  ASSUME Base, [Next]_vars
  PROVE  Held'
<1>1. /\ TypeOK /\ Held /\ Len(pLog) \in Nat \ {0} /\ pSeen \in 1..Len(pLog)
      /\ \A i \in 1..Len(pLog) : pLog[i] \in {None} \cup Provider
  BY LogType DEF Base, TypeOK
<1>2. /\ Len(pLog') \in {Len(pLog), Len(pLog) + 1}
      /\ \A i \in 1..Len(pLog) : pLog'[i] = pLog[i]
  BY LogGrows
<1>3. CASE pc' = "idle"
  BY <1>3 DEF Held
<1>4. ASSUME UNCHANGED <<pc, pAt, outcome>>, pSeen' = pSeen \/ pSeen' = pSeen + 1
      PROVE  Held'
  BY <1>1, <1>2, <1>4 DEF Held
<1>5. CASE Start
  <2>1. CASE UNCHANGED <<pc, pAt, outcome>>
    BY <1>4, <1>5, <2>1 DEF Start
  <2>2. CASE pAt' = pSeen /\ pLog[pSeen] # None
             /\ pc' = IF pLog[pSeen].deleting THEN "list"
                      ELSE IF pLog[pSeen].protected THEN "validate" ELSE "finalizer"
    <3>1. UNCHANGED <<pLog, pSeen>>
      BY <1>5 DEF Start
    <3>2. QED
      BY <1>1, <2>2, <3>1 DEF Held
  <2>3. QED
    BY <1>5, <2>1, <2>2 DEF Start, worker
<1>6. CASE ReadFails \/ DeliverProvider \/ BackoffFires \/ TimerFires
  <2>1. UNCHANGED <<pc, pAt, outcome>> /\ (pSeen' = pSeen \/ pSeen' = pSeen + 1)
    BY <1>6 DEF ReadFails, DeliverProvider, BackoffFires, TimerFires, worker
  <2>2. QED
    BY <1>4, <2>1
<1>7. CASE Validate \/ Pinger \/ Ping \/ PingerFails
  <2>1. /\ pc \in {"validate", "pinger", "ping"} /\ pAt' = pAt /\ pSeen' = pSeen
        /\ pc' \in {"pinger", "ping"} \/ (pc' = "status" /\ outcome' # "none")
    BY <1>7 DEF Validate, Pinger, Ping, PingerFails, Goto, Mark
  <2>2. QED
    BY <1>1, <1>2, <2>1 DEF Held
<1>8. CASE Finalize \/ ListFails
  <2>1. pc' = "idle" \/ (pc = "list" /\ pc' = "release" /\ pAt' = pAt /\ pSeen' = pSeen)
    BY <1>8 DEF Finalize, ListFails, Goto, GoIdle
  <2>2. QED
    BY <1>1, <1>2, <1>3, <2>1 DEF Held
<1>9. ASSUME NEW reply, AddFinalizer(reply) PROVE Held'
  <2>1. CASE ~(Current /\ reply = "ok")
    BY <1>3, <1>9, <2>1 DEF AddFinalizer, GoIdle
  <2>2. CASE Current /\ reply = "ok"
    <3> DEFINE r == [Snapshot EXCEPT !.protected = TRUE]
    <3>1. pc = "finalizer" /\ pc' = "validate" /\ pAt' = Len(pLog) + 1 /\ Write(reply, r)
      BY <1>9, <2>2 DEF AddFinalizer
    <3>2. Snapshot \in Provider /\ ~Snapshot.protected
      BY <1>1, <3>1 DEF Held, Snapshot
    <3>3. r \in Provider /\ r.protected
      BY <1>1, <3>2, WrittenTypes
    <3> HIDE DEF r
    <3>4. pLog' = Append(pLog, r)
      BY <2>2, <3>1, <3>2, <3>3 DEF Write
    <3>5. pLog'[Len(pLog')] = r /\ Len(pLog') = Len(pLog) + 1
      BY <1>1, <3>3, <3>4, AppendLog
    <3>6. QED
      BY <1>1, <3>1, <3>3, <3>5, NoneAssumption DEF Held
  <2>3. QED
    BY <2>1, <2>2
<1>10. ASSUME NEW reply, WriteStatus(reply) \/ RemoveFinalizer(reply) PROVE Held'
  BY <1>3, <1>10 DEF WriteStatus, RemoveFinalizer, GoIdle
<1>11. ASSUME NEW d \in Dependents,
              \/ DeliverBinding(d) \/ Refer(d) \/ Unrefer(d)
              \/ BindingReadsProvider(d) \/ BindingTakesLimiter(d)
       PROVE  Held'
  <2>1. UNCHANGED <<pSeen, pc, pAt, outcome>>
    BY <1>11 DEF DeliverBinding, Refer, Unrefer, BindingReadsProvider, BindingTakesLimiter,
         Operator, worker
  <2>2. QED
    BY <1>4, <2>1
<1>12. CASE Crash
  BY <1>3, <1>12 DEF Crash, GoIdle
<1>13. CASE EditProvider \/ DeleteProvider \/ HealthChanges \/ Tick
            \/ (\E tls \in BOOLEAN : CreateProvider(tls)) \/ UNCHANGED vars
  <2>1. UNCHANGED <<pSeen, pc, pAt, outcome>>
    BY <1>13 DEF EditProvider, DeleteProvider, HealthChanges, ChangeHealth, Tick, CreateProvider, Operator,
         worker, vars
  <2>2. QED
    BY <1>4, <2>1
<1>14. QED
  BY <1>5, <1>6, <1>7, <1>8, <1>9, <1>10, <1>11, <1>12, <1>13 DEF Next, ProviderStep, HealthChanges

\* Every step keeps both.
LEMMA BaseStep ==
  ASSUME Base, [Next]_vars
  PROVE  Base'
  BY TypeStep, HeldStep DEF Base

\* Types are correct in every reachable state, and the worker's snapshot is
\* what its step relies on (Reconcile, finalize).
THEOREM TypeCorrect == Spec => []TypeOK
<1>1. Base => TypeOK
  BY DEF Base
<1>2. QED
  BY <1>1, BaseInit, BaseStep, PTL DEF Spec

----------------------------------------------------------------------------
(* Protection. *)

\* No revision has a health condition without the finalizer: Reconcile adds it
\* first, and no user's write and no retry takes it away again.
THEOREM StatusSound == Spec => []StatusImpliesProtected
<1> DEFINE I == Base /\ StatusImpliesProtected
<1>1. Init => I
  BY BaseInit DEF Init, StatusImpliesProtected
<1>2. I /\ [Next]_vars => I'
  <2> SUFFICES ASSUME I, [Next]_vars PROVE StatusImpliesProtected'
    BY BaseStep
  <2>1. CASE pLog' = pLog
    BY <2>1 DEF StatusImpliesProtected
  <2>2. ASSUME NEW r \in {None} \cup Provider, pLog' = Append(pLog, r), Revision(r)
        PROVE  StatusImpliesProtected'
    <3>1. /\ Len(pLog') = Len(pLog) + 1 /\ \A i \in 1..Len(pLog) : pLog'[i] = pLog[i]
          /\ pLog'[Len(pLog')] = r /\ Len(pLog) \in Nat \ {0}
      BY <2>2, AppendLog, LogType DEF Base
    <3>2. Live # None /\ Live.status.ready # "None" => Live.protected
      BY <3>1 DEF StatusImpliesProtected, Live
    <3>3. r # None /\ r.status.ready # "None" => r.protected
      BY <2>2, <3>2 DEF Revision, Created, Revised, Removed
    <3>4. QED
      BY <3>1, <3>3 DEF StatusImpliesProtected
  <2>3. QED
    BY <2>1, <2>2, Revisions DEF LogStep
<1>3. QED
  BY <1>1, <1>2, PTL DEF Spec

\* When a step leaves Live as it was, or makes it a provider.
LEMMA LiveStep ==
  ASSUME Base, [Next]_vars
  PROVE  \/ pLog' = pLog /\ Live' = Live
         \/ \E r \in {None} \cup Provider :
              /\ Revision(r) /\ Live' = r /\ Len(pLog') = Len(pLog) + 1
              /\ pLog'[Len(pLog')] = r
              /\ \A i \in 1..Len(pLog) : pLog'[i] = pLog[i]
<1>1. CASE pLog' = pLog
  BY <1>1 DEF Live
<1>2. ASSUME NEW r \in {None} \cup Provider, pLog' = Append(pLog, r), Revision(r)
      PROVE  /\ Live' = r /\ Len(pLog') = Len(pLog) + 1
             /\ pLog'[Len(pLog')] = r
             /\ \A i \in 1..Len(pLog) : pLog'[i] = pLog[i]
  BY <1>2, AppendLog DEF Base
<1>3. QED
  BY <1>1, <1>2, Revisions DEF LogStep

\* A binding that the index showed when the deletion was requested, and that
\* has stayed, keeps the provider: a release the API server would accept was
\* decided on the marked revision, from an index that had the binding already.
THEOREM DependentsProtect == Spec => []SteadyDependentsProtect
<1> DEFINE I == Base /\ SteadySeen
<1>1. Init => I
  BY BaseInit DEF Init, SteadySeen, SteadyDependentsProtect
<1>2. I /\ [Next]_vars => I'
  <2> SUFFICES ASSUME I, [Next]_vars PROVE SteadySeen'
    BY BaseStep
  <2>1. /\ TypeOK /\ Held /\ SteadySeen /\ Len(pLog) \in Nat \ {0} /\ TypeOK'
        /\ Len(pLog') \in {Len(pLog), Len(pLog) + 1}
    BY LogType, LogGrows, TypeStep DEF Base
  <2>2. \/ steady' \subseteq steady
        \/ DeleteProvider /\ Live.protected
    <3>1. CASE DeleteProvider
      BY <3>1 DEF DeleteProvider
    <3>2. CASE ~DeleteProvider
      <4>1. steady' = steady \/ \E d \in Dependents : steady' = steady \ {d}
        BY <3>2 DEF Next, ProviderStep, Start, ReadFails, Validate, Pinger, Ping, Finalize, PingerFails,
             ListFails, AddFinalizer, WriteStatus, RemoveFinalizer, DeliverProvider, BackoffFires,
             TimerFires, Crash, EditProvider, ChangeHealth, Tick, CreateProvider, DeliverBinding,
             Refer, Unrefer, BindingReadsProvider, BindingTakesLimiter, inputs, vars
      <4>2. QED
        BY <4>1
    <3>3. QED
      BY <3>1, <3>2
  <2>3. (steady \subseteq refsSeen)'
    <3>1. CASE DeleteProvider
      BY <2>1, <3>1 DEF DeleteProvider, Operator, SteadySeen
    <3>2. CASE Crash
      BY <2>1, <3>2 DEF Crash, TypeOK
    <3>3. ASSUME NEW d \in Dependents, DeliverBinding(d)
          PROVE  (steady \subseteq refsSeen)'
      BY <2>1, <3>3 DEF DeliverBinding, SteadySeen, TypeOK
    <3>4. ASSUME ~DeleteProvider, ~Crash, \A d \in Dependents : ~DeliverBinding(d)
          PROVE  refsSeen' = refsSeen
      BY <3>4 DEF Next, ProviderStep, Start, ReadFails, Validate, Pinger, Ping, Finalize, PingerFails,
           ListFails, AddFinalizer, WriteStatus, RemoveFinalizer, DeliverProvider, BackoffFires,
           TimerFires, EditProvider, ChangeHealth, Tick, CreateProvider,
           Refer, Unrefer, BindingReadsProvider, BindingTakesLimiter, inputs, Operator, vars
    <3>5. QED
      BY <2>1, <2>2, <3>1, <3>2, <3>3, <3>4 DEF SteadySeen
  <2>4. (pc = "release" /\ pAt = Len(pLog) => steady = {})'
    <3>1. CASE Finalize
      <4>1. HasDependents \/ refsSeen = {}
        BY DEF HasDependents
      <4>2. CASE HasDependents
        BY <3>1, <4>2 DEF Finalize, GoIdle
      <4>3. CASE refsSeen = {}
        BY <2>1, <3>1, <4>3 DEF Finalize, inputs, SteadySeen
      <4>4. QED
        BY <4>1, <4>2, <4>3
    <3>2. CASE DeleteProvider
      <4>1. Len(pLog') = Len(pLog) + 1 /\ pc' = pc /\ pAt' = pAt
        BY <2>1, <3>2 DEF DeleteProvider, Operator, worker, TypeOK
      <4>2. QED
        BY <2>1, <4>1 DEF Held
    <3>3. CASE ~Finalize /\ ~DeleteProvider
      <4>1. steady' \subseteq steady
        BY <2>2, <3>3
      <4>2. pc' # "release" \/ (pc' = pc /\ pAt' = pAt)
        BY <3>3 DEF Next, ProviderStep, Start, ReadFails, Validate, Pinger, Ping, PingerFails,
             ListFails, AddFinalizer, WriteStatus, RemoveFinalizer, DeliverProvider, BackoffFires,
             TimerFires, Crash, EditProvider, ChangeHealth, Tick, CreateProvider, DeliverBinding,
             Refer, Unrefer, BindingReadsProvider, BindingTakesLimiter, Operator, worker, vars,
             GoIdle, Goto, Mark
      <4>3. pc = "release" /\ pAt = Len(pLog') => pAt = Len(pLog)
        BY <2>1 DEF Held
      <4>4. QED
        BY <2>1, <4>1, <4>2, <4>3 DEF SteadySeen
    <3>4. QED
      BY <3>1, <3>2, <3>3
  <2>5. SteadyDependentsProtect'
    <3>1. CASE DeleteProvider /\ Live.protected
      <4>1. Live # None /\ Live \in Provider
        BY <2>1, <3>1, LogType DEF DeleteProvider
      <4>2. Live' = [Live EXCEPT !.gen = @ + 1, !.deleting = TRUE]
        BY <2>1, <3>1, <4>1, AppendLog, EditedTypes DEF DeleteProvider
      <4>3. QED
        BY <4>1, <4>2, EditedTypes, NoneAssumption DEF SteadyDependentsProtect
    <3>2. CASE steady' \subseteq steady /\ ~(DeleteProvider /\ Live.protected)
      <4>1. CASE Live' = Live
        BY <2>1, <3>2, <4>1 DEF SteadySeen, SteadyDependentsProtect
      <4>2. ASSUME NEW r \in {None} \cup Provider, Revision(r), Live' = r
            PROVE  SteadyDependentsProtect'
        <5>1. CASE Created(r) \/ Revised(r)
          BY <4>2, <5>1, NoneAssumption DEF Created, Revised, SteadyDependentsProtect
        <5>2. CASE Removed(r) /\ pc = "release" /\ pAt = Len(pLog)
          BY <2>1, <3>2, <5>2 DEF SteadySeen, SteadyDependentsProtect
        <5>3. CASE DeleteProvider /\ ~Live.protected
          BY <5>3 DEF DeleteProvider, SteadyDependentsProtect
        <5>4. QED
          BY <4>2, <5>1, <5>2, <5>3 DEF Revision, Removed
      <4>3. QED
        BY <4>1, <4>2, LiveStep
    <3>3. QED
      BY <2>2, <3>1, <3>2
  <2>6. QED
    BY <2>3, <2>4, <2>5 DEF SteadySeen
<1>3. I => SteadyDependentsProtect
  BY DEF SteadySeen
<1>4. QED
  BY <1>1, <1>2, <1>3, PTL DEF Spec

----------------------------------------------------------------------------
(* The registry of limiters. *)

\* A protected provider that is not being deleted stays until the worker has
\* seen it deleted.
LEMMA ProtectedStaysStep ==
  ASSUME Base, ProtectedStays, [Next]_vars
  PROVE  ProtectedStays'
<1>1. /\ TypeOK /\ Held /\ Len(pLog) \in Nat \ {0} /\ pSeen \in 1..Len(pLog)
      /\ Live \in {None} \cup Provider
  BY LogType DEF Base, TypeOK
<1>2. Len(pLog') \in Nat \ {0} /\ pSeen' \in 1..Len(pLog') /\ pSeen' >= pSeen
  <2>1. pSeen' = pSeen \/ pSeen' = pSeen + 1 \/ pSeen' = Len(pLog)
    BY DEF Next, ProviderStep, Start, ReadFails, Validate, Pinger, Ping, Finalize, PingerFails,
         ListFails, AddFinalizer, WriteStatus, RemoveFinalizer, DeliverProvider, BackoffFires,
         TimerFires, Crash, EditProvider, DeleteProvider, ChangeHealth, Tick, CreateProvider,
         DeliverBinding, Refer, Unrefer, BindingReadsProvider, BindingTakesLimiter, Operator, vars
  <2>2. TypeOK'
    BY TypeStep
  <2>3. QED
    BY <1>1, <2>1, <2>2, LogGrows DEF TypeOK
<1>3. (\A i \in pSeen..Len(pLog) :
         pLog[i] # None /\ pLog[i].protected /\ ~pLog[i].deleting => LiveProtected)'
  <2>1. CASE pLog' = pLog /\ Live' = Live
    BY <1>1, <1>2, <2>1 DEF ProtectedStays, LiveProtected
  <2>2. ASSUME NEW r \in {None} \cup Provider, Revision(r), Live' = r,
               Len(pLog') = Len(pLog) + 1, pLog'[Len(pLog')] = r,
               \A i \in 1..Len(pLog) : pLog'[i] = pLog[i]
        PROVE  \A i \in pSeen'..Len(pLog') :
                 pLog'[i] # None /\ pLog'[i].protected /\ ~pLog'[i].deleting => LiveProtected'
    <3> SUFFICES ASSUME NEW i \in pSeen'..Len(pLog'), pLog'[i] # None,
                        pLog'[i].protected, ~pLog'[i].deleting
                 PROVE  LiveProtected'
      OBVIOUS
    <3>1. CASE i = Len(pLog')
      BY <2>2, <3>1 DEF LiveProtected
    <3>2. CASE i # Len(pLog')
      <4>1. i \in pSeen..Len(pLog) /\ pLog'[i] = pLog[i]
        BY <1>1, <1>2, <2>2, <3>2
      <4>2. LiveProtected
        BY <4>1 DEF ProtectedStays
      <4>3. CASE Created(r)
        BY <4>2, <4>3 DEF Created, LiveProtected
      <4>4. CASE Revised(r)
        BY <2>2, <4>2, <4>4, NoneAssumption DEF Revised, LiveProtected
      <4>5. CASE Removed(r)
        <5>1. pc = "release" /\ pAt = Len(pLog)
          BY <4>2, <4>5 DEF Removed, LiveProtected
        <5>2. i = pAt /\ pLog[pAt].deleting
          BY <1>1, <4>1, <5>1 DEF Held
        <5>3. QED
          BY <4>1, <5>2
      <4>6. QED
        BY <2>2, <4>3, <4>4, <4>5 DEF Revision
    <3>3. QED
      BY <3>1, <3>2
  <2>3. QED
    BY <2>1, <2>2, LiveStep
<1>4. (pc \in {"validate", "pinger", "ping", "status"} => LiveProtected)'
  <2> SUFFICES ASSUME pc' \in {"validate", "pinger", "ping", "status"} PROVE LiveProtected'
    OBVIOUS
  <2>1. CASE Start /\ pc = "idle"
    <3>1. pc' = "validate" /\ pLog' = pLog /\ pLog[pSeen] # None /\ pLog[pSeen].protected
          /\ ~pLog[pSeen].deleting
      BY <2>1 DEF Start, worker
    <3>2. LiveProtected
      BY <1>1, <3>1 DEF ProtectedStays
    <3>3. QED
      BY <3>1, <3>2 DEF LiveProtected, Live
  <2>2. ASSUME NEW reply, AddFinalizer(reply) PROVE LiveProtected'
    <3>1. pc = "finalizer" /\ pc' = "validate" /\ Current /\ pAt' = Len(pLog) + 1
      BY <2>2 DEF AddFinalizer, GoIdle
    <3>2. Held' /\ TypeOK' /\ Len(pLog') \in {Len(pLog), Len(pLog) + 1}
      BY HeldStep, TypeStep, LogGrows
    <3>3. pAt' = Len(pLog')
      BY <1>1, <3>1, <3>2 DEF Held
    <3>4. QED
      BY <3>1, <3>2, <3>3 DEF Held, LiveProtected, Live
  <2>3. CASE pc \in {"validate", "pinger", "ping", "status"}
    <3>1. LiveProtected
      BY <2>3 DEF ProtectedStays
    <3>2. CASE Live' = Live
      BY <3>1, <3>2 DEF LiveProtected
    <3>3. ASSUME NEW r \in {None} \cup Provider, Revision(r), Live' = r
          PROVE  LiveProtected'
      BY <2>3, <3>1, <3>3, NoneAssumption DEF Revision, Created, Revised, Removed, LiveProtected
    <3>4. QED
      BY <3>2, <3>3, LiveStep
  <2>4. \/ Start /\ pc = "idle"
        \/ \E reply \in Replies : AddFinalizer(reply)
        \/ pc \in {"validate", "pinger", "ping", "status"}
    BY DEF Next, ProviderStep, Start, ReadFails, Validate, Pinger, Ping, Finalize, PingerFails,
         ListFails, WriteStatus, RemoveFinalizer, DeliverProvider, BackoffFires,
         TimerFires, Crash, EditProvider, DeleteProvider, ChangeHealth, Tick, CreateProvider,
         DeliverBinding, Refer, Unrefer, BindingReadsProvider, BindingTakesLimiter, Operator,
         worker, vars, GoIdle, Goto, Mark
  <2>5. QED
    BY <2>1, <2>2, <2>3, <2>4
<1>5. QED
  BY <1>3, <1>4 DEF ProtectedStays

\* Without bindings, the limiter belongs to a protected provider.
LEMMA LimiterOwnedStep ==
  ASSUME Base, ProtectedStays, LimiterOwned, [Next]_vars
  PROVE  LimiterOwned'
<1> SUFFICES ASSUME spent'["refer"] = 0
             PROVE  /\ refs' = {} /\ refsSeen' = {} /\ \A d \in Dependents : ~lookup'[d]
                    /\ limiter' => LiveProtected' /\ pc' # "release"
  BY DEF LimiterOwned
<1>1. /\ TypeOK /\ Held /\ refs = {} /\ refsSeen = {} /\ \A d \in Dependents : ~lookup[d]
      /\ limiter => LiveProtected /\ pc # "release"
      /\ \A d \in Dependents : ~Refer(d) /\ ~Unrefer(d)
  BY SpentStep DEF LimiterOwned, Base
<1>2. \A d \in Dependents :
        ~DeliverBinding(d) /\ ~BindingReadsProvider(d) /\ ~BindingTakesLimiter(d)
  BY <1>1 DEF DeliverBinding, BindingReadsProvider, BindingTakesLimiter
<1>3. refs' = {} /\ refsSeen' = {} /\ \A d \in Dependents : ~lookup'[d]
  <2>1. CASE Crash
    BY <1>1, <2>1 DEF Crash
  <2>2. CASE ~Crash
    BY <1>1, <1>2, <2>2 DEF Next, ProviderStep, Start, ReadFails, Validate, Pinger, Ping, Finalize,
         PingerFails, ListFails, AddFinalizer, WriteStatus, RemoveFinalizer, DeliverProvider,
         BackoffFires, TimerFires, EditProvider, DeleteProvider, ChangeHealth, Tick,
         CreateProvider, inputs, Operator, vars
  <2>3. QED
    BY <2>1, <2>2
<1>4. ASSUME limiter' PROVE LiveProtected' /\ pc' # "release"
  <2>1. CASE Pinger
    <3>1. pc' = "ping"
      BY <2>1 DEF Pinger, Goto
    <3>2. QED
      BY <3>1, ProtectedStaysStep DEF ProtectedStays
  <2>2. CASE ~Pinger
    <3>1. limiter /\ ~Crash
      BY <1>2, <1>4, <2>2 DEF Next, ProviderStep, Start, ReadFails, Validate, Ping, Finalize,
         PingerFails, ListFails, AddFinalizer, WriteStatus, RemoveFinalizer, DeliverProvider,
         BackoffFires, TimerFires, EditProvider, DeleteProvider, ChangeHealth, Tick,
         CreateProvider, Refer, Unrefer, inputs, Operator, vars, Crash
    <3>2. pc' # "release"
      <4>1. CASE Finalize
        BY <1>4, <4>1 DEF Finalize, GoIdle
      <4>2. CASE ~Finalize
        BY <1>1, <1>2, <2>2, <3>1, <4>2 DEF Next, ProviderStep, Start, ReadFails, Validate, Ping,
         PingerFails, ListFails, AddFinalizer, WriteStatus, RemoveFinalizer, DeliverProvider,
         BackoffFires, TimerFires, EditProvider, DeleteProvider, ChangeHealth, Tick,
         CreateProvider, worker, Operator, vars, GoIdle, Goto, Mark
      <4>3. QED
        BY <4>1, <4>2
    <3>3. LiveProtected /\ pc # "release"
      BY <1>1, <3>1
    <3>4. CASE Live' = Live
      BY <3>2, <3>3, <3>4 DEF LiveProtected
    <3>5. ASSUME NEW r \in {None} \cup Provider, Revision(r), Live' = r
          PROVE  LiveProtected'
      BY <3>3, <3>5, NoneAssumption DEF Revision, Created, Revised, Removed, LiveProtected
    <3>6. QED
      BY <3>2, <3>4, <3>5, LiveStep
  <2>3. QED
    BY <2>1, <2>2
<1>5. QED
  BY <1>3, <1>4

\* The health check leaks no limiter: when the provider of which no binding
\* ever took one is gone, so is its entry in the registry.  The finalizer is
\* what makes this true: a protected provider is removed only by finalize,
\* which empties the entry first and whose informer has passed the revisions
\* that could fill it again.
THEOREM NoLimiterLeaks == Spec => []LimiterReleased
<1> DEFINE I == Base /\ ProtectedStays /\ LimiterOwned
<1>1. Init => I
  <2> SUFFICES ASSUME Init PROVE ProtectedStays /\ LimiterOwned
    BY BaseInit
  <2>1. ProtectedStays
    BY DEF Init, ProtectedStays
  <2>2. LimiterOwned
    BY DEF Init, LimiterOwned
  <2>3. QED
    BY <2>1, <2>2
<1>2. I /\ [Next]_vars => I'
  BY BaseStep, ProtectedStaysStep, LimiterOwnedStep
<1>3. I => LimiterReleased
  BY DEF LimiterOwned, LimiterReleased, AtRest, LiveProtected
<1>4. QED
  BY <1>1, <1>2, <1>3, PTL DEF Spec

=============================================================================
