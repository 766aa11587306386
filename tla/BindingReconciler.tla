------------------------- MODULE BindingReconciler -------------------------
(***************************************************************************)
(* RBACGroupBindingReconciler (internal/controller/                        *)
(* rbacgroupbinding_controller.go): one controller-runtime worker keeps a  *)
(* RoleBinding in step with the membership of a directory group.           *)
(*                                                                         *)
(* The API server is one append-only log of revisions per object, as etcd  *)
(* keeps it: the last entry is the live object, None means "no object",    *)
(* and an entry's index is its resourceVersion.  The informer cache is a   *)
(* position in that log, so that a read may be stale but is never          *)
(* invented; the entries beyond the position are the watch events still to *)
(* be delivered.  A reconcile is a chain of steps (provider, lookup, diff, *)
(* create / delete / update, status) between which users, the garbage      *)
(* collector, the directory, informers, timers and a crash interleave.     *)
(***************************************************************************)
EXTENDS Naturals, Sequences, FiniteSets

CONSTANTS
  Names,         \* keys of bindings; the managed RoleBinding has the same key
  Groups,        \* group DNs
  Roles,         \* roleRefs
  Users,         \* usernames
  None,          \* no object, no answer, no time
  InitialGroups, \* the directory's first content
  Outages,       \* states of the directory other than "up" that may occur
  SyncInterval,  \* provider.spec.syncInterval; 0 disables RequeueAfter
  Budgets        \* bounds: how many moves of each kind the environment may
                 \* make; a behaviour stays within one of these budgets

\* "stale" counts the reconciles that start behind the informers' backlog.
Kinds == {"edit", "drift", "directory", "fault", "crash", "stale", "tick"}

(***************************************************************************)
(* Data.  The three conditions the mark* functions set always move         *)
(* together, so that they are one phase; a condition's message is its      *)
(* cause.  MemberCount, MembersPreview and MembersHash are one member set. *)
(***************************************************************************)
Phases == {"New", "Ready", "Degraded", "GroupNotFound"}
Causes == {"none", "provider", "secret", "ldap", "api"}

Memberships == SUBSET Users

Status == [phase : Phases, cause : Causes, gen : Nat,
           members : Memberships, syncTime : {None} \cup Nat]

Binding == [uid : Nat, gen : Nat, group : Groups, role : Roles,
            status : Status]

\* owner is the controller owner reference's UID, 0 when there is none; by is
\* the field manager of the last write.
RoleBinding == [role : Roles, subjects : Memberships, owner : Nat,
                by : {"operator", "user"}]

Directory == [Groups -> {None} \cup Memberships]

ASSUME ConstantsAssumption ==
  /\ InitialGroups \in Directory
  /\ Outages \subseteq {"down", "hung"}
  /\ SyncInterval \in Nat
  /\ Budgets \subseteq [Kinds -> Nat]

ASSUME NoneAssumption ==
  /\ None \notin Names
  /\ None \notin Binding
  /\ None \notin RoleBinding
  /\ \A m \in Memberships : m # None
  /\ None \notin Nat

VARIABLES
  bLog,      \* per name, the revisions of the RBACGroupBinding
  bSeen,     \* per name, the revision the binding informer has reached
  rbLog,     \* per name, the revisions of the RoleBinding
  rbSeen,    \* per name, the revision the RoleBinding informer has reached
  queue,     \* workqueue: keys ready to be reconciled
  backoff,   \* keys waiting in the rate limiter after an error
  periodic,  \* keys waiting for RequeueAfter
  pc,        \* the step the worker takes next
  key,       \* the request being reconciled
  bAt,       \* revision of the binding this reconcile read
  rbAt,      \* revision of the RoleBinding this reconcile read
  found,     \* members the directory returned
  verdict,   \* phase and cause of the status about to be written
  provider,  \* the LDAPProvider (and its Secrets) as the cache shows it
  directory, \* reachability of the LDAP server
  dirLog,    \* contents the directory has had; the last is current
  now,       \* clock, in seconds
  spent      \* environment moves made so far, per kind

store   == <<bLog, rbLog>>
seen    == <<bSeen, rbSeen>>
sched   == <<queue, backoff, periodic>>
worker  == <<pc, key, bAt, rbAt, found, verdict>>
outside == <<provider, directory, dirLog, now>>
vars    == <<bLog, bSeen, rbLog, rbSeen, queue, backoff, periodic, pc, key,
             bAt, rbAt, found, verdict, provider, directory, dirLog, now,
             spent>>

Live(log) == log[Len(log)]
Cached(log, at) == log[at]

Spend(kind) ==
  /\ spent' = [spent EXCEPT ![kind] = @ + 1]
  /\ \E budget \in Budgets : \A k \in Kinds : spent'[k] <= budget[k]

NewStatus == [phase |-> "New", cause |-> "none", gen |-> 0,
              members |-> {}, syncTime |-> None]

PCs == {"idle", "provider", "lookup", "diff", "create", "delete", "update",
        "status"}

Init ==
  /\ bLog = [n \in Names |-> <<None>>]
  /\ bSeen = [n \in Names |-> 1]
  /\ rbLog = [n \in Names |-> <<None>>]
  /\ rbSeen = [n \in Names |-> 1]
  /\ queue = {} /\ backoff = {} /\ periodic = {}
  /\ pc = "idle" /\ key = None /\ bAt = 0 /\ rbAt = 0
  /\ found = {} /\ verdict = [phase |-> "New", cause |-> "none"]
  /\ provider = "ok" /\ directory = "up" /\ dirLog = <<InitialGroups>>
  /\ now = 0
  /\ spent = [k \in Kinds |-> 0]

----------------------------------------------------------------------------
(* The worker. *)

\* Mutant of GoIdle: the finished request is kept.
GoIdleKeepingKey ==
  /\ pc' = "idle" /\ UNCHANGED <<key, bAt, rbAt>>
  /\ found' = {} /\ verdict' = [phase |-> "New", cause |-> "none"]

\* The worker is done with its request and forgets what it read.
GoIdle ==
  /\ pc' = "idle" /\ key' = None /\ bAt' = 0 /\ rbAt' = 0
  /\ found' = {} /\ verdict' = [phase |-> "New", cause |-> "none"]

\* markReady, markDegraded or markGroupNotFound is called with this outcome.
Mark(phase, cause) ==
  /\ pc' = "status"
  /\ verdict' = [phase |-> phase, cause |-> cause]
  /\ UNCHANGED <<key, bAt, rbAt, found>>

\* The copy of the binding this reconcile works on.
Snapshot == bLog[key][bAt]

\* The reply to an API call: accepted, refused without effect, or carried out
\* although the caller sees an error.
Replies == {"ok", "rejected", "lost"}
Replied(reply) ==
  IF reply = "ok" THEN UNCHANGED spent ELSE Spend("fault")

\* Watch events for n are still on their way.
Lagging(n) == bSeen[n] < Len(bLog[n]) \/ rbSeen[n] < Len(rbLog[n])

\* The worker takes a request; a binding the cache does not have ends it.
\* Reconciles on a lagging cache can repeat each other's writes for ever;
\* the "stale" budget bounds how many there are.
Start(n) ==
  /\ pc = "idle"
  /\ n \in queue
  /\ IF Lagging(n) THEN Spend("stale") ELSE UNCHANGED spent
  /\ queue' = queue \ {n}
  /\ IF Cached(bLog[n], bSeen[n]) = None
       THEN UNCHANGED worker
       ELSE /\ pc' = "provider" /\ key' = n /\ bAt' = bSeen[n]
            /\ UNCHANGED <<rbAt, found, verdict>>
  /\ UNCHANGED <<store, seen, backoff, periodic, outside>>

\* Mutant of ReadFails: every error is taken for NotFound and dropped.
ReadFailsSilently ==
  /\ pc = "provider"
  /\ Spend("fault")
  /\ GoIdle
  /\ UNCHANGED <<store, seen, sched, outside>>

\* A cached read of the binding or the provider fails: the error is returned
\* and no status is written.
ReadFails ==
  /\ pc = "provider"
  /\ Spend("fault")
  /\ backoff' = backoff \cup {key}
  /\ GoIdle
  /\ UNCHANGED <<store, seen, queue, periodic, outside>>

\* The provider is read and a directory client is built from it.
LoadProvider ==
  /\ pc = "provider"
  /\ CASE provider = "missing"  -> Mark("Degraded", "provider")
       [] provider = "unusable" -> Mark("Degraded", "secret")
       [] provider = "ok"       -> /\ pc' = "lookup"
                                   /\ UNCHANGED <<key, bAt, rbAt, found, verdict>>
  /\ UNCHANGED <<store, seen, sched, outside, spent>>

\* GetGroupMembers answers, or fails; a hung server does neither.
GetGroupMembers ==
  /\ pc = "lookup"
  /\ directory # "hung"
  /\ LET answer == Live(dirLog)[Snapshot.group] IN
       CASE directory = "down" -> Mark("Degraded", "ldap")
         [] directory = "up" /\ answer = None -> Mark("GroupNotFound", "none")
         [] directory = "up" /\ answer # None ->
              /\ pc' = "diff" /\ found' = answer
              /\ UNCHANGED <<key, bAt, rbAt, verdict>>
  /\ UNCHANGED <<store, seen, sched, outside, spent>>

\* BuildRoleBinding with the controller reference set.
Desired == [role |-> Snapshot.role, subjects |-> found,
            owner |-> Snapshot.uid, by |-> "operator"]

\* Mutant of InSync: only one half of the comparison.
InSyncIgnoringOwner(existing) == existing.subjects = Desired.subjects

\* SubjectsEqual and equal OwnerReferences; the roleRef is compared before.
InSync(existing) ==
  /\ existing.subjects = Desired.subjects
  /\ existing.owner = Desired.owner

\* reconcileRoleBinding compares the cached RoleBinding with the desired one.
Diff ==
  /\ pc = "diff"
  /\ LET existing == Cached(rbLog[key], rbSeen[key])
         Then(step) == /\ pc' = step /\ rbAt' = rbSeen[key]
                       /\ UNCHANGED <<key, bAt, found, verdict>>
     IN  CASE existing = None -> Then("create")
           [] existing # None /\ existing.role # Desired.role -> Then("delete")
           [] existing # None /\ existing.role = Desired.role /\ InSync(existing) ->
                Mark("Ready", "none")
           [] existing # None /\ existing.role = Desired.role /\ ~InSync(existing) ->
                Then("update")
  /\ UNCHANGED <<store, seen, sched, outside, spent>>

\* The cached read of the RoleBinding fails.
DiffFails ==
  /\ pc = "diff"
  /\ Spend("fault")
  /\ Mark("Degraded", "api")
  /\ UNCHANGED <<store, seen, sched, outside>>

\* Mutant of WriteRoleBinding: the error of the write is not looked at.
WriteIgnoringErrors(reply, possible, version, after) ==
  /\ Replied(reply)
  /\ rbLog' = IF possible /\ reply # "rejected"
                THEN [rbLog EXCEPT ![key] = Append(@, version)]
                ELSE rbLog
  /\ after
  /\ UNCHANGED <<bLog, seen, sched, outside>>

\* One write of the worker to the RoleBinding: possible is what the API
\* server requires, version what it stores, after what follows a success.
WriteRoleBinding(reply, possible, version, after) ==
  /\ Replied(reply)
  /\ rbLog' = IF possible /\ reply # "rejected"
                THEN [rbLog EXCEPT ![key] = Append(@, version)]
                ELSE rbLog
  /\ IF possible /\ reply = "ok" THEN after ELSE Mark("Degraded", "api")
  /\ UNCHANGED <<bLog, seen, sched, outside>>

\* Create fails with AlreadyExists when the name is taken.
Create(reply) ==
  /\ pc = "create"
  /\ WriteRoleBinding(reply, Live(rbLog[key]) = None, Desired,
                      Mark("Ready", "none"))

\* Mutant of Delete: the members are looked up again before the re-creation.
DeleteThenRequery(reply) ==
  /\ pc = "delete"
  /\ WriteRoleBinding(reply, Live(rbLog[key]) # None, None,
                      pc' = "lookup" /\ UNCHANGED <<key, bAt, rbAt, found, verdict>>)

\* Delete names the object and states no precondition: whatever is live goes.
Delete(reply) ==
  /\ pc = "delete"
  /\ WriteRoleBinding(reply, Live(rbLog[key]) # None, None,
                      pc' = "create" /\ UNCHANGED <<key, bAt, rbAt, found, verdict>>)

\* Mutant of Update: the owner reference is left as it was found.
UpdateKeepingOwner(reply) ==
  /\ pc = "update"
  /\ WriteRoleBinding(reply, rbAt = Len(rbLog[key]),
                      [rbLog[key][rbAt] EXCEPT !.subjects = Desired.subjects,
                                               !.by = "operator"],
                      Mark("Ready", "none"))

\* Update carries the resourceVersion that was read, and keeps the roleRef.
Update(reply) ==
  /\ pc = "update"
  /\ WriteRoleBinding(reply, rbAt = Len(rbLog[key]),
                      [rbLog[key][rbAt] EXCEPT !.subjects = Desired.subjects,
                                               !.owner = Desired.owner,
                                               !.by = "operator"],
                      Mark("Ready", "none"))

\* Mutants of MarkedStatus: observedGeneration is set once only; failures do
\* not touch the conditions; failures overwrite the last known-good members.
MarkedWithFirstGeneration(b) ==
  [b.status EXCEPT !.phase = verdict.phase, !.cause = verdict.cause,
                   !.gen = IF @ = 0 THEN b.gen ELSE @,
                   !.members = IF verdict.phase = "Ready" THEN found ELSE @,
                   !.syncTime = IF verdict.phase = "Ready" THEN now ELSE @]
MarkedOnlyWhenReady(b) ==
  IF verdict.phase # "Ready" THEN b.status
  ELSE [phase |-> "Ready", cause |-> "none", gen |-> b.gen, members |-> found,
        syncTime |-> now]
MarkedFromScratch(b) ==
  [phase |-> verdict.phase, cause |-> verdict.cause, gen |-> b.gen,
   members |-> found, syncTime |-> now]

\* The status markReady, markDegraded and markGroupNotFound compute.
MarkedStatus(b) ==
  LET common == [b.status EXCEPT !.phase = verdict.phase,
                                 !.cause = verdict.cause,
                                 !.gen = b.gen]
  IN  IF verdict.phase = "Ready"
        THEN [common EXCEPT !.members = found, !.syncTime = now]
        ELSE common

\* Status().Update: refused when the binding has moved on, no new revision
\* when nothing changes.  An error, and markDegraded's own cause, go to the
\* rate limiter; otherwise the request comes back after the sync interval.
WriteStatus(reply) ==
  LET old == Snapshot
      new == [old EXCEPT !.status = MarkedStatus(old)]
      current == bAt = Len(bLog[key])
      ok == current /\ reply = "ok"
  IN
  /\ pc = "status"
  /\ Replied(reply)
  /\ bLog' = IF current /\ reply # "rejected" /\ new # old
               THEN [bLog EXCEPT ![key] = Append(@, new)]
               ELSE bLog
  /\ backoff' = IF ok /\ verdict.phase # "Degraded" THEN backoff
                ELSE backoff \cup {key}
  /\ periodic' = IF ok /\ verdict.phase # "Degraded" /\ SyncInterval > 0
                   THEN periodic \cup {key} ELSE periodic
  /\ GoIdle
  /\ UNCHANGED <<rbLog, seen, queue, outside>>

WorkerStep ==
  \/ LoadProvider \/ GetGroupMembers \/ Diff
  \/ \E reply \in Replies :
       Create(reply) \/ Delete(reply) \/ Update(reply) \/ WriteStatus(reply)

----------------------------------------------------------------------------
(* What triggers the worker: informers and timers. *)

\* For(&RBACGroupBinding{}): every event enqueues the object's key.
DeliverBinding(n) ==
  /\ bSeen[n] < Len(bLog[n])
  /\ bSeen' = [bSeen EXCEPT ![n] = @ + 1]
  /\ queue' = queue \cup {n}
  /\ UNCHANGED <<store, rbSeen, backoff, periodic, worker, outside, spent>>

Owned(rb) == rb # None /\ rb.owner # 0

\* Owns(&RoleBinding{}): an event enqueues the controller owner of the old and
\* of the new object; one without an owner enqueues nothing.
DeliverRoleBinding(n) ==
  /\ rbSeen[n] < Len(rbLog[n])
  /\ rbSeen' = [rbSeen EXCEPT ![n] = @ + 1]
  /\ queue' = IF Owned(rbLog[n][rbSeen[n]]) \/ Owned(rbLog[n][rbSeen[n] + 1])
                THEN queue \cup {n} ELSE queue
  /\ UNCHANGED <<store, bSeen, backoff, periodic, worker, outside, spent>>

BackoffFires(n) ==
  /\ n \in backoff
  /\ backoff' = backoff \ {n}
  /\ queue' = queue \cup {n}
  /\ UNCHANGED <<store, seen, periodic, worker, outside, spent>>

PeriodicFires(n) ==
  /\ n \in periodic
  /\ periodic' = periodic \ {n}
  /\ queue' = queue \cup {n}
  /\ UNCHANGED <<store, seen, backoff, worker, outside, spent>>

\* The process dies and a new one lists everything: timers, the queue and the
\* reconcile in flight are lost, caches start at the live objects, and every
\* binding that exists is enqueued.
Crash ==
  /\ Spend("crash")
  /\ bSeen' = [n \in Names |-> Len(bLog[n])]
  /\ rbSeen' = [n \in Names |-> Len(rbLog[n])]
  /\ queue' = {n \in Names : Live(bLog[n]) # None}
  /\ backoff' = {} /\ periodic' = {}
  /\ GoIdle
  /\ UNCHANGED <<store, outside>>

----------------------------------------------------------------------------
(* The environment: users, garbage collector, provider, directory, clock. *)

Inside == <<seen, sched, worker>>

CreateBinding(n, g, r) ==
  /\ Live(bLog[n]) = None
  /\ Spend("edit")
  /\ bLog' = [bLog EXCEPT ![n] = Append(@,
       [uid |-> Len(bLog[n]), gen |-> 1, group |-> g, role |-> r,
        status |-> NewStatus])]
  /\ UNCHANGED <<rbLog, Inside, outside>>

EditSpec(n, g, r) ==
  LET b == Live(bLog[n]) IN
  /\ b # None
  /\ <<b.group, b.role>> # <<g, r>>
  /\ Spend("edit")
  /\ bLog' = [bLog EXCEPT ![n] = Append(@,
       [b EXCEPT !.gen = @ + 1, !.group = g, !.role = r])]
  /\ UNCHANGED <<rbLog, Inside, outside>>

DeleteBinding(n) ==
  /\ Live(bLog[n]) # None
  /\ Spend("edit")
  /\ bLog' = [bLog EXCEPT ![n] = Append(@, None)]
  /\ UNCHANGED <<rbLog, Inside, outside>>

\* Someone else edits the RoleBinding's subjects, possibly dropping the owner
\* reference; the API server keeps the roleRef.
EditRoleBinding(n, s, drop) ==
  LET rb == Live(rbLog[n])
      o == IF drop THEN 0 ELSE rb.owner IN
  /\ rb # None
  /\ <<rb.subjects, rb.owner>> # <<s, o>>
  /\ Spend("drift")
  /\ rbLog' = [rbLog EXCEPT ![n] = Append(@,
       [rb EXCEPT !.subjects = s, !.owner = o, !.by = "user"])]
  /\ UNCHANGED <<bLog, Inside, outside>>

DeleteRoleBinding(n) ==
  /\ Live(rbLog[n]) # None
  /\ Spend("drift")
  /\ rbLog' = [rbLog EXCEPT ![n] = Append(@, None)]
  /\ UNCHANGED <<bLog, Inside, outside>>

CreateRoleBinding(n, r, s) ==
  /\ Live(rbLog[n]) = None
  /\ Spend("drift")
  /\ rbLog' = [rbLog EXCEPT ![n] = Append(@,
       [role |-> r, subjects |-> s, owner |-> 0, by |-> "user"])]
  /\ UNCHANGED <<bLog, Inside, outside>>

OwnerGone(n) ==
  /\ Owned(Live(rbLog[n]))
  /\ Live(bLog[n]) # None => Live(bLog[n]).uid # Live(rbLog[n]).owner

\* The garbage collector removes a RoleBinding whose owner no longer exists.
Collect(n) ==
  /\ OwnerGone(n)
  /\ rbLog' = [rbLog EXCEPT ![n] = Append(@, None)]
  /\ UNCHANGED <<bLog, Inside, outside, spent>>

\* An LDAPProvider or Secret event: mapProviderToRBACGroupBindings and
\* mapSecretToRBACGroupBindings enqueue every binding the cache holds, or none
\* when listing them fails.  The event may leave the provider as usable as it
\* was (a status write).
ChangeProvider(p, listed) ==
  /\ Spend("directory")
  /\ provider' = p
  /\ queue' = queue \cup {n \in Names : listed /\ Cached(bLog[n], bSeen[n]) # None}
  /\ UNCHANGED <<store, seen, backoff, periodic, worker, directory, dirLog, now>>

ChangeReachability(d) ==
  /\ d # directory
  /\ Spend("directory")
  /\ directory' = d
  /\ UNCHANGED <<store, Inside, provider, dirLog, now>>

ChangeGroup(g, m) ==
  /\ Live(dirLog)[g] # m
  /\ Spend("directory")
  /\ dirLog' = Append(dirLog, [Live(dirLog) EXCEPT ![g] = m])
  /\ UNCHANGED <<store, Inside, provider, directory, now>>

Tick ==
  /\ Spend("tick")
  /\ now' = now + 1
  /\ UNCHANGED <<store, Inside, provider, directory, dirLog>>

Providers == {"ok", "missing", "unusable"}
Reachabilities == {"up"} \cup Outages

Environment ==
  \/ \E n \in Names :
       \/ \E g \in Groups, r \in Roles : CreateBinding(n, g, r) \/ EditSpec(n, g, r)
       \/ DeleteBinding(n)
       \/ \E s \in Memberships, drop \in BOOLEAN : EditRoleBinding(n, s, drop)
       \/ DeleteRoleBinding(n)
       \/ \E r \in Roles, s \in Memberships : CreateRoleBinding(n, r, s)
       \/ Collect(n)
  \/ \E p \in Providers, listed \in BOOLEAN : ChangeProvider(p, listed)
  \/ \E d \in Reachabilities : ChangeReachability(d)
  \/ \E g \in Groups, m \in {None} \cup Memberships : ChangeGroup(g, m)
  \/ Tick

Next ==
  \/ \E n \in Names :
       \/ Start(n) \/ DeliverBinding(n) \/ DeliverRoleBinding(n)
       \/ BackoffFires(n) \/ PeriodicFires(n)
  \/ ReadFails \/ DiffFails \/ WorkerStep
  \/ Crash
  \/ Environment

Spec == Init /\ [][Next]_vars

(***************************************************************************)
(* Fairness.  The worker keeps running while the directory answers; a      *)
(* delivered event, a due timer and the garbage collector are not postponed*)
(* for ever; the workqueue is first-in first-out, so that a key that stays *)
(* queued is taken although the worker is busy in between.                 *)
(***************************************************************************)
Fairness ==
  /\ WF_vars(WorkerStep)
  /\ \A n \in Names :
       /\ SF_vars(Start(n))
       /\ WF_vars(DeliverBinding(n))
       /\ WF_vars(DeliverRoleBinding(n))
       /\ WF_vars(BackoffFires(n))
       /\ WF_vars(PeriodicFires(n))
       /\ WF_vars(Collect(n))

FairSpec == Spec /\ Fairness

----------------------------------------------------------------------------
(* Properties. *)

\* The parts of TypeOK: the logs and the caches' positions in them, the
\* schedule, the worker, and what is outside the operator.
StoreTypeOK ==
  /\ bLog \in [Names -> Seq({None} \cup Binding)]
  /\ rbLog \in [Names -> Seq({None} \cup RoleBinding)]
  /\ bSeen \in [Names -> Nat]
  /\ rbSeen \in [Names -> Nat]
  /\ \A n \in Names : /\ bSeen[n] \in 1..Len(bLog[n])
                      /\ rbSeen[n] \in 1..Len(rbLog[n])

SchedTypeOK ==
  queue \subseteq Names /\ backoff \subseteq Names /\ periodic \subseteq Names

WorkerTypeOK ==
  /\ pc \in PCs
  /\ key \in {None} \cup Names
  /\ pc = "idle" <=> key = None
  /\ bAt \in Nat /\ rbAt \in Nat
  /\ found \in Memberships
  /\ verdict \in [phase : Phases, cause : Causes]

OutsideTypeOK ==
  /\ provider \in Providers
  /\ directory \in Reachabilities
  /\ dirLog \in Seq(Directory) /\ Len(dirLog) > 0
  /\ now \in Nat
  /\ spent \in [Kinds -> Nat]

\* Types of all variables: logs are never empty, a cache position is a
\* position of its log, and the worker holds a request only while it is busy.
TypeOK == StoreTypeOK /\ SchedTypeOK /\ WorkerTypeOK /\ OutsideTypeOK

\* m was, at some moment, what the directory held for group g.
Answered(g, m) == \E d \in 1..Len(dirLog) : dirLog[d][g] = m

\* No mixing of grants: whenever the operator was the last to write a
\* RoleBinding, its roleRef, its owner and its subjects come from one and the
\* same accepted spec, and the subjects are an actual membership of that
\* spec's group - however stale the caches were and whatever a user, an old
\* namesake or a lost reply did in between (reconcileRoleBinding).
GrantsFromOneSpec ==
  \A n \in Names : \A i \in 1..Len(rbLog[n]) :
    LET rb == rbLog[n][i] IN
    rb # None /\ rb.by = "operator" =>
      \E v \in 1..Len(bLog[n]) :
        LET b == bLog[n][v] IN
        /\ b # None
        /\ b.uid = rb.owner
        /\ b.role = rb.role
        /\ Answered(b.group, rb.subjects)

\* Ready is earned: every status that says Ready was preceded by a RoleBinding
\* owned by that very binding, with the role the spec had at the observed
\* generation and with exactly the members the status reports (markReady).
ReadyWasEarned ==
  \A n \in Names : \A v \in 1..Len(bLog[n]) :
    LET b == bLog[n][v] IN
    b # None /\ b.status.phase = "Ready" =>
      \E i \in 1..Len(rbLog[n]), u \in 1..v :
        LET rb == rbLog[n][i]
            then == bLog[n][u] IN
        /\ rb # None /\ then # None
        /\ then.uid = b.uid /\ then.gen = b.status.gen
        /\ rb.role = then.role
        /\ rb.owner = b.uid
        /\ rb.subjects = b.status.members

\* A reconcile of n is certain to come: it is queued, waiting on a timer or in
\* flight, or a watch event that will enqueue it has not been delivered yet.
Scheduled(n) ==
  \/ n \in queue \cup backoff \cup periodic
  \/ key = n
  \/ bSeen[n] < Len(bLog[n])

\* No binding is ever forgotten: whatever fails, and in whatever order, each
\* existing binding has a further reconcile coming (Reconcile's results,
\* ldapprovider_types.go: "how often bindings referencing this provider
\* re-query group membership").
NeverForgotten == \A n \in Names : Live(bLog[n]) # None => Scheduled(n)

\* Nothing but the periodic timer is left to do for n.
Quiet(n) ==
  /\ n \notin queue \cup backoff
  /\ key # n
  /\ bSeen[n] = Len(bLog[n])
  /\ rbSeen[n] = Len(rbLog[n])

\* The RoleBinding is what the binding's spec and status promise.
Matches(b, rb) ==
  /\ rb # None
  /\ rb.role = b.role /\ rb.owner = b.uid /\ rb.subjects = b.status.members

\* A binding at rest tells the truth: its status is about the current
\* generation, it is not Degraded, and if it says Ready then the live
\* RoleBinding has its role, its owner and the members it reports - drift,
\* stale caches and failed status writes included.
QuietMeansSynced ==
  \A n \in Names :
    LET b == Live(bLog[n]) IN
    b # None /\ Quiet(n) =>
      /\ b.status.gen = b.gen
      /\ b.status.phase \in {"Ready", "GroupNotFound"}
      /\ b.status.phase = "Ready" => Matches(b, Live(rbLog[n]))

\* The fail-safe contract of markDegraded and markGroupNotFound: a binding
\* that has synced once and is now Degraded or GroupNotFound still has the
\* RoleBinding that serves its last known-good state.  The instant between the
\* two calls that replace a RoleBinding to apply a roleRef edit is exempt.
FailSafe ==
  \A n \in Names :
    LET b == Live(bLog[n]) IN
    (b # None /\ b.status.phase \in {"Degraded", "GroupNotFound"}
              /\ b.status.syncTime # None
              /\ ~(key = n /\ pc = "create")) =>
      Live(rbLog[n]) # None /\ Live(rbLog[n]).owner = b.uid

\* The contract holds as long as no API call fails, the process lives and
\* nobody else touches the RoleBinding: no outage of the directory, vanished
\* group, unusable provider or stale cache, at whatever step of a reconcile,
\* costs a binding its access (reconcileRoleBinding, markDegraded).
OutageIsSafe ==
  (\A k \in {"fault", "crash", "drift"} : spent[k] = 0) => FailSafe

\* The live RoleBinding is what the live spec and the directory's present
\* content ask for; without a binding there is nothing the operator owns.
Synced(n) ==
  LET b == Live(bLog[n])
      rb == Live(rbLog[n]) IN
  IF b = None
    THEN ~Owned(rb)
    ELSE /\ Live(dirLog)[b.group] # None =>
              /\ b.status.phase = "Ready" /\ b.status.gen = b.gen
              /\ Matches(b, rb)
              /\ rb.subjects = Live(dirLog)[b.group]
         /\ Live(dirLog)[b.group] = None =>
              b.status.phase = "GroupNotFound" /\ b.status.gen = b.gen

Healthy == provider = "ok" /\ directory = "up"

\* Convergence: once the provider is usable, the directory answers and users
\* leave the objects alone, every binding ends up with exactly the grants the
\* directory holds, its status says so, and RoleBindings of deleted bindings
\* are gone - after any crash, lost reply, drift or rename on the way.
Converges == <>[]Healthy => <>[](\A n \in Names : Synced(n))

\* An outage surfaces: while the directory stays unreachable a binding is
\* eventually marked Degraded (markDegraded: "it only surfaces as a status
\* condition").
OutageSurfaces ==
  \A n \in Names :
    <>[](Live(bLog[n]) # None /\ directory \in {"down", "hung"}) =>
      <>[](Live(bLog[n]) # None /\ Live(bLog[n]).status.phase = "Degraded")

=============================================================================
