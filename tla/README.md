# Formal models of directory-rbac-operator

The operator keeps Kubernetes `RoleBinding`s and `ClusterRoleBinding`s in step
with the membership of LDAP groups. This directory holds TLA+ models of its
control logic, TLC configurations that check them on small instances, and
TLAPS proofs of the safety properties for all instances. `PROJECT.json` is
the index: components, runs, mutants, the definition-to-source map, findings,
hazards and theorems.

Run a model with `tlc -config <run>.cfg <module>` and the proofs with `tlapm`
on each `*Proofs.tla`.

## 1. Inventory

| Part | Source | State it keeps | Operations | What is hard about it |
|---|---|---|---|---|
| RBACGroupBinding reconciler | `internal/controller/rbacgroupbinding_controller.go`, `mappers.go`, `rbacsync/rolebinding.go` | nothing of its own: the RoleBinding and the binding's status in the API server; workqueue, rate limiter and timers in controller-runtime | `Reconcile`, `reconcileRoleBinding` (create, delete and recreate, update), `markReady` / `markDegraded` / `markGroupNotFound`, watch handlers | reads come from a lagging cache, each write can be refused or its reply lost, specs and RoleBindings change under a running reconcile, a roleRef edit takes two calls, the process may die between any two calls |
| ClusterRBACGroupBinding reconciler | `clusterrbacgroupbinding_controller.go`, `rbacsync/clusterrolebinding.go` | the same, cluster-scoped | the same | the same, and for both: a sync triggers the next one through its own status write, and four sources of requests share one queue |
| LDAPProvider reconciler | `ldapprovider_controller.go`, `indexers.go` | finalizer, conditions, `observedGeneration` | `Reconcile`, `finalize`, `hasDependents`, mark functions | the finalizer must be stored before it is needed; the dependents list comes from a cached index; bindings leaving are noticed by a timer only; the health check waits for a directory that may never answer |
| Rate limiter registry | `ldapclient/ratelimit.go` | one limiter per provider, in memory | `Get`, `Delete` | shared by all workers, deleted by one of them; all bindings of a provider and its health check queue for it |
| Readiness probe | `controller/readiness.go` | none | `Check` | reads nothing but the cached Ready conditions |
| LDAP client | `ldapclient/client.go`, `grouper.go` | a connection per call | `Ping`, `GetGroupMembers` | the group, the pages and the fallback lookups are read at different times of a changing directory; any request can fail; parts of the directory are answered with referrals; a server can hang |
| GrouperFactory | `controller/grouperfactory.go` | none | `Grouper`, `Pinger` | reads Secrets, takes the limiter |
| RBAC builders and diff | `rbacsync/` | none | `Subjects`, `SubjectsEqual`, `PreviewMembers`, `MemberCount`, `MembersHash` | order, repetitions, caps |
| Validating webhooks | `webhook/` | none | `ValidateCreate`, `ValidateUpdate`, `ValidateDelete`, `rejectDuplicate` | decide on a cache, before the object is stored; concurrent admissions; updates made by the garbage collector |
| API types | `api/v1alpha1/` | object schemas | - | - |
| Manager, metrics, events, chart | `main.go`, `metrics/`, `events.go`, `charts/` | - | wiring and output | not modelled, see section 7 |

How they interact: the binding reconcilers are triggered by events of their own
bindings, of the RoleBindings they own, and (through `mappers.go`) of
LDAPProviders and Secrets. They read the provider, obtain a client from
GrouperFactory, which takes the provider's limiter from the registry, and ask
the LDAP client for members. The provider reconciler pings through the same
client and registry and guards deletion with a finalizer while bindings refer
to it. The readiness probe reads the provider's condition; a pod that is not
ready is no endpoint of the webhook service, and the webhooks fail closed. All
parts talk through the API server, with informer caches in between. Each
controller has one worker (`MaxConcurrentReconciles` is left at its default).

What makes the parts correct, in short:

* binding reconciler: what it writes is an answer of the directory for a spec
  that was really accepted, with that spec's role and owner; Ready is never
  claimed without a RoleBinding to show for it; outages do not revoke; nothing
  is forgotten; everything converges;
* provider reconciler: protected before it is published; in-use providers stay;
  unused ones go; the health report follows reality;
* LDAP client: no phantom members, no lost members that the server can resolve
  under the search base, no unprotected credentials;
* cadence: no change of a binding, provider or Secret is overlooked, memberships
  are never older than the interval, and the operator comes to rest in between;
* webhooks: no duplicate mappings, no obstruction of deletions.

The hazards behind these are listed line by line in `PROJECT.json`.

## 2. Modules

| Module | Models | Extends |
|---|---|---|
| `BindingReconciler` | the binding reconciler with API server, informers, workqueue, garbage collector, users, directory, clock and restarts | - |
| `BindingContract` | what a binding reconciler promises, without workers, caches, queues and retries | - |
| `BindingRefinement` | the mapping under which `BindingReconciler` implements `BindingContract` | `BindingReconciler`, instantiates `BindingContract` |
| `BindingReconcilerProofs` | theorems about what the binding reconciler writes and schedules | `BindingReconciler`, `TLAPS` |
| `BindingStatusProofs` | theorems about what a binding at rest, and one in an outage, can rely on | `BindingReconcilerProofs` |
| `BindingRefinementProofs` | that `BindingReconciler` implements `BindingContract` | `BindingRefinement`, `BindingReconcilerProofs` |
| `ProviderLifecycle` | provider reconciler, limiter registry, readiness probe, and of the bindings whether they refer to the provider | - |
| `ProviderLifecycleProofs` | theorems about it | `ProviderLifecycle`, `TLAPS` |
| `GroupResolution` | `Ping` and `GetGroupMembers`, request by request, against a changing directory | - |
| `GroupResolutionProofs` | theorems about it | `GroupResolution`, `TLAPS` |
| `DuplicateWebhook` | both validators, the API server's admission and storage, the readiness of the pods that serve them, and the garbage collector's finalizer update | - |
| `DuplicateWebhookProofs` | theorems about it | `DuplicateWebhook`, `TLAPS` |
| `SyncCadence` | the cluster-scoped reconciler and the provider health check in time: watches and their mapping functions, timers, client construction, the shared limiter | `SequencesExt` |
| `SyncCadenceProofs` | theorems about it | `SyncCadence`, `FiniteSetTheorems`, `TLAPS` |
| `RBACSync` | package `rbacsync` as operators | `SequencesExt` |
| `RBACSyncProofs` | theorems about it | `RBACSync`, `FiniteSetTheorems`, `SequenceTheorems`, `TLAPS` |
| `MC*` | instances: model values and budgets | the module of the same name (`MCBindingReconciler`: `BindingRefinement`) |

### BindingReconciler

The API server is an append-only log of revisions per object: the last entry is
the live object, the index is its resourceVersion, `None` is "no object". An
informer cache is a position in the log (`bSeen`, `rbSeen`): reads may be stale
but are never invented, and the entries past the position are the watch events
still to be delivered. Optimistic concurrency is `at = Len(log)`.

One reconcile is the chain `Start` (Get binding), `LoadProvider` (Get provider,
build client), `GetGroupMembers`, `Diff` (cached Get of the RoleBinding and the
comparisons), `Create` / `Delete` / `Update`, and `WriteStatus` (which contains
`markReady`, `markDegraded` or `markGroupNotFound` and the returned
`ctrl.Result`). Each is one step, so that everything else can happen in
between. An API write has three replies: `ok`, `rejected` (no effect), and
`lost` (carried out, but the caller sees an error). `ReadFails` and `DiffFails`
are failing reads. `DeliverBinding`, `DeliverRoleBinding` and `ChangeProvider`
are the watch handlers: an event of a RoleBinding enqueues its controller owner
only, and a provider event enqueues the bindings the cache knows, or none when
listing them fails. `Crash` loses queue, timers and the reconcile in flight and
rebuilds the caches.

Abstractions. The three conditions always move together and are one `phase`;
a message is its `cause`. `MemberCount`, `MembersPreview` and `MembersHash` are
one member set (their computation is `RBACSync`). Subjects are a set of users:
their order and repetitions are `RBACSync`'s subject. All bindings refer to one
provider. `uid` is the revision at which an object was created. Events and
metrics are left out; no decision reads them.

The ClusterRBACGroupBinding reconciler has the same control statement for
statement, with `clusterRoleRef` for `roleRef`; read `Names` as cluster-scoped
names for it. What this module leaves out of both, time and what they share
with the provider's health check, is `SyncCadence`.

### BindingContract and BindingRefinement

The contract says of each change to the cluster who may make it. *Grant*: role,
owner and members come from one accepted spec and one answer of the directory,
and a live RoleBinding never changes its role. *Withdraw*: only for a role that
was asked for and differs from one that was granted, with members at hand to
grant it to. *Report*: for the live generation only; Ready only with members
that have been granted under the live spec's role and owner; otherwise the
members last reported stay; GroupNotFound only when the directory has said so.
`Submit`, `Learn`, `Meddle` and `Collect` leave users, directory and garbage
collector free.

The mapping reads everything from the logs: the live spec, grant and status are
their last entries, `accepted`, `granted` and `answers` the sets of all entries.
Queue, caches, timers, the worker and the clock have no counterpart: a step of
those alone is a stuttering step of the contract. `meddled` (the foreign writes
counted against the budget) tells a foreign deletion from one by the operator.
`KeepsContract` is the contract's `Spec` under the mapping, a `PROPERTY` of
`core_live` and proved for all instances (`Refinement`).

### ProviderLifecycle

`Start`, `AddFinalizer`, `Validate`, `Pinger` (the client is built), `Ping` (it
binds), `WriteStatus` and `Finalize`, `RemoveFinalizer` are the two branches of
`Reconcile`; `ReadFails`, `PingerFails` and `ListFails` its error returns. The
directory is up, down (a bind is refused) or hung (it is never answered):
`connectAndBind` sets a timeout only for a context with a deadline and
`Reconcile` passes one without, so that `Ping` has no step while the directory
hangs (`Stuck`). The two liveness properties name this exception; section 6 says
what it costs. `refs` are the bindings that
refer to the provider, `refsSeen` the cached index. `BindingReadsProvider` and
`BindingTakesLimiter` are the two moments of a binding worker that matter to
the registry. `ReadyzOK` is the probe. `steady` is a history variable.

### GroupResolution

A call is `Begin`, `Dial`, `StartTLS`, `Bind`, `LookupGroup`, `Page`*,
`PagesDone` and, for the fallback, `LookupUsername`*, `MembersDone`; any request
may fail (`RequestFails`). The directory changes between requests (`Change`).
What a server answers to `memberOf` depends on its type (`MatchedBy`): this is
external, taken from what the comments in `client.go` rely on, with an overlay
of OpenLDAP covering whichever attributes its groups use. A DN stands for
its username, or has none (`Named`).

Entries may lie in another naming context (`Foreign`), under the search base or
not. `Page` gets only continuation referrals for them, which the client logs and
does not follow, and `LookupUsername` a referral in place of the entry, which is
skipped; a group there, or a referral in place of a whole page, is an error
(`RequestFails`). A group may list members under `member`, `uniqueMember` or
both (`cfg.unique`); the fallback reads the second only when the first is empty.
`Overlooked` are the members the client cannot find for these two reasons: the
foreign ones and, in groups that use both attributes, those under `uniqueMember`.
`SteadyMemberKept` and `UndisturbedCallExact` say in their formulas that these
are excepted; section 6 says why the exception is needed. `Resolvable`, by
which the second is measured, is the membership of the group, not what one of
the client's two paths would return. `ever`, `always` and `changed` are the
history of the call in progress.

### DuplicateWebhook

`Validate` runs the duplicate check of the validator for one request on one
ready replica's cache: `RejectDuplicate` among the bindings of a namespace,
`RejectClusterDuplicate` among all ClusterRBACGroupBindings; a behaviour starts
with one of the choices of `Scopes`. `Persist` is the later storage of an
admitted object; `Unavailable` is `failurePolicy=fail`; `ListFails` a failing
list. `FinishDeletion` is the update by which the garbage collector removes the
foreground-deletion finalizer.

The readiness probe is part of this model because it decides whether there is a
validator to ask: `Check` reads the Ready conditions of all providers in the
replica's cache (`view`), `Probe` is the kubelet's probe, which makes the pod an
endpoint of the service or takes it out (`ready`). `ChangeHealth` is the provider
reconciler seen from here: a condition changes, or a provider comes or goes;
`DeliverHealth` is the informer. Which health a condition stands for is
`ProviderLifecycle`'s subject.

### SyncCadence

Time advances in ticks, a few to a second, and only when no worker, informer or
due timer can do anything (`Tick`): controllers take no time, waiting for the
limiter and for the directory does. Stored timestamps have whole seconds, so
that the state keeps of each only whether it is of the current second
(`stamped`); delays are the ticks left (`due`).

The two workers take `Take`, `LoadProvider` or `Protect`, `BuildClient`,
`RequestDone`, `Apply` and `WriteStatus` with `Finish`. `BuildClient` is
GrouperFactory: both Secrets from the cache, no client when one is unusable,
and `Connect`: `Limiter.Wait` reserves a token in the order of the callers
(`tokens` below zero) and sleeps until it is due. `Finish` is the workqueue's
side of `ctrl.Result`: an entry that is queued absorbs a delayed one, the
earlier of two delays wins. `WriteStatus` raises an event exactly when the
stored status differs, timestamp included. `Deliver` is the watch: it maps the
object through `MapProvider`, `MapSecret` (over `SecretRefs`, the index) or the
owner to requests, or to none when a list fails.

Simplified: reconcileClusterRoleBinding and the reads of the two Secrets are one
step each; there are no deletions and restarts (see `BindingReconciler` for
both); the provider is `ldaps://`; all bindings have the provider's interval;
the backoff is one fixed delay. The workqueue is first-in first-out, as the
priority queue of controller-runtime 0.24 is among requests of one priority: the
lower priority it gives to the events of an initial list has no part here, since
the model starts with empty queues and has no restarts. An event carries the newest state: several
changes of one object may reach the informer as one.

### RBACSync

Operators for `Subjects`, `sortedSubjects`, `SubjectsEqual`, `PreviewMembers`,
`MemberCount` and the update of a RoleBinding's subjects, driven by a small
state machine that reaches every pair of lists within the bound. A sorted copy
is what the sorting functions of the library promise, some rearrangement in
which nothing comes before something less: `sort.Slice` is not stable.

## 3. Runs

Bounds are *budgets*: the environment makes moves of several kinds (edits,
foreign writes, directory changes, failed calls, restarts, stale reconciles,
clock ticks), and a behaviour stays within one of the budgets of the run's set.
Several small budgets instead of one large one keep the combinations that
matter (two edits with a lost call and a restart; a foreign edit with a lost
call; an outage in a roleRef edit) without multiplying all of them. The steps
of the operator itself are never bounded, with one exception: reconciles that
start behind the informers' backlog are counted ("stale"), because each can
repeat the previous one's write and the log would grow for ever.

| Run | Checks | Shows |
|---|---|---|
| `core_safety` | `TypeOK`, `GrantsFromOneSpec`, `ReadyWasEarned`, `NeverForgotten`, `QuietMeansSynced`, `OutageIsSafe` | one name, one group with one user that come and go, two roles: two edits, with a lost call, restart and two stale reconciles; with a foreign write; with one or two directory changes |
| `core_live` | `Converges`, `OutageSurfaces`, `KeepsContract` | the grants converge after drift, a restart, an outage, delete and re-create with a lost call; a directory that is down shows as Degraded; every step is one that `BindingContract` allows |
| `core_degraded_loss` | `FailSafe` (violated) | finding 1 |
| `core_hung` | `OutageSurfaces` (violated) | finding 2 |
| `provider` | `TypeOK`, `StatusImpliesProtected`, `SteadyDependentsProtect`, `LimiterReleased`, `HealthConverges`, `DeletionCompletes` | two possible dependents, one of each kind; up to three edits including deletion and re-creation, two changes of the directory between up, down and hung, a fault, a restart |
| `provider_orphan` | `NeverOrphans` (violated) | finding 3 |
| `resolution` | `TypeOK`, `CredentialsProtected`, `UndisturbedCallExact`, `NoPhantomMember`, `SteadyMemberKept` | all directory types, overlays and initial memberships, one call, in three settings (`Directories`). `Torn`: three entries, one of them outside the search base, all under `member` or all under `uniqueMember`, pages of one entry, two changes and one failing request during the call. `TornForest`: one of three entries under the base is in another naming context, groups may use both attributes, one change and one failing request. `Still`: five entries, with one that has no username, one in another naming context and one outside the search base, all ways to list them, pages of two, all transports; the directory stands still, one request may fail |
| `webhook` | `TypeOK`, `SerialAdmissionsNeverDuplicate`, `DeletionHeldOnlyByDuplicate` | three bindings, in two namespaces or two of them cluster-scoped, two clients, one provider and one replica with a lagging cache: three admissions, or two with two deletions, or one of each with a failing list and two changes of the provider's health |
| `webhook_deletion_blocked` | `DeletionUnblocked` (violated) | finding 4 |
| `cadence` | `TypeOK`, `FreshAtRest`, `BoundedStaleness`, `Settles`, `Refreshed` | two bindings undisturbed; or one binding with a Secret rotation around an edit of the provider, a rotation whose fan-out is lost, a new role with a failing call, a provider created after its binding, or a group and a directory that change twice |
| `cadence_flood` | `Settles` (violated) | finding 5: three bindings on a limiter that lets three requests through in a second |
| `rbacsync` | `SubjectsEqualIsBagEquality`, `ReconcileIsIdempotent`, `SummaryIsHonest` | all lists up to length 3 over two names, three kinds and two namespaces; the preview cap is 1 and `MaxInt32` is 2 so that both limits are met |

Are the bounds enough? The protocols have at most three writes per reconcile
and one worker, so that an error needs few moves: each finding below takes one
or two moves of the environment, and each mutant in `PROJECT.json` (a plausible
bug put into the model) is caught within the same bounds. One name suffices for
the core because a reconcile touches only its own name's objects; what names
share is the worker, the queue and the provider. That a hung worker blocks all
names is visible with one. The safety properties that are proved do not depend
on the bounds at all.

The numbers of `cadence` stand for the real ones by their order: a second is 3
ticks, the limiter gives one token a tick and holds one (5 a second and 10 in
the code), the retry takes longer than a second and the interval longer than
that. What a due sync may have to wait beyond the interval is `Slack`, 7 ticks:
one retry (4) and the waits for the limiter behind the provider's health check
and the other binding; 6 is refuted by TLC. `age` is counted up to the first
value that violates `BoundedStaleness`. Each run of `cadence` is one of six
scenarios, which give the objects at the start and what may happen.

`CHECK_DEADLOCK FALSE` appears where the modelled part may really come to rest:
an empty cluster, a call that has returned, all requests answered.

## 4. Fairness

* `WF` of the worker's steps: a goroutine that can proceed does. A hung LDAP
  server disables the step (`GetGroupMembers` and the provider's `Ping` have the
  guard), because the reconcile contexts carry no deadline.
* `SF` of `Start(n)` in the binding model: the workqueue is first-in first-out,
  so a key that stays queued is taken although the worker is busy in between
  (with a priority queue, once those ahead of it are done; they are finitely
  many, as a key is queued once).
  `WF` suffices for the single provider.
* `WF` of informer deliveries, of the rate limiter and `RequeueAfter` timers
  and of the garbage collector: each is promised by Kubernetes or
  controller-runtime once its cause exists.
* Webhook: requests are answered, caches catch up, pods are probed, and the
  garbage collector repeats its update (`SF`, as it is interrupted by other
  requests). Health has no fairness: `DeletionHeldOnlyByDuplicate` excuses a
  provider that stays unhealthy.
* Cadence: `WF` of all that happens by itself (`System`: workers, informers,
  timers, time). Queues are sequences there, so that no key can be passed over,
  and time does not pass while something can be done.

Users, faults, crashes and the directory have no fairness.

## 5. Proofs

Each theorem holds for all sets of names, groups, roles, users, entries, pods
and so on, and for all budgets, intervals, latencies and rates.

| Theorem | States | In |
|---|---|---|
| `TypeCorrect` | `TypeOK` | `BindingReconcilerProofs`, `ProviderLifecycleProofs`, `GroupResolutionProofs`, `DuplicateWebhookProofs`, `SyncCadenceProofs` |
| `GrantsSound` | `GrantsFromOneSpec` | `BindingReconcilerProofs` |
| `ReadySound` | `ReadyWasEarned` | `BindingReconcilerProofs` |
| `AlwaysScheduled` | `NeverForgotten`, for `SyncInterval > 0` | `BindingReconcilerProofs` |
| `RestIsTruthful` | `QuietMeansSynced` | `BindingStatusProofs` |
| `OutagesAreSafe` | `OutageIsSafe` | `BindingStatusProofs` |
| `Refinement` | `KeepsContract`: `Spec` implements `BindingContract` | `BindingRefinementProofs` |
| `StatusSound` | `StatusImpliesProtected` | `ProviderLifecycleProofs` |
| `DependentsProtect` | `SteadyDependentsProtect` | `ProviderLifecycleProofs` |
| `NoLimiterLeaks` | `LimiterReleased` | `ProviderLifecycleProofs` |
| `CredentialsSafe` | `CredentialsProtected` | `GroupResolutionProofs` |
| `NobodyInvented` | `NoPhantomMember` | `GroupResolutionProofs` |
| `NobodyDropped` | `SteadyMemberKept` | `GroupResolutionProofs` |
| `UndisturbedExact` | `UndisturbedCallExact` | `GroupResolutionProofs` |
| `NoDuplicatesWithoutRace` | `SerialAdmissionsNeverDuplicate` | `DuplicateWebhookProofs` |
| `NothingOverlooked` | `FreshAtRest` | `SyncCadenceProofs` |
| `StalenessBounded` | `BoundedStaleness`, when `SlackSuffices` | `SyncCadenceProofs` |
| `ComparisonExact` | `SubjectsEqualIsBagEquality` | `RBACSyncProofs` |
| `ReconcileOnce` | `ReconcileIsIdempotent` | `RBACSyncProofs` |
| `StatusHonest` | `SummaryIsHonest` | `RBACSyncProofs` |

Assumptions, all named and evaluated by TLC in the runs: the types of the
constants (`ConstantsAssumption` in `BindingReconciler` and `ProviderLifecycle`,
`ResolutionAssumption`, `WebhookAssumption`, `CadenceAssumption`,
`SyncAssumption`), and that
`None` is no value of a kind it is told apart from (`NoneAssumption` in
`BindingReconciler` and `ProviderLifecycle`, `SpecAssumption` in
`BindingRefinement`; `KindsAssumption` in `SyncCadence`, which also keeps the
kinds of objects apart).

None of the properties of the reconcilers, the client and the webhooks is
inductive: they speak of what is stored, and a step stores what the actor read
several steps ago. The strengthening says in each case what the actor holds and
why it still counts. Each was checked by TLC before it was proved. The
properties of `RBACSync` hold in every state of the right types (`ListsOK`); the
work there is in the operators.

### Binding reconciler

`Base == TypeOK /\ WorkerInv`, where `WorkerInv` says what the worker holds:

* `HoldsSnapshot`: while busy, its copy of the binding is a revision of the log;
* `HoldsAnswer`: from `Diff` on, `found` was an answer for that copy's group;
* `HoldsRoleBinding`: an update is prepared only on a revision that already has
  the copy's roleRef (`Update` keeps the roleRef, so that this is what makes
  the update's result the desired object);
* `HoldsProof`: markReady runs only when some revision carries the desired
  grants.

These survive interleavings because logs only grow (`Growth`, `AnswersStay`): a
revision or an answer, once there, is there for ever. The theorems look only at
the revision a step appends (`Revisions`: by the worker, by a user, or none).
`NeverForgotten` is inductive relative to `Base`: a request leaves the queue only
into the worker, and the worker only into the rate limiter or the timer, or
when the cached binding is gone while the live one is not, and then an event is
outstanding.

`Reasons` adds why the worker does what it does: a prepared delete looks at a
revision of another role (`HoldsOutdated`), a status other than Ready has its
cause (`HoldsOutcome`), and uids are those of revisions that exist (`UidsOld`).
The refinement needs no more. Its proof shows that the mapped initial state is
one of the contract and then, action by action, which contract step (or none)
it is: a new revision is new to the sets `accepted` and `granted`, and what the
worker copied is in them because it was in the log. Steps that move only
caches, queues, timers and the worker leave the mapped state alone.

`RestIsTruthful` needs to exclude that a Ready status is left over by drift that
nobody looks at again. Truth cannot be required at once, as the RoleBinding may
change while a status is being written. The invariant (`AtRest`) is that the
binding is due for another reconcile, or the grant the status speaks of is a
revision *at or past the informer's position* (`SeenGrant`). A later revision
moves that position past the grant only through `DeliverRoleBinding`, and the
delivery enqueues the owner. At rest the position is the end of the log, where
the grant then is.

`OutagesAreSafe` follows the owner instead: as long as no call fails, nobody
interferes and the process lives, once a RoleBinding of the live binding's uid
has been created, it stays or the worker is between its own Delete and Create
(`GrantKept`). That needs that revisions since its creation are the binding's
own (`SameObject`), that no RoleBinding has an owner from the future
(`OwnersOld`), and that a worker with an older copy cannot meet a newer grant
(`ReadWasSeen`, `GrantedWasSeen`).

### Provider reconciler

`Held` says which revision the worker is at in each phase: a protected one for
the health check, a deleted one that the informer has shown for `finalize`.
`StatusSound` follows, since an update must meet the revision it was read from.
`SteadySeen`: protecting bindings are in the index, and a worker about to
release the live revision has found none; a binding cannot become a protecting
one afterwards because the deletion has been requested. `LimiterOwned` rests on
`ProtectedStays`: only the worker removes a protected provider, after it has
seen it deleted, so that a health check never runs for one that is gone.

### LDAP client

`CollectedWasListed` bounds what the client has collected by the members the
group has had during the call, `SteadyOnTheWay` bounds it from below: a steady
member is not examined yet, found, or in the group entry that the fallback goes
through. It speaks of those the client owes its caller (`Owed`: steady, under
the base, not overlooked). What makes it inductive is that a reverse query that
works (`Reversible`) and ends without a hit leaves nobody owed, and that
otherwise preferring `member` to `uniqueMember` loses only overlooked members
(`EntryShape`, `MemberDNsOfEntry`). `SoundSoFar` bounds an undisturbed call by
`Resolvable` from above; as its steady members are the whole membership, the
lower half of `UndisturbedExact` follows from `NobodyDropped`'s invariant. All
need `Forgotten`, that a call starts from nothing, and `PlainIsAllowed` does for
credentials what they do for members. Nothing is assumed about where foreign
entries lie.

### Webhooks

`Serial`: as long as no admission has raced, there is no duplicate, at most one
admitted request is not stored yet (`OneInFlight`), and what it will store has
no duplicate at that time either (`InFlightUnique`), as deletions in between
only remove candidates.

### Cadence

`Announced`: an object with no event on its way is cached as it is, so that at
rest the caches show the live objects. `FreshOrQueued`: a cached binding is
queued, or the reconcile in progress, or else the last one, has read what the
cache shows now (`ReadCurrent` says what a worker has read at each step). A
delivery is the step that could break it: the mapping functions and the index
must requeue every binding that depends on the object, and an event that
requeues nothing for a binding must change nothing that it read. A timer alone
does not count as queued, which makes the statement stronger than the code's
own safety net, the interval. The theorem stops at the first failed list, as
the property does; `Refreshed` is about what follows.

`LimiterOK` gives the lower bound of `tokens` in `TypeOK`: a worker that waits
has enough ticks left for the token it reserved, and of two that wait for one
limiter the later has enough for both. It holds for every rate and burst.

`StalenessBounded` needs a bound for all instances. A call takes at most
`LongestCall`, the slowest answer and the wait for a token behind one that the
other worker has reserved. `Round` is the time of such a call for each binding
and for the one in progress: whoever is queued is served within a round, because
a key is in the queue at most once. `Again` is a retry and a round. The
hypothesis `SlackSuffices` says that there is a slowest answer, and that the
longer of interval and retry, with a round, and with one `Again` for each fault
and each edit of the scenario, is at most `Interval + Slack`. The invariant
(`Timely`) is about each binding that reports a membership: something is coming
for it (an event, a place in the queue, a delay or the reconcile in progress,
`Coming`), and whatever comes does so while there is `Room`, that is, before the
age exceeds what the faults and edits so far allow (`Waits`, `Serves`). A tick
takes one from the age's room and one from the wait; a refused update or a failed
call starts another wait and has paid for it with its `Again`. `Queried` says
that an answer that is about to be reported is of this instant, `Known` that a
binding once reconciled stays known, so that no reconcile of it ends without a
status and a next delay.

The bound is coarser than what an instance attains: on the instance of `cadence`
it asks for a `Slack` of 26, with which TLC checked `Timely` and the other parts
before the proof (1.4 million states); the run itself checks the property with
the least `Slack` that holds there, 7. The theorem shows that the staleness does
not grow with the length of the run, the run that it is no more than it has to
be.

### Subjects and status

Sorted copies are described by what they satisfy, so that two facts have to be
shown before anything else: one exists, and the list's bag determines it. It
exists because ranking each position by the elements that are less, or equal and
to the left, is a bijection that puts the list in order. It is unique because at
the first place where two ordered lists differ one of them has the lesser
element, and then holds it more often than the other. Both are stated for any
strict total order, and used for the one of names and for `Less`, which is total
on what the API server admits: the kind determines the apiGroup, the one field
that `Less` leaves out. `ComparisonExact` follows, for lists of any length. In
`ReconcileOnce` the second comparison is of a list with itself, or with one it
was just found equal to. `StatusHonest` is arithmetic at the two caps.

### Only model-checked

* Liveness (`Converges`, `OutageSurfaces`, `HealthConverges`,
  `DeletionCompletes`, `DeletionHeldOnlyByDuplicate`, `Settles`, `Refreshed`):
  needs fairness and `ENABLED`.
* That `cadence` gets by with a `Slack` of 7: the least `Slack` depends on the
  numbers of the instance.

## 6. Findings

1. **A role edit can lose access** (`core_degraded_loss`). A roleRef edit is
   applied by Delete and then Create. When the Delete is carried out but its
   reply is lost, so that no Create is attempted (TLC's shortest trace), or when
   the Create fails, the binding is Degraded and has no RoleBinding until a retry
   succeeds, although
   markDegraded's comment says that a transient error never removes existing
   access. Without failing calls, restarts and foreign writes the contract
   holds (`OutageIsSafe`).
2. **A hung directory never surfaces** (`core_hung`). `connectAndBind` sets a
   timeout only when the context has a deadline, and the reconcile context has
   none. The provider's health check blocks in the same way, see below.
3. **Provider deletion can orphan a binding** (`provider_orphan`).
   `hasDependents` reads a cached index. A binding that was visible when the
   deletion was requested is always protected (`SteadyDependentsProtect`).
4. **A duplicate blocks foreground deletion** (`webhook_deletion_blocked`).
   ValidateUpdate applies the duplicate check to objects being deleted, so the
   garbage collector's update is rejected as long as the duplicate exists.
5. **Syncs that never rest** (`cadence_flood`). markReady stores `lastSyncTime`,
   the update is an event for the same binding, and no predicate filters it. The
   chain ends only when two successive syncs of a binding fall into the same
   whole second. Each health check adds an event for all bindings of the
   provider. The limiter gives 5 requests a second after a burst of 10, so that
   with some ten bindings or more on one provider (each needs two requests in
   one second), or with a directory that takes a second to answer, they are
   queried at the limiter's rate for ever instead of every `syncInterval`. Below
   that the chains end (`Settles` in `cadence`).

Seen while modelling, without a run of their own. The first three are stated as
properties (`OutageReachesProbe` in `ProviderLifecycle`, `NoPartialRBAC` and
`SearchBaseRespected` in `GroupResolution`) that TLC refutes when they are added
to `provider.cfg` and `resolution.cfg`:

* A hung directory keeps /readyz green (`OutageReachesProbe`). The health check
  has the same missing timeout as finding 2: a directory that begins to hang
  after it was Ready holds the worker in `Ping`, no outcome is stored, and the
  probe goes on reading the last one, although `readiness.go` relies on the
  reconciler to persist it. The worker does not get to `finalize` either, of
  this provider or another. Directories that refuse are noticed, and so is the
  end of a hang (`HealthConverges`, `DeletionCompletes`).
* Referrals silently give partial RBAC (`NoPartialRBAC`).
  `docs/wiki/Directory-Backends.md` says of Active Directory that referral
  responses are "returned as errors instead of silently producing partial RBAC".
  Only a referral in place of the group or of the whole reverse query is.
  Continuation referrals next to entries are logged and the entries returned as
  the membership, and `lookupUsername` skips a member DN that yields a referral;
  `paging_test.go` expects both. Everybody else is kept (`SteadyMemberKept`).
* The search base does not bound the fallback (`SearchBaseRespected`).
  `UserSearchBase` is documented as the base under which user entries are
  searched. When the reverse query has no hit, the DNs of the group entry are
  looked up wherever they are, and users outside the base are granted access.
  One hit switches the fallback off, so that adding a member under the base
  removes the access of those outside it.
* `Delete` has no resourceVersion precondition: a reconcile that still sees the
  old RoleBinding in its cache deletes the one just recreated. It is created
  again in the same reconcile (`QuietMeansSynced`, `Converges`).
* `syncInterval: 0s` passes the schema and turns `RequeueAfter` off, so that a
  synced binding is not queried again: `NeverForgotten` fails for
  `SyncInterval = 0`, which is why its theorem assumes a positive interval.
* A limiter can outlive its provider when a binding worker builds its client
  after `finalize`, or when the provider is deleted before it has the
  finalizer. The provider's own health checks leave none (`LimiterReleased`).
* Of a group that lists members under both `member` and `uniqueMember` the
  fallback reads the first only; a server without `memberOf` then yields part of
  the group without an error (`Overlooked`).
* Two creates or updates that are admitted before either is stored yield a
  duplicate mapping (`NoDuplicateMapping`, which TLC refutes within the bounds of
  `webhook`). Admissions that do not overlap and see a current cache never do
  (`SerialAdmissionsNeverDuplicate`).
* One provider that is not ready takes every pod out of the webhook service, and
  the webhooks fail closed: the edits that would move bindings to a healthy
  provider are refused until the unhealthy one recovers or is deleted, and it
  cannot be deleted while bindings refer to it. Foreground deletions wait as
  well.
* markDegraded stores the error's text. With one text `Settles` holds through an
  outage; with two in `Texts` it fails: each failure is then a status change, and
  its event brings the binding back before the backoff does.
* The provider controller does not watch Secrets: after a rotation the bindings
  reconcile at once, the provider's own condition waits for its timer.

## 7. Not modelled

Manager wiring and flags (`main.go`); leader election, which is a library's and
which makes the reconcilers of one pod the only writers; metrics, events and log
output, the generated deep copies, the Helm chart and manifests. `MembersHash`
is a SHA-256 of the member list that no decision reads. The token bucket of the
limiters is a library's: `SyncCadence` has its reservations, elsewhere a call
that waits for it is a call that starts later.
The wire protocol of LDAP is reduced to requests and their outcomes.

## 8. Plan

Done: all components that carry control, their runs, and the proofs of section 5.
Every safety property that a passing run checks is also proved. What remains
with TLC is liveness, which needs fairness and `ENABLED`.
