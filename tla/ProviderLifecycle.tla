------------------------- MODULE ProviderLifecycle -------------------------
(***************************************************************************)
(* LDAPProviderReconciler (internal/controller/ldapprovider_controller.go):*)
(* the health check of one LDAPProvider, its in-use-protection finalizer,  *)
(* and the registry of rate limiters it shares with the binding            *)
(* reconcilers (internal/ldapclient/ratelimit.go).                         *)
(*                                                                         *)
(* The provider is an append-only log of revisions with an informer        *)
(* position, as in BindingReconciler.  Of the bindings only one bit        *)
(* matters here, whether one of them refers to the provider; Dependents    *)
(* holds the keys of RBACGroupBindings and ClusterRBACGroupBindings alike. *)
(***************************************************************************)
EXTENDS Naturals, Sequences, FiniteSets

CONSTANTS
  Dependents,    \* keys of bindings that may refer to the provider
  ClusterKinds,  \* those of them that are ClusterRBACGroupBindings
  None,
  SyncInterval,  \* spec.syncInterval; 0 disables RequeueAfter
  Outages,       \* states of the directory other than "up" that may occur:
                 \* "down" refuses, "hung" accepts and never answers
  Budgets        \* bounds: how many moves of each kind the environment may
                 \* make; a behaviour stays within one of these budgets

Kinds == {"edit", "refer", "health", "fault", "crash", "tick"}

ASSUME ConstantsAssumption ==
  /\ ClusterKinds \subseteq Dependents
  /\ SyncInterval \in Nat
  /\ Outages \subseteq {"down", "hung"}
  /\ Budgets \subseteq [Kinds -> Nat]

\* The two conditions of an LDAPProvider, observedGeneration and
\* lastVerifiedTime.  "None" is a condition that has never been set.
Conditions == {"None", "True", "False"}
Status == [ready : Conditions, degraded : Conditions, gen : Nat,
           verified : {None} \cup Nat]
\* tls: the transport choice validateTLSConfig accepts; protected: the
\* in-use-protection finalizer; deleting: deletionTimestamp is set.
Provider == [gen : Nat, tls : BOOLEAN, protected : BOOLEAN, deleting : BOOLEAN,
             status : Status]

ASSUME NoneAssumption == None \notin Provider

VARIABLES
  pLog,       \* revisions of the provider, the last is live
  pSeen,      \* the revision the informer has reached
  refs,       \* bindings that refer to the provider
  refsSeen,   \* the same, as the cache's provider-ref index has it
  queued, backoff, timer, \* workqueue, rate limiter, RequeueAfter
  pc,         \* the provider worker's next step
  pAt,        \* the revision it works on
  outcome,    \* the mark* function it is about to run
  lookup,     \* per binding, whether its worker has read the provider and is
              \* about to build a client from it
  limiter,    \* whether the registry has an entry for the provider
  directory,  \* what becomes of a bind with the configured credentials
  now, spent,
  steady      \* history: bindings that were visible when the deletion was
              \* requested and have existed ever since

inputs == <<refs, refsSeen, lookup, directory, now, steady>>
sched  == <<queued, backoff, timer>>
worker == <<pc, pAt, outcome>>
vars   == <<pLog, pSeen, refs, refsSeen, queued, backoff, timer, pc, pAt,
            outcome, lookup, limiter, directory, now, spent, steady>>

Live == pLog[Len(pLog)]
Snapshot == pLog[pAt]

Spend(kind) ==
  /\ spent' = [spent EXCEPT ![kind] = @ + 1]
  /\ \E budget \in Budgets : \A k \in Kinds : spent'[k] <= budget[k]

PCs == {"idle", "finalizer", "validate", "pinger", "ping", "status", "list", "release"}
Outcomes == {"none", "ready", "degraded", "invalid"}
Reachabilities == {"up"} \cup Outages

Init ==
  /\ pLog = <<None>> /\ pSeen = 1
  /\ refs = {} /\ refsSeen = {}
  /\ queued = FALSE /\ backoff = FALSE /\ timer = FALSE
  /\ pc = "idle" /\ pAt = 0 /\ outcome = "none"
  /\ lookup = [d \in Dependents |-> FALSE]
  /\ limiter = FALSE /\ directory \in Reachabilities /\ now = 0
  /\ spent = [k \in Kinds |-> 0]
  /\ steady = {}

----------------------------------------------------------------------------
(* The provider worker. *)

GoIdle == pc' = "idle" /\ pAt' = 0 /\ outcome' = "none"
Goto(step) == pc' = step /\ UNCHANGED <<pAt, outcome>>
Mark(what) == pc' = "status" /\ outcome' = what /\ UNCHANGED pAt

\* A write to the provider: the API server accepts it only on the current
\* revision; it may refuse it anyway, or carry it out and lose the reply.
Replies == {"ok", "rejected", "lost"}
Replied(reply) == IF reply = "ok" THEN UNCHANGED spent ELSE Spend("fault")
Current == pAt = Len(pLog)
Write(reply, version) ==
  pLog' = IF Current /\ reply # "rejected" /\ version # Snapshot
            THEN Append(pLog, version) ELSE pLog

\* Mutant of Start: the health check comes without the finalizer.
StartWithoutFinalizer ==
  /\ pc = "idle" /\ queued
  /\ queued' = FALSE
  /\ IF pLog[pSeen] = None
       THEN UNCHANGED worker
       ELSE /\ pAt' = pSeen /\ UNCHANGED outcome
            /\ pc' = IF pLog[pSeen].deleting THEN "list" ELSE "validate"
  /\ UNCHANGED <<pLog, pSeen, backoff, timer, limiter, inputs, spent>>

\* The request is taken; a provider the cache does not have ends it, one that
\* is being deleted is finalized, and one without the finalizer gets it first.
Start ==
  /\ pc = "idle" /\ queued
  /\ queued' = FALSE
  /\ LET p == pLog[pSeen] IN
       IF p = None \/ (p # None /\ p.deleting /\ ~p.protected)
         THEN UNCHANGED worker
         ELSE /\ pAt' = pSeen /\ UNCHANGED outcome
              /\ pc' = IF p.deleting THEN "list"
                       ELSE IF p.protected THEN "validate" ELSE "finalizer"
  /\ UNCHANGED <<pLog, pSeen, backoff, timer, limiter, inputs, spent>>

\* The cached read of the provider fails: the error is returned.
ReadFails ==
  /\ pc = "idle" /\ queued
  /\ Spend("fault")
  /\ queued' = FALSE /\ backoff' = TRUE
  /\ UNCHANGED <<pLog, pSeen, timer, worker, limiter, inputs>>

\* AddFinalizer and Update; on success the reconcile goes on with the revision
\* the server returned.
AddFinalizer(reply) ==
  /\ pc = "finalizer"
  /\ Replied(reply)
  /\ Write(reply, [Snapshot EXCEPT !.protected = TRUE])
  /\ IF Current /\ reply = "ok"
       THEN /\ pc' = "validate" /\ pAt' = Len(pLog) + 1
            /\ UNCHANGED <<backoff, outcome>>
       ELSE backoff' = TRUE /\ GoIdle
  /\ UNCHANGED <<pSeen, queued, timer, limiter, inputs>>

\* validateTLSConfig.
Validate ==
  /\ pc = "validate"
  /\ IF Snapshot.tls THEN Goto("pinger") ELSE Mark("invalid")
  /\ UNCHANGED <<pLog, pSeen, sched, limiter, inputs, spent>>

\* Pinger builds a client, which takes the provider's limiter from the
\* registry.
Pinger ==
  /\ pc = "pinger"
  /\ limiter' = TRUE
  /\ Goto("ping")
  /\ UNCHANGED <<pLog, pSeen, sched, inputs, spent>>

\* The Secret of the bind password or the CA cannot be read: no client is
\* built and the registry is not touched.
PingerFails ==
  /\ pc = "pinger"
  /\ Spend("fault")
  /\ Mark("degraded")
  /\ UNCHANGED <<pLog, pSeen, sched, limiter, inputs>>

\* Ping binds; connectAndBind sets a timeout only for a context with a
\* deadline, and that of Reconcile has none: with a hung server it never
\* returns.
Ping ==
  /\ pc = "ping"
  /\ directory # "hung"
  /\ Mark(IF directory = "up" THEN "ready" ELSE "degraded")
  /\ UNCHANGED <<pLog, pSeen, sched, limiter, inputs, spent>>

\* Mutants of MarkedStatus: markReady leaves Degraded as it is; an invalid
\* spec yields a condition value nobody else uses.
MarkedKeepingDegraded(p) ==
  LET s == [p.status EXCEPT !.gen = p.gen] IN
  CASE outcome = "ready"    -> [s EXCEPT !.ready = "True", !.verified = now]
    [] outcome = "degraded" -> [s EXCEPT !.ready = "False", !.degraded = "True"]
    [] outcome = "invalid"  -> [s EXCEPT !.ready = "False"]
MarkedUnknown(p) ==
  [p.status EXCEPT !.gen = p.gen,
                   !.ready = IF outcome = "ready" THEN "True" ELSE "Unknown"]

\* The status each mark* function computes; markInvalidSpec leaves the
\* Degraded condition as it found it.
MarkedStatus(p) ==
  LET s == [p.status EXCEPT !.gen = p.gen] IN
  CASE outcome = "ready"    -> [s EXCEPT !.ready = "True", !.degraded = "False",
                                         !.verified = now]
    [] outcome = "degraded" -> [s EXCEPT !.ready = "False", !.degraded = "True"]
    [] outcome = "invalid"  -> [s EXCEPT !.ready = "False"]

\* Status().Update; markReady asks to come back after the sync interval,
\* markDegraded goes to the rate limiter, markInvalidSpec does not come back.
WriteStatus(reply) ==
  LET ok == Current /\ reply = "ok" IN
  /\ pc = "status"
  /\ Replied(reply)
  /\ Write(reply, [Snapshot EXCEPT !.status = MarkedStatus(Snapshot)])
  /\ backoff' = (backoff \/ ~ok \/ outcome = "degraded")
  /\ timer' = (timer \/ (ok /\ outcome = "ready" /\ SyncInterval > 0))
  /\ GoIdle
  /\ UNCHANGED <<pSeen, queued, limiter, inputs>>

\* Mutant of HasDependents: cluster-scoped bindings are forgotten.
HasNamespacedDependents == refsSeen \ ClusterKinds # {}

\* hasDependents, on the cached index: the list of RBACGroupBindings, then
\* that of ClusterRBACGroupBindings.
HasDependents == refsSeen \ ClusterKinds # {} \/ refsSeen \cap ClusterKinds # {}

\* Mutant of Finalize: a provider in use is not looked at again.
FinalizeWithoutRecheck ==
  /\ pc = "list"
  /\ IF HasDependents
       THEN GoIdle /\ UNCHANGED limiter
       ELSE limiter' = FALSE /\ Goto("release")
  /\ UNCHANGED <<pLog, pSeen, sched, inputs, spent>>

\* Mutant of Finalize: the limiter outlives the provider.
FinalizeKeepingLimiter ==
  /\ pc = "list"
  /\ IF HasDependents
       THEN timer' = TRUE /\ GoIdle
       ELSE Goto("release") /\ UNCHANGED timer
  /\ UNCHANGED <<pLog, pSeen, queued, backoff, limiter, inputs, spent>>

\* finalize: a provider in use is looked at again after inUseRecheckInterval;
\* otherwise its limiter is dropped and the finalizer removed next.
Finalize ==
  /\ pc = "list"
  /\ IF HasDependents
       THEN timer' = TRUE /\ GoIdle /\ UNCHANGED limiter
       ELSE limiter' = FALSE /\ Goto("release") /\ UNCHANGED timer
  /\ UNCHANGED <<pLog, pSeen, queued, backoff, inputs, spent>>

\* A list fails: the error is returned.
ListFails ==
  /\ pc = "list"
  /\ Spend("fault")
  /\ backoff' = TRUE
  /\ GoIdle
  /\ UNCHANGED <<pLog, pSeen, queued, timer, limiter, inputs>>

\* RemoveFinalizer and Update: the API server removes the object.
RemoveFinalizer(reply) ==
  /\ pc = "release"
  /\ Replied(reply)
  /\ Write(reply, None)
  /\ backoff' = (backoff \/ ~(Current /\ reply = "ok"))
  /\ GoIdle
  /\ UNCHANGED <<pSeen, queued, timer, limiter, inputs>>

ProviderStep ==
  \/ Validate \/ Pinger \/ Ping \/ Finalize
  \/ \E reply \in Replies :
       AddFinalizer(reply) \/ WriteStatus(reply) \/ RemoveFinalizer(reply)

\* LDAPProviderReadiness.Check, the /readyz probe: every provider the cache
\* lists has the Ready condition, and it is True.
ReadyzOK == pLog[pSeen] # None => pLog[pSeen].status.ready = "True"

----------------------------------------------------------------------------
(* Informers, timers and the binding workers that share the registry. *)

DeliverProvider ==
  /\ pSeen < Len(pLog)
  /\ pSeen' = pSeen + 1
  /\ queued' = TRUE
  /\ UNCHANGED <<pLog, backoff, timer, worker, limiter, inputs, spent>>

BackoffFires ==
  /\ backoff
  /\ backoff' = FALSE /\ queued' = TRUE
  /\ UNCHANGED <<pLog, pSeen, timer, worker, limiter, inputs, spent>>

TimerFires ==
  /\ timer
  /\ timer' = FALSE /\ queued' = TRUE
  /\ UNCHANGED <<pLog, pSeen, backoff, worker, limiter, inputs, spent>>

\* The informer of bindings catches up on d, and the index with it.
DeliverBinding(d) ==
  /\ (d \in refs) # (d \in refsSeen)
  /\ refsSeen' = IF d \in refs THEN refsSeen \cup {d} ELSE refsSeen \ {d}
  /\ UNCHANGED <<pLog, pSeen, sched, worker, limiter, spent, refs, lookup,
                 directory, now, steady>>

\* A binding worker reads the provider and starts on its Secrets ...
BindingReadsProvider(d) ==
  /\ d \in refsSeen /\ pLog[pSeen] # None /\ ~lookup[d]
  /\ lookup' = [lookup EXCEPT ![d] = TRUE]
  /\ UNCHANGED <<pLog, pSeen, sched, worker, limiter, spent, refs, refsSeen,
                 directory, now, steady>>

\* ... and builds a client, which takes the limiter from the registry.
BindingTakesLimiter(d) ==
  /\ lookup[d]
  /\ lookup' = [lookup EXCEPT ![d] = FALSE]
  /\ limiter' = TRUE
  /\ UNCHANGED <<pLog, pSeen, sched, worker, spent, refs, refsSeen, directory,
                 now, steady>>

\* Process restart: caches and the queue are rebuilt, the registry is empty.
Crash ==
  /\ Spend("crash")
  /\ pSeen' = Len(pLog) /\ refsSeen' = refs
  /\ queued' = (Live # None) /\ backoff' = FALSE /\ timer' = FALSE
  /\ GoIdle
  /\ lookup' = [d \in Dependents |-> FALSE] /\ limiter' = FALSE
  /\ UNCHANGED <<pLog, refs, directory, now, steady>>

----------------------------------------------------------------------------
(* Users, the directory and the clock. *)

Operator == <<pSeen, sched, worker, limiter, refsSeen, lookup>>

CreateProvider(tls) ==
  /\ Live = None
  /\ Spend("edit")
  /\ pLog' = Append(pLog, [gen |-> 1, tls |-> tls, protected |-> FALSE,
       deleting |-> FALSE, status |-> [ready |-> "None", degraded |-> "None",
                                       gen |-> 0, verified |-> None]])
  /\ UNCHANGED <<Operator, refs, directory, now, steady>>

EditProvider ==
  /\ Live # None
  /\ Spend("edit")
  /\ pLog' = Append(pLog, [Live EXCEPT !.gen = @ + 1, !.tls = ~@])
  /\ UNCHANGED <<Operator, refs, directory, now, steady>>

\* kubectl delete: with a finalizer the object is only marked.
DeleteProvider ==
  /\ Live # None
  /\ ~Live.deleting
  /\ Spend("edit")
  /\ pLog' = Append(pLog, IF Live.protected THEN [Live EXCEPT !.gen = @ + 1, !.deleting = TRUE]
                                            ELSE None)
  /\ steady' = IF Live.protected THEN refs \cap refsSeen ELSE {}
  /\ UNCHANGED <<Operator, refs, directory, now>>

Refer(d) ==
  /\ d \notin refs
  /\ Spend("refer")
  /\ refs' = refs \cup {d}
  /\ UNCHANGED <<pLog, Operator, directory, now, steady>>

Unrefer(d) ==
  /\ d \in refs
  /\ Spend("refer")
  /\ refs' = refs \ {d}
  /\ steady' = steady \ {d}
  /\ UNCHANGED <<pLog, Operator, directory, now>>

ChangeHealth(reachability) ==
  /\ directory # reachability
  /\ Spend("health")
  /\ directory' = reachability
  /\ UNCHANGED <<pLog, Operator, refs, now, steady>>

Tick ==
  /\ Spend("tick")
  /\ now' = now + 1
  /\ UNCHANGED <<pLog, Operator, refs, directory, steady>>

Next ==
  \/ Start \/ ReadFails \/ ProviderStep \/ PingerFails \/ ListFails
  \/ DeliverProvider \/ BackoffFires \/ TimerFires
  \/ \E d \in Dependents : \/ DeliverBinding(d) \/ Refer(d) \/ Unrefer(d)
                           \/ BindingReadsProvider(d) \/ BindingTakesLimiter(d)
  \/ Crash
  \/ \E tls \in BOOLEAN : CreateProvider(tls)
  \/ EditProvider \/ DeleteProvider \/ Tick
  \/ \E reachability \in Reachabilities : ChangeHealth(reachability)

Spec == Init /\ [][Next]_vars

\* The worker and the binding workers run, informers deliver, timers fire.
Fairness ==
  /\ WF_vars(Start) /\ WF_vars(ProviderStep)
  /\ WF_vars(DeliverProvider) /\ WF_vars(BackoffFires) /\ WF_vars(TimerFires)
  /\ \A d \in Dependents : WF_vars(DeliverBinding(d)) /\ WF_vars(BindingTakesLimiter(d))

FairSpec == Spec /\ Fairness

----------------------------------------------------------------------------
(* Properties. *)

\* Types of all variables.
TypeOK ==
  /\ pLog \in Seq({None} \cup Provider)
  /\ pSeen \in 1..Len(pLog)
  /\ refs \subseteq Dependents /\ refsSeen \subseteq Dependents
  /\ queued \in BOOLEAN /\ backoff \in BOOLEAN /\ timer \in BOOLEAN
  /\ pc \in PCs /\ pAt \in Nat /\ outcome \in Outcomes
  /\ lookup \in [Dependents -> BOOLEAN]
  /\ limiter \in BOOLEAN /\ directory \in Reachabilities /\ now \in Nat
  /\ spent \in [Kinds -> Nat]
  /\ steady \subseteq refs

\* Protection comes before publicity: no revision of a provider has a health
\* condition without also having the finalizer, so that a provider somebody
\* has seen Ready is never removable behind the reconciler's back (Reconcile
\* adds the finalizer first, and goes on with the revision that has it).
StatusImpliesProtected ==
  \A i \in 1..Len(pLog) :
    pLog[i] # None /\ pLog[i].status.ready # "None" => pLog[i].protected

\* In-use protection: a binding that the cache showed when the deletion was
\* requested, and that has referred to the provider ever since, keeps the
\* provider alive - across retries, crashes and lost replies (finalize).
SteadyDependentsProtect == steady # {} => Live # None

\* What the file header of the finalizer promises: removing a provider can
\* never orphan a binding.
NeverOrphans == [][(Live # None /\ Live' = None /\ pc = "release") => refs = {}]_vars

\* Everything about a removed provider has come to rest.
AtRest ==
  /\ Live = None /\ pSeen = Len(pLog)
  /\ pc = "idle" /\ ~queued /\ ~backoff
  /\ \A d \in Dependents : ~lookup[d]

\* The health check does not leak: once a provider that no binding ever
\* referred to is removed and everything has come to rest, the registry has no
\* limiter for it, however often finalize had to be repeated and whatever the
\* informer still showed in between (finalize, Limiters.Delete).
LimiterReleased == AtRest /\ spent["refer"] = 0 => ~limiter

\* The worker waits for an answer that does not come.
Stuck == pc = "ping" /\ directory = "hung"

\* A deletion completes once nothing refers to the provider any more, also
\* when the last binding leaves unnoticed and only the recheck interval brings
\* the provider back (finalize).  What can hold it up for ever is a worker that
\* waits in Ping for a hung directory.
DeletionCompletes ==
  ~<>[](refs = {} /\ ~Stuck /\ IF Live = None THEN FALSE ELSE Live.deleting)

\* The conditions that an unchanging world calls for, and the probe's answer.
Truthful ==
  /\ Live = None => ReadyzOK
  /\ (IF Live = None THEN FALSE ELSE ~Live.deleting) =>
    /\ ReadyzOK <=> Live.tls /\ directory = "up"
    /\ Live.status.gen = Live.gen
    /\ Live.status.ready = IF Live.tls /\ directory = "up" THEN "True" ELSE "False"
    /\ Live.tls => (Live.status.degraded = IF directory = "up" THEN "False" ELSE "True")

\* The health report becomes and stays true: spec edits, refused binds and
\* their end, and the end of a hang are all noticed, so that /readyz, which
\* reads nothing but this condition, neither stays red after a recovery nor
\* green after a failure.  A hang that does not end is the exception: the
\* worker is then stuck in Ping for good.
HealthConverges == <>[]Truthful \/ <>[]Stuck

\* What readiness.go says the probe can rely on: the reconciler "performs the
\* actual bind check and persists its outcome in the Ready condition", so that
\* a directory that has become unavailable for good, whether it refuses or
\* hangs, shows in /readyz.
OutageReachesProbe ==
  <>[](directory # "up" /\ IF Live = None THEN FALSE ELSE Live.tls /\ ~Live.deleting)
    => <>[]~ReadyzOK

=============================================================================
