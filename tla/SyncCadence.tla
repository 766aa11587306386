----------------------------- MODULE SyncCadence -----------------------------
(***************************************************************************)
(* What triggers a sync, how long it takes, and what the sync triggers in  *)
(* turn: ClusterRBACGroupBindingReconciler (internal/controller/           *)
(* clusterrbacgroupbinding_controller.go) in time, next to the provider    *)
(* health check it shares a rate limiter with, the client construction of  *)
(* GrouperFactory, and the Secret -> LDAPProvider -> binding cascade of    *)
(* mappers.go and indexers.go.                                             *)
(*                                                                         *)
(* Time passes in ticks, TicksPerSecond of them to a second, and only when *)
(* nothing can be done at once: controllers and informers take no time,    *)
(* requests to the directory, the limiter and timers do.  A stored         *)
(* timestamp has whole seconds, so that all a state needs to know of it is *)
(* whether it is of the current second; timers are the ticks left.         *)
(***************************************************************************)
EXTENDS Integers, FiniteSets, SequencesExt

CONSTANTS
  Names,          \* ClusterRBACGroupBindings
  Providers, Secrets, Roles,
  None,
  Memberships,    \* contents of the directory group
  Texts,          \* texts of the error a failing request may have
  TicksPerSecond,
  Interval,       \* spec.syncInterval, in ticks
  Retry,          \* backoff after an error, in ticks
  Latencies,      \* ticks a request to the directory may take
  Rate, Burst,    \* the limiter's tokens per tick, and at most
  Slack,          \* ticks a due sync may have to wait for its turn
  Scenarios       \* what the operator finds when it starts (objects, group),
                  \* and the bounds: the edits the environment may choose from
                  \* (roles, credentials, data), and how many of each kind

Kinds == {"edit", "rotate", "directory", "fault"}

ClusterRoleBindingOf(n) == <<"ClusterRoleBinding", n>>
ClusterRoleBindings == {ClusterRoleBindingOf(n) : n \in Names}
Keys == Names \cup Providers
Objects == Keys \cup Secrets \cup ClusterRoleBindings

\* A Secret's relevant data; unusable: absent, without the key, or no PEM.
SecretData == {"unusable", "v1", "v2"}
Binding == [gen : Nat, ref : Providers, role : Roles]
\* An ldaps:// provider; protected: it has its finalizer.
Provider == [gen : Nat, bind : Secrets, ca : {None} \cup Secrets, protected : BOOLEAN]
ClusterRoleBinding == [role : Roles, members : Memberships]
Status == [phase : {"New", "Ready", "Degraded", "GroupNotFound"}, gen : Nat,
           members : {None} \cup Memberships, cause : {"none", "provider", "secret", "api"} \cup Texts]

\* What an object may be.
ValuesOf(o) ==
  CASE o \in Names -> Binding [] o \in Providers -> Provider
    [] o \in Secrets -> SecretData [] o \in ClusterRoleBindings -> ClusterRoleBinding

ASSUME CadenceAssumption ==
  /\ IsFiniteSet(Names) /\ IsFiniteSet(Providers)
  /\ TicksPerSecond \in Nat \ {0} /\ Interval \in Nat \ {0} /\ Retry \in Nat \ {0}
  /\ Latencies \subseteq Nat /\ Rate \in Nat \ {0} /\ Burst \in Nat \ {0}
  /\ Slack \in Nat
  /\ \A s \in Scenarios :
       /\ s.objects = [o \in Objects |-> s.objects[o]]
       /\ \A o \in Objects : s.objects[o] \in {None} \cup ValuesOf(o)
       /\ s.group \in {None} \cup Memberships /\ s.moves \in [Kinds -> Nat]
       /\ s.roles \subseteq Roles /\ s.data \subseteq SecretData
       /\ s.credentials \subseteq Secrets \X ({None} \cup Secrets)

\* Objects of different kinds are different objects, and None is none of them.
ASSUME KindsAssumption ==
  /\ Names \cap (Providers \cup Secrets) = {} /\ Providers \cap Secrets = {}
  /\ ClusterRoleBindings \cap (Keys \cup Secrets) = {}
  /\ None \notin Objects \cup Binding \cup Provider \cup SecretData \cup Nat

VARIABLES
  live, cache, \* the objects' specs in the API server and in the informers
  events,      \* objects with a watch event on its way
  status,      \* status of bindings and providers
  stamped,     \* those whose lastSyncTime or lastVerifiedTime is this second
  queue,       \* per controller, its workqueue
  due,         \* per key, the ticks until a delayed entry becomes ready
  job,         \* per controller, the reconcile its worker is in
  tokens,      \* per provider, its limiter's tokens; below 0, those reserved
  tick,        \* ticks into the current second
  members, up, \* the group in the directory; whether the directory answers
  used,        \* history: the inputs of each binding's last reconcile
  age,         \* history: ticks since each binding's last query
  scenario, spent \* the bounds, and the moves made so far

api    == <<live, events, status, stamped>>
sched  == <<queue, due>>
clock  == <<tokens, tick, age>>
bounds == <<scenario, spent>>
vars   == <<live, cache, events, status, stamped, queue, due, job, tokens,
            tick, members, up, used, age, scenario, spent>>

Controllers == {"binding", "provider"}
NewStatus == [phase |-> "New", gen |-> 0, members |-> None, cause |-> "none"]
Idle == [pc |-> "idle", key |-> None, copy |-> None, provider |-> None,
         secrets |-> None, behind |-> FALSE, left |-> 0, found |-> None,
         phase |-> "New", cause |-> "none"]

Spend(kind) ==
  /\ spent[kind] < scenario.moves[kind]
  /\ spent' = [spent EXCEPT ![kind] = @ + 1]
  /\ UNCHANGED scenario
Replies == {"ok", "fails"}
Replied(reply) == IF reply = "ok" THEN UNCHANGED bounds ELSE Spend("fault")

\* q with the keys of S that it does not hold yet, in any order.
Enqueued(q, S) == {q \o s : s \in SetToSeqs(S \ ToSet(q))}

\* A process start: the informers list everything, each object is enqueued.
Init ==
  \E s \in Scenarios :
  /\ live = s.objects /\ cache = s.objects /\ events = {}
  /\ members = s.group /\ scenario = s
  /\ queue \in [binding : Enqueued(<<>>, {n \in Names : s.objects[n] # None}),
                provider : Enqueued(<<>>, {p \in Providers : s.objects[p] # None})]
  /\ status = [k \in Keys |-> NewStatus] /\ stamped = {}
  /\ due = [k \in Keys |-> None]
  /\ job = [c \in Controllers |-> Idle]
  /\ tokens = [p \in Providers |-> Burst] /\ tick = 0
  /\ up = TRUE
  /\ used = [n \in Names |-> None] /\ age = [n \in Names |-> 0]
  /\ spent = [k \in Kinds |-> 0]

----------------------------------------------------------------------------
(* The two workers. *)

Goto(c, j) == job' = [job EXCEPT ![c] = j]
Mark(c, phase, cause) ==
  Goto(c, [job[c] EXCEPT !.pc = "status", !.phase = phase, !.cause = cause])

\* A worker takes its next request and reads the object from the cache.
Take(c) ==
  LET k == Head(queue[c]) IN
  /\ job[c] = Idle /\ queue[c] # <<>>
  /\ queue' = [queue EXCEPT ![c] = Tail(@)]
  /\ IF cache[k] = None THEN UNCHANGED job
     ELSE Goto(c, [Idle EXCEPT
            !.pc = CASE c = "binding" -> "provider"
                     [] c = "provider" /\ ~cache[k].protected -> "protect"
                     [] OTHER -> "client",
            !.key = k, !.copy = cache[k], !.behind = k \in events,
            !.provider = IF c = "binding" THEN None ELSE cache[k]])
  /\ UNCHANGED <<api, cache, due, clock, members, up, used, bounds>>

\* The binding's LDAPProvider is read from the cache.
LoadProvider ==
  LET j == job["binding"]
      p == cache[j.copy.ref] IN
  /\ j.pc = "provider"
  /\ IF p = None THEN Mark("binding", "Degraded", "provider")
     ELSE Goto("binding", [j EXCEPT !.pc = "client", !.provider = p])
  /\ UNCHANGED <<api, cache, sched, clock, members, up, used, bounds>>

\* Mutant of Finish: the delayed entry is kept next to the queued one.
FinishTwice(c, delay) ==
  /\ due' = [due EXCEPT ![job[c].key] = delay]
  /\ Goto(c, Idle)

\* The end of a reconcile and the delay after which its request comes back.
\* An entry that is already in the workqueue absorbs the delayed one, the
\* earlier of two delays wins.
Finish(c, delay) ==
  LET k == job[c].key IN
  /\ due' = [due EXCEPT ![k] =
       IF k \in ToSet(queue[c]) \/ delay = None THEN @
       ELSE IF @ = None \/ delay < @ THEN delay ELSE @]
  /\ Goto(c, Idle)

\* An update is accepted when the object is still the one that was read.
Current(j) == ~j.behind /\ j.copy = live[j.key]

\* The finalizer is added with an Update of its own before the first check.
Protect(reply) ==
  LET j == job["provider"]
      marked == [j.copy EXCEPT !.protected = TRUE] IN
  /\ j.pc = "protect"
  /\ Replied(reply)
  /\ IF reply = "ok" /\ Current(j)
       THEN /\ live' = [live EXCEPT ![j.key] = marked]
            /\ events' = events \cup {j.key}
            /\ Goto("provider", [j EXCEPT !.pc = "client", !.copy = marked, !.provider = marked])
            /\ UNCHANGED due
       ELSE Finish("provider", Retry) /\ UNCHANGED <<live, events>>
  /\ UNCHANGED <<cache, status, stamped, queue, clock, members, up, used>>

\* The Secrets of the bind password and of the CA bundle, if there is one.
SecretsRead(p) == {p.bind, p.ca} \ {None}

\* The limiter is kept per provider name.
LimiterOf(c) == IF c = "binding" THEN job[c].copy.ref ELSE job[c].key

\* connectAndBind: Limiter.Wait reserves the next token and sleeps until it is
\* there, in the order of the callers; then the request takes its time.
Connect(c, j) ==
  LET p == LimiterOf(c)
      owed == Max({0, 1 - tokens[p]}) IN
  /\ tokens' = [tokens EXCEPT ![p] = @ - 1]
  /\ \E l \in Latencies :
       Goto(c, [j EXCEPT !.pc = "request", !.left = l + (owed + Rate - 1) \div Rate])

\* GrouperFactory.client: a Secret that is not usable leaves no client;
\* otherwise the call is made at once.  The two reads are one step.
BuildClient(c) ==
  LET read == [s \in SecretsRead(job[c].provider) |-> cache[s]]
      j == [job[c] EXCEPT !.secrets = read] IN
  /\ job[c].pc = "client"
  /\ IF \E s \in DOMAIN read : read[s] = "unusable"
       THEN /\ Goto(c, [j EXCEPT !.pc = "status", !.phase = "Degraded", !.cause = "secret"])
            /\ UNCHANGED tokens
       ELSE Connect(c, j)
  /\ UNCHANGED <<api, cache, sched, tick, age, members, up, used, bounds>>

\* Ping and GetGroupMembers return.
RequestDone(c) ==
  LET j == job[c] IN
  /\ j.pc = "request" /\ j.left = 0
  /\ CASE ~up -> \E text \in Texts : Mark(c, "Degraded", text)
       [] up /\ c = "provider" -> Mark(c, "Ready", "none")
       [] up /\ c = "binding" /\ members = None -> Mark(c, "GroupNotFound", "none")
       [] up /\ c = "binding" /\ members # None ->
            Goto(c, [j EXCEPT !.pc = "apply", !.found = members])
  /\ age' = IF c = "binding" THEN [age EXCEPT ![j.key] = 0] ELSE age
  /\ UNCHANGED <<api, cache, sched, tokens, tick, members, up, used, bounds>>

\* BuildClusterRoleBinding.
Desired(j) == [role |-> j.copy.role, members |-> j.found]

\* reconcileClusterRoleBinding: nothing to do, Create, Delete and Create when
\* the clusterRoleRef has changed, or Update.  The calls are one step here,
\* each of them may fail; BindingReconciler has them one by one.
Apply(reply) ==
  LET j == job["binding"]
      object == ClusterRoleBindingOf(j.key)
      existing == cache[object]
      desired == Desired(j)
      recreate == existing # None /\ existing.role # desired.role
      accepted == CASE existing = None -> live[object] = None
                    [] recreate -> live[object] # None
                    [] OTHER -> object \notin events
      result == IF accepted /\ reply = "ok" THEN desired
                ELSE IF accepted /\ recreate THEN None ELSE live[object]
  IN
  /\ j.pc = "apply"
  /\ IF existing = desired
       THEN reply = "ok" /\ Mark("binding", "Ready", "none") /\ UNCHANGED <<live, events>>
       ELSE /\ Mark("binding", IF accepted /\ reply = "ok" THEN "Ready" ELSE "Degraded",
                    IF accepted /\ reply = "ok" THEN "none" ELSE "api")
            /\ live' = [live EXCEPT ![object] = result]
            /\ events' = IF result # live[object] THEN events \cup {object} ELSE events
  /\ Replied(reply)
  /\ UNCHANGED <<cache, status, stamped, sched, clock, members, up, used>>

\* What the mark functions store.
MarkedStatus(j) ==
  [phase |-> j.phase, gen |-> j.copy.gen, cause |-> j.cause,
   members |-> IF j.phase = "Ready" THEN j.found ELSE status[j.key].members]

\* Mutant of Unchanged: timestamps are stored with their fraction.
UnchangedButForTime(j) == MarkedStatus(j) = status[j.key] /\ j.phase # "Ready"

\* The status update changes nothing: then there is no event.  markReady
\* sets the timestamp, which is stored in whole seconds.
Unchanged(j) ==
  /\ MarkedStatus(j) = status[j.key]
  /\ j.phase = "Ready" => j.key \in stamped

\* Mutant of Delay: the ctrl.Result of a successful sync is empty.
DelayOnErrorOnly(ok, j) == IF ok /\ j.phase # "Degraded" THEN None ELSE Retry

\* The ticks after which the request comes back.
Delay(ok, j) == IF ok /\ j.phase # "Degraded" THEN Interval ELSE Retry

\* Status().Update, refused when the object has moved on, and the end.
WriteStatus(c, reply) ==
  LET j == job[c]
      ok == reply = "ok" /\ Current(j)
  IN
  /\ j.pc = "status"
  /\ Replied(reply)
  /\ IF ok /\ ~Unchanged(j)
       THEN /\ status' = [status EXCEPT ![j.key] = MarkedStatus(j)]
            /\ events' = events \cup {j.key}
            /\ stamped' = IF j.phase = "Ready" THEN stamped \cup {j.key} ELSE stamped
       ELSE UNCHANGED <<status, events, stamped>>
  /\ used' = IF c = "provider" THEN used
             ELSE [used EXCEPT ![j.key] = [spec |-> j.copy, provider |-> j.provider,
                                           secrets |-> j.secrets]]
  /\ Finish(c, Delay(ok, j))
  /\ UNCHANGED <<live, cache, queue, clock, members, up>>

\* The cached read of the provider fails with something else than NotFound:
\* the error is returned and no status is written.
ReadFails ==
  /\ job["binding"].pc = "provider"
  /\ Spend("fault")
  /\ Finish("binding", Retry)
  /\ UNCHANGED <<api, cache, queue, clock, members, up, used>>

WorkerStep(c) ==
  \/ Take(c) \/ BuildClient(c) \/ RequestDone(c)
  \/ WriteStatus(c, "ok")
  \/ c = "binding" /\ (LoadProvider \/ Apply("ok"))
  \/ c = "provider" /\ Protect("ok")

----------------------------------------------------------------------------
(* Triggers. *)

\* mapProviderToClusterRBACGroupBindings: those the index has for p.
MapProvider(p) == {n \in Names : cache[n] # None /\ cache[n].ref = p}

\* Mutant of SecretRefs: the CA bundle is not indexed.
BindSecretOnly(p) == {p.bind}

\* What SetupIndexers stores of a provider under secretRefIndexField.
SecretRefs(p) == {p.bind} \cup ({p.ca} \ {None})

ProvidersReferencing(s) == {p \in Providers : cache[p] # None /\ s \in SecretRefs(cache[p])}

\* mapSecretToClusterRBACGroupBindings: over the providers that read s.
MapSecret(s) == UNION {MapProvider(p) : p \in ProvidersReferencing(s)}

\* The watches of ClusterRBACGroupBindingReconciler.
BindingRequests(o, listed) ==
  CASE o \in Names               -> {o}
    [] o \in ClusterRoleBindings -> {o[2]}
    [] o \in Providers           -> IF listed THEN MapProvider(o) ELSE {}
    [] o \in Secrets             -> IF listed THEN MapSecret(o) ELSE {}

\* An informer receives an event; its handlers enqueue.  A list that fails in
\* a mapping function enqueues nothing.
Deliver(o, listed) ==
  /\ o \in events
  /\ IF listed THEN UNCHANGED bounds ELSE o \in Providers \cup Secrets /\ Spend("fault")
  /\ cache' = [cache EXCEPT ![o] = live[o]]
  /\ events' = events \ {o}
  /\ \E b \in Enqueued(queue["binding"], BindingRequests(o, listed)) :
       queue' = [binding |-> b,
                 provider |-> IF o \in Providers /\ o \notin ToSet(queue["provider"])
                                THEN Append(queue["provider"], o) ELSE queue["provider"]]
  /\ due' = [k \in Keys |-> IF k \in ToSet(queue'["binding"]) \cup ToSet(queue'["provider"])
                              THEN None ELSE due[k]]
  /\ UNCHANGED <<live, status, stamped, job, clock, members, up, used>>

\* A delayed entry becomes ready.
TimerFires(k) ==
  LET c == IF k \in Names THEN "binding" ELSE "provider" IN
  /\ due[k] = 0
  /\ due' = [due EXCEPT ![k] = None]
  /\ queue' = [queue EXCEPT ![c] = Append(@, k)]
  /\ UNCHANGED <<api, cache, job, clock, members, up, used, bounds>>

\* A worker that has nothing to do, or waits for the limiter or an answer.
Blocked(c) ==
  \/ job[c] = Idle /\ queue[c] = <<>>
  \/ job[c].pc = "request" /\ job[c].left > 0

\* Time passes when nothing can happen at once.
Tick ==
  /\ \A c \in Controllers : Blocked(c)
  /\ events = {}
  /\ \A k \in Keys : due[k] # 0
  /\ tick' = (tick + 1) % TicksPerSecond
  /\ stamped' = IF tick' = 0 THEN {} ELSE stamped
  /\ due' = [k \in Keys |-> IF due[k] = None THEN None ELSE due[k] - 1]
  /\ job' = [c \in Controllers |->
               IF job[c].left > 0 THEN [job[c] EXCEPT !.left = @ - 1] ELSE job[c]]
  /\ tokens' = [p \in Providers |-> Min({Burst, tokens[p] + Rate})]
  /\ age' = [n \in Names |-> Min({Interval + Slack + 1, age[n] + 1})]
  /\ UNCHANGED <<live, cache, events, status, queue, members, up, used, bounds>>

----------------------------------------------------------------------------
(* Users and the directory. *)

Inside == <<cache, sched, job, clock, used>>

Change(o, spec) ==
  /\ live' = [live EXCEPT ![o] = spec]
  /\ events' = events \cup {o}
  /\ UNCHANGED <<status, stamped, Inside, members, up>>

\* A binding or a provider is created or edited.
SetBinding(n, ref, role) ==
  LET old == live[n] IN
  /\ old # None => <<old.ref, old.role>> # <<ref, role>>
  /\ Spend("edit")
  /\ Change(n, [gen |-> IF old = None THEN 1 ELSE old.gen + 1, ref |-> ref, role |-> role])

SetProvider(p, bind, ca) ==
  LET old == live[p] IN
  /\ old # None => <<old.bind, old.ca>> # <<bind, ca>>
  /\ Spend("edit")
  /\ Change(p, [gen |-> IF old = None THEN 1 ELSE old.gen + 1, bind |-> bind, ca |-> ca,
                protected |-> old # None /\ old.protected])

\* A Secret is rotated, damaged or repaired.
Rotate(s, data) ==
  /\ live[s] # data
  /\ Spend("rotate")
  /\ Change(s, data)

ChangeDirectory(m, u) ==
  /\ <<m, u>> # <<members, up>>
  /\ Spend("directory")
  /\ members' = m /\ up' = u
  /\ UNCHANGED <<api, Inside>>

Environment ==
  \/ \E n \in Names, p \in Providers, r \in scenario.roles : SetBinding(n, p, r)
  \/ \E p \in Providers, secrets \in scenario.credentials : SetProvider(p, secrets[1], secrets[2])
  \/ \E s \in Secrets, data \in scenario.data : Rotate(s, data)
  \/ \E m \in {None} \cup Memberships, u \in BOOLEAN : ChangeDirectory(m, u)

\* Everything that happens by itself.
System ==
  \/ \E c \in Controllers : WorkerStep(c)
  \/ \E o \in Objects : Deliver(o, TRUE)
  \/ \E k \in Keys : TimerFires(k)
  \/ Tick

Faults ==
  \/ ReadFails \/ Apply("fails") \/ Protect("fails")
  \/ \E c \in Controllers : WriteStatus(c, "fails")
  \/ \E o \in Objects : Deliver(o, FALSE)

Next == System \/ Faults \/ Environment

Spec == Init /\ [][Next]_vars

\* The workers, the informers and time go on.
FairSpec == Spec /\ WF_vars(System)

----------------------------------------------------------------------------
(* Properties. *)

\* Types of all variables; a key waits for its delay or in the queue, not in
\* both.
TypeOK ==
  /\ \A o \in Objects : {live[o], cache[o]} \subseteq {None} \cup ValuesOf(o)
  /\ events \subseteq Objects /\ status \in [Keys -> Status] /\ stamped \subseteq Keys
  /\ ToSet(queue["binding"]) \subseteq Names /\ ToSet(queue["provider"]) \subseteq Providers
  /\ \A c \in Controllers : \A k \in ToSet(queue[c]) : due[k] = None
  /\ due \in [Keys -> {None} \cup 0..Interval \cup 0..Retry]
  /\ tokens \in [Providers -> -Cardinality(Controllers)..Burst] /\ tick \in 0..TicksPerSecond - 1

Resting == events = {} /\ \A c \in Controllers : job[c] = Idle /\ queue[c] = <<>>

\* The loop ends: although every successful sync writes a timestamp, which is
\* an event for the same binding (and, for a provider, for all of its
\* bindings), the operator comes to rest again and again and leaves the next
\* query to the timer (markReady; ldapprovider_types.go: "SyncInterval is how
\* often bindings referencing this provider re-query group membership").
Settles == []<>Resting

\* What a reconcile of n should have worked with.
Inputs(n) ==
  LET p == live[live[n].ref] IN
  [spec |-> live[n], provider |-> p,
   secrets |-> IF p = None THEN None ELSE [s \in SecretsRead(p) |-> live[s]]]

\* No change is overlooked: when all events are delivered and nothing is
\* queued, the last reconcile of each binding read the live binding, provider,
\* bind password and CA bundle, in whatever order the informers delivered them
\* and wherever the worker was (mapProviderTo..., mapSecretTo..., SetupIndexers).
FreshAtRest ==
  Resting /\ spent["fault"] = 0 =>
    \A n \in Names : live[n] # None => used[n] = Inputs(n)

\* Even an event whose fan-out was lost to a failing list is made good.
Refreshed == <>[](\A n \in Names : live[n] # None => used[n] = Inputs(n))

\* Access granted is never older than the interval: a binding that reports
\* Ready or GroupNotFound was queried at most Interval + Slack ticks ago
\* (RequeueAfter), whatever edits, rotations and failed calls came in between.
BoundedStaleness ==
  \A n \in Names :
    status[n].phase \in {"Ready", "GroupNotFound"} => age[n] <= Interval + Slack

=============================================================================
