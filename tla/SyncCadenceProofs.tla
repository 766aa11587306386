------------------------- MODULE SyncCadenceProofs -------------------------
(***************************************************************************)
(* Types, freshness and the bound on staleness of SyncCadence, for every   *)
(* set of objects, every interval, rate and latency, and every scenario.   *)
(***************************************************************************)
EXTENDS SyncCadence, FiniteSetTheorems, TLAPS

----------------------------------------------------------------------------
(* Workqueues. *)

\* The sequences of a finite set's elements hold each of them.
LEMMA SetToSeqsOnto ==
  ASSUME NEW S, IsFiniteSet(S), NEW f \in SetToSeqs(S)
  PROVE  f \in Seq(S) /\ ToSet(f) = S
<1> DEFINE D == 1..Cardinality(S)
<1>1. Cardinality(S) \in Nat
  BY FS_CardinalityType
<1>2. f \in [D -> S] /\ (\A i, j \in D : i # j => f[i] # f[j])
  BY DEF SetToSeqs
<1>3. f \in Injection(D, S)
  BY <1>2 DEF Injection, IsInjective
<1>4. Cardinality(D) = Cardinality(S)
  BY <1>1, FS_Interval
<1>5. f \in Surjection(D, S)
  BY <1>3, <1>4, FS_Injection
<1>6. f \in Seq(S)
  BY <1>1, <1>2
<1>7. \A x \in S : \E i \in D : f[i] = x
  BY <1>5 DEF Surjection
<1>8. QED
  BY <1>2, <1>6, <1>7 DEF ToSet

\* What a sequence of T's elements holds is in T.
LEMMA ToSetType ==
  ASSUME NEW T, NEW q \in Seq(T)
  PROVE  ToSet(q) \subseteq T
BY DEF ToSet

\* The keys of a concatenation.
LEMMA ToSetConcat ==
  ASSUME NEW T, NEW p \in Seq(T), NEW q \in Seq(T)
  PROVE  p \o q \in Seq(T) /\ ToSet(p \o q) = ToSet(p) \cup ToSet(q)
<1>1. p \o q \in Seq(T) /\ Len(p \o q) = Len(p) + Len(q)
  OBVIOUS
<1>2. \A i \in 1..Len(p) : (p \o q)[i] = p[i]
  OBVIOUS
<1>3. \A i \in 1..Len(q) : (p \o q)[Len(p) + i] = q[i]
  OBVIOUS
<1>4. ToSet(p) \subseteq ToSet(p \o q)
  <2> SUFFICES ASSUME NEW i \in 1..Len(p) PROVE p[i] \in ToSet(p \o q)
    BY DEF ToSet
  <2> QED
    BY <1>1, <1>2 DEF ToSet
<1>5. ToSet(q) \subseteq ToSet(p \o q)
  <2> SUFFICES ASSUME NEW i \in 1..Len(q) PROVE q[i] \in ToSet(p \o q)
    BY DEF ToSet
  <2>1. Len(p) + i \in 1..Len(p \o q)
    BY <1>1
  <2> QED
    BY <1>1, <1>3, <2>1 DEF ToSet
<1>6. ToSet(p \o q) \subseteq ToSet(p) \cup ToSet(q)
  <2> SUFFICES ASSUME NEW i \in 1..(Len(p) + Len(q))
               PROVE  (p \o q)[i] \in ToSet(p) \cup ToSet(q)
    BY <1>1 DEF ToSet
  <2>1. CASE i <= Len(p)
    BY <1>2, <2>1 DEF ToSet
  <2>2. CASE i > Len(p)
    <3>1. i - Len(p) \in 1..Len(q) /\ i = Len(p) + (i - Len(p))
      BY <2>2
    <3>2. (p \o q)[i] = q[i - Len(p)]
      BY <1>3, <3>1
    <3> QED
      BY <3>1, <3>2 DEF ToSet
  <2> QED
    BY <2>1, <2>2
<1> QED
  BY <1>1, <1>4, <1>5, <1>6

\* Enqueueing keeps the keys that wait and adds all of the new ones.
LEMMA EnqueuedKeys ==
  ASSUME NEW T, IsFiniteSet(T), NEW q \in Seq(T), NEW S \in SUBSET T,
         NEW b \in Enqueued(q, S)
  PROVE  b \in Seq(T) /\ ToSet(b) = ToSet(q) \cup S
<1> DEFINE N == S \ ToSet(q)
<1>1. PICK s \in SetToSeqs(N) : b = q \o s
  BY DEF Enqueued
<1>2. IsFiniteSet(N)
  BY FS_Subset
<1>3. s \in Seq(N) /\ ToSet(s) = N
  BY <1>2, SetToSeqsOnto
<1>4. s \in Seq(T)
  BY <1>3
<1> QED
  BY <1>1, <1>3, <1>4, ToSetConcat

\* The keys of a queue are its first one and those behind it.
LEMMA ToSetTail ==
  ASSUME NEW T, NEW q \in Seq(T), q # <<>>
  PROVE  /\ Head(q) \in T /\ Tail(q) \in Seq(T)
         /\ ToSet(q) = {Head(q)} \cup ToSet(Tail(q))
<1>1. Len(q) > 0 /\ Head(q) = q[1] /\ Head(q) \in T /\ Tail(q) \in Seq(T)
      /\ Len(Tail(q)) = Len(q) - 1
  OBVIOUS
<1>2. \A i \in 1..Len(Tail(q)) : Tail(q)[i] = q[i + 1]
  OBVIOUS
<1>3. ToSet(Tail(q)) \subseteq ToSet(q)
  BY <1>1, <1>2 DEF ToSet
<1>4. ToSet(q) \subseteq {Head(q)} \cup ToSet(Tail(q))
  <2> SUFFICES ASSUME NEW i \in 1..Len(q) PROVE q[i] \in {Head(q)} \cup ToSet(Tail(q))
    BY DEF ToSet
  <2>1. CASE i = 1
    BY <1>1, <2>1
  <2>2. CASE i > 1
    <3>1. i - 1 \in 1..Len(Tail(q)) /\ i = (i - 1) + 1
      BY <1>1, <2>2
    <3>2. q[i] = Tail(q)[i - 1]
      BY <1>2, <3>1
    <3>3. DOMAIN Tail(q) = 1..Len(Tail(q))
      BY <1>1
    <3> QED
      BY <3>1, <3>2, <3>3 DEF ToSet
  <2> QED
    BY <2>1, <2>2
<1>5. Head(q) \in ToSet(q)
  <2>1. 1 \in DOMAIN q
    BY <1>1
  <2> QED
    BY <1>1, <2>1 DEF ToSet
<1> QED
  BY <1>1, <1>3, <1>4, <1>5

\* The keys of a queue that has grown by one.
LEMMA ToSetAppend ==
  ASSUME NEW T, NEW q \in Seq(T), NEW x \in T
  PROVE  Append(q, x) \in Seq(T) /\ ToSet(Append(q, x)) = ToSet(q) \cup {x}
<1>1. /\ Append(q, x) \in Seq(T)
      /\ DOMAIN Append(q, x) = 1..(Len(q) + 1) /\ DOMAIN q = 1..Len(q)
      /\ Append(q, x)[Len(q) + 1] = x
      /\ \A i \in 1..Len(q) : Append(q, x)[i] = q[i]
  OBVIOUS
<1>2. ToSet(q) \subseteq ToSet(Append(q, x))
  BY <1>1 DEF ToSet
<1>3. Len(q) + 1 \in 1..(Len(q) + 1)
  OBVIOUS
<1>4. x \in ToSet(Append(q, x))
  BY <1>1, <1>3 DEF ToSet
<1>5. ToSet(Append(q, x)) \subseteq ToSet(q) \cup {x}
  <2> SUFFICES ASSUME NEW i \in 1..(Len(q) + 1)
               PROVE  Append(q, x)[i] \in ToSet(q) \cup {x}
    BY <1>1 DEF ToSet
  <2>1. CASE i = Len(q) + 1
    BY <1>1, <2>1
  <2>2. CASE i \in 1..Len(q)
    BY <1>1, <2>2 DEF ToSet
  <2> QED
    BY <2>1, <2>2
<1> QED
  BY <1>1, <1>2, <1>4, <1>5

----------------------------------------------------------------------------
(* Arithmetic of the limiter. *)

\* The larger and the smaller of two numbers.
LEMMA MaxOfTwo ==
  ASSUME NEW a \in Int, NEW b \in Int
  PROVE  /\ Max({a, b}) = IF a >= b THEN a ELSE b
         /\ Min({a, b}) = IF a <= b THEN a ELSE b
<1>1. \E x \in {a, b} : \A y \in {a, b} : x >= y
  OBVIOUS
<1>2. \E x \in {a, b} : \A y \in {a, b} : x =< y
  OBVIOUS
<1>3. Max({a, b}) \in {a, b} /\ \A y \in {a, b} : Max({a, b}) >= y
  BY <1>1 DEF Max
<1>4. Min({a, b}) \in {a, b} /\ \A y \in {a, b} : Min({a, b}) =< y
  BY <1>2 DEF Min
<1> QED
  BY <1>3, <1>4

\* The ticks that connectAndBind sleeps when the limiter has t tokens.
LimiterWait(t) == (Max({0, 1 - t}) + Rate - 1) \div Rate

\* The limiter's wait is long enough for the tokens owed.
LEMMA WaitCovers ==
  ASSUME NEW t \in Int
  PROVE  LimiterWait(t) \in Nat /\ t - 1 + Rate * LimiterWait(t) >= 0
<1>1. Rate \in Nat /\ Rate > 0
  BY CadenceAssumption
<1> DEFINE owed == Max({0, 1 - t})
<1>2. owed \in Nat /\ owed >= 1 - t
  BY MaxOfTwo
<1> HIDE DEF owed
<1> DEFINE x == owed + Rate - 1
<1>3. x \in Nat /\ x = owed + Rate - 1
  BY <1>1, <1>2
<1> HIDE DEF x
<1>4. x \div Rate \in Nat /\ (x % Rate) \in 0..(Rate - 1) /\ x = Rate * (x \div Rate) + (x % Rate)
  BY <1>1, <1>3
<1> DEFINE w == x \div Rate
           m == x % Rate
<1>5. w \in Nat /\ m \in 0..(Rate - 1) /\ x = Rate * w + m
  BY <1>4
<1> HIDE DEF w, m
<1>6. t - 1 + Rate * w >= 0
  BY <1>1, <1>2, <1>3, <1>5
<1> QED
  BY <1>5, <1>6 DEF owed, x, w, LimiterWait
----------------------------------------------------------------------------
(* The inductive invariant. *)

PCs == {"idle", "provider", "protect", "client", "request", "apply", "status"}
Phases == {"New", "Ready", "Degraded", "GroupNotFound"}
Causes == {"none", "provider", "secret", "api"} \cup Texts
Readings == UNION {[S -> {None} \cup SecretData] : S \in SUBSET Secrets}

Job == [pc : PCs, key : {None} \cup Keys, copy : {None} \cup Binding \cup Provider,
        provider : {None} \cup Provider, secrets : {None} \cup Readings,
        behind : BOOLEAN, left : Nat, found : {None} \cup Memberships,
        phase : Phases, cause : Causes]

\* What the binding worker has read at each step of a reconcile.
BindingJob(j) ==
  /\ j \in Job
  /\ j.pc = "idle" => j = Idle
  /\ j.pc # "idle" => j.key \in Names /\ j.copy \in Binding
  /\ j.pc # "protect"
  /\ j.pc = "provider" => j.provider = None /\ j.secrets = None
  /\ j.pc \in {"client", "request", "apply"} => j.provider \in Provider
  /\ j.pc = "apply" => j.found \in Memberships

\* The provider worker reads the provider it reconciles.
ProviderJob(j) ==
  /\ j \in Job
  /\ j.pc = "idle" => j = Idle
  /\ j.pc # "idle" => j.key \in Providers /\ j.copy \in Provider /\ j.provider = j.copy
  /\ j.pc \notin {"provider", "apply"}

StoreOK ==
  /\ live = [o \in Objects |-> live[o]] /\ cache = [o \in Objects |-> cache[o]]
  /\ \A o \in Objects : live[o] \in {None} \cup ValuesOf(o) /\ cache[o] \in {None} \cup ValuesOf(o)
  /\ events \subseteq Objects /\ status \in [Keys -> Status] /\ stamped \subseteq Keys

Delays == {None} \cup 0..Interval \cup 0..Retry

SchedOK ==
  /\ queue \in [binding : Seq(Names), provider : Seq(Providers)]
  /\ due \in [Keys -> Delays]
  /\ \A c \in Controllers : \A k \in ToSet(queue[c]) : due[k] = None

JobsOK ==
  /\ job = [c \in Controllers |-> job[c]]
  /\ BindingJob(job["binding"]) /\ ProviderJob(job["provider"])

BoundsOK ==
  /\ scenario \in Scenarios /\ spent \in [Kinds -> Nat]
  /\ members \in {None} \cup Memberships /\ up \in BOOLEAN

HistoryOK == used = [n \in Names |-> used[n]]

ClockOK == tokens \in [Providers -> Int] /\ tick \in 0..TicksPerSecond - 1

\* What the worker of c owes to p's limiter: it sleeps until the token it has
\* reserved is there.
Waiting(c, p) == job[c].pc = "request" /\ LimiterOf(c) = p
Covers(c, p, n) == tokens[p] + Rate * job[c].left >= n

\* No limiter owes more than one token to each worker, and none to a worker
\* that does not wait: of two that wait, the later one waits for both tokens.
LimiterOK ==
  \A p \in Providers :
    /\ -2 <= tokens[p] /\ tokens[p] <= Burst
    /\ \A c \in Controllers : ~Waiting(c, p) => tokens[p] >= -1
    /\ (\A c \in Controllers : ~Waiting(c, p)) => tokens[p] >= 0
    /\ \A c \in Controllers : Waiting(c, p) => Covers(c, p, -1)
    /\ \A c \in Controllers :
         Waiting(c, p) => \E d \in Controllers : Waiting(d, p) /\ Covers(d, p, 0)

Base == StoreOK /\ SchedOK /\ JobsOK /\ BoundsOK /\ HistoryOK /\ ClockOK

\* The types of objects and keys.
LEMMA Kinship ==
  /\ \A n \in Names : n \in Keys /\ n \in Objects /\ n \notin Providers /\ n \notin Secrets
                      /\ n \notin ClusterRoleBindings /\ ValuesOf(n) = Binding
  /\ \A p \in Providers : p \in Keys /\ p \in Objects /\ p \notin Names /\ p \notin Secrets
                      /\ p \notin ClusterRoleBindings /\ ValuesOf(p) = Provider
  /\ \A s \in Secrets : s \in Objects /\ s \notin Keys /\ s \notin Names /\ s \notin Providers
                      /\ s \notin ClusterRoleBindings /\ ValuesOf(s) = SecretData
  /\ \A o \in ClusterRoleBindings : o \in Objects /\ o \notin Keys /\ o \notin Names
                      /\ o \notin Providers /\ o \notin Secrets
                      /\ ValuesOf(o) = ClusterRoleBinding
  /\ None \notin Objects /\ None \notin Keys /\ None \notin Names /\ None \notin Providers
  /\ None \notin Secrets /\ None \notin Binding /\ None \notin Provider
  /\ None \notin SecretData /\ None \notin Nat
BY KindsAssumption DEF Objects, Keys, ValuesOf

\* The object the operator writes for a binding.
LEMMA OwnObject ==
  ASSUME NEW n \in Names
  PROVE  ClusterRoleBindingOf(n) \in ClusterRoleBindings
BY DEF ClusterRoleBindings

\* No reconcile in progress.
LEMMA IdleJob == Idle \in Job /\ BindingJob(Idle) /\ ProviderJob(Idle) /\ Idle.pc = "idle"
                 /\ Idle.left = 0 /\ Idle.key = None
BY DEF Idle, Job, BindingJob, ProviderJob, PCs, Phases, Causes

\* The invariant gives the types that the runs check, but for the limiter.
LEMMA BaseTypes ==
  ASSUME Base, LimiterOK
  PROVE  TypeOK
<1>1. Cardinality(Controllers) = 2
  <2>1. Cardinality({"binding"}) = 1 /\ IsFiniteSet({"binding"})
    BY FS_Singleton
  <2>2. Cardinality({"binding"} \cup {"provider"}) = 2
    BY <2>1, FS_AddElement
  <2>3. Controllers = {"binding"} \cup {"provider"}
    BY DEF Controllers
  <2> QED
    BY <2>2, <2>3
<1>2. tokens \in [Providers -> -Cardinality(Controllers)..Burst] /\ tick \in 0..TicksPerSecond - 1
  BY <1>1, CadenceAssumption DEF Base, ClockOK, LimiterOK
<1>3. queue["binding"] \in Seq(Names) /\ queue["provider"] \in Seq(Providers)
  BY DEF Base, SchedOK
<1>4. ToSet(queue["binding"]) \subseteq Names /\ ToSet(queue["provider"]) \subseteq Providers
  BY <1>3, ToSetType
<1>5. /\ \A o \in Objects : {live[o], cache[o]} \subseteq {None} \cup ValuesOf(o)
      /\ events \subseteq Objects /\ status \in [Keys -> Status] /\ stamped \subseteq Keys
  BY DEF Base, StoreOK
<1>6. /\ \A c \in Controllers : \A k \in ToSet(queue[c]) : due[k] = None
      /\ due \in [Keys -> {None} \cup 0..Interval \cup 0..Retry]
  BY DEF Base, SchedOK, Delays
<1> QED
  BY <1>2, <1>4, <1>5, <1>6 DEF TypeOK

----------------------------------------------------------------------------
(* The workers' jobs. *)

\* A worker moves to a proper job and the other one stays where it is.
LEMMA JobMoves ==
  ASSUME JobsOK, NEW c \in Controllers, NEW j, job' = [job EXCEPT ![c] = j],
         c = "binding" => BindingJob(j), c = "provider" => ProviderJob(j)
  PROVE  /\ JobsOK' /\ job'[c] = j
         /\ \A d \in Controllers \ {c} : job'[d] = job[d]
<1>1. "binding" \in Controllers /\ "provider" \in Controllers /\ "binding" # "provider"
  BY DEF Controllers
<1>2. job' = [d \in Controllers |-> IF d = c THEN j ELSE job[d]]
  BY DEF JobsOK
<1>3. job'[c] = j /\ \A d \in Controllers \ {c} : job'[d] = job[d]
  BY <1>2
<1>4. job' = [d \in Controllers |-> job'[d]]
  BY <1>2
<1>5. BindingJob(job'["binding"]) /\ ProviderJob(job'["provider"])
  <2>1. CASE c = "binding"
    BY <1>1, <1>3, <2>1 DEF JobsOK
  <2>2. CASE c = "provider"
    BY <1>1, <1>3, <2>2 DEF JobsOK
  <2> QED
    BY <2>1, <2>2 DEF Controllers
<1> QED
  BY <1>3, <1>4, <1>5 DEF JobsOK

Noted(j, phase, cause) == [j EXCEPT !.pc = "status", !.phase = phase, !.cause = cause]

\* The outcome of a reconcile is noted, ready to be written.
LEMMA MarkedJob ==
  ASSUME JobsOK, NEW c \in Controllers, job[c].pc # "idle",
         NEW phase \in Phases, NEW cause \in Causes, Mark(c, phase, cause)
  PROVE  /\ JobsOK' /\ job'[c] = Noted(job[c], phase, cause)
         /\ \A d \in Controllers \ {c} : job'[d] = job[d]
<1> DEFINE j == Noted(job[c], phase, cause)
<1>1. ASSUME c = "binding" PROVE BindingJob(j)
  BY <1>1 DEF JobsOK, BindingJob, Job, PCs, Controllers, Noted
<1>2. ASSUME c = "provider" PROVE ProviderJob(j)
  BY <1>2 DEF JobsOK, ProviderJob, Job, PCs, Controllers, Noted
<1>3. job' = [job EXCEPT ![c] = j]
  BY DEF Mark, Goto, Noted
<1> HIDE DEF j
<1>4. /\ JobsOK' /\ job'[c] = j /\ \A d \in Controllers \ {c} : job'[d] = job[d]
  BY <1>1, <1>2, <1>3, JobMoves
<1> QED
  BY <1>4 DEF j

\* A worker is done.
LEMMA IdleAgain ==
  ASSUME JobsOK, NEW c \in Controllers, Goto(c, Idle)
  PROVE  /\ JobsOK' /\ job'[c] = Idle
         /\ \A d \in Controllers \ {c} : job'[d] = job[d]
BY IdleJob, JobMoves DEF Goto

\* A new job of either worker.
NewBindingJob(n, copy, behind) ==
  [Idle EXCEPT !.pc = "provider", !.key = n, !.copy = copy, !.behind = behind, !.provider = None]

NewProviderJob(pc, p, copy, behind) ==
  [Idle EXCEPT !.pc = pc, !.key = p, !.copy = copy, !.behind = behind, !.provider = copy]

\* New jobs are proper jobs.
LEMMA NewJobs ==
  /\ \A n \in Names, copy \in Binding, behind \in BOOLEAN :
       LET j == NewBindingJob(n, copy, behind) IN
       /\ BindingJob(j) /\ j.pc = "provider" /\ j.key = n /\ j.copy = copy
       /\ j.behind = behind
  /\ \A pc \in {"protect", "client"}, p \in Providers, copy \in Provider, behind \in BOOLEAN :
       LET j == NewProviderJob(pc, p, copy, behind) IN
       ProviderJob(j) /\ j.pc = pc
<1>1. ASSUME NEW n \in Names, NEW copy \in Binding, NEW behind \in BOOLEAN
      PROVE  LET j == NewBindingJob(n, copy, behind) IN
             /\ BindingJob(j) /\ j.pc = "provider" /\ j.key = n /\ j.copy = copy
             /\ j.behind = behind
  BY Kinship DEF NewBindingJob, BindingJob, Job, Idle, PCs, Phases, Causes
<1>2. ASSUME NEW pc \in {"protect", "client"}, NEW p \in Providers, NEW copy \in Provider,
             NEW behind \in BOOLEAN
      PROVE  LET j == NewProviderJob(pc, p, copy, behind) IN
             ProviderJob(j) /\ j.pc = pc
  BY Kinship DEF NewProviderJob, ProviderJob, Job, Idle, PCs, Phases, Causes
<1> QED
  BY <1>1, <1>2

\* Membership has a truth value.
LEMMA MembershipIsBoolean ==
  ASSUME NEW x, NEW S
  PROVE  \E b \in BOOLEAN : b = (x \in S)
<1> WITNESS (x \in S) \in BOOLEAN
<1> QED
  OBVIOUS

\* The job a worker takes up.
LEMMA TakeJob ==
  ASSUME Base, NEW c \in Controllers, Take(c)
  PROVE  /\ JobsOK' /\ \A d \in Controllers \ {c} : job'[d] = job[d]
         /\ job[c] = Idle
         /\ job'[c].pc \notin {"request", "apply", "status"}
         /\ c = "binding" =>
              \/ cache[Head(queue[c])] = None /\ job' = job
              \/ /\ cache[Head(queue[c])] # None
                 /\ job'[c].pc = "provider" /\ job'[c].key = Head(queue[c])
                 /\ job'[c].copy = cache[Head(queue[c])]
                 /\ job'[c].behind => Head(queue[c]) \in events
<1> DEFINE k == Head(queue[c])
<1>1. JobsOK /\ job[c] = Idle /\ queue[c] # <<>>
  BY DEF Base, Take
<1>2. CASE cache[k] = None
  <2>1. job' = job
    BY <1>2 DEF Take
  <2> QED
    BY <1>1, <1>2, <2>1, IdleJob DEF JobsOK
<1>3. CASE cache[k] # None
  <2>1. ASSUME c = "binding"
        PROVE  /\ JobsOK' /\ (\A d \in Controllers \ {c} : job'[d] = job[d])
               /\ job'[c].pc = "provider" /\ job'[c].key = k /\ job'[c].copy = cache[k]
               /\ job'[c].behind => k \in events
    <3>0. PICK behind \in BOOLEAN : behind = (k \in events)
      BY MembershipIsBoolean
    <3> DEFINE j == NewBindingJob(k, cache[k], behind)
    <3>1. k \in Names
      BY <1>1, <2>1, ToSetTail DEF Base, SchedOK
    <3>2. cache[k] \in Binding
      BY <1>3, <3>1, Kinship DEF Base, StoreOK
    <3>3. job' = [job EXCEPT ![c] = j]
      BY <1>3, <2>1, <3>0 DEF Take, Goto, NewBindingJob
    <3>4. BindingJob(j) /\ j.pc = "provider" /\ j.key = k /\ j.copy = cache[k]
          /\ j.behind = behind
      BY <3>1, <3>2, NewJobs
    <3> HIDE DEF j
    <3>5. JobsOK' /\ job'[c] = j /\ \A d \in Controllers \ {c} : job'[d] = job[d]
      BY <1>1, <2>1, <3>3, <3>4, JobMoves
    <3> QED
      BY <3>0, <3>4, <3>5
  <2>2. ASSUME c = "provider"
        PROVE  /\ JobsOK' /\ (\A d \in Controllers \ {c} : job'[d] = job[d])
               /\ job'[c].pc \in {"protect", "client"}
    <3>0. PICK behind \in BOOLEAN : behind = (k \in events)
      BY MembershipIsBoolean
    <3>1. PICK pc \in {"protect", "client"} :
            job' = [job EXCEPT ![c] = NewProviderJob(pc, k, cache[k], behind)]
      BY <1>3, <2>2, <3>0 DEF Take, Goto, NewProviderJob
    <3> DEFINE j == NewProviderJob(pc, k, cache[k], behind)
    <3>2. k \in Providers
      BY <1>1, <2>2, ToSetTail DEF Base, SchedOK
    <3>3. cache[k] \in Provider
      BY <1>3, <3>2, Kinship DEF Base, StoreOK
    <3>4. ProviderJob(j) /\ j.pc = pc
      BY <3>2, <3>3, NewJobs
    <3>5. job' = [job EXCEPT ![c] = j]
      BY <3>1
    <3> HIDE DEF j
    <3>6. JobsOK' /\ job'[c] = j /\ \A d \in Controllers \ {c} : job'[d] = job[d]
      BY <1>1, <2>2, <3>4, <3>5, JobMoves
    <3> QED
      BY <3>4, <3>6
  <2> QED
    BY <1>1, <1>3, <2>1, <2>2 DEF Controllers
<1> QED
  BY <1>2, <1>3

\* The binding worker reads the provider from the cache.
LEMMA LoadProviderJob ==
  ASSUME Base, LoadProvider
  PROVE  LET j == job["binding"]
             k == job'["binding"] IN
         /\ JobsOK' /\ job'["provider"] = job["provider"]
         /\ j.pc = "provider" /\ j.secrets = None /\ j.key \in Names /\ j.copy \in Binding
         /\ k.key = j.key /\ k.copy = j.copy /\ k.secrets = None
         /\ k.provider = cache[j.copy.ref]
         /\ k.pc = (IF cache[j.copy.ref] = None THEN "status" ELSE "client")
         /\ k.behind = j.behind /\ (k.pc = "status" => k.phase = "Degraded")
<1> DEFINE j == job["binding"]
           p == cache[j.copy.ref]
<1>1. JobsOK /\ BindingJob(j) /\ j.pc = "provider" /\ "binding" \in Controllers
      /\ "provider" \in Controllers /\ "provider" # "binding"
  BY DEF Base, JobsOK, LoadProvider, Controllers
<1>2. j.secrets = None /\ j.key \in Names /\ j.copy \in Binding /\ j \in Job
  BY <1>1 DEF BindingJob
<1>3. j.copy.ref \in Providers
  BY <1>2 DEF Binding
<1>4. p \in {None} \cup Provider
  BY <1>3, Kinship DEF Base, StoreOK
<1>5. CASE p = None
  <2>1. Mark("binding", "Degraded", "provider")
    BY <1>5 DEF LoadProvider
  <2>2. j.provider = None
    BY <1>1 DEF BindingJob
  <2> DEFINE n == Noted(j, "Degraded", "provider")
  <2>3. n.key = j.key /\ n.copy = j.copy /\ n.secrets = None /\ n.provider = None
        /\ n.pc = "status" /\ n.behind = j.behind /\ n.phase = "Degraded"
    BY <1>2, <2>2 DEF Job, Noted
  <2>4. JobsOK' /\ job'["binding"] = n /\ job'["provider"] = job["provider"]
    BY <1>1, <2>1, MarkedJob DEF Phases, Causes
  <2> HIDE DEF n
  <2> QED
    BY <1>1, <1>2, <1>5, <2>3, <2>4
<1>6. CASE p # None
  <2> DEFINE n == [j EXCEPT !.pc = "client", !.provider = p]
  <2>1. job' = [job EXCEPT !["binding"] = n]
    BY <1>6 DEF LoadProvider, Goto
  <2>2. BindingJob(n) /\ n.key = j.key /\ n.copy = j.copy /\ n.secrets = None
        /\ n.provider = p /\ n.pc = "client" /\ n.behind = j.behind
    BY <1>2, <1>4, <1>6 DEF BindingJob, Job, PCs
  <2> HIDE DEF n
  <2>3. JobsOK' /\ job'["binding"] = n /\ job'["provider"] = job["provider"]
    BY <1>1, <2>1, <2>2, JobMoves
  <2> QED
    BY <1>1, <1>2, <1>6, <2>2, <2>3
<1> QED
  BY <1>5, <1>6

\* The provider worker stores the finalizer, or gives up.
LEMMA ProtectJob ==
  ASSUME Base, NEW reply \in Replies, Protect(reply)
  PROVE  /\ JobsOK' /\ job'["binding"] = job["binding"]
         /\ job["provider"].pc = "protect" /\ job'["provider"].pc \in {"client", "idle"}
<1> DEFINE j == job["provider"]
           marked == [j.copy EXCEPT !.protected = TRUE]
           n == [j EXCEPT !.pc = "client", !.copy = marked, !.provider = marked]
<1>1. JobsOK /\ ProviderJob(j) /\ j.pc = "protect" /\ "binding" \in Controllers
      /\ "provider" \in Controllers /\ "provider" # "binding"
  BY DEF Base, JobsOK, Protect, Controllers
<1>2. j \in Job /\ j.key \in Providers /\ j.copy \in Provider
  BY <1>1 DEF ProviderJob
<1>3. marked \in Provider
  BY <1>2 DEF Provider
<1>4. ProviderJob(n) /\ n.pc = "client"
  <2> HIDE DEF marked
  <2> QED
    BY <1>1, <1>2, <1>3, Kinship DEF ProviderJob, Job, PCs
<1>5. job' = [job EXCEPT !["provider"] = n] \/ Goto("provider", Idle)
  BY DEF Protect, Goto, Finish
<1> HIDE DEF n
<1>6. CASE job' = [job EXCEPT !["provider"] = n]
  BY <1>1, <1>4, <1>6, JobMoves
<1>7. CASE Goto("provider", Idle)
  BY <1>1, <1>7, IdleAgain, IdleJob
<1> QED
  BY <1>5, <1>6, <1>7

\* Secrets have been read and the directory is asked, or there is no client.
LEMMA BuildClientJob ==
  ASSUME Base, NEW c \in Controllers, BuildClient(c)
  PROVE  LET j == job[c]
             k == job'[c]
             read == [s \in SecretsRead(j.provider) |-> cache[s]] IN
         /\ JobsOK' /\ \A d \in Controllers \ {c} : job'[d] = job[d]
         /\ j.pc = "client" /\ k.key = j.key /\ k.copy = j.copy
         /\ k.provider = j.provider /\ k.provider \in Provider /\ k.secrets = read
         /\ k.behind = j.behind
         /\ \/ k.pc = "status" /\ tokens' = tokens /\ k.phase = "Degraded"
            \/ /\ k.pc = "request" /\ tokens' = [tokens EXCEPT ![LimiterOf(c)] = @ - 1]
               /\ LimiterOf(c) \in Providers
               /\ \E l \in Latencies : k.left = l + LimiterWait(tokens[LimiterOf(c)])
               /\ tokens[LimiterOf(c)] - 1 + Rate * k.left >= 0
<1> DEFINE j == job[c]
           read == [s \in SecretsRead(j.provider) |-> cache[s]]
           r == [j EXCEPT !.secrets = read]
<1>1. JobsOK /\ j.pc = "client" /\ j \in Job
  BY DEF Base, JobsOK, BuildClient, Controllers, BindingJob, ProviderJob
<1>2. j.provider \in Provider
  BY <1>1 DEF JobsOK, Controllers, BindingJob, ProviderJob
<1>3. SecretsRead(j.provider) \subseteq Secrets
  BY <1>2 DEF SecretsRead, Provider
<1>4. \A s \in Secrets : cache[s] \in {None} \cup SecretData
  BY Kinship DEF Base, StoreOK
<1>5. read \in [SecretsRead(j.provider) -> {None} \cup SecretData]
  BY <1>3, <1>4
<1>6. read \in Readings
  BY <1>3, <1>5 DEF Readings
<1>7. LimiterOf(c) \in Providers
  BY <1>1 DEF LimiterOf, JobsOK, Controllers, BindingJob, ProviderJob, Binding
<1> HIDE DEF read
<1>8. CASE \E s \in DOMAIN read : read[s] = "unusable"
  <2> DEFINE n == [r EXCEPT !.pc = "status", !.phase = "Degraded", !.cause = "secret"]
  <2>1. job' = [job EXCEPT ![c] = n] /\ tokens' = tokens
    BY <1>8 DEF BuildClient, Goto, read
  <2>2. n \in Job /\ n.pc = "status" /\ n.key = j.key /\ n.copy = j.copy
        /\ n.provider = j.provider /\ n.secrets = read /\ n.behind = j.behind
        /\ n.phase = "Degraded"
    BY <1>1, <1>6 DEF Job, PCs, Phases, Causes
  <2>3. (c = "binding" => BindingJob(n)) /\ (c = "provider" => ProviderJob(n))
    <3> HIDE DEF n
    <3> QED
      BY <1>1, <2>2 DEF JobsOK, BindingJob, ProviderJob, Controllers
  <2> HIDE DEF n
  <2>4. JobsOK' /\ job'[c] = n /\ \A d \in Controllers \ {c} : job'[d] = job[d]
    BY <1>1, <2>1, <2>3, JobMoves
  <2> QED
    BY <1>1, <1>2, <2>1, <2>2, <2>4 DEF read
<1>9. CASE ~(\E s \in DOMAIN read : read[s] = "unusable")
  <2> DEFINE wait == LimiterWait(tokens[LimiterOf(c)])
  <2>1. Connect(c, r)
    BY <1>9 DEF BuildClient, read
  <2>2. PICK l \in Latencies : job' = [job EXCEPT ![c] = [r EXCEPT !.pc = "request", !.left = l + wait]]
    BY <2>1 DEF Connect, Goto, LimiterWait
  <2> DEFINE n == [r EXCEPT !.pc = "request", !.left = l + wait]
  <2>3. tokens[LimiterOf(c)] \in Int
    BY <1>7 DEF Base, ClockOK
  <2>4. wait \in Nat /\ tokens[LimiterOf(c)] - 1 + Rate * wait >= 0
    BY <2>3, WaitCovers
  <2>5. tokens' = [tokens EXCEPT ![LimiterOf(c)] = @ - 1]
    BY <2>1 DEF Connect
  <2> HIDE DEF wait
  <2>6. l \in Nat /\ Rate \in Nat
    BY CadenceAssumption
  <2>7. l + wait \in Nat /\ Rate * (l + wait) = Rate * l + Rate * wait /\ Rate * l >= 0
    BY <2>4, <2>6
  <2>8. tokens[LimiterOf(c)] - 1 + Rate * (l + wait) >= 0
    <3> DEFINE a == Rate * l
               b == Rate * wait
    <3>1. a \in Int /\ b \in Int /\ a >= 0
      BY <2>4, <2>6, <2>7
    <3>2. Rate * (l + wait) = a + b /\ tokens[LimiterOf(c)] - 1 + b >= 0
      BY <2>4, <2>7
    <3> HIDE DEF a, b
    <3> QED
      BY <2>3, <3>1, <3>2
  <2>9. n \in Job /\ n.pc = "request" /\ n.key = j.key /\ n.copy = j.copy
        /\ n.provider = j.provider /\ n.secrets = read /\ n.left = l + wait
        /\ n.behind = j.behind
    BY <1>1, <1>6, <2>7 DEF Job, PCs
  <2>10. (c = "binding" => BindingJob(n)) /\ (c = "provider" => ProviderJob(n))
    <3> HIDE DEF n
    <3> QED
      BY <1>1, <1>2, <2>9 DEF JobsOK, BindingJob, ProviderJob, Controllers
  <2>11. job' = [job EXCEPT ![c] = n]
    BY <2>2
  <2> HIDE DEF n
  <2>12. JobsOK' /\ job'[c] = n /\ \A d \in Controllers \ {c} : job'[d] = job[d]
    BY <1>1, <2>10, <2>11, JobMoves
  <2> QED
    BY <1>1, <1>2, <1>7, <2>5, <2>8, <2>9, <2>12 DEF read, wait
<1> QED
  BY <1>8, <1>9

\* The answer is there.
LEMMA RequestDoneJob ==
  ASSUME Base, NEW c \in Controllers, RequestDone(c)
  PROVE  LET j == job[c]
             k == job'[c] IN
         /\ JobsOK' /\ \A d \in Controllers \ {c} : job'[d] = job[d]
         /\ j.pc = "request" /\ j.left = 0 /\ k.key = j.key /\ k.copy = j.copy
         /\ k.provider = j.provider /\ k.secrets = j.secrets
         /\ k.pc \in {"apply", "status"}
<1> DEFINE j == job[c]
<1>1. JobsOK /\ j.pc = "request" /\ j.left = 0 /\ j \in Job
  BY DEF Base, JobsOK, RequestDone, Controllers, BindingJob, ProviderJob
<1>2. \/ \E phase \in Phases, cause \in Causes : Mark(c, phase, cause)
      \/ c = "binding" /\ members # None /\ Goto(c, [j EXCEPT !.pc = "apply", !.found = members])
  BY DEF RequestDone, Phases, Causes, Controllers, Base, BoundsOK
<1>3. CASE \E phase \in Phases, cause \in Causes : Mark(c, phase, cause)
  <2>1. PICK phase \in Phases, cause \in Causes : Mark(c, phase, cause)
    BY <1>3
  <2> DEFINE n == Noted(j, phase, cause)
  <2>2. JobsOK' /\ job'[c] = n /\ \A d \in Controllers \ {c} : job'[d] = job[d]
    BY <1>1, <2>1, MarkedJob
  <2>3. n.key = j.key /\ n.copy = j.copy /\ n.provider = j.provider
        /\ n.secrets = j.secrets /\ n.pc = "status"
    BY <1>1 DEF Job, Noted
  <2> HIDE DEF n
  <2> QED
    BY <1>1, <2>2, <2>3
<1>4. CASE c = "binding" /\ members # None /\ Goto(c, [j EXCEPT !.pc = "apply", !.found = members])
  <2> DEFINE n == [j EXCEPT !.pc = "apply", !.found = members]
  <2>1. members \in Memberships
    BY <1>4 DEF Base, BoundsOK
  <2>2. n.key = j.key /\ n.copy = j.copy /\ n.provider = j.provider
        /\ n.secrets = j.secrets /\ n.pc = "apply"
    BY <1>1 DEF Job
  <2>3. BindingJob(j)
    BY <1>1, <1>4 DEF JobsOK
  <2>4. BindingJob(n)
    BY <1>1, <2>1, <2>3 DEF BindingJob, Job, PCs
  <2>5. job' = [job EXCEPT ![c] = n]
    BY <1>4 DEF Goto
  <2> HIDE DEF n
  <2>6. JobsOK' /\ job'[c] = n /\ \A d \in Controllers \ {c} : job'[d] = job[d]
    BY <1>1, <1>4, <2>4, <2>5, JobMoves
  <2> QED
    BY <1>1, <2>2, <2>6
<1> QED
  BY <1>2, <1>3, <1>4

\* The grants have been written, or not.
LEMMA ApplyJob ==
  ASSUME Base, NEW reply \in Replies, Apply(reply)
  PROVE  LET j == job["binding"]
             k == job'["binding"] IN
         /\ JobsOK' /\ job'["provider"] = job["provider"]
         /\ j.pc = "apply" /\ k.key = j.key /\ k.copy = j.copy
         /\ k.provider = j.provider /\ k.secrets = j.secrets /\ k.pc = "status"
         /\ j.key \in Names /\ j.copy \in Binding /\ j.found \in Memberships
<1> DEFINE j == job["binding"]
<1>1. JobsOK /\ j.pc = "apply" /\ BindingJob(j) /\ "binding" \in Controllers
      /\ "provider" \in Controllers /\ "provider" # "binding"
  BY DEF Base, JobsOK, Apply, Controllers
<1>2. j \in Job /\ j.key \in Names /\ j.copy \in Binding /\ j.found \in Memberships
  BY <1>1 DEF BindingJob
<1>3. PICK phase \in Phases, cause \in Causes : Mark("binding", phase, cause)
  <2>1. \/ Mark("binding", "Ready", "none") \/ Mark("binding", "Degraded", "api")
    BY DEF Apply
  <2> QED
    BY <2>1 DEF Phases, Causes
<1> DEFINE n == Noted(j, phase, cause)
<1>4. JobsOK' /\ job'["binding"] = n /\ job'["provider"] = job["provider"]
  <2>1. \A d \in Controllers \ {"binding"} : job'[d] = job[d]
    BY <1>1, <1>3, MarkedJob
  <2>2. JobsOK' /\ job'["binding"] = n
    BY <1>1, <1>3, MarkedJob
  <2> QED
    BY <1>1, <2>1, <2>2
<1>5. n.key = j.key /\ n.copy = j.copy /\ n.provider = j.provider
      /\ n.secrets = j.secrets /\ n.pc = "status"
  BY <1>2 DEF Job, Noted
<1> HIDE DEF n
<1> QED
  BY <1>1, <1>2, <1>4, <1>5

\* A reconcile ends.
LEMMA FinishJob ==
  ASSUME Base, NEW c \in Controllers, NEW delay, Finish(c, delay)
  PROVE  /\ JobsOK' /\ job'[c] = Idle
         /\ \A d \in Controllers \ {c} : job'[d] = job[d]
BY IdleAgain DEF Finish, Base

\* Requests in progress come closer to their answers.
LEMMA TickJob ==
  ASSUME Base, Tick
  PROVE  /\ JobsOK'
         /\ \A c \in Controllers :
              /\ job'[c].pc = job[c].pc /\ job'[c].key = job[c].key /\ job'[c].copy = job[c].copy
              /\ job'[c].provider = job[c].provider /\ job'[c].secrets = job[c].secrets
              /\ job[c].pc = "request" => job'[c].left = job[c].left - 1 /\ job[c].left > 0
<1> SUFFICES ASSUME NEW c \in Controllers
             PROVE  /\ c = "binding" => BindingJob(job'[c])
                    /\ c = "provider" => ProviderJob(job'[c])
                    /\ job'[c].pc = job[c].pc /\ job'[c].key = job[c].key /\ job'[c].copy = job[c].copy
                    /\ job'[c].provider = job[c].provider /\ job'[c].secrets = job[c].secrets
                    /\ job[c].pc = "request" => job'[c].left = job[c].left - 1 /\ job[c].left > 0
  BY DEF JobsOK, Controllers, Tick
<1> DEFINE j == job[c]
<1>1. j \in Job /\ (c = "binding" => BindingJob(j)) /\ (c = "provider" => ProviderJob(j))
  BY DEF Base, JobsOK, Controllers, BindingJob, ProviderJob
<1>2. job'[c] = IF j.left > 0 THEN [j EXCEPT !.left = @ - 1] ELSE j
  BY DEF Tick
<1>3. j.pc = "request" => j.left > 0
  BY IdleJob DEF Tick, Blocked
<1>4. j.left \in Nat
  BY <1>1 DEF Job
<1>5. CASE j.left > 0
  <2> DEFINE n == [j EXCEPT !.left = @ - 1]
  <2>1. job'[c] = n
    BY <1>2, <1>5
  <2>2. /\ n \in Job /\ n.pc = j.pc /\ n.key = j.key /\ n.copy = j.copy /\ n.provider = j.provider
        /\ n.secrets = j.secrets /\ n.left = j.left - 1 /\ n.found = j.found
    BY <1>1, <1>4, <1>5 DEF Job
  <2>3. j # Idle
    BY <1>5, IdleJob
  <2> HIDE DEF n
  <2>4. (c = "binding" => BindingJob(n)) /\ (c = "provider" => ProviderJob(n))
    BY <1>1, <2>2, <2>3 DEF BindingJob, ProviderJob
  <2> QED
    BY <1>5, <2>1, <2>2, <2>4
<1>6. CASE ~(j.left > 0)
  BY <1>1, <1>2, <1>3, <1>6
<1> QED
  BY <1>5, <1>6

----------------------------------------------------------------------------
(* Steps. *)

\* A step, action by action.
LEMMA Steps ==
  ASSUME [Next]_vars
  PROVE  \/ \E c \in Controllers : Take(c) \/ BuildClient(c) \/ RequestDone(c)
         \/ \E c \in Controllers, reply \in Replies : WriteStatus(c, reply)
         \/ LoadProvider \/ ReadFails
         \/ \E reply \in Replies : Apply(reply) \/ Protect(reply)
         \/ \E o \in Objects, listed \in BOOLEAN : Deliver(o, listed)
         \/ \E k \in Keys : TimerFires(k)
         \/ Tick \/ Environment \/ UNCHANGED vars
BY DEF Next, System, Faults, WorkerStep, Replies

\* What a step may do to the objects: nothing, a change that is announced, or
\* the delivery of one.
StoreStep ==
  \/ live' = live /\ cache' = cache /\ events \subseteq events' /\ events' \subseteq Objects
  \/ \E o \in Objects : \E v \in {None} \cup ValuesOf(o) :
       /\ live' = [live EXCEPT ![o] = v] /\ events' = events \cup {o} /\ cache' = cache
  \/ \E o \in events :
       /\ live' = live /\ events' = events \ {o} /\ cache' = [cache EXCEPT ![o] = live[o]]

StatusStep ==
  /\ status' = status \/ \E k \in Keys, s \in Status : status' = [status EXCEPT ![k] = s]
  /\ stamped' \subseteq Keys

\* A user's edit is announced.
LEMMA EnvironmentStore ==
  ASSUME Base, Environment
  PROVE  StoreStep /\ StatusStep
<1>1. ASSUME NEW o \in Objects, NEW v \in {None} \cup ValuesOf(o), Change(o, v)
      PROVE  StoreStep /\ StatusStep
  BY <1>1 DEF Change, Inside, StoreStep, StatusStep, Base, StoreOK
<1>2. /\ scenario.roles \subseteq Roles /\ scenario.data \subseteq SecretData
      /\ scenario.credentials \subseteq Secrets \X ({None} \cup Secrets)
  BY CadenceAssumption DEF Base, BoundsOK
<1>3. ASSUME NEW n \in Names, NEW p \in Providers, NEW r \in scenario.roles, SetBinding(n, p, r)
      PROVE  StoreStep /\ StatusStep
  <2> DEFINE g == IF live[n] = None THEN 1 ELSE live[n].gen + 1
  <2>1. live[n] \in {None} \cup Binding /\ n \in Objects /\ ValuesOf(n) = Binding
    BY Kinship DEF Base, StoreOK
  <2>2. g \in Nat
    BY <2>1 DEF Binding
  <2>3. Change(n, [gen |-> g, ref |-> p, role |-> r])
    BY <1>3 DEF SetBinding
  <2> HIDE DEF g
  <2>4. [gen |-> g, ref |-> p, role |-> r] \in Binding
    BY <1>2, <2>2 DEF Binding
  <2> QED
    BY <1>1, <2>1, <2>3, <2>4
<1>4. ASSUME NEW p \in Providers, NEW secrets \in scenario.credentials,
             SetProvider(p, secrets[1], secrets[2])
      PROVE  StoreStep /\ StatusStep
  <2> DEFINE g == IF live[p] = None THEN 1 ELSE live[p].gen + 1
  <2>1. live[p] \in {None} \cup Provider /\ p \in Objects /\ ValuesOf(p) = Provider
    BY Kinship DEF Base, StoreOK
  <2>2. g \in Nat
    BY <2>1 DEF Provider
  <2>3. PICK b \in BOOLEAN :
          Change(p, [gen |-> g, bind |-> secrets[1], ca |-> secrets[2], protected |-> b])
    <3>1. (live[p] # None /\ live[p].protected) \in BOOLEAN
      OBVIOUS
    <3> QED
      BY <1>4, <3>1 DEF SetProvider
  <2> HIDE DEF g
  <2>4. secrets[1] \in Secrets /\ secrets[2] \in {None} \cup Secrets
    BY <1>2
  <2>5. [gen |-> g, bind |-> secrets[1], ca |-> secrets[2], protected |-> b] \in Provider
    BY <2>2, <2>4 DEF Provider
  <2> QED
    BY <1>1, <2>1, <2>3, <2>5
<1>5. ASSUME NEW s \in Secrets, NEW data \in scenario.data, Rotate(s, data)
      PROVE  StoreStep /\ StatusStep
  <2>1. s \in Objects /\ ValuesOf(s) = SecretData
    BY Kinship
  <2> QED
    BY <1>1, <1>2, <1>5, <2>1 DEF Rotate
<1>6. ASSUME NEW m, NEW u, ChangeDirectory(m, u)
      PROVE  StoreStep /\ StatusStep
  BY <1>6 DEF ChangeDirectory, api, Inside, StoreStep, StatusStep, Base, StoreOK
<1> QED
  BY <1>3, <1>4, <1>5, <1>6 DEF Environment

\* The finalizer is announced.
LEMMA ProtectStore ==
  ASSUME Base, NEW reply \in Replies, Protect(reply)
  PROVE  StoreStep /\ StatusStep
<1> DEFINE j == job["provider"]
           marked == [j.copy EXCEPT !.protected = TRUE]
<1>1. j.key \in Providers /\ j.copy \in Provider
  BY DEF Base, JobsOK, ProviderJob, Protect
<1>2. marked \in Provider /\ j.key \in Objects /\ ValuesOf(j.key) = Provider
  BY <1>1, Kinship DEF Provider
<1>3. /\ cache' = cache /\ status' = status /\ stamped' = stamped
      /\ \/ live' = [live EXCEPT ![j.key] = marked] /\ events' = events \cup {j.key}
         \/ live' = live /\ events' = events
  BY DEF Protect
<1> HIDE DEF marked
<1> QED
  BY <1>2, <1>3 DEF StoreStep, StatusStep, Base, StoreOK

\* What is written of the grants is announced.
LEMMA ApplyStore ==
  ASSUME Base, NEW reply \in Replies, Apply(reply)
  PROVE  StoreStep /\ StatusStep
<1> DEFINE j == job["binding"]
           object == ClusterRoleBindingOf(j.key)
<1>1. j.key \in Names /\ j.copy \in Binding /\ j.found \in Memberships
  BY ApplyJob
<1>2. object \in ClusterRoleBindings /\ object \in Objects /\ ValuesOf(object) = ClusterRoleBinding
  BY <1>1, OwnObject, Kinship
<1>3. Desired(j) \in ClusterRoleBinding
  BY <1>1 DEF Desired, Binding, ClusterRoleBinding
<1>4. live[object] \in {None} \cup ClusterRoleBinding
  BY <1>2 DEF Base, StoreOK
<1>5. \/ live' = live /\ events' = events
      \/ \E result \in {None, Desired(j), live[object]} :
           /\ live' = [live EXCEPT ![object] = result]
           /\ events' = IF result # live[object] THEN events \cup {object} ELSE events
  BY DEF Apply
<1>6. cache' = cache /\ status' = status /\ stamped' = stamped
  BY DEF Apply
<1> HIDE DEF object
<1>7. CASE live' = live /\ events' = events
  BY <1>6, <1>7 DEF StoreStep, StatusStep, Base, StoreOK
<1>8. ASSUME NEW result \in {None, Desired(j), live[object]},
             live' = [live EXCEPT ![object] = result],
             events' = IF result # live[object] THEN events \cup {object} ELSE events
      PROVE  StoreStep /\ StatusStep
  <2>1. CASE result # live[object]
    BY <1>2, <1>3, <1>4, <1>6, <1>8, <2>1 DEF StoreStep, StatusStep, Base, StoreOK
  <2>2. CASE result = live[object]
    <3>1. live' = live
      BY <1>2, <1>8, <2>2 DEF Base, StoreOK
    <3> QED
      BY <1>6, <1>8, <2>2, <3>1 DEF StoreStep, StatusStep, Base, StoreOK
  <2> QED
    BY <2>1, <2>2
<1> QED
  BY <1>5, <1>7, <1>8

\* A status that differs is announced.
LEMMA WriteStatusStore ==
  ASSUME Base, NEW c \in Controllers, NEW reply \in Replies, WriteStatus(c, reply)
  PROVE  StoreStep /\ StatusStep
<1> DEFINE j == job[c]
<1>1. j \in Job /\ j.pc = "status" /\ j.key \in Keys /\ j.copy \in Binding \cup Provider
  BY Kinship DEF Base, JobsOK, BindingJob, ProviderJob, Controllers, WriteStatus
<1>2. j.key \in Objects /\ status[j.key] \in Status
  BY <1>1 DEF Objects, Base, StoreOK
<1>3. MarkedStatus(j) \in Status
  <2>1. j.phase \in Phases /\ j.cause \in Causes /\ j.found \in {None} \cup Memberships
    BY <1>1 DEF Job
  <2>2. j.copy.gen \in Nat
    BY <1>1 DEF Binding, Provider
  <2>3. status[j.key].members \in {None} \cup Memberships
    BY <1>2 DEF Status
  <2> QED
    BY <2>1, <2>2, <2>3 DEF MarkedStatus, Status, Phases, Causes
<1>4. /\ live' = live /\ cache' = cache
      /\ \/ /\ status' = [status EXCEPT ![j.key] = MarkedStatus(j)]
            /\ events' = events \cup {j.key}
            /\ stamped' \subseteq stamped \cup {j.key}
         \/ status' = status /\ events' = events /\ stamped' = stamped
  BY DEF WriteStatus
<1> QED
  BY <1>1, <1>2, <1>3, <1>4 DEF StoreStep, StatusStep, Base, StoreOK

\* Every step treats the objects in one of these ways.
LEMMA StoreSteps ==
  ASSUME Base, [Next]_vars
  PROVE  StoreStep /\ StatusStep
<1> USE DEF StoreStep, StatusStep, Base, StoreOK
<1>1. ASSUME NEW c \in Controllers, Take(c) \/ BuildClient(c) \/ RequestDone(c)
      PROVE  StoreStep /\ StatusStep
  BY <1>1 DEF Take, BuildClient, RequestDone, api
<1>2. CASE LoadProvider \/ ReadFails
  BY <1>2 DEF LoadProvider, ReadFails, api
<1>3. ASSUME NEW o \in Objects, NEW listed, Deliver(o, listed)
      PROVE  StoreStep /\ StatusStep
  BY <1>3 DEF Deliver
<1>4. ASSUME NEW k \in Keys, TimerFires(k)
      PROVE  StoreStep /\ StatusStep
  BY <1>4 DEF TimerFires, api
<1>5. CASE Tick
  BY <1>5 DEF Tick
<1>6. CASE UNCHANGED vars
  BY <1>6 DEF vars
<1> QED
  BY <1>1, <1>2, <1>3, <1>4, <1>5, <1>6, Steps, EnvironmentStore, ProtectStore, ApplyStore,
     WriteStatusStore

\* An object that has no event on its way is in the cache as it is.
Announced == \A o \in Objects \ events : cache[o] = live[o]

\* Stored objects keep their types, and changes are announced.
LEMMA StorePreserved ==
  ASSUME Base, [Next]_vars
  PROVE  StoreOK' /\ (Announced => Announced')
<1>1. StoreStep /\ StatusStep /\ StoreOK
  BY StoreSteps DEF Base
<1>2. status' \in [Keys -> Status] /\ stamped' \subseteq Keys
  BY <1>1 DEF StatusStep, StoreOK
<1>3. CASE live' = live /\ cache' = cache /\ events \subseteq events' /\ events' \subseteq Objects
  BY <1>1, <1>2, <1>3 DEF StoreOK, Announced
<1>4. ASSUME NEW o \in Objects, NEW v \in {None} \cup ValuesOf(o),
             live' = [live EXCEPT ![o] = v], events' = events \cup {o}, cache' = cache
      PROVE  StoreOK' /\ (Announced => Announced')
  BY <1>1, <1>2, <1>4 DEF StoreOK, Announced
<1>5. ASSUME NEW o \in events, live' = live, events' = events \ {o},
             cache' = [cache EXCEPT ![o] = live[o]]
      PROVE  StoreOK' /\ (Announced => Announced')
  BY <1>1, <1>2, <1>5 DEF StoreOK, Announced
<1> QED
  BY <1>1, <1>3, <1>4, <1>5 DEF StoreStep

----------------------------------------------------------------------------
(* Queues and delays. *)

\* The two queues.
LEMMA Queues ==
  ASSUME SchedOK
  PROVE  /\ queue = [binding |-> queue["binding"], provider |-> queue["provider"]]
         /\ queue["binding"] \in Seq(Names) /\ queue["provider"] \in Seq(Providers)
         /\ ToSet(queue["binding"]) \subseteq Names
         /\ ToSet(queue["provider"]) \subseteq Providers
<1>1. queue["binding"] \in Seq(Names) /\ queue["provider"] \in Seq(Providers)
  BY DEF SchedOK
<1>2. queue = [binding |-> queue["binding"], provider |-> queue["provider"]]
  BY DEF SchedOK
<1> QED
  BY <1>1, <1>2, ToSetType

\* One of the queues changes.
LEMMA QueueMoves ==
  ASSUME SchedOK, NEW c \in Controllers, NEW q, queue' = [queue EXCEPT ![c] = q],
         c = "binding" => q \in Seq(Names), c = "provider" => q \in Seq(Providers)
  PROVE  /\ queue' \in [binding : Seq(Names), provider : Seq(Providers)]
         /\ queue'[c] = q /\ \A d \in Controllers \ {c} : queue'[d] = queue[d]
BY DEF SchedOK, Controllers

\* A request is taken from its queue.
LEMMA TakeSched ==
  ASSUME Base, NEW c \in Controllers, Take(c)
  PROVE  /\ SchedOK'
         /\ \A d \in Controllers \ {c} : queue'[d] = queue[d]
         /\ ToSet(queue[c]) = {Head(queue[c])} \cup ToSet(queue'[c])
         /\ c = "binding" => Head(queue[c]) \in Names
         /\ queue[c] # <<>> /\ queue'[c] = Tail(queue[c])
<1>1. SchedOK /\ queue[c] # <<>> /\ queue' = [queue EXCEPT ![c] = Tail(queue[c])] /\ due' = due
  BY DEF Base, Take
<1>2. /\ c = "binding" => queue[c] \in Seq(Names)
      /\ c = "provider" => queue[c] \in Seq(Providers)
  BY <1>1, Queues
<1>3. /\ ToSet(queue[c]) = {Head(queue[c])} \cup ToSet(Tail(queue[c]))
      /\ c = "binding" => Tail(queue[c]) \in Seq(Names) /\ Head(queue[c]) \in Names
      /\ c = "provider" => Tail(queue[c]) \in Seq(Providers)
  <2>1. CASE c = "binding"
    BY <1>1, <1>2, <2>1, ToSetTail
  <2>2. CASE c = "provider"
    BY <1>1, <1>2, <2>2, ToSetTail
  <2> QED
    BY <2>1, <2>2 DEF Controllers
<1>4. /\ queue' \in [binding : Seq(Names), provider : Seq(Providers)]
      /\ queue'[c] = Tail(queue[c]) /\ \A d \in Controllers \ {c} : queue'[d] = queue[d]
  BY <1>1, <1>3, QueueMoves
<1>5. \A d \in Controllers : ToSet(queue'[d]) \subseteq ToSet(queue[d])
  BY <1>3, <1>4
<1> QED
  BY <1>1, <1>3, <1>4, <1>5 DEF SchedOK

\* A reconcile ends with a delay, or its request is queued already.
LEMMA FinishSched ==
  ASSUME Base, NEW c \in Controllers, NEW delay \in Delays, Finish(c, delay), queue' = queue,
         job[c].pc # "idle"
  PROVE  /\ SchedOK' /\ job[c].key \in Keys
         /\ \A i \in Keys \ {job[c].key} : due'[i] = due[i]
         /\ due'[job[c].key] \in {due[job[c].key], delay}
         /\ delay # None => job[c].key \in ToSet(queue[c]) \/ due'[job[c].key] # None
<1> DEFINE k == job[c].key
<1>1. k \in Keys /\ (c = "binding" => k \in Names) /\ (c = "provider" => k \in Providers)
  BY Kinship DEF Base, JobsOK, BindingJob, ProviderJob, Controllers
<1> DEFINE d == IF k \in ToSet(queue[c]) \/ delay = None THEN due[k]
                ELSE IF due[k] = None \/ delay < due[k] THEN delay ELSE due[k]
<1>0. due' = [due EXCEPT ![k] = d]
  BY DEF Finish
<1>2. /\ due' = [due EXCEPT ![k] = d]
      /\ d \in {due[k], delay} /\ (k \in ToSet(queue[c]) => d = due[k])
      /\ delay # None => k \in ToSet(queue[c]) \/ d # None
  <2>1. d \in {due[k], delay} /\ (k \in ToSet(queue[c]) => d = due[k])
    OBVIOUS
  <2>2. delay # None => k \in ToSet(queue[c]) \/ d # None
    OBVIOUS
  <2> QED
    BY <1>0, <2>1, <2>2
<1> HIDE DEF d
<1>3. SchedOK
  BY DEF Base
<1>4. due' \in [Keys -> Delays] /\ due'[k] = d /\ \A i \in Keys \ {k} : due'[i] = due[i]
  BY <1>1, <1>2, <1>3 DEF SchedOK
<1>5. ASSUME NEW b \in Controllers, NEW i \in ToSet(queue[b])
      PROVE  due'[i] = None
  <2>1. due[i] = None /\ i \in Keys
    BY <1>3, <1>5, Queues, Kinship DEF SchedOK, Controllers
  <2>2. CASE i # k
    BY <1>4, <2>1, <2>2
  <2>3. CASE i = k
    <3>1. b = c
      BY <1>1, <1>3, <2>3, Queues, Kinship DEF Controllers
    <3> QED
      BY <1>2, <1>4, <2>1, <2>3, <3>1
  <2> QED
    BY <2>2, <2>3
<1>6. SchedOK'
  BY <1>3, <1>4, <1>5 DEF SchedOK
<1> QED
  BY <1>1, <1>2, <1>4, <1>6

\* The delays of the code.
LEMMA DelaysAre == Retry \in Delays /\ Interval \in Delays
BY CadenceAssumption DEF Delays

\* A delay is over.
LEMMA TimerSched ==
  ASSUME Base, NEW k \in Keys, TimerFires(k)
  PROVE  /\ SchedOK' /\ ToSet(queue["binding"]) \subseteq ToSet(queue'["binding"])
         /\ queue'["binding"] = IF k \in Names THEN Append(queue["binding"], k)
                                ELSE queue["binding"]
         /\ \A i \in Keys \ {k} : due'[i] = due[i]
<1> DEFINE c == IF k \in Names THEN "binding" ELSE "provider"
<1>1. /\ c \in Controllers /\ (c = "binding" => k \in Names) /\ (c = "provider" => k \in Providers)
      /\ "binding" \in Controllers /\ IF k \in Names THEN c = "binding" ELSE c = "provider"
  BY DEF Controllers, Keys
<1>2. SchedOK /\ queue' = [queue EXCEPT ![c] = Append(queue[c], k)] /\ due' = [due EXCEPT ![k] = None]
  BY DEF Base, TimerFires
<1> HIDE DEF c
<1>3. /\ ToSet(Append(queue[c], k)) = ToSet(queue[c]) \cup {k}
      /\ c = "binding" => Append(queue[c], k) \in Seq(Names)
      /\ c = "provider" => Append(queue[c], k) \in Seq(Providers)
  <2>1. CASE c = "binding"
    BY <1>1, <1>2, <2>1, Queues, ToSetAppend
  <2>2. CASE c = "provider"
    BY <1>1, <1>2, <2>2, Queues, ToSetAppend
  <2> QED
    BY <1>1, <2>1, <2>2 DEF Controllers
<1>4. /\ queue' \in [binding : Seq(Names), provider : Seq(Providers)]
      /\ queue'[c] = Append(queue[c], k) /\ \A d \in Controllers \ {c} : queue'[d] = queue[d]
  BY <1>1, <1>2, <1>3, QueueMoves
<1>5. /\ \A d \in Controllers : ToSet(queue'[d]) \subseteq ToSet(queue[d]) \cup {k}
      /\ \A d \in Controllers : ToSet(queue[d]) \subseteq ToSet(queue'[d])
  BY <1>3, <1>4
<1>6. due' \in [Keys -> Delays] /\ due'[k] = None /\ \A i \in Keys \ {k} : due'[i] = due[i]
  BY <1>2 DEF SchedOK, Delays
<1>7. ASSUME NEW b \in Controllers, NEW i \in ToSet(queue'[b])
      PROVE  due'[i] = None
  <2>1. CASE i = k
    BY <1>6, <2>1
  <2>2. CASE i # k
    <3>1. i \in ToSet(queue[b])
      BY <1>5, <2>2
    <3>2. i \in Keys /\ due[i] = None
      BY <1>2, <3>1, Queues, Kinship DEF SchedOK, Controllers
    <3> QED
      BY <1>6, <2>2, <3>2
  <2> QED
    BY <2>1, <2>2
<1> QED
  BY <1>1, <1>4, <1>5, <1>6, <1>7 DEF SchedOK, Controllers

\* Time passes: a delay that is not over has a tick less.
LEMMA TickSched ==
  ASSUME Base, Tick
  PROVE  SchedOK'
<1>1. SchedOK /\ queue' = queue /\ (\A k \in Keys : due[k] # 0)
      /\ due' = [k \in Keys |-> IF due[k] = None THEN None ELSE due[k] - 1]
  BY DEF Base, Tick
<1>2. ASSUME NEW k \in Keys PROVE (IF due[k] = None THEN None ELSE due[k] - 1) \in Delays
  <2>1. due[k] \in Delays /\ due[k] # 0
    BY <1>1 DEF SchedOK
  <2> QED
    BY <2>1, CadenceAssumption DEF Delays
<1>3. due' \in [Keys -> Delays]
  BY <1>1, <1>2
<1>4. ASSUME NEW b \in Controllers, NEW i \in ToSet(queue[b])
      PROVE  due'[i] = None
  <2>1. i \in Keys /\ due[i] = None
    BY <1>1, Queues, Kinship DEF SchedOK, Controllers
  <2> QED
    BY <1>1, <2>1
<1> QED
  BY <1>1, <1>3, <1>4 DEF SchedOK

\* The bindings that an event concerns.
LEMMA RequestsAreNames ==
  ASSUME NEW o \in Objects, NEW listed
  PROVE  BindingRequests(o, listed) \in SUBSET Names
<1>1. CASE o \in Names
  BY <1>1, Kinship DEF BindingRequests
<1>2. CASE o \in ClusterRoleBindings
  <2>1. PICK n \in Names : o = <<"ClusterRoleBinding", n>>
    BY <1>2 DEF ClusterRoleBindings, ClusterRoleBindingOf
  <2>2. o[2] \in Names
    BY <2>1
  <2> QED
    BY <1>2, <2>2, Kinship DEF BindingRequests
<1>3. CASE o \in Providers
  BY <1>3, Kinship DEF BindingRequests, MapProvider
<1>4. CASE o \in Secrets
  BY <1>4, Kinship DEF BindingRequests, MapSecret, MapProvider
<1> QED
  BY <1>1, <1>2, <1>3, <1>4 DEF Objects, Keys

\* An event is delivered: its requests are queued, none is lost.
LEMMA DeliverSched ==
  ASSUME Base, NEW o \in Objects, NEW listed \in BOOLEAN, Deliver(o, listed)
  PROVE  /\ SchedOK'
         /\ ToSet(queue'["binding"]) = ToSet(queue["binding"]) \cup BindingRequests(o, listed)
         /\ queue'["binding"] \in Enqueued(queue["binding"], BindingRequests(o, listed))
<1>1. SchedOK /\ IsFiniteSet(Names)
  BY CadenceAssumption DEF Base
<1> DEFINE p == IF o \in Providers /\ o \notin ToSet(queue["provider"])
                  THEN Append(queue["provider"], o) ELSE queue["provider"]
<1>2. PICK b \in Enqueued(queue["binding"], BindingRequests(o, listed)) :
        queue' = [binding |-> b, provider |-> p]
  BY DEF Deliver
<1>3. b \in Seq(Names) /\ ToSet(b) = ToSet(queue["binding"]) \cup BindingRequests(o, listed)
  BY <1>1, <1>2, Queues, RequestsAreNames, EnqueuedKeys
<1>4. p \in Seq(Providers)
  BY <1>1, Queues
<1> HIDE DEF p
<1>5. /\ queue' \in [binding : Seq(Names), provider : Seq(Providers)]
      /\ queue'["binding"] = b /\ queue'["provider"] = p
  BY <1>2, <1>3, <1>4
<1>6. due' = [k \in Keys |-> IF k \in ToSet(queue'["binding"]) \cup ToSet(queue'["provider"])
                               THEN None ELSE due[k]]
  BY DEF Deliver
<1>7. due' \in [Keys -> Delays]
  BY <1>1, <1>6 DEF SchedOK, Delays
<1>8. ToSet(queue'["binding"]) \subseteq Keys /\ ToSet(queue'["provider"]) \subseteq Keys
  BY <1>3, <1>4, <1>5, ToSetType DEF Keys
<1>9. ASSUME NEW c \in Controllers, NEW i \in ToSet(queue'[c])
      PROVE  due'[i] = None
  BY <1>6, <1>8, <1>9 DEF Controllers
<1> QED
  BY <1>2, <1>3, <1>5, <1>7, <1>9 DEF SchedOK

\* Queues and delays stay in order.
LEMMA SchedPreserved ==
  ASSUME Base, [Next]_vars
  PROVE  SchedOK'
<1>0. SchedOK
  BY DEF Base
<1>1. ASSUME UNCHANGED <<queue, due>> PROVE SchedOK'
  BY <1>0, <1>1 DEF SchedOK
<1>2. ASSUME NEW c \in Controllers, BuildClient(c) \/ RequestDone(c)
      PROVE  SchedOK'
  BY <1>1, <1>2 DEF BuildClient, RequestDone, sched
<1>3. ASSUME NEW c \in Controllers, NEW reply \in Replies, WriteStatus(c, reply)
      PROVE  SchedOK'
  <2>1. \E d \in Delays : Finish(c, d)
    BY <1>3, DelaysAre DEF WriteStatus, Delay
  <2>2. queue' = queue /\ job[c].pc # "idle"
    BY <1>3 DEF WriteStatus
  <2> QED
    BY <2>1, <2>2, FinishSched
<1>4. CASE LoadProvider
  BY <1>1, <1>4 DEF LoadProvider, sched
<1>5. CASE ReadFails
  <2>1. queue' = queue /\ job["binding"].pc # "idle" /\ Finish("binding", Retry)
        /\ "binding" \in Controllers
    BY <1>5 DEF ReadFails, Controllers
  <2> QED
    BY <2>1, FinishSched, DelaysAre
<1>6. ASSUME NEW reply \in Replies, Apply(reply)
      PROVE  SchedOK'
  BY <1>1, <1>6 DEF Apply, sched
<1>7. ASSUME NEW reply \in Replies, Protect(reply)
      PROVE  SchedOK'
  <2>1. queue' = queue /\ job["provider"].pc # "idle" /\ "provider" \in Controllers
        /\ (due' = due \/ Finish("provider", Retry))
    BY <1>7 DEF Protect, Controllers
  <2> QED
    BY <1>1, <2>1, FinishSched, DelaysAre
<1>8. CASE Environment
  BY <1>1, <1>8 DEF Environment, SetBinding, SetProvider, Rotate, ChangeDirectory, Change, Inside, sched
<1>9. CASE UNCHANGED vars
  BY <1>1, <1>9 DEF vars
<1> QED
  BY <1>2, <1>3, <1>4, <1>5, <1>6, <1>7, <1>8, <1>9, Steps, TakeSched, DeliverSched, TimerSched,
     TickSched

----------------------------------------------------------------------------
(* The limiter. *)

\* The other worker.
LEMMA TwoControllers ==
  ASSUME NEW c \in Controllers
  PROVE  \E d \in Controllers : d # c /\ Controllers = {c, d} /\ Controllers \ {c} = {d}
<1>1. CASE c = "binding"
  <2> WITNESS "provider" \in Controllers
  <2> QED
    BY <1>1 DEF Controllers
<1>2. CASE c = "provider"
  <2> WITNESS "binding" \in Controllers
  <2> QED
    BY <1>2 DEF Controllers
<1> QED
  BY <1>1, <1>2 DEF Controllers

\* The tokens a worker still waits for, as a number.
LEMMA Remaining ==
  ASSUME NEW j \in Job
  PROVE  j.left \in Nat /\ Rate * j.left \in Nat
<1>1. j.left \in Nat
  BY DEF Job
<1>2. Rate \in Nat
  BY CadenceAssumption
<1> QED
  BY <1>1, <1>2

\* Both workers' jobs are jobs.
LEMMA AreJobs ==
  /\ JobsOK => \A c \in Controllers : job[c] \in Job
  /\ JobsOK' => \A c \in Controllers : job'[c] \in Job
BY DEF JobsOK, BindingJob, ProviderJob, Controllers

\* A step without the limiter: workers that move do not wait.
LEMMA LimiterAlone ==
  ASSUME LimiterOK, tokens' = tokens,
         \A c \in Controllers : \/ job'[c] = job[c]
                                \/ job[c].pc # "request" /\ job'[c].pc # "request"
  PROVE  LimiterOK'
<1>1. \A c \in Controllers, p \in Providers : Waiting(c, p)' = Waiting(c, p)
  BY DEF Waiting, LimiterOf
<1>2. ASSUME NEW c \in Controllers, NEW p \in Providers, NEW n \in {-1, 0}, Waiting(c, p)
      PROVE  Covers(c, p, n)' = Covers(c, p, n)
  BY <1>2 DEF Waiting, Covers
<1> SUFFICES ASSUME NEW p \in Providers
             PROVE  (/\ -2 <= tokens[p] /\ tokens[p] <= Burst
                     /\ \A c \in Controllers : ~Waiting(c, p) => tokens[p] >= -1
                     /\ (\A c \in Controllers : ~Waiting(c, p)) => tokens[p] >= 0
                     /\ \A c \in Controllers : Waiting(c, p) => Covers(c, p, -1)
                     /\ \A c \in Controllers :
                          Waiting(c, p) => \E d \in Controllers : Waiting(d, p) /\ Covers(d, p, 0))'
  BY DEF LimiterOK
<1> QED
  BY <1>1, <1>2 DEF LimiterOK

\* A worker reserves a token and waits until it is there.
LEMMA ConnectLimiter ==
  ASSUME Base, LimiterOK, NEW c \in Controllers, BuildClient(c)
  PROVE  LimiterOK'
<1> DEFINE k == job'[c]
           l == LimiterOf(c)
<1>1. /\ JobsOK' /\ (\A d \in Controllers \ {c} : job'[d] = job[d])
      /\ job[c].pc = "client" /\ k.key = job[c].key /\ k.copy = job[c].copy
      /\ \/ k.pc = "status" /\ tokens' = tokens
         \/ /\ k.pc = "request" /\ tokens' = [tokens EXCEPT ![l] = @ - 1]
            /\ l \in Providers /\ tokens[l] - 1 + Rate * k.left >= 0
  BY BuildClientJob
<1>2. CASE k.pc = "status" /\ tokens' = tokens
  BY <1>1, <1>2, LimiterAlone
<1>3. CASE /\ k.pc = "request" /\ tokens' = [tokens EXCEPT ![l] = @ - 1]
           /\ l \in Providers /\ tokens[l] - 1 + Rate * k.left >= 0
  <2>1. PICK d \in Controllers : d # c /\ Controllers = {c, d} /\ Controllers \ {c} = {d}
    BY TwoControllers
  <2>2. job'[d] = job[d] /\ Rate * job[d].left \in Nat /\ Rate * k.left \in Nat
    BY <1>1, <2>1, AreJobs, Remaining DEF Base
  <2>3. LimiterOf(c)' = l
    BY <1>1 DEF LimiterOf
  <2>4. \A p \in Providers : /\ ~Waiting(c, p) /\ (Waiting(c, p)' <=> p = l)
                             /\ (Waiting(d, p)' <=> Waiting(d, p))
    BY <1>1, <1>3, <2>2, <2>3 DEF Waiting, LimiterOf
  <2>5. tokens \in [Providers -> Int] /\ Burst \in Nat
    BY CadenceAssumption DEF Base, ClockOK
  <2> SUFFICES ASSUME NEW p \in Providers
               PROVE  (/\ -2 <= tokens[p] /\ tokens[p] <= Burst
                       /\ \A b \in Controllers : ~Waiting(b, p) => tokens[p] >= -1
                       /\ (\A b \in Controllers : ~Waiting(b, p)) => tokens[p] >= 0
                       /\ \A b \in Controllers : Waiting(b, p) => Covers(b, p, -1)
                       /\ \A b \in Controllers :
                            Waiting(b, p) => \E e \in Controllers : Waiting(e, p) /\ Covers(e, p, 0))'
    BY DEF LimiterOK
  <2> DEFINE t == tokens[p]
             x == Rate * job[d].left
  <2>6. t \in Int /\ x \in Nat /\ -2 <= t /\ t <= Burst
    BY <2>2, <2>5 DEF LimiterOK
  <2>7. t >= -1 /\ (~Waiting(d, p) => t >= 0)
    BY <2>1, <2>4 DEF LimiterOK
  <2>8. Waiting(d, p) => t + x >= 0
    BY <2>1, <2>4 DEF LimiterOK, Covers
  <2>9. CASE p # l
    <3>1. tokens'[p] = t
      BY <1>3, <2>5, <2>9
    <3>2. Covers(d, p, -1)' <=> t + x >= -1
      BY <2>2, <3>1 DEF Covers
    <3>3. Covers(d, p, 0)' <=> t + x >= 0
      BY <2>2, <3>1 DEF Covers
    <3> HIDE DEF t, x
    <3>4. Waiting(d, p) => Covers(d, p, -1)' /\ Covers(d, p, 0)'
      BY <2>6, <2>8, <3>2, <3>3
    <3> QED
      BY <2>1, <2>4, <2>6, <2>7, <2>9, <3>1, <3>4
  <2>10. CASE p = l
    <3>1. tokens'[p] = t - 1
      BY <1>3, <2>5, <2>10
    <3>2. Covers(d, p, -1)' <=> t - 1 + x >= -1
      BY <2>2, <3>1 DEF Covers
    <3>3. Covers(c, p, 0)' /\ Covers(c, p, -1)'
      <4> DEFINE y == Rate * k.left
      <4>1. y \in Nat /\ t - 1 + y >= 0
        BY <1>3, <2>2, <2>10
      <4>2. (Covers(c, p, -1)' <=> t - 1 + y >= -1) /\ (Covers(c, p, 0)' <=> t - 1 + y >= 0)
        BY <3>1 DEF Covers
      <4> HIDE DEF y
      <4> QED
        BY <2>6, <4>1, <4>2
    <3> HIDE DEF t, x
    <3>4. Waiting(d, p) => Covers(d, p, -1)'
      BY <2>6, <2>8, <3>2
    <3>5. -2 <= tokens'[p] /\ tokens'[p] <= Burst /\ (~Waiting(d, p) => tokens'[p] >= -1)
      BY <2>5, <2>6, <2>7, <3>1
    <3> QED
      BY <2>1, <2>4, <2>10, <3>3, <3>4, <3>5
  <2> QED
    BY <2>9, <2>10
<1> QED
  BY <1>1, <1>2, <1>3

\* A worker that has waited leaves no debt.
LEMMA RequestDoneLimiter ==
  ASSUME Base, LimiterOK, NEW c \in Controllers, RequestDone(c)
  PROVE  LimiterOK'
<1>1. /\ JobsOK' /\ (\A d \in Controllers \ {c} : job'[d] = job[d])
      /\ job[c].pc = "request" /\ job[c].left = 0 /\ job'[c].pc # "request"
  BY RequestDoneJob
<1>2. tokens' = tokens
  BY DEF RequestDone
<1>3. PICK d \in Controllers : d # c /\ Controllers = {c, d} /\ Controllers \ {c} = {d}
  BY TwoControllers
<1>4. job'[d] = job[d] /\ Rate * job[d].left \in Nat
  BY <1>1, <1>3, AreJobs, Remaining DEF Base
<1>5. \A p \in Providers : ~Waiting(c, p)' /\ (Waiting(d, p)' <=> Waiting(d, p))
  BY <1>1, <1>4 DEF Waiting, LimiterOf
<1>6. tokens \in [Providers -> Int] /\ Rate * job[c].left = 0
  BY <1>1, CadenceAssumption DEF Base, ClockOK
<1> SUFFICES ASSUME NEW p \in Providers
             PROVE  (/\ -2 <= tokens[p] /\ tokens[p] <= Burst
                     /\ \A b \in Controllers : ~Waiting(b, p) => tokens[p] >= -1
                     /\ (\A b \in Controllers : ~Waiting(b, p)) => tokens[p] >= 0
                     /\ \A b \in Controllers : Waiting(b, p) => Covers(b, p, -1)
                     /\ \A b \in Controllers :
                          Waiting(b, p) => \E e \in Controllers : Waiting(e, p) /\ Covers(e, p, 0))'
  BY DEF LimiterOK
<1> DEFINE t == tokens[p]
           x == Rate * job[d].left
<1>7. t \in Int /\ x \in Nat /\ -2 <= t /\ t <= Burst /\ tokens'[p] = t
  BY <1>2, <1>4, <1>6 DEF LimiterOK
<1>8. (Covers(d, p, -1)' <=> t + x >= -1) /\ (Covers(d, p, 0)' <=> t + x >= 0)
  BY <1>4, <1>7 DEF Covers
<1>9. Waiting(d, p) => t + x >= -1
  BY <1>3 DEF LimiterOK, Covers
<1>10. Waiting(c, p) => t >= -1 /\ (t >= 0 \/ (Waiting(d, p) /\ t + x >= 0))
  <2>1. Waiting(c, p) => t + 0 >= -1 /\ (t + 0 >= 0 \/ (Waiting(d, p) /\ t + x >= 0))
    BY <1>3, <1>6 DEF LimiterOK, Covers
  <2> QED
    BY <1>7, <2>1
<1>11. ~Waiting(c, p) => t >= -1 /\ (~Waiting(d, p) => t >= 0) /\ (Waiting(d, p) => t + x >= 0)
  BY <1>3 DEF LimiterOK, Covers
<1> HIDE DEF t, x
<1>12. t >= -1 /\ (~Waiting(d, p) => t >= 0) /\ (Waiting(d, p) => t + x >= 0)
  BY <1>7, <1>10, <1>11
<1> QED
  BY <1>3, <1>5, <1>7, <1>8, <1>9, <1>12

\* A tick pays for a tick of waiting.
LEMMA TickLimiter ==
  ASSUME Base, LimiterOK, Tick
  PROVE  LimiterOK'
<1>1. JobsOK'
  BY TickJob
<1>2. \A c \in Controllers : \A p \in Providers : Waiting(c, p)' <=> Waiting(c, p)
  BY TickJob DEF Waiting, LimiterOf
<1>3. /\ tokens \in [Providers -> Int] /\ Rate \in Nat /\ Burst \in Nat /\ Burst > 0 /\ Rate > 0
      /\ tokens' = [p \in Providers |-> Min({Burst, tokens[p] + Rate})]
  BY CadenceAssumption DEF Base, ClockOK, Tick
<1> SUFFICES ASSUME NEW p \in Providers
             PROVE  (/\ -2 <= tokens[p] /\ tokens[p] <= Burst
                     /\ \A c \in Controllers : ~Waiting(c, p) => tokens[p] >= -1
                     /\ (\A c \in Controllers : ~Waiting(c, p)) => tokens[p] >= 0
                     /\ \A c \in Controllers : Waiting(c, p) => Covers(c, p, -1)
                     /\ \A c \in Controllers :
                          Waiting(c, p) => \E d \in Controllers : Waiting(d, p) /\ Covers(d, p, 0))'
  BY DEF LimiterOK
<1> DEFINE t == tokens[p]
<1>4. t \in Int /\ -2 <= t /\ t <= Burst
  BY <1>3 DEF LimiterOK
<1>5. tokens'[p] = IF Burst <= t + Rate THEN Burst ELSE t + Rate
  <2> DEFINE u == t + Rate
  <2>1. tokens'[p] = Min({Burst, u})
    BY <1>3
  <2>2. u \in Int /\ Burst \in Int
    BY <1>3, <1>4
  <2> HIDE DEF u
  <2>3. tokens'[p] = IF Burst <= u THEN Burst ELSE u
    BY <2>1, <2>2, MaxOfTwo
  <2> QED
    BY <2>3 DEF u
<1>6. tokens'[p] \in Int /\ tokens'[p] >= t /\ tokens'[p] <= Burst
  BY <1>3, <1>4, <1>5
<1>7. ASSUME NEW c \in Controllers, Waiting(c, p), NEW n \in {-1, 0}, Covers(c, p, n)
      PROVE  Covers(c, p, n)'
  <2>1. /\ job'[c].left = job[c].left - 1 /\ job[c].left > 0 /\ job[c].left \in Nat
        /\ Rate * job'[c].left \in Nat
    BY <1>1, <1>7, TickJob, AreJobs, Remaining DEF Waiting, Base
  <2> DEFINE x == Rate * job[c].left
             y == Rate * job'[c].left
  <2>2. y \in Nat /\ x \in Int /\ y = x - Rate
    BY <1>3, <2>1
  <2>3. t + x >= n
    BY <1>7 DEF Covers
  <2>4. Covers(c, p, n)' <=> tokens'[p] + y >= n
    BY DEF Covers
  <2> HIDE DEF x, y, t
  <2> QED
    BY <1>3, <1>4, <1>5, <2>2, <2>3, <2>4
<1>8. /\ \A c \in Controllers : ~Waiting(c, p) => t >= -1
      /\ (\A c \in Controllers : ~Waiting(c, p)) => t >= 0
      /\ \A c \in Controllers : Waiting(c, p) => Covers(c, p, -1)
      /\ \A c \in Controllers :
           Waiting(c, p) => \E d \in Controllers : Waiting(d, p) /\ Covers(d, p, 0)
  BY DEF LimiterOK
<1>9. -2 <= tokens'[p] /\ (t >= -1 => tokens'[p] >= -1) /\ (t >= 0 => tokens'[p] >= 0)
  BY <1>4, <1>6
<1>10. /\ \A c \in Controllers : Waiting(c, p)' => Covers(c, p, -1)'
       /\ \A c \in Controllers :
            Waiting(c, p)' => \E d \in Controllers : Waiting(d, p)' /\ Covers(d, p, 0)'
  BY <1>2, <1>7, <1>8
<1> QED
  BY <1>2, <1>6, <1>8, <1>9, <1>10

\* The debts of the limiters are bounded.
LEMMA LimiterPreserved ==
  ASSUME Base, LimiterOK, [Next]_vars
  PROVE  LimiterOK'
<1>1. ASSUME NEW c \in Controllers, Take(c)
      PROVE  LimiterOK'
  <2>1. tokens' = tokens
    BY <1>1 DEF Take, clock
  <2> QED
    BY <1>1, <2>1, TakeJob, IdleJob, LimiterAlone
<1>2. ASSUME NEW c \in Controllers, NEW reply \in Replies, WriteStatus(c, reply)
      PROVE  LimiterOK'
  <2>1. tokens' = tokens /\ job[c].pc = "status" /\ \E d : Finish(c, d)
    BY <1>2 DEF WriteStatus, clock
  <2> QED
    BY <2>1, FinishJob, IdleJob, LimiterAlone
<1>3. CASE LoadProvider
  <2>1. tokens' = tokens
    BY <1>3 DEF LoadProvider, clock
  <2> QED
    BY <1>3, <2>1, LoadProviderJob, LimiterAlone DEF Controllers
<1>4. CASE ReadFails
  <2>1. tokens' = tokens /\ job["binding"].pc = "provider" /\ Finish("binding", Retry)
        /\ "binding" \in Controllers
    BY <1>4 DEF ReadFails, clock, Controllers
  <2>2. job'["binding"] = Idle /\ \A d \in Controllers \ {"binding"} : job'[d] = job[d]
    BY <2>1, FinishJob
  <2> QED
    BY <2>1, <2>2, IdleJob, LimiterAlone
<1>5. ASSUME NEW reply \in Replies, Apply(reply)
      PROVE  LimiterOK'
  <2>1. tokens' = tokens
    BY <1>5 DEF Apply, clock
  <2> QED
    BY <1>5, <2>1, ApplyJob, LimiterAlone DEF Controllers
<1>6. ASSUME NEW reply \in Replies, Protect(reply)
      PROVE  LimiterOK'
  <2>1. tokens' = tokens
    BY <1>6 DEF Protect, clock
  <2> QED
    BY <1>6, <2>1, ProtectJob, LimiterAlone DEF Controllers
<1>7. ASSUME UNCHANGED <<job, tokens>> PROVE LimiterOK'
  BY <1>7, LimiterAlone
<1>8. ASSUME NEW o, NEW listed, Deliver(o, listed) PROVE LimiterOK'
  BY <1>7, <1>8 DEF Deliver, clock
<1>9. ASSUME NEW k, TimerFires(k) PROVE LimiterOK'
  BY <1>7, <1>9 DEF TimerFires, clock
<1>10. CASE Environment
  BY <1>7, <1>10 DEF Environment, SetBinding, SetProvider, Rotate, ChangeDirectory, Change, Inside, clock
<1>11. CASE UNCHANGED vars
  BY <1>7, <1>11 DEF vars
<1> QED
  BY <1>1, <1>2, <1>3, <1>4, <1>5, <1>6, <1>8, <1>9, <1>10, <1>11, Steps, ConnectLimiter,
     RequestDoneLimiter, TickLimiter

----------------------------------------------------------------------------
(* Type correctness. *)

\* Moves are only counted up.
LEMMA Spending ==
  ASSUME BoundsOK, NEW kind \in Kinds, Spend(kind)
  PROVE  /\ scenario' \in Scenarios /\ spent' \in [Kinds -> Nat] /\ spent'[kind] > 0
         /\ spent'["fault"] = 0 => spent["fault"] = 0
BY DEF BoundsOK, Spend, Kinds

\* The bounds, the directory and the histories of a step.
LEMMA BoundsPreserved ==
  ASSUME Base, [Next]_vars
  PROVE  /\ BoundsOK' /\ HistoryOK' /\ ClockOK'
         /\ spent'["fault"] = 0 => spent["fault"] = 0
<1>0. BoundsOK /\ HistoryOK /\ ClockOK /\ JobsOK /\ {"edit", "rotate", "directory", "fault"} = Kinds
  BY DEF Base, Kinds
<1> DEFINE Counted == /\ scenario' \in Scenarios /\ spent' \in [Kinds -> Nat]
                      /\ spent'["fault"] = 0 => spent["fault"] = 0
<1>1. ASSUME NEW reply \in Replies, Replied(reply) PROVE Counted
  <2>1. UNCHANGED bounds \/ Spend("fault")
    BY <1>1 DEF Replied
  <2> QED
    BY <1>0, <2>1, Spending DEF bounds, BoundsOK
<1>2. ASSUME UNCHANGED bounds PROVE Counted
  BY <1>0, <1>2 DEF bounds, BoundsOK
<1>3. ASSUME UNCHANGED <<members, up>>, Counted PROVE BoundsOK'
  BY <1>0, <1>3 DEF BoundsOK
<1>4. ASSUME UNCHANGED <<tokens, tick>> PROVE ClockOK'
  BY <1>0, <1>4 DEF ClockOK
<1>5. ASSUME UNCHANGED used PROVE HistoryOK'
  BY <1>0, <1>5 DEF HistoryOK
<1> HIDE DEF Counted
<1> DEFINE Goal == BoundsOK' /\ HistoryOK' /\ ClockOK' /\ Counted
<1>6. ASSUME NEW c \in Controllers, Take(c) PROVE Goal
  BY <1>2, <1>3, <1>4, <1>5, <1>6 DEF Take, clock
<1>7. ASSUME NEW c \in Controllers, BuildClient(c) PROVE Goal
  <2>1. \/ tokens' = tokens
        \/ tokens' = [tokens EXCEPT ![LimiterOf(c)] = @ - 1] /\ LimiterOf(c) \in Providers
    BY <1>7, BuildClientJob
  <2>2. tick' = tick
    BY <1>7 DEF BuildClient
  <2>3. ClockOK'
    BY <1>0, <2>1, <2>2 DEF ClockOK
  <2> QED
    BY <1>2, <1>3, <1>5, <1>7, <2>3 DEF BuildClient
<1>8. ASSUME NEW c \in Controllers, RequestDone(c) PROVE Goal
  BY <1>2, <1>3, <1>4, <1>5, <1>8 DEF RequestDone
<1>9. ASSUME NEW c \in Controllers, NEW reply \in Replies, WriteStatus(c, reply) PROVE Goal
  <2>1. HistoryOK'
    <3>1. used' = used \/ \E u : used' = [used EXCEPT ![job[c].key] = u]
      BY <1>9 DEF WriteStatus
    <3> QED
      BY <1>0, <3>1 DEF HistoryOK
  <2> QED
    BY <1>1, <1>3, <1>4, <1>9, <2>1 DEF WriteStatus, clock
<1>10. ASSUME LoadProvider PROVE Goal
  BY <1>2, <1>3, <1>4, <1>5, <1>10 DEF LoadProvider, clock
<1>11. ASSUME ReadFails PROVE Goal
  <2>1. Counted
    BY <1>0, <1>11, Spending DEF ReadFails, Counted
  <2> QED
    BY <1>3, <1>4, <1>5, <1>11, <2>1 DEF ReadFails, clock
<1>12. ASSUME NEW reply \in Replies, Apply(reply) PROVE Goal
  BY <1>1, <1>3, <1>4, <1>5, <1>12 DEF Apply, clock
<1>13. ASSUME NEW reply \in Replies, Protect(reply) PROVE Goal
  BY <1>1, <1>3, <1>4, <1>5, <1>13 DEF Protect, clock
<1>14. ASSUME NEW o, NEW listed \in BOOLEAN, Deliver(o, listed) PROVE Goal
  <2>1. UNCHANGED bounds \/ Spend("fault")
    BY <1>14 DEF Deliver
  <2>2. Counted
    BY <1>0, <1>2, <2>1, Spending DEF Counted
  <2> QED
    BY <1>3, <1>4, <1>5, <1>14, <2>2 DEF Deliver, clock
<1>15. ASSUME NEW k, TimerFires(k) PROVE Goal
  BY <1>2, <1>3, <1>4, <1>5, <1>15 DEF TimerFires, clock
<1>16. ASSUME Tick PROVE Goal
  <2>1. tick' \in 0..TicksPerSecond - 1
    <3>1. tick' = (tick + 1) % TicksPerSecond /\ tick \in Nat
          /\ TicksPerSecond \in Nat /\ TicksPerSecond > 0
      BY <1>0, <1>16, CadenceAssumption DEF Tick, ClockOK
    <3> QED
      BY <3>1
  <2>2. ASSUME NEW p \in Providers PROVE Min({Burst, tokens[p] + Rate}) \in Int
    <3>1. Burst \in Int /\ tokens[p] + Rate \in Int
      BY <1>0, CadenceAssumption DEF ClockOK
    <3> QED
      BY <3>1, MaxOfTwo
  <2>3. ClockOK'
    BY <1>16, <2>1, <2>2 DEF Tick, ClockOK
  <2> QED
    BY <1>2, <1>3, <1>5, <1>16, <2>3 DEF Tick
<1>17. ASSUME Environment PROVE Goal
  <2>1. HistoryOK' /\ ClockOK'
    BY <1>4, <1>5, <1>17
    DEF Environment, SetBinding, SetProvider, Rotate, ChangeDirectory, Change, Inside, clock
  <2>2. \E kind \in Kinds : Spend(kind)
    BY <1>0, <1>17 DEF Environment, SetBinding, SetProvider, Rotate, ChangeDirectory
  <2>3. Counted
    BY <1>0, <2>2, Spending DEF Counted
  <2>4. members' \in {None} \cup Memberships /\ up' \in BOOLEAN
    BY <1>0, <1>17
    DEF Environment, SetBinding, SetProvider, Rotate, ChangeDirectory, Change, BoundsOK
  <2> QED
    BY <2>1, <2>3, <2>4 DEF BoundsOK, Counted
<1>18. ASSUME UNCHANGED vars PROVE Goal
  BY <1>2, <1>3, <1>4, <1>5, <1>18 DEF vars, bounds
<1> HIDE DEF Goal
<1>19. Goal
  BY <1>6, <1>7, <1>8, <1>9, <1>10, <1>11, <1>12, <1>13, <1>14, <1>15, <1>16, <1>17, <1>18, Steps
<1> QED
  BY <1>19 DEF Goal, Counted

\* The workers' jobs stay in order.
LEMMA JobsPreserved ==
  ASSUME Base, [Next]_vars
  PROVE  JobsOK'
<1>0. JobsOK
  BY DEF Base
<1>1. ASSUME UNCHANGED job PROVE JobsOK'
  BY <1>0, <1>1 DEF JobsOK
<1>2. ASSUME NEW c \in Controllers, NEW reply \in Replies, WriteStatus(c, reply)
      PROVE  JobsOK'
  BY <1>2, FinishJob DEF WriteStatus
<1>3. CASE ReadFails
  BY <1>3, FinishJob DEF ReadFails, Controllers
<1>4. ASSUME NEW o, NEW listed, Deliver(o, listed) PROVE JobsOK'
  BY <1>1, <1>4 DEF Deliver
<1>5. ASSUME NEW k, TimerFires(k) PROVE JobsOK'
  BY <1>1, <1>5 DEF TimerFires
<1>6. CASE Environment
  BY <1>1, <1>6 DEF Environment, SetBinding, SetProvider, Rotate, ChangeDirectory, Change, Inside
<1>7. CASE UNCHANGED vars
  BY <1>1, <1>7 DEF vars
<1> QED
  BY <1>2, <1>3, <1>4, <1>5, <1>6, <1>7, Steps, TakeJob, LoadProviderJob, BuildClientJob,
     RequestDoneJob, ApplyJob, ProtectJob, TickJob

\* A process that starts.
LEMMA BaseInit ==
  ASSUME Init
  PROVE  Base /\ LimiterOK /\ Announced
<1>1. PICK s \in Scenarios :
        /\ live = s.objects /\ cache = s.objects /\ events = {}
        /\ members = s.group /\ scenario = s
        /\ queue \in [binding : Enqueued(<<>>, {n \in Names : s.objects[n] # None}),
                      provider : Enqueued(<<>>, {p \in Providers : s.objects[p] # None})]
  BY DEF Init
<1>2. /\ status = [k \in Keys |-> NewStatus] /\ stamped = {} /\ due = [k \in Keys |-> None]
      /\ job = [c \in Controllers |-> Idle] /\ tokens = [p \in Providers |-> Burst] /\ tick = 0
      /\ up = TRUE /\ used = [n \in Names |-> None] /\ spent = [k \in Kinds |-> 0]
  BY DEF Init
<1>3. StoreOK
  <2>1. NewStatus \in Status
    BY DEF NewStatus, Status
  <2> QED
    BY <1>1, <1>2, <2>1, CadenceAssumption DEF StoreOK
<1>4. SchedOK
  <2>1. <<>> \in Seq(Names) /\ <<>> \in Seq(Providers)
    OBVIOUS
  <2>2. queue["binding"] \in Enqueued(<<>>, {n \in Names : s.objects[n] # None})
        /\ queue["provider"] \in Enqueued(<<>>, {p \in Providers : s.objects[p] # None})
        /\ queue = [binding |-> queue["binding"], provider |-> queue["provider"]]
    BY <1>1
  <2>3. queue["binding"] \in Seq(Names)
    BY <2>1, <2>2, EnqueuedKeys, CadenceAssumption
  <2>4. queue["provider"] \in Seq(Providers)
    BY <2>1, <2>2, EnqueuedKeys, CadenceAssumption
  <2>5. queue \in [binding : Seq(Names), provider : Seq(Providers)]
    BY <2>2, <2>3, <2>4
  <2>6. ToSet(queue["binding"]) \subseteq Keys /\ ToSet(queue["provider"]) \subseteq Keys
    BY <2>3, <2>4, ToSetType DEF Keys
  <2>7. due \in [Keys -> Delays] /\ \A k \in Keys : due[k] = None
    BY <1>2 DEF Delays
  <2> QED
    BY <2>5, <2>6, <2>7 DEF SchedOK, Controllers
<1>5. JobsOK
  BY <1>2, IdleJob DEF JobsOK, Controllers
<1>6. BoundsOK
  BY <1>1, <1>2, CadenceAssumption DEF BoundsOK
<1>7. HistoryOK
  BY <1>2 DEF HistoryOK
<1>8. ClockOK /\ Burst \in Nat
  BY <1>2, CadenceAssumption DEF ClockOK
<1>9. LimiterOK
  <2>1. \A c \in Controllers, p \in Providers : ~Waiting(c, p)
    BY <1>2, IdleJob DEF Waiting
  <2>2. \A p \in Providers : tokens[p] = Burst
    BY <1>2
  <2> QED
    BY <1>8, <2>1, <2>2 DEF LimiterOK
<1>10. Announced
  BY <1>1 DEF Announced
<1> QED
  BY <1>3, <1>4, <1>5, <1>6, <1>7, <1>8, <1>9, <1>10 DEF Base

\* The invariant is inductive.
LEMMA BaseStep ==
  ASSUME Base, LimiterOK, Announced, [Next]_vars
  PROVE  Base' /\ LimiterOK' /\ Announced'
BY StorePreserved, SchedPreserved, JobsPreserved, BoundsPreserved, LimiterPreserved DEF Base

\* The cadence keeps its types for every rate, latency and interval: a key
\* waits in its queue or for its delay and never in both (Finish, Deliver), and
\* a limiter owes each of the two workers one token at most (connectAndBind).
THEOREM TypeCorrect == Spec => []TypeOK
<1>1. Init => Base /\ LimiterOK /\ Announced
  BY BaseInit
<1>2. Base /\ LimiterOK /\ Announced /\ [Next]_vars => (Base /\ LimiterOK /\ Announced)'
  BY BaseStep
<1>3. Base /\ LimiterOK => TypeOK
  BY BaseTypes
<1> QED
  BY <1>1, <1>2, <1>3, PTL DEF Spec

----------------------------------------------------------------------------
(* Freshness. *)

\* The data of a provider's Secrets in the cache c.
SecretsOf(c, p) == IF p = None THEN None ELSE [s \in SecretsRead(p) |-> c[s]]

\* What a reconcile of n would work with now.
CachedInputs(n) ==
  [spec |-> cache[n], provider |-> cache[cache[n].ref],
   secrets |-> SecretsOf(cache, cache[cache[n].ref])]

\* What the reconcile in progress has read so far is what the cache shows now.
ReadCurrent ==
  LET j == job["binding"] IN
  /\ j.copy = cache[j.key]
  /\ j.pc # "provider" => j.provider = cache[j.copy.ref]
  /\ j.pc \in {"request", "apply", "status"} => j.secrets = SecretsOf(cache, j.provider)

\* Unless a list has failed, a binding that the cache shows is queued, or its
\* reconcile, in progress or else its last one, has read what the cache shows.
FreshOrQueued ==
  spent["fault"] = 0 =>
    \A n \in Names :
      cache[n] # None /\ n \notin ToSet(queue["binding"]) =>
        IF job["binding"].key = n THEN ReadCurrent ELSE used[n] = CachedInputs(n)

Fresh == Announced /\ FreshOrQueued

\* The process starts with a request for each binding.
LEMMA FreshInit ==
  ASSUME Init
  PROVE  FreshOrQueued
<1>1. PICK s \in Scenarios :
        /\ cache = s.objects
        /\ queue \in [binding : Enqueued(<<>>, {n \in Names : s.objects[n] # None}),
                      provider : Enqueued(<<>>, {p \in Providers : s.objects[p] # None})]
  BY DEF Init
<1>2. queue["binding"] \in Enqueued(<<>>, {n \in Names : s.objects[n] # None})
  BY <1>1
<1> DEFINE S == {n \in Names : s.objects[n] # None}
<1>3. S \in SUBSET Names /\ IsFiniteSet(Names)
  BY CadenceAssumption
<1>4. PICK q \in Seq(Names) : queue["binding"] \in Enqueued(q, S)
  <2>1. <<>> \in Seq(Names)
    OBVIOUS
  <2>2. queue["binding"] \in Enqueued(<<>>, S)
    BY <1>2
  <2> HIDE DEF S
  <2> WITNESS <<>> \in Seq(Names)
  <2> QED
    BY <2>2
<1>5. \A n \in Names : cache[n] # None => n \in S
  BY <1>1
<1> HIDE DEF S
<1>6. ToSet(queue["binding"]) = ToSet(q) \cup S
  BY <1>3, <1>4, EnqueuedKeys
<1> QED
  BY <1>5, <1>6 DEF FreshOrQueued

\* A step of the worker in the middle of a reconcile, or of others.
LEMMA FreshFrame ==
  ASSUME FreshOrQueued, spent'["fault"] = 0 => spent["fault"] = 0,
         cache' = cache, used' = used,
         ToSet(queue["binding"]) \subseteq ToSet(queue'["binding"]),
         job'["binding"].key = job["binding"].key, ReadCurrent => ReadCurrent'
  PROVE  FreshOrQueued'
<1>1. \A n \in Names : CachedInputs(n)' = CachedInputs(n)
  BY DEF CachedInputs, SecretsOf
<1> QED
  BY <1>1 DEF FreshOrQueued

\* The binding's worker takes a request and reads the binding.
LEMMA FreshTake ==
  ASSUME Base, FreshOrQueued, Take("binding"), spent'["fault"] = 0 => spent["fault"] = 0
  PROVE  FreshOrQueued'
<1> DEFINE k == Head(queue["binding"])
<1>0. "binding" \in Controllers /\ cache' = cache /\ used' = used
  BY DEF Controllers, Take
<1>1. /\ ToSet(queue["binding"]) = {k} \cup ToSet(queue'["binding"]) /\ k \in Names
  BY <1>0, TakeSched
<1>2. job["binding"] = Idle
  BY <1>0, TakeJob
<1>3. \/ cache[k] = None /\ job' = job
      \/ /\ cache[k] # None
         /\ job'["binding"].pc = "provider" /\ job'["binding"].key = k
         /\ job'["binding"].copy = cache[k]
  BY <1>0, TakeJob
<1>4. \A n \in Names : CachedInputs(n)' = CachedInputs(n)
  BY <1>0 DEF CachedInputs, SecretsOf
<1> SUFFICES ASSUME spent["fault"] = 0, NEW n \in Names, cache[n] # None,
                    n \notin ToSet(queue'["binding"])
             PROVE  (IF job["binding"].key = n THEN ReadCurrent ELSE used[n] = CachedInputs(n))'
  BY <1>0 DEF FreshOrQueued
<1>5. CASE n = k
  <2>1. job'["binding"].pc = "provider" /\ job'["binding"].key = n
        /\ job'["binding"].copy = cache[n]
    BY <1>3, <1>5
  <2>2. ReadCurrent'
    BY <1>0, <2>1 DEF ReadCurrent
  <2> QED
    BY <2>1, <2>2
<1>6. CASE n # k
  <2>1. n \notin ToSet(queue["binding"])
    BY <1>1, <1>6
  <2>2. job["binding"].key # n
    BY <1>2, IdleJob, Kinship
  <2>3. used[n] = CachedInputs(n)
    BY <2>1, <2>2 DEF FreshOrQueued
  <2>4. job'["binding"].key # n
    BY <1>3, <1>6, <2>2
  <2> QED
    BY <1>0, <1>4, <2>3, <2>4
<1> QED
  BY <1>5, <1>6

\* The reconcile ends, and what it has read is what has been used.
LEMMA FreshWrite ==
  ASSUME Base, FreshOrQueued, NEW reply \in Replies, WriteStatus("binding", reply),
         spent'["fault"] = 0 => spent["fault"] = 0
  PROVE  FreshOrQueued'
<1> DEFINE j == job["binding"]
           u == [spec |-> j.copy, provider |-> j.provider, secrets |-> j.secrets]
<1>0. "binding" \in Controllers /\ cache' = cache /\ queue' = queue /\ j.pc = "status"
      /\ used' = [used EXCEPT ![j.key] = u]
  BY DEF Controllers, WriteStatus
<1>1. job'["binding"] = Idle
  BY <1>0, FinishJob DEF WriteStatus
<1>2. \A n \in Names : CachedInputs(n)' = CachedInputs(n)
  BY <1>0 DEF CachedInputs, SecretsOf
<1>3. j.key \in Names /\ HistoryOK
  BY <1>0 DEF Base, JobsOK, BindingJob
<1> SUFFICES ASSUME spent["fault"] = 0, NEW n \in Names, cache[n] # None,
                    n \notin ToSet(queue["binding"])
             PROVE  used'[n] = CachedInputs(n)
  BY <1>0, <1>1, <1>2, IdleJob, Kinship DEF FreshOrQueued
<1>4. CASE n = j.key
  <2>1. ReadCurrent
    BY <1>4 DEF FreshOrQueued
  <2>2. j.copy = cache[n] /\ j.provider = cache[cache[n].ref] /\ j.secrets = SecretsOf(cache, j.provider)
    BY <1>0, <1>4, <2>1 DEF ReadCurrent
  <2>3. used'[n] = u
    BY <1>0, <1>3, <1>4 DEF HistoryOK
  <2> QED
    BY <2>2, <2>3 DEF CachedInputs
<1>5. CASE n # j.key
  <2>1. used'[n] = used[n]
    BY <1>0, <1>3, <1>5 DEF HistoryOK
  <2> QED
    BY <1>5, <2>1 DEF FreshOrQueued
<1> QED
  BY <1>4, <1>5

\* An event that enqueues no request for n changes nothing that n depends on.
LEMMA Unconcerned ==
  ASSUME Base, NEW o \in Objects, Deliver(o, TRUE), NEW n \in Names, cache'[n] # None,
         n \notin BindingRequests(o, TRUE)
  PROVE  /\ cache'[n] = cache[n] /\ cache[n] \in Binding
         /\ cache'[cache[n].ref] = cache[cache[n].ref]
         /\ SecretsOf(cache', cache[cache[n].ref]) = SecretsOf(cache, cache[cache[n].ref])
<1>1. cache' = [cache EXCEPT ![o] = live[o]]
  BY DEF Deliver
<1>2. \A x \in Objects \ {o} : cache'[x] = cache[x]
  BY <1>1 DEF Base, StoreOK
<1>3. o # n
  BY Kinship DEF BindingRequests
<1>4. cache'[n] = cache[n] /\ cache[n] \in Binding
  BY <1>2, <1>3, Kinship DEF Base, StoreOK
<1> DEFINE r == cache[n].ref
<1>5. r \in Providers
  BY <1>4 DEF Binding
<1>6. o # r
  <2>1. SUFFICES ASSUME o = r PROVE FALSE
    OBVIOUS
  <2>2. n \in MapProvider(o)
    BY <1>4, <2>1, Kinship DEF MapProvider
  <2>3. BindingRequests(o, TRUE) = MapProvider(o)
    BY <1>5, <2>1, Kinship DEF BindingRequests
  <2> QED
    BY <2>2, <2>3
<1>7. cache'[r] = cache[r]
  BY <1>2, <1>5, <1>6, Kinship
<1>8. SecretsOf(cache', cache[r]) = SecretsOf(cache, cache[r])
  <2>1. CASE cache[r] = None
    BY <2>1 DEF SecretsOf
  <2>2. CASE cache[r] # None
    <3>1. cache[r] \in Provider
      BY <1>5, <2>2, Kinship DEF Base, StoreOK
    <3>2. SecretsRead(cache[r]) \subseteq Secrets /\ SecretsRead(cache[r]) = SecretRefs(cache[r])
      BY <3>1, Kinship DEF SecretsRead, SecretRefs, Provider
    <3>3. o \notin SecretsRead(cache[r])
      <4>1. SUFFICES ASSUME o \in SecretsRead(cache[r]) PROVE FALSE
        OBVIOUS
      <4>2. r \in ProvidersReferencing(o)
        BY <1>5, <2>2, <3>2, <4>1 DEF ProvidersReferencing
      <4>3. n \in MapProvider(r)
        BY <1>4, Kinship DEF MapProvider
      <4>4. n \in MapSecret(o)
        BY <4>2, <4>3 DEF MapSecret
      <4>5. BindingRequests(o, TRUE) = MapSecret(o)
        BY <3>2, <4>1, Kinship DEF BindingRequests
      <4> QED
        BY <4>4, <4>5
    <3>4. \A s \in SecretsRead(cache[r]) : cache'[s] = cache[s]
      BY <1>2, <3>2, <3>3, Kinship
    <3> QED
      BY <2>2, <3>4 DEF SecretsOf
  <2> QED
    BY <2>1, <2>2
<1> QED
  BY <1>4, <1>7, <1>8

\* An event is delivered, with all the requests it calls for.
LEMMA FreshDeliver ==
  ASSUME Base, FreshOrQueued, NEW o \in Objects, Deliver(o, TRUE), spent' = spent
  PROVE  FreshOrQueued'
<1>1. ToSet(queue'["binding"]) = ToSet(queue["binding"]) \cup BindingRequests(o, TRUE)
  BY DeliverSched
<1>2. job' = job /\ used' = used
  BY DEF Deliver
<1> SUFFICES ASSUME spent["fault"] = 0, NEW n \in Names, cache'[n] # None,
                    n \notin ToSet(queue'["binding"])
             PROVE  (IF job["binding"].key = n THEN ReadCurrent ELSE used[n] = CachedInputs(n))'
  BY DEF FreshOrQueued
<1> DEFINE r == cache[n].ref
<1>3. /\ cache'[n] = cache[n] /\ cache[n] \in Binding /\ cache'[r] = cache[r]
      /\ SecretsOf(cache', cache[r]) = SecretsOf(cache, cache[r])
  BY <1>1, Unconcerned
<1>4. cache[n] # None /\ n \notin ToSet(queue["binding"])
  BY <1>1, <1>3
<1>5. CASE job["binding"].key = n
  <2>1. ReadCurrent
    BY <1>4, <1>5 DEF FreshOrQueued
  <2> DEFINE j == job["binding"]
  <2>2. j.copy = cache[n] /\ (j.pc # "provider" => j.provider = cache[r])
        /\ (j.pc \in {"request", "apply", "status"} => j.secrets = SecretsOf(cache, j.provider))
    BY <1>5, <2>1 DEF ReadCurrent
  <2>3. j.copy = cache'[n] /\ (j.pc # "provider" => j.provider = cache'[j.copy.ref])
        /\ (j.pc \in {"request", "apply", "status"} => j.secrets = SecretsOf(cache', j.provider))
    BY <1>3, <2>2
  <2>4. ReadCurrent'
    BY <1>2, <1>5, <2>3 DEF ReadCurrent
  <2> QED
    BY <1>2, <1>5, <2>4
<1>6. CASE job["binding"].key # n
  <2>1. used[n] = CachedInputs(n)
    BY <1>4, <1>6 DEF FreshOrQueued
  <2>2. CachedInputs(n)' = CachedInputs(n)
    BY <1>3 DEF CachedInputs
  <2> QED
    BY <1>2, <1>6, <2>1, <2>2
<1> QED
  BY <1>5, <1>6

\* What has been read stays current as the reconcile goes on.
LEMMA ReadOn ==
  ASSUME Base
  PROVE  /\ LoadProvider => (ReadCurrent => ReadCurrent')
         /\ BuildClient("binding") => (ReadCurrent => ReadCurrent')
         /\ RequestDone("binding") => (ReadCurrent => ReadCurrent')
         /\ \A reply \in Replies : Apply(reply) => (ReadCurrent => ReadCurrent')
         /\ Tick => (ReadCurrent => ReadCurrent')
<1>0. "binding" \in Controllers
  BY DEF Controllers
<1>1. ASSUME LoadProvider, ReadCurrent PROVE ReadCurrent'
  <2>1. cache' = cache
    BY <1>1 DEF LoadProvider
  <2>2. LET j == job["binding"]
            k == job'["binding"] IN
        /\ k.key = j.key /\ k.copy = j.copy /\ k.secrets = None
        /\ k.provider = cache[j.copy.ref]
        /\ k.pc = (IF cache[j.copy.ref] = None THEN "status" ELSE "client")
    BY <1>1, LoadProviderJob
  <2> QED
    BY <1>1, <2>1, <2>2 DEF ReadCurrent, SecretsOf
<1>2. ASSUME BuildClient("binding"), ReadCurrent PROVE ReadCurrent'
  <2>1. cache' = cache
    BY <1>2 DEF BuildClient
  <2> DEFINE j == job["binding"]
             k == job'["binding"]
  <2>2. /\ j.pc = "client" /\ k.key = j.key /\ k.copy = j.copy
        /\ k.provider = j.provider /\ k.provider \in Provider
        /\ k.secrets = [s \in SecretsRead(j.provider) |-> cache[s]]
    BY <1>0, <1>2, BuildClientJob
  <2>3. k.secrets = SecretsOf(cache, k.provider)
    BY <2>2, Kinship DEF SecretsOf
  <2> QED
    BY <1>2, <2>1, <2>2, <2>3 DEF ReadCurrent
<1>3. ASSUME RequestDone("binding"), ReadCurrent PROVE ReadCurrent'
  <2>1. cache' = cache
    BY <1>3 DEF RequestDone
  <2> QED
    BY <1>0, <1>3, <2>1, RequestDoneJob DEF ReadCurrent
<1>4. ASSUME NEW reply \in Replies, Apply(reply), ReadCurrent PROVE ReadCurrent'
  <2>1. cache' = cache
    BY <1>4 DEF Apply
  <2> QED
    BY <1>4, <2>1, ApplyJob DEF ReadCurrent
<1>5. ASSUME Tick, ReadCurrent PROVE ReadCurrent'
  <2>1. cache' = cache
    BY <1>5 DEF Tick
  <2> QED
    BY <1>0, <1>5, <2>1, TickJob DEF ReadCurrent
<1> QED
  BY <1>1, <1>2, <1>3, <1>4, <1>5

\* The provider's worker leaves the binding's alone.
LEMMA FreshOther ==
  ASSUME FreshOrQueued, spent'["fault"] = 0 => spent["fault"] = 0,
         UNCHANGED <<cache, used>>, queue'["binding"] = queue["binding"],
         job'["binding"] = job["binding"]
  PROVE  FreshOrQueued'
<1>1. ReadCurrent => ReadCurrent'
  BY DEF ReadCurrent
<1> QED
  BY <1>1, FreshFrame

\* Freshness is kept by every step.
LEMMA FreshStep ==
  ASSUME Base, FreshOrQueued, [Next]_vars
  PROVE  FreshOrQueued'
<1>0. /\ spent'["fault"] = 0 => spent["fault"] = 0
      /\ "binding" \in Controllers /\ "provider" \in Controllers /\ "binding" # "provider"
  BY BoundsPreserved DEF Controllers
<1>1. ASSUME NEW c \in Controllers, Take(c) PROVE FreshOrQueued'
  <2>1. CASE c = "binding"
    BY <1>0, <1>1, <2>1, FreshTake
  <2>2. CASE c = "provider"
    <3>1. job'["binding"] = job["binding"] /\ queue'["binding"] = queue["binding"]
      BY <1>0, <1>1, <2>2, TakeJob, TakeSched
    <3> QED
      BY <1>0, <1>1, <3>1, FreshOther DEF Take
  <2> QED
    BY <2>1, <2>2 DEF Controllers
<1>2. ASSUME NEW c \in Controllers, BuildClient(c) PROVE FreshOrQueued'
  <2>0. UNCHANGED <<cache, used, queue>>
    BY <1>2 DEF BuildClient, sched
  <2>1. CASE c = "binding"
    <3>1. ReadCurrent => ReadCurrent'
      BY <1>2, <2>1, ReadOn
    <3>2. job'["binding"].key = job["binding"].key
      BY <1>2, <2>1, BuildClientJob
    <3> QED
      BY <1>0, <2>0, <3>1, <3>2, FreshFrame
  <2>2. CASE c = "provider"
    <3>1. \A d \in Controllers \ {c} : job'[d] = job[d]
      BY <1>2, BuildClientJob
    <3>2. job'["binding"] = job["binding"]
      BY <1>0, <2>2, <3>1
    <3> QED
      BY <1>0, <2>0, <3>2, FreshOther
  <2> QED
    BY <2>1, <2>2 DEF Controllers
<1>3. ASSUME NEW c \in Controllers, RequestDone(c) PROVE FreshOrQueued'
  <2>0. UNCHANGED <<cache, used, queue>>
    BY <1>3 DEF RequestDone, sched
  <2>1. CASE c = "binding"
    <3>1. ReadCurrent => ReadCurrent'
      BY <1>3, <2>1, ReadOn
    <3>2. job'["binding"].key = job["binding"].key
      BY <1>3, <2>1, RequestDoneJob
    <3> QED
      BY <1>0, <2>0, <3>1, <3>2, FreshFrame
  <2>2. CASE c = "provider"
    <3>1. job'["binding"] = job["binding"]
      BY <1>0, <1>3, <2>2, RequestDoneJob
    <3> QED
      BY <1>0, <2>0, <3>1, FreshOther
  <2> QED
    BY <2>1, <2>2 DEF Controllers
<1>4. ASSUME NEW c \in Controllers, NEW reply \in Replies, WriteStatus(c, reply)
      PROVE  FreshOrQueued'
  <2>1. CASE c = "binding"
    BY <1>0, <1>4, <2>1, FreshWrite
  <2>2. CASE c = "provider"
    <3>1. UNCHANGED <<cache, used, queue>> /\ \E d : Finish(c, d)
      BY <1>4, <2>2 DEF WriteStatus
    <3>2. job'["binding"] = job["binding"]
      BY <1>0, <2>2, <3>1, FinishJob
    <3> QED
      BY <1>0, <3>1, <3>2, FreshOther
  <2> QED
    BY <2>1, <2>2 DEF Controllers
<1>5. CASE LoadProvider
  <2>1. UNCHANGED <<cache, used, queue>>
    BY <1>5 DEF LoadProvider, sched
  <2>2. job'["binding"].key = job["binding"].key
    BY <1>5, LoadProviderJob
  <2>3. ReadCurrent => ReadCurrent'
    BY <1>5, ReadOn
  <2> QED
    BY <1>0, <2>1, <2>2, <2>3, FreshFrame
<1>6. CASE ReadFails
  <2>1. spent'["fault"] > 0
    BY <1>6, Spending DEF ReadFails, Base, Kinds
  <2> QED
    BY <2>1 DEF FreshOrQueued
<1>7. ASSUME NEW reply \in Replies, Apply(reply) PROVE FreshOrQueued'
  <2>1. UNCHANGED <<cache, used, queue>>
    BY <1>7 DEF Apply, sched
  <2>2. job'["binding"].key = job["binding"].key
    BY <1>7, ApplyJob
  <2>3. ReadCurrent => ReadCurrent'
    BY <1>7, ReadOn
  <2> QED
    BY <1>0, <2>1, <2>2, <2>3, FreshFrame
<1>8. ASSUME NEW reply \in Replies, Protect(reply) PROVE FreshOrQueued'
  <2>1. UNCHANGED <<cache, used, queue>>
    BY <1>8 DEF Protect
  <2> QED
    BY <1>0, <1>8, <2>1, ProtectJob, FreshOther
<1>9. ASSUME NEW o \in Objects, NEW listed \in BOOLEAN, Deliver(o, listed) PROVE FreshOrQueued'
  <2>1. CASE listed
    <3>1. listed = TRUE /\ spent' = spent
      BY <1>9, <2>1 DEF Deliver, bounds
    <3> QED
      BY <1>9, <3>1, FreshDeliver
  <2>2. CASE ~listed
    <3>1. Spend("fault")
      BY <1>9, <2>2 DEF Deliver
    <3>2. spent'["fault"] > 0
      BY <3>1, Spending DEF Base, Kinds
    <3> QED
      BY <3>2 DEF FreshOrQueued
  <2> QED
    BY <2>1, <2>2
<1>10. ASSUME NEW k \in Keys, TimerFires(k) PROVE FreshOrQueued'
  <2>1. UNCHANGED <<cache, used, job>>
    BY <1>10 DEF TimerFires
  <2>2. ReadCurrent => ReadCurrent'
    BY <2>1 DEF ReadCurrent
  <2> QED
    BY <1>0, <1>10, <2>1, <2>2, TimerSched, FreshFrame
<1>11. CASE Tick
  <2>1. UNCHANGED <<cache, used, queue>>
    BY <1>11 DEF Tick
  <2>2. job'["binding"].key = job["binding"].key
    BY <1>0, <1>11, TickJob
  <2>3. ReadCurrent => ReadCurrent'
    BY <1>11, ReadOn
  <2> QED
    BY <1>0, <2>1, <2>2, <2>3, FreshFrame
<1>12. CASE Environment
  <2>1. UNCHANGED <<cache, used, queue, job>>
    BY <1>12
    DEF Environment, SetBinding, SetProvider, Rotate, ChangeDirectory, Change, Inside, sched
  <2> QED
    BY <1>0, <2>1, FreshOther
<1>13. CASE UNCHANGED vars
  BY <1>0, <1>13, FreshOther DEF vars
<1> QED
  BY <1>1, <1>2, <1>3, <1>4, <1>5, <1>6, <1>7, <1>8, <1>9, <1>10, <1>11, <1>12, <1>13, Steps

\* At rest the cache is the truth and nothing is queued or in progress.
LEMMA FreshMeansUsed ==
  ASSUME Base, Fresh
  PROVE  FreshAtRest
<1> SUFFICES ASSUME Resting, spent["fault"] = 0, NEW n \in Names, live[n] # None
             PROVE  used[n] = Inputs(n)
  BY DEF FreshAtRest
<1>1. \A o \in Objects : cache[o] = live[o]
  BY DEF Resting, Fresh, Announced
<1>2. job["binding"] = Idle /\ queue["binding"] = <<>>
  BY DEF Resting, Controllers
<1>3. ToSet(queue["binding"]) = {} /\ job["binding"].key # n
  BY <1>2, IdleJob, Kinship DEF ToSet
<1>4. cache[n] = live[n] /\ live[n] \in Binding
  BY <1>1, Kinship DEF Base, StoreOK
<1>5. used[n] = CachedInputs(n)
  BY <1>3, <1>4 DEF Fresh, FreshOrQueued
<1> DEFINE p == live[live[n].ref]
<1>6. cache[live[n].ref] = p /\ p \in {None} \cup Provider
  BY <1>1, <1>4, Kinship DEF Binding, Base, StoreOK
<1>7. SecretsOf(cache, p) = IF p = None THEN None ELSE [s \in SecretsRead(p) |-> live[s]]
  <2>1. CASE p = None
    BY <2>1 DEF SecretsOf
  <2>2. CASE p # None
    <3>1. SecretsRead(p) \subseteq Secrets
      BY <1>6, <2>2 DEF SecretsRead, Provider
    <3>2. \A s \in SecretsRead(p) : cache[s] = live[s]
      BY <1>1, <3>1, Kinship
    <3> QED
      BY <2>2, <3>2 DEF SecretsOf
  <2> QED
    BY <2>1, <2>2
<1> QED
  BY <1>4, <1>5, <1>6, <1>7 DEF CachedInputs, Inputs

\* No change is overlooked, for any number of bindings, providers and Secrets
\* and any order of deliveries, edits and reconciles: at rest each binding's
\* last reconcile has read the live binding, provider and Secrets
\* (mapProviderTo..., mapSecretTo..., SetupIndexers).
THEOREM NothingOverlooked == Spec => []FreshAtRest
<1>1. Init => Base /\ LimiterOK /\ Fresh
  BY BaseInit, FreshInit DEF Fresh
<1>2. Base /\ LimiterOK /\ Fresh /\ [Next]_vars => (Base /\ LimiterOK /\ Fresh)'
  BY BaseStep, FreshStep DEF Fresh
<1>3. Base /\ Fresh => FreshAtRest
  BY FreshMeansUsed
<1> QED
  BY <1>1, <1>2, <1>3, PTL DEF Spec

----------------------------------------------------------------------------
(* Staleness. *)

\* The longest that a call to the directory takes: another worker has reserved
\* a token before it.
Slowest == Max(Latencies)
LongestCall == Slowest + (Rate + 1) \div Rate

\* As long as i calls, and as long as those of all bindings and the one that is
\* in progress.
Calls(i) == i * LongestCall
Round == Calls(Cardinality(Names) + 1)

\* A reconcile that is refused comes back after Retry and waits for its turn.
Again == Retry + Round

\* How old an answer may be after k faults and edits.
Limit(k) == (IF Interval < Retry THEN Retry ELSE Interval) + Round + k * Again

\* The slowest request is known, and Slack covers what may delay a sync.
SlackSuffices ==
  /\ \E l \in Latencies : \A m \in Latencies : l >= m
  /\ \A s \in Scenarios : Limit(s.moves["fault"] + s.moves["edit"]) <= Interval + Slack

\* Division keeps the order.
LEMMA DivisionMonotone ==
  ASSUME NEW R \in Nat, R > 0, NEW a \in Nat, NEW b \in Nat, a <= b
  PROVE  a \div R \in Nat /\ b \div R \in Nat /\ a \div R <= b \div R
<1> DEFINE x == a \div R
           y == b \div R
           r == a % R
           t == b % R
<1>1. x \in Nat /\ r \in 0..(R - 1) /\ a = R * x + r
  OBVIOUS
<1>2. y \in Nat /\ t \in 0..(R - 1) /\ b = R * y + t
  OBVIOUS
<1> HIDE DEF x, y, r, t
<1>3. ASSUME x >= y + 1 PROVE FALSE
  <2>1. R * x >= R * (y + 1) /\ R * (y + 1) = R * y + R
    BY <1>1, <1>2, <1>3
  <2> DEFINE u == R * x
             v == R * y
  <2>2. u \in Int /\ v \in Int /\ u >= v + R
    BY <1>1, <1>2, <2>1
  <2>3. a = u + r /\ b = v + t
    BY <1>1, <1>2
  <2> HIDE DEF u, v
  <2> QED
    BY <1>1, <1>2, <2>2, <2>3
<1> QED
  BY <1>1, <1>2, <1>3 DEF x, y

\* So does multiplication.
LEMMA MultiplicationMonotone ==
  ASSUME NEW a \in Nat, NEW b \in Nat, a <= b, NEW c \in Nat
  PROVE  a * c \in Nat /\ b * c \in Nat /\ a * c <= b * c
<1> DEFINE d == b - a
<1>1. d \in Nat /\ b = a + d
  OBVIOUS
<1> HIDE DEF d
<1>2. (a + d) * c = a * c + d * c /\ a * c \in Nat /\ d * c \in Nat
  BY <1>1
<1> DEFINE x == a * c
           y == d * c
<1>3. x \in Nat /\ y \in Nat /\ b * c = x + y
  BY <1>1, <1>2
<1> HIDE DEF x, y
<1>4. x <= x + y
  BY <1>3
<1> QED
  BY <1>3, <1>4 DEF x

\* The bounds are numbers, and what they allow for.
LEMMA Allowances ==
  ASSUME SlackSuffices
  PROVE  /\ LongestCall \in Nat /\ \A l \in Latencies : l \in Nat /\ l <= Slowest
         /\ Round \in Nat /\ Again \in Nat /\ Again = Retry + Round
         /\ \A i \in Nat : Calls(i) \in Nat /\ Calls(i + 1) = Calls(i) + LongestCall
         /\ Calls(1) = LongestCall
         /\ \A i \in 0..Cardinality(Names) : LongestCall + Calls(i) <= Round
         /\ \A k \in Nat : /\ Limit(k) \in Nat /\ Limit(k + 1) = Limit(k) + Again
                           /\ Interval + Round <= Limit(k) /\ Retry + Round <= Limit(k)
         /\ \A k, m \in Nat : k <= m => Limit(k) <= Limit(m)
<1>1. Slowest \in Latencies /\ \A l \in Latencies : Slowest >= l
  BY DEF SlackSuffices, Slowest, Max
<1>2. Slowest \in Nat /\ Rate \in Nat /\ Rate > 0 /\ Retry \in Nat /\ Interval \in Nat
      /\ \A l \in Latencies : l \in Nat /\ l <= Slowest
  BY <1>1, CadenceAssumption
<1>3. LongestCall \in Nat
  <2>1. (Rate + 1) \div Rate \in Nat
    BY <1>2, DivisionMonotone
  <2> QED
    BY <1>2, <2>1 DEF LongestCall
<1>4. \A i \in Nat : Calls(i) \in Nat /\ Calls(i + 1) = Calls(i) + LongestCall
  BY <1>3 DEF Calls
<1>5. Calls(1) = LongestCall
  BY <1>3 DEF Calls
<1>6. \A i, k \in Nat : i <= k => Calls(i) <= Calls(k)
  BY <1>3, MultiplicationMonotone DEF Calls
<1>7. Cardinality(Names) \in Nat
  BY FS_CardinalityType, CadenceAssumption
<1>8. Round \in Nat /\ Again \in Nat /\ Again = Retry + Round
  BY <1>2, <1>4, <1>7 DEF Round, Again
<1>9. ASSUME NEW i \in 0..Cardinality(Names) PROVE LongestCall + Calls(i) <= Round
  <2>1. Calls(i + 1) = Calls(i) + LongestCall /\ Calls(i) \in Nat
    BY <1>4, <1>7
  <2>2. Calls(i + 1) <= Calls(Cardinality(Names) + 1)
    BY <1>6, <1>7
  <2> QED
    BY <1>3, <2>1, <2>2 DEF Round
<1> DEFINE A == Again
<1>10. \A k \in Nat : k * A \in Nat /\ (k + 1) * A = k * A + A
  BY <1>8
<1>11. \A k, m \in Nat : k <= m => k * A <= m * A
  BY <1>8, MultiplicationMonotone
<1>12. ASSUME NEW k \in Nat
       PROVE  /\ Limit(k) \in Nat /\ Limit(k + 1) = Limit(k) + Again
              /\ Interval + Round <= Limit(k) /\ Retry + Round <= Limit(k)
  <2> DEFINE x == k * A
             y == (k + 1) * A
  <2>1. x \in Nat /\ y = x + A /\ A = Again
    BY <1>10
  <2>2. /\ Limit(k) = (IF Interval < Retry THEN Retry ELSE Interval) + Round + x
        /\ Limit(k + 1) = (IF Interval < Retry THEN Retry ELSE Interval) + Round + y
    BY DEF Limit
  <2> HIDE DEF x, y
  <2> QED
    BY <1>2, <1>8, <2>1, <2>2
<1>13. ASSUME NEW k \in Nat, NEW m \in Nat, k <= m PROVE Limit(k) <= Limit(m)
  <2> DEFINE x == k * A
             y == m * A
  <2>1. x \in Nat /\ y \in Nat /\ x <= y
    BY <1>10, <1>11, <1>13
  <2>2. /\ Limit(k) = (IF Interval < Retry THEN Retry ELSE Interval) + Round + x
        /\ Limit(m) = (IF Interval < Retry THEN Retry ELSE Interval) + Round + y
    BY DEF Limit
  <2> HIDE DEF x, y
  <2> QED
    BY <1>2, <1>8, <2>1, <2>2
<1> QED
  BY <1>2, <1>3, <1>4, <1>5, <1>8, <1>9, <1>12, <1>13

\* The part of it that is about single numbers.
LEMMA Spans ==
  ASSUME SlackSuffices
  PROVE  /\ LongestCall \in Nat /\ Round \in Nat /\ Again \in Nat
         /\ Retry \in Nat /\ Interval \in Nat
         /\ Again = Retry + Round /\ Interval + Round \in Nat
<1>1. LongestCall \in Nat /\ Round \in Nat /\ Again \in Nat /\ Again = Retry + Round
  BY Allowances
<1>2. Retry \in Nat /\ Interval \in Nat
  BY CadenceAssumption
<1> QED
  BY <1>1, <1>2

\* A call that is made in its turn is answered within the longest call.
LEMMA CallIsShort ==
  ASSUME SlackSuffices, NEW t \in Int, t >= -1, NEW l \in Latencies
  PROVE  l + LimiterWait(t) <= LongestCall
<1> DEFINE owed == Max({0, 1 - t})
<1>1. Rate \in Nat /\ Rate > 0 /\ l \in Nat /\ l <= Slowest
  BY Allowances, CadenceAssumption
<1>2. owed \in Nat /\ owed <= 2
  BY MaxOfTwo
<1> HIDE DEF owed
<1>3. owed + Rate - 1 \in Nat /\ Rate + 1 \in Nat /\ owed + Rate - 1 <= Rate + 1
  BY <1>1, <1>2
<1>4. /\ (owed + Rate - 1) \div Rate \in Nat /\ (Rate + 1) \div Rate \in Nat
      /\ (owed + Rate - 1) \div Rate <= (Rate + 1) \div Rate
  BY <1>1, <1>3, DivisionMonotone
<1>5. Slowest \in Nat
  BY CadenceAssumption DEF SlackSuffices, Slowest, Max
<1> QED
  BY <1>1, <1>4, <1>5 DEF LimiterWait, LongestCall, owed

\* No key is in a queue twice.
NoRepeats(q) == \A i, k \in 1..Len(q) : q[i] = q[k] => i = k

\* The keys that wait keep their places.
Extended(q, b) ==
  Len(q) <= Len(b) /\ (\A i \in 1..Len(q) : b[i] = q[i]) /\ NoRepeats(b)

\* A queue is never longer than there are bindings.
LEMMA QueueLength ==
  ASSUME NEW q \in Seq(Names), NoRepeats(q)
  PROVE  Len(q) \in 0..Cardinality(Names)
<1> DEFINE D == 1..Len(q)
<1>1. Len(q) \in Nat /\ q \in [D -> Names] /\ IsFiniteSet(Names)
  BY CadenceAssumption
<1>2. q \in Injection(D, Names)
  BY <1>1 DEF Injection, IsInjective, NoRepeats
<1>3. IsFiniteSet(D) /\ Cardinality(D) = Len(q)
  BY <1>1, FS_Interval
<1>4. Cardinality(D) <= Cardinality(Names)
  BY <1>1, <1>2, FS_Injection
<1> QED
  BY <1>1, <1>3, <1>4, FS_CardinalityType

\* The next request is taken.
LEMMA TailPlaces ==
  ASSUME NEW T, NEW q \in Seq(T), q # <<>>, NoRepeats(q)
  PROVE  /\ NoRepeats(Tail(q)) /\ Len(q) >= 1 /\ Head(q) = q[1]
         /\ \A i \in 1..Len(Tail(q)) : i + 1 \in 1..Len(q) /\ Tail(q)[i] = q[i + 1]
<1>1. Len(q) >= 1 /\ Head(q) = q[1] /\ Len(Tail(q)) = Len(q) - 1 /\ Len(q) \in Nat
  OBVIOUS
<1>2. \A i \in 1..Len(Tail(q)) : Tail(q)[i] = q[i + 1]
  OBVIOUS
<1>3. \A i \in 1..Len(Tail(q)) : i + 1 \in 1..Len(q)
  BY <1>1
<1>4. NoRepeats(Tail(q))
  BY <1>2, <1>3 DEF NoRepeats
<1> QED
  BY <1>1, <1>2, <1>3, <1>4

\* A request joins at the end.
LEMMA AppendPlaces ==
  ASSUME NEW T, NEW q \in Seq(T), NEW x \in T, x \notin ToSet(q), NoRepeats(q)
  PROVE  Extended(q, Append(q, x))
<1>1. /\ Len(Append(q, x)) = Len(q) + 1 /\ Len(q) \in Nat /\ Append(q, x)[Len(q) + 1] = x
      /\ \A i \in 1..Len(q) : Append(q, x)[i] = q[i]
  OBVIOUS
<1>2. \A i \in 1..Len(q) : q[i] # x
  BY DEF ToSet
<1>3. ASSUME NEW i \in 1..(Len(q) + 1), NEW k \in 1..(Len(q) + 1), Append(q, x)[i] = Append(q, x)[k]
      PROVE  i = k
  <2>1. (i \in 1..Len(q) \/ i = Len(q) + 1) /\ (k \in 1..Len(q) \/ k = Len(q) + 1)
    BY <1>1
  <2> QED
    BY <1>1, <1>2, <1>3, <2>1 DEF NoRepeats
<1> QED
  BY <1>1, <1>3 DEF Extended, NoRepeats

\* Several requests join at the end.
LEMMA EnqueuedPlaces ==
  ASSUME NEW q \in Seq(Names), NoRepeats(q), NEW S \in SUBSET Names, NEW b \in Enqueued(q, S)
  PROVE  Extended(q, b)
<1> DEFINE N == S \ ToSet(q)
<1>1. PICK s \in SetToSeqs(N) : b = q \o s
  BY DEF Enqueued
<1>2. IsFiniteSet(N)
  BY FS_Subset, CadenceAssumption
<1>3. s \in Seq(N) /\ ToSet(s) = N
  BY <1>2, SetToSeqsOnto
<1>4. s \in Seq(Names) /\ Len(s) \in Nat /\ Len(q) \in Nat
  BY <1>3
<1>5. DOMAIN s = 1..Cardinality(N) /\ Cardinality(N) \in Nat
      /\ \A i, k \in 1..Cardinality(N) : i # k => s[i] # s[k]
  BY <1>2, FS_CardinalityType DEF SetToSeqs
<1>6. DOMAIN s = 1..Len(s)
  BY <1>4
<1>7. NoRepeats(s)
  BY <1>5, <1>6 DEF NoRepeats
<1>8. /\ Len(b) = Len(q) + Len(s) /\ (\A i \in 1..Len(q) : b[i] = q[i])
      /\ \A i \in 1..Len(s) : b[Len(q) + i] = s[i]
  BY <1>1, <1>4
<1>9. \A i \in 1..Len(s) : s[i] \in N
  BY <1>3
<1>10. \A i \in 1..Len(q) : q[i] \in ToSet(q)
  BY DEF ToSet
<1>11. \A i \in (Len(q) + 1)..Len(b) : i - Len(q) \in 1..Len(s) /\ b[i] = s[i - Len(q)]
  <2> SUFFICES ASSUME NEW i \in (Len(q) + 1)..Len(b)
               PROVE  i - Len(q) \in 1..Len(s) /\ b[i] = s[i - Len(q)]
    OBVIOUS
  <2>1. i - Len(q) \in 1..Len(s) /\ i = Len(q) + (i - Len(q))
    BY <1>4, <1>8
  <2> QED
    BY <1>8, <2>1
<1>12. ASSUME NEW i \in 1..Len(b), NEW k \in 1..Len(b), b[i] = b[k]
       PROVE  i = k
  <2>1. /\ i \in 1..Len(q) \/ i \in (Len(q) + 1)..Len(b)
        /\ k \in 1..Len(q) \/ k \in (Len(q) + 1)..Len(b)
    BY <1>4, <1>8
  <2>2. CASE i \in 1..Len(q) /\ k \in 1..Len(q)
    BY <1>8, <1>12, <2>2 DEF NoRepeats
  <2>3. CASE i \in 1..Len(q) /\ k \in (Len(q) + 1)..Len(b)
    BY <1>8, <1>9, <1>10, <1>11, <1>12, <2>3
  <2>4. CASE k \in 1..Len(q) /\ i \in (Len(q) + 1)..Len(b)
    BY <1>8, <1>9, <1>10, <1>11, <1>12, <2>4
  <2>5. CASE i \in (Len(q) + 1)..Len(b) /\ k \in (Len(q) + 1)..Len(b)
    <3>1. i - Len(q) \in 1..Len(s) /\ k - Len(q) \in 1..Len(s) /\ s[i - Len(q)] = s[k - Len(q)]
      BY <1>11, <1>12, <2>5
    <3>2. i - Len(q) = k - Len(q)
      BY <1>7, <3>1 DEF NoRepeats
    <3> QED
      BY <1>4, <3>2
  <2> QED
    BY <2>1, <2>2, <2>3, <2>4, <2>5
<1>13. NoRepeats(b)
  BY <1>12 DEF NoRepeats
<1> QED
  BY <1>4, <1>8, <1>13 DEF Extended

\* The faults and the edits so far.
Disturbed == spent["fault"] + spent["edit"]

\* n may go t more ticks without a query.
Room(n, t) == age[n] + t <= Limit(Disturbed)

\* The ticks that the call in progress, or about to be made, still takes.
Ahead ==
  LET j == job["binding"] IN
  IF j.pc = "request" THEN j.left ELSE IF j.pc \in {"provider", "client"} THEN LongestCall ELSE 0

\* The bindings' ages are known, no move is made too often, and a call that is
\* in progress is not longer than the longest.
PaceOK ==
  /\ age \in [Names -> Nat] /\ NoRepeats(queue["binding"])
  /\ \A kind \in Kinds : spent[kind] <= scenario.moves[kind]
  /\ job["binding"].pc = "request" => job["binding"].left <= LongestCall

\* A reconcile that will report an answer has just had it.
Queried ==
  LET j == job["binding"] IN
  j.pc = "apply" \/ (j.pc = "status" /\ j.phase # "Degraded") => age[j.key] = 0

\* A binding that is reconciled, or ever was, is in the cache.
Known ==
  \A n \in Names :
    /\ cache[n] # None => live[n] # None
    /\ status[n].phase # "New" \/ job["binding"].key = n => cache[n] # None

\* Moves are counted.
LEMMA SpendCounts ==
  ASSUME BoundsOK
  PROVE  /\ Disturbed \in Nat
         /\ Spend("fault") \/ Spend("edit") => Disturbed' = Disturbed + 1
         /\ Spend("rotate") \/ Spend("directory") \/ spent' = spent => Disturbed' = Disturbed
BY DEF BoundsOK, Spend, Kinds, Disturbed

\* Every step makes no move or one.
LEMMA StepSpends ==
  ASSUME [Next]_vars
  PROVE  UNCHANGED bounds \/ \E kind \in Kinds : Spend(kind)
<1>0. Kinds = {"edit", "rotate", "directory", "fault"}
  BY DEF Kinds
<1>1. ASSUME NEW c \in Controllers, Take(c) \/ BuildClient(c) \/ RequestDone(c)
      PROVE  UNCHANGED bounds
  BY <1>1 DEF Take, BuildClient, RequestDone
<1>2. ASSUME NEW c \in Controllers, NEW reply \in Replies, WriteStatus(c, reply)
      PROVE  UNCHANGED bounds \/ Spend("fault")
  BY <1>2 DEF WriteStatus, Replied
<1>3. CASE LoadProvider
  BY <1>3 DEF LoadProvider
<1>4. CASE ReadFails
  BY <1>0, <1>4 DEF ReadFails
<1>5. ASSUME NEW reply \in Replies, Apply(reply) PROVE UNCHANGED bounds \/ Spend("fault")
  BY <1>5 DEF Apply, Replied
<1>6. ASSUME NEW reply \in Replies, Protect(reply) PROVE UNCHANGED bounds \/ Spend("fault")
  BY <1>6 DEF Protect, Replied
<1>7. ASSUME NEW o, NEW listed, Deliver(o, listed) PROVE UNCHANGED bounds \/ Spend("fault")
  BY <1>7 DEF Deliver
<1>8. ASSUME NEW k, TimerFires(k) PROVE UNCHANGED bounds
  BY <1>8 DEF TimerFires
<1>9. CASE Tick
  BY <1>9 DEF Tick
<1>10. CASE Environment
  BY <1>0, <1>10 DEF Environment, SetBinding, SetProvider, Rotate, ChangeDirectory
<1>11. CASE UNCHANGED vars
  BY <1>11 DEF vars, bounds
<1> QED
  BY <1>0, <1>1, <1>2, <1>3, <1>4, <1>5, <1>6, <1>7, <1>8, <1>9, <1>10, <1>11, Steps

\* No move is made too often.
LEMMA MovesBounded ==
  ASSUME Base, PaceOK, [Next]_vars
  PROVE  \A kind \in Kinds : spent'[kind] <= scenario'.moves[kind]
<1>1. BoundsOK /\ \A kind \in Kinds : spent[kind] <= scenario.moves[kind]
  BY DEF Base, PaceOK
<1>2. CASE UNCHANGED bounds
  BY <1>1, <1>2 DEF bounds
<1>3. ASSUME NEW kind \in Kinds, Spend(kind)
      PROVE  \A k \in Kinds : spent'[k] <= scenario'.moves[k]
  <2>1. /\ spent' = [spent EXCEPT ![kind] = @ + 1] /\ scenario' = scenario
        /\ spent[kind] < scenario.moves[kind]
    BY <1>3 DEF Spend
  <2>2. spent \in [Kinds -> Nat] /\ scenario.moves \in [Kinds -> Nat]
    BY <1>1, CadenceAssumption DEF BoundsOK
  <2> QED
    BY <1>1, <2>1, <2>2
<1> QED
  BY <1>2, <1>3, StepSpends

\* Ages only grow when time passes.
LEMMA AgesKept ==
  ASSUME Base, PaceOK, [Next]_vars
  PROVE  /\ age' \in [Names -> Nat]
         /\ Tick => \A n \in Names : age'[n] <= age[n] + 1
         /\ ~Tick => \A n \in Names : age'[n] <= age[n]
<1>0. age \in [Names -> Nat]
  BY DEF PaceOK
<1> DEFINE Goal == age' \in [Names -> Nat] /\ \A n \in Names : age'[n] <= age[n]
<1>1. age' = age => Goal
  BY <1>0
<1> HIDE DEF Goal
<1>2. ASSUME NEW c \in Controllers, Take(c) PROVE Goal
  BY <1>1, <1>2 DEF Take, clock
<1>3. ASSUME NEW c \in Controllers, BuildClient(c) PROVE Goal
  BY <1>1, <1>3 DEF BuildClient
<1>4. ASSUME NEW c \in Controllers, RequestDone(c) PROVE Goal
  <2>1. age' = age \/ age' = [age EXCEPT ![job[c].key] = 0]
    BY <1>4 DEF RequestDone
  <2> QED
    BY <1>0, <2>1 DEF Goal
<1>5. ASSUME NEW c \in Controllers, NEW reply \in Replies, WriteStatus(c, reply) PROVE Goal
  BY <1>1, <1>5 DEF WriteStatus, clock
<1>6. ASSUME LoadProvider \/ ReadFails PROVE Goal
  BY <1>1, <1>6 DEF LoadProvider, ReadFails, clock
<1>7. ASSUME NEW reply \in Replies, Apply(reply) \/ Protect(reply) PROVE Goal
  BY <1>1, <1>7 DEF Apply, Protect, clock
<1>8. ASSUME NEW o, NEW listed, Deliver(o, listed) PROVE Goal
  BY <1>1, <1>8 DEF Deliver, clock
<1>9. ASSUME NEW k, TimerFires(k) PROVE Goal
  BY <1>1, <1>9 DEF TimerFires, clock
<1>10. ASSUME Tick
       PROVE  age' \in [Names -> Nat] /\ \A n \in Names : age'[n] <= age[n] + 1
  <2>1. age' = [n \in Names |-> Min({Interval + Slack + 1, age[n] + 1})]
    BY <1>10 DEF Tick
  <2>2. ASSUME NEW n \in Names
        PROVE  LET m == Min({Interval + Slack + 1, age[n] + 1}) IN m \in Nat /\ m <= age[n] + 1
    <3> DEFINE a == Interval + Slack + 1
               b == age[n] + 1
    <3>1. a \in Int /\ b \in Int /\ a >= 0 /\ b >= 0
      BY <1>0, CadenceAssumption
    <3> HIDE DEF a, b
    <3>2. Min({a, b}) = IF a <= b THEN a ELSE b
      BY <3>1, MaxOfTwo
    <3>3. Min({a, b}) \in Nat /\ Min({a, b}) <= b
      BY <3>1, <3>2
    <3> QED
      BY <3>3 DEF a, b
  <2> QED
    BY <2>1, <2>2
<1>11. ASSUME Environment PROVE Goal
  BY <1>1, <1>11
  DEF Environment, SetBinding, SetProvider, Rotate, ChangeDirectory, Change, Inside, clock
<1>12. ASSUME UNCHANGED vars PROVE Goal
  BY <1>1, <1>12 DEF vars
<1>13. Tick \/ Goal
  BY <1>2, <1>3, <1>4, <1>5, <1>6, <1>7, <1>8, <1>9, <1>11, <1>12, Steps
<1> QED
  BY <1>10, <1>13 DEF Goal

\* Keys keep their places, leave at the front or join at the end.
LEMMA QueueSteps ==
  ASSUME Base, PaceOK, [Next]_vars
  PROVE  \/ queue'["binding"] = queue["binding"] \/ Take("binding")
         \/ Extended(queue["binding"], queue'["binding"])
<1>0. /\ SchedOK /\ queue["binding"] \in Seq(Names) /\ NoRepeats(queue["binding"])
      /\ "binding" \in Controllers /\ "provider" \in Controllers /\ "binding" # "provider"
  BY Queues DEF Base, PaceOK, Controllers
<1> DEFINE Goal == \/ queue'["binding"] = queue["binding"] \/ Take("binding")
                   \/ Extended(queue["binding"], queue'["binding"])
<1>1. ASSUME NEW c \in Controllers, Take(c) PROVE Goal
  BY <1>0, <1>1, TakeSched DEF Controllers
<1>2. ASSUME NEW c \in Controllers, BuildClient(c) \/ RequestDone(c) PROVE Goal
  BY <1>2 DEF BuildClient, RequestDone, sched
<1>3. ASSUME NEW c \in Controllers, NEW reply \in Replies, WriteStatus(c, reply) PROVE Goal
  BY <1>3 DEF WriteStatus
<1>4. ASSUME LoadProvider \/ ReadFails PROVE Goal
  BY <1>4 DEF LoadProvider, ReadFails, sched
<1>5. ASSUME NEW reply \in Replies, Apply(reply) \/ Protect(reply) PROVE Goal
  BY <1>5 DEF Apply, Protect, sched
<1>6. ASSUME NEW o \in Objects, NEW listed \in BOOLEAN, Deliver(o, listed) PROVE Goal
  BY <1>0, <1>6, DeliverSched, RequestsAreNames, EnqueuedPlaces
<1>7. ASSUME NEW k \in Keys, TimerFires(k) PROVE Goal
  <2>1. CASE k \in Names
    <3>1. due[k] = 0
      BY <1>7 DEF TimerFires
    <3>2. k \notin ToSet(queue["binding"])
      BY <1>0, <3>1, Kinship DEF SchedOK
    <3> QED
      BY <1>0, <1>7, <2>1, <3>2, TimerSched, AppendPlaces
  <2> QED
    BY <1>7, <2>1, TimerSched
<1>8. ASSUME Tick PROVE Goal
  BY <1>8 DEF Tick
<1>9. ASSUME Environment PROVE Goal
  BY <1>9 DEF Environment, SetBinding, SetProvider, Rotate, ChangeDirectory, Change, Inside, sched
<1>10. ASSUME UNCHANGED vars PROVE Goal
  BY <1>10 DEF vars
<1> HIDE DEF Goal
<1>11. Goal
  BY <1>1, <1>2, <1>3, <1>4, <1>5, <1>6, <1>7, <1>8, <1>9, <1>10, Steps
<1> QED
  BY <1>11 DEF Goal

\* The binding worker's job changes only by its own steps.
LEMMA JobSteps ==
  ASSUME Base, [Next]_vars
  PROVE  \/ job'["binding"] = job["binding"] \/ Take("binding") \/ LoadProvider \/ ReadFails
         \/ BuildClient("binding") \/ RequestDone("binding") \/ Tick
         \/ \E reply \in Replies : Apply(reply) \/ WriteStatus("binding", reply)
<1>0. "binding" \in Controllers /\ "provider" \in Controllers /\ "binding" # "provider"
  BY DEF Controllers
<1> DEFINE Same == job'["binding"] = job["binding"]
<1>1. Take("provider") \/ BuildClient("provider") \/ RequestDone("provider") => Same
  <2>1. ASSUME NEW c \in Controllers, Take(c) \/ BuildClient(c) \/ RequestDone(c)
        PROVE  \A d \in Controllers \ {c} : job'[d] = job[d]
    BY <2>1, TakeJob, BuildClientJob, RequestDoneJob
  <2> QED
    BY <1>0, <2>1
<1>2. ASSUME NEW reply \in Replies, WriteStatus("provider", reply) PROVE Same
  BY <1>0, <1>2, FinishJob DEF WriteStatus
<1>3. ASSUME NEW reply \in Replies, Protect(reply) PROVE Same
  BY <1>3, ProtectJob
<1>4. ASSUME NEW o, NEW listed, Deliver(o, listed) PROVE Same
  BY <1>4 DEF Deliver
<1>5. ASSUME NEW k, TimerFires(k) PROVE Same
  BY <1>5 DEF TimerFires
<1>6. ASSUME Environment PROVE Same
  BY <1>6 DEF Environment, SetBinding, SetProvider, Rotate, ChangeDirectory, Change, Inside
<1>7. ASSUME UNCHANGED vars PROVE Same
  BY <1>7 DEF vars
<1> HIDE DEF Same
<1>8. \/ Same \/ LoadProvider \/ ReadFails \/ Tick
      \/ \E c \in Controllers : Take(c) \/ BuildClient(c) \/ RequestDone(c)
      \/ \E c \in Controllers, reply \in Replies : WriteStatus(c, reply)
      \/ \E reply \in Replies : Apply(reply)
  BY <1>3, <1>4, <1>5, <1>6, <1>7, Steps
<1>9. \A c \in Controllers : c = "binding" \/ c = "provider"
  BY DEF Controllers
<1> QED
  BY <1>1, <1>2, <1>8, <1>9 DEF Same

\* What concerns n stays as it is.
Untouched(n) ==
  /\ status'[n] = status[n] /\ live'[n] = live[n] /\ (n \in events' <=> n \in events)
  /\ due'[n] = due[n] /\ queue'["binding"] = queue["binding"]
  /\ job'["binding"] = job["binding"] /\ age' = age /\ cache' = cache

\* The provider worker, and what happens to other objects, leave n alone.
LEMMA Elsewhere ==
  ASSUME Base, [Next]_vars, NEW n \in Names
  PROVE  \/ Untouched(n) \/ Take("binding") \/ LoadProvider \/ ReadFails
         \/ BuildClient("binding") \/ RequestDone("binding") \/ Tick
         \/ \E reply \in Replies : Apply(reply) \/ WriteStatus("binding", reply)
         \/ \E o \in Objects, listed \in BOOLEAN : Deliver(o, listed)
         \/ \E k \in Keys : TimerFires(k)
         \/ \E m \in Names, p \in Providers, r \in scenario.roles : SetBinding(m, p, r)
<1>0. /\ "binding" \in Controllers /\ "provider" \in Controllers /\ "binding" # "provider"
      /\ StoreOK /\ SchedOK /\ n \in Keys /\ n \in Objects
      /\ \A c \in Controllers : c = "binding" \/ c = "provider"
  BY Kinship DEF Controllers, Base
<1>1. CASE Take("provider")
  <2>1. job'["binding"] = job["binding"] /\ queue'["binding"] = queue["binding"]
    BY <1>0, <1>1, TakeJob, TakeSched
  <2> QED
    BY <1>1, <2>1 DEF Untouched, Take, api, clock
<1>2. CASE BuildClient("provider") \/ RequestDone("provider")
  <2>1. \A d \in Controllers \ {"provider"} : job'[d] = job[d]
    BY <1>0, <1>2, BuildClientJob, RequestDoneJob
  <2>2. job'["binding"] = job["binding"]
    BY <1>0, <2>1
  <2> QED
    BY <1>0, <1>2, <2>2 DEF Untouched, BuildClient, RequestDone, api, sched
<1>3. ASSUME NEW reply \in Replies, WriteStatus("provider", reply) PROVE Untouched(n)
  <2> DEFINE j == job["provider"]
  <2>1. j.pc = "status" /\ live' = live /\ queue' = queue /\ age' = age /\ cache' = cache
        /\ \/ status' = [status EXCEPT ![j.key] = MarkedStatus(j)] /\ events' = events \cup {j.key}
           \/ status' = status /\ events' = events
    BY <1>3 DEF WriteStatus, clock
  <2>2. j.key \in Providers
    BY <2>1 DEF Base, JobsOK, ProviderJob
  <2>3. j.key # n
    BY <2>2, Kinship
  <2>4. PICK d \in Delays : Finish("provider", d)
    BY <1>3, DelaysAre DEF WriteStatus, Delay
  <2>5. due'[n] = due[n]
    BY <1>0, <2>1, <2>3, <2>4, FinishSched
  <2>6. job'["binding"] = job["binding"]
    BY <1>0, <2>4, FinishJob
  <2> QED
    BY <1>0, <2>1, <2>3, <2>5, <2>6 DEF Untouched, StoreOK
<1>4. ASSUME NEW reply \in Replies, Protect(reply) PROVE Untouched(n)
  <2> DEFINE j == job["provider"]
  <2>1. /\ j.pc = "protect" /\ status' = status /\ queue' = queue /\ age' = age
        /\ cache' = cache
        /\ \/ /\ \E m : live' = [live EXCEPT ![j.key] = m]
              /\ events' = events \cup {j.key} /\ due' = due
           \/ live' = live /\ events' = events /\ Finish("provider", Retry)
    BY <1>4 DEF Protect, clock
  <2>2. j.key \in Providers
    BY <2>1 DEF Base, JobsOK, ProviderJob
  <2>3. j.key # n
    BY <2>2, Kinship
  <2>4. due'[n] = due[n]
    BY <1>0, <2>1, <2>3, FinishSched, DelaysAre
  <2> QED
    BY <1>0, <1>4, <2>1, <2>3, <2>4, ProtectJob DEF Untouched, StoreOK
<1>5. ASSUME NEW o \in Objects, o # n, NEW v, Change(o, v) PROVE Untouched(n)
  BY <1>0, <1>5 DEF Change, Inside, sched, clock, Untouched, StoreOK
<1>6. ASSUME NEW p \in Providers, NEW b, NEW ca, SetProvider(p, b, ca) PROVE Untouched(n)
  <2>1. p \in Objects /\ p # n
    BY Kinship
  <2> QED
    BY <1>5, <1>6, <2>1 DEF SetProvider
<1>7. ASSUME NEW x \in Secrets, NEW data, Rotate(x, data) PROVE Untouched(n)
  <2>1. x \in Objects /\ x # n
    BY Kinship
  <2> QED
    BY <1>5, <1>7, <2>1 DEF Rotate
<1>8. ASSUME NEW m, NEW u, ChangeDirectory(m, u) PROVE Untouched(n)
  BY <1>8 DEF ChangeDirectory, api, Inside, sched, clock, Untouched
<1>9. CASE UNCHANGED vars
  BY <1>9 DEF vars, Untouched
<1>10. CASE Environment
  BY <1>6, <1>7, <1>8, <1>10 DEF Environment
<1> QED
  BY <1>0, <1>1, <1>2, <1>3, <1>4, <1>9, <1>10, Steps

\* A worker for which time passes waits for an answer or has nothing to do.
LEMMA TimePasses ==
  ASSUME Base, Tick
  PROVE  /\ events = {} /\ events' = {} /\ queue' = queue /\ live' = live /\ status' = status
         /\ \/ job["binding"] = Idle /\ job'["binding"] = Idle /\ queue["binding"] = <<>>
            \/ /\ job["binding"].pc = "request" /\ job'["binding"].pc = "request"
               /\ job'["binding"].key = job["binding"].key
               /\ job["binding"].left > 0 /\ job'["binding"].left = job["binding"].left - 1
<1>0. "binding" \in Controllers
  BY DEF Controllers
<1>1. events = {} /\ events' = {} /\ queue' = queue /\ live' = live /\ status' = status
      /\ Blocked("binding")
  BY <1>0 DEF Tick
<1>2. CASE job["binding"] = Idle /\ queue["binding"] = <<>>
  <2>1. job'["binding"].pc = "idle" /\ BindingJob(job'["binding"])
    BY <1>0, <1>2, IdleJob, TickJob DEF JobsOK
  <2> QED
    BY <1>1, <1>2, <2>1 DEF BindingJob
<1>3. CASE job["binding"].pc = "request" /\ job["binding"].left > 0
  BY <1>0, <1>1, <1>3, TickJob
<1> QED
  BY <1>1, <1>2, <1>3 DEF Blocked

\* No call is longer than the longest.
LEMMA CallsBounded ==
  ASSUME SlackSuffices, Base, LimiterOK, PaceOK, [Next]_vars,
         job'["binding"].pc = "request"
  PROVE  job'["binding"].left <= LongestCall
<1>0. "binding" \in Controllers /\ LongestCall \in Nat
  BY Spans DEF Controllers
<1>1. CASE job'["binding"] = job["binding"]
  BY <1>1 DEF PaceOK
<1>2. CASE Take("binding")
  BY <1>0, <1>2, TakeJob
<1>3. CASE LoadProvider
  BY <1>3, LoadProviderJob
<1>4. CASE ReadFails
  BY <1>0, <1>4, FinishJob, IdleJob DEF ReadFails
<1>5. CASE BuildClient("binding")
  <2> DEFINE p == LimiterOf("binding")
  <2>1. /\ job["binding"].pc = "client" /\ p \in Providers
        /\ \E l \in Latencies : job'["binding"].left = l + LimiterWait(tokens[p])
    BY <1>0, <1>5, BuildClientJob
  <2>2. ~Waiting("binding", p)
    BY <2>1 DEF Waiting
  <2>3. tokens[p] \in Int /\ tokens[p] >= -1
    BY <1>0, <2>1, <2>2 DEF Base, ClockOK, LimiterOK
  <2> QED
    BY <2>1, <2>3, CallIsShort
<1>6. CASE RequestDone("binding")
  BY <1>0, <1>6, RequestDoneJob
<1>7. CASE Tick
  <2>1. job["binding"].pc = "request" /\ job'["binding"].left = job["binding"].left - 1
        /\ job["binding"].left <= LongestCall
    BY <1>0, <1>7, TickJob DEF PaceOK
  <2>2. job["binding"].left \in Nat
    BY DEF Base, JobsOK, BindingJob, Job
  <2> QED
    BY <1>0, <2>1, <2>2
<1>8. ASSUME NEW reply \in Replies, Apply(reply) PROVE FALSE
  BY <1>8, ApplyJob
<1>9. ASSUME NEW reply \in Replies, WriteStatus("binding", reply) PROVE FALSE
  BY <1>0, <1>9, FinishJob, IdleJob DEF WriteStatus
<1> QED
  BY <1>1, <1>2, <1>3, <1>4, <1>5, <1>6, <1>7, <1>8, <1>9, JobSteps

\* These parts of the invariant are kept.
LEMMA PaceKept ==
  ASSUME SlackSuffices, Base, LimiterOK, PaceOK, [Next]_vars
  PROVE  PaceOK'
<1>1. NoRepeats(queue["binding"]) /\ queue["binding"] \in Seq(Names) /\ "binding" \in Controllers
  BY Queues DEF PaceOK, Base, Controllers
<1>2. ASSUME Take("binding") PROVE NoRepeats(queue'["binding"])
  <2>1. queue["binding"] # <<>> /\ queue'["binding"] = Tail(queue["binding"])
    BY <1>1, <1>2, TakeSched
  <2>2. NoRepeats(Tail(queue["binding"]))
    BY <1>1, <2>1, TailPlaces
  <2> QED
    BY <2>1, <2>2
<1>3. ASSUME Extended(queue["binding"], queue'["binding"]) PROVE NoRepeats(queue'["binding"])
  BY <1>3 DEF Extended
<1>4. NoRepeats(queue'["binding"])
  BY <1>1, <1>2, <1>3, QueueSteps
<1>5. age' \in [Names -> Nat] /\ \A kind \in Kinds : spent'[kind] <= scenario'.moves[kind]
  BY AgesKept, MovesBounded
<1> QED
  BY <1>4, <1>5, CallsBounded DEF PaceOK

\* An answer is reported while it is new.
LEMMA QueriedKept ==
  ASSUME Base, PaceOK, Queried, [Next]_vars
  PROVE  Queried'
<1> DEFINE j == job["binding"]
           k == job'["binding"]
<1>0. "binding" \in Controllers /\ JobsOK
  BY DEF Controllers, Base
<1> SUFFICES ASSUME k.pc = "apply" \/ (k.pc = "status" /\ k.phase # "Degraded")
             PROVE  age'[k.key] = 0
  BY DEF Queried
<1>1. CASE k = j /\ ~Tick
  <2>1. j.key \in Names /\ age[j.key] = 0
    BY <1>0, <1>1 DEF Queried, JobsOK, BindingJob
  <2>2. age'[j.key] \in Nat /\ age'[j.key] <= age[j.key]
    BY <1>1, <2>1, AgesKept
  <2> QED
    BY <1>1, <2>1, <2>2
<1>2. CASE Take("binding")
  BY <1>0, <1>2, TakeJob
<1>3. CASE LoadProvider
  BY <1>3, LoadProviderJob
<1>4. CASE ReadFails
  BY <1>0, <1>4, FinishJob, IdleJob DEF ReadFails
<1>5. CASE BuildClient("binding")
  BY <1>0, <1>5, BuildClientJob
<1>6. CASE RequestDone("binding")
  <2>1. j.pc = "request" /\ k.key = j.key
    BY <1>0, <1>6, RequestDoneJob
  <2>2. j.key \in Names
    BY <1>0, <2>1 DEF JobsOK, BindingJob
  <2>3. age' = [age EXCEPT ![j.key] = 0] /\ age \in [Names -> Nat]
    BY <1>6 DEF RequestDone, PaceOK
  <2> QED
    BY <2>1, <2>2, <2>3
<1>7. CASE Tick
  BY <1>7, TimePasses, IdleJob
<1>8. ASSUME NEW reply \in Replies, Apply(reply) PROVE age'[k.key] = 0
  <2>1. j.pc = "apply" /\ k.key = j.key
    BY <1>8, ApplyJob
  <2>2. age' = age
    BY <1>8 DEF Apply, clock
  <2> QED
    BY <2>1, <2>2 DEF Queried
<1>9. ASSUME NEW reply \in Replies, WriteStatus("binding", reply) PROVE FALSE
  BY <1>0, <1>9, FinishJob, IdleJob DEF WriteStatus
<1> QED
  BY <1>1, <1>2, <1>3, <1>4, <1>5, <1>6, <1>7, <1>8, <1>9, JobSteps

\* Nobody deletes a binding here, and only its own reconciles report on it.
LEMMA KnownKept ==
  ASSUME Base, Known, [Next]_vars
  PROVE  Known'
<1>0. "binding" \in Controllers /\ StoreOK /\ JobsOK
  BY DEF Controllers, Base
<1> SUFFICES ASSUME NEW n \in Names
             PROVE  /\ cache'[n] # None => live'[n] # None
                    /\ status'[n].phase # "New" \/ job'["binding"].key = n => cache'[n] # None
  BY DEF Known
<1> DEFINE Good == cache[n] # None => live[n] # None
           Seen == status[n].phase # "New" \/ job["binding"].key = n => cache[n] # None
<1>1. Good /\ Seen /\ n \in Objects /\ n \in Keys /\ n # None
  BY Kinship DEF Known
<1>2. ASSUME cache' = cache, live'[n] = live[n], status'[n] = status[n],
             job'["binding"].key \in {job["binding"].key, None}
      PROVE  Good' /\ Seen'
  BY <1>1, <1>2
<1>3. CASE Untouched(n)
  BY <1>2, <1>3 DEF Untouched
<1>4. ASSUME NEW o \in Objects, NEW listed \in BOOLEAN, Deliver(o, listed) PROVE Good' /\ Seen'
  <2>1. cache' = [cache EXCEPT ![o] = live[o]] /\ live' = live /\ status' = status /\ job' = job
    BY <1>4 DEF Deliver
  <2>2. cache'[n] = cache[n] \/ cache'[n] = live[n]
    BY <1>0, <1>1, <2>1 DEF StoreOK
  <2> QED
    BY <1>1, <2>1, <2>2
<1>5. CASE Take("binding")
  <2>1. cache' = cache /\ live' = live /\ status' = status
    BY <1>5 DEF Take, api
  <2>2. \/ job' = job
        \/ cache[Head(queue["binding"])] # None /\ job'["binding"].key = Head(queue["binding"])
    BY <1>0, <1>5, TakeJob
  <2> QED
    BY <1>1, <2>1, <2>2
<1>6. CASE LoadProvider \/ BuildClient("binding") \/ RequestDone("binding")
  <2>1. cache' = cache /\ live' = live /\ status' = status
    BY <1>6 DEF LoadProvider, BuildClient, RequestDone, api
  <2>2. job'["binding"].key = job["binding"].key
    BY <1>0, <1>6, LoadProviderJob, BuildClientJob, RequestDoneJob
  <2> QED
    BY <1>2, <2>1, <2>2
<1>7. CASE ReadFails
  <2>1. cache' = cache /\ live' = live /\ status' = status
    BY <1>7 DEF ReadFails, api
  <2>2. job'["binding"].key = None
    BY <1>0, <1>7, FinishJob, IdleJob DEF ReadFails
  <2> QED
    BY <1>2, <2>1, <2>2
<1>8. CASE Tick
  <2>1. cache' = cache /\ live' = live /\ status' = status
    BY <1>8 DEF Tick
  <2>2. job'["binding"].key = job["binding"].key
    BY <1>0, <1>8, TickJob
  <2> QED
    BY <1>2, <2>1, <2>2
<1>9. ASSUME NEW reply \in Replies, Apply(reply) PROVE Good' /\ Seen'
  <2> DEFINE o == ClusterRoleBindingOf(job["binding"].key)
  <2>1. cache' = cache /\ status' = status /\ (live' = live \/ \E v : live' = [live EXCEPT ![o] = v])
    BY <1>9 DEF Apply
  <2>2. job["binding"].key \in Names /\ job'["binding"].key = job["binding"].key
    BY <1>9, ApplyJob
  <2>3. o # n
    BY <2>2, OwnObject, Kinship
  <2>4. live'[n] = live[n]
    BY <1>0, <1>1, <2>1, <2>3 DEF StoreOK
  <2> QED
    BY <1>2, <2>1, <2>2, <2>4
<1>10. ASSUME NEW reply \in Replies, WriteStatus("binding", reply) PROVE Good' /\ Seen'
  <2> DEFINE j == job["binding"]
  <2>1. /\ cache' = cache /\ live' = live
        /\ status' = status \/ status' = [status EXCEPT ![j.key] = MarkedStatus(j)]
    BY <1>10 DEF WriteStatus
  <2>2. job'["binding"].key = None
    BY <1>0, <1>10, FinishJob, IdleJob DEF WriteStatus
  <2>3. status'[n] = status[n] \/ j.key = n
    BY <1>0, <1>1, <2>1 DEF StoreOK
  <2> QED
    BY <1>1, <2>1, <2>2, <2>3
<1>11. ASSUME NEW k \in Keys, TimerFires(k) PROVE Good' /\ Seen'
  BY <1>2, <1>11 DEF TimerFires, api
<1>12. ASSUME NEW m \in Names, NEW p \in Providers, NEW r \in scenario.roles, SetBinding(m, p, r)
       PROVE  Good' /\ Seen'
  <2> DEFINE g == IF live[m] = None THEN 1 ELSE live[m].gen + 1
  <2>1. /\ live' = [live EXCEPT ![m] = [gen |-> g, ref |-> p, role |-> r]]
        /\ cache' = cache /\ status' = status /\ job' = job
    BY <1>12 DEF SetBinding, Change, Inside
  <2>2. live[m] \in {None} \cup Binding /\ r \in Roles
    BY <1>0, <1>12, Kinship, CadenceAssumption DEF StoreOK, Base, BoundsOK
  <2>3. g \in Nat
    BY <2>2 DEF Binding
  <2> HIDE DEF g
  <2>4. [gen |-> g, ref |-> p, role |-> r] \in Binding
    BY <2>2, <2>3 DEF Binding
  <2>5. live'[n] = live[n] \/ live'[n] # None
    BY <1>0, <1>1, <2>1, <2>4, Kinship DEF StoreOK
  <2> QED
    BY <1>1, <2>1, <2>5
<1> QED
  BY <1>3, <1>4, <1>5, <1>6, <1>7, <1>8, <1>9, <1>10, <1>11, <1>12, Elsewhere

\* Whatever n waits for comes soon enough: its event, its delay, and its turn.
Waits(n) ==
  /\ n \in events => Room(n, Again)
  /\ due[n] # None => Room(n, due[n] + Round)
  /\ job["binding"].key # n =>
       \A i \in 1..Len(queue["binding"]) :
         queue["binding"][i] = n => Room(n, Ahead + Calls(i))

\* A reconcile of n is answered in time; one whose update will be refused
\* leaves time for another.
Serves(n) ==
  LET j == job["binding"] IN
  j.key = n => IF j.pc = "request" THEN Room(n, j.left)
               ELSE Room(n, LongestCall) /\ (~Current(j) => Room(n, Again))

\* There is something that n waits for.
Coming(n) ==
  n \in events \/ n \in ToSet(queue["binding"]) \/ due[n] # None \/ job["binding"].key = n

Reports(n) == status[n].phase \in {"Ready", "GroupNotFound"}
InTime(n) == Waits(n) /\ Serves(n) /\ Coming(n)
Timely == \A n \in Names : Reports(n) => InTime(n)

Setting == Base /\ LimiterOK /\ Announced /\ PaceOK /\ Queried /\ Known

\* A step in this setting.
SettingStep == Setting /\ Base' /\ PaceOK' /\ [Next]_vars

\* Every place of a queue is reached within a round.
LEMMA Turns ==
  ASSUME SlackSuffices, NEW q \in Seq(Names), NoRepeats(q), NEW a \in 0..LongestCall,
         NEW i \in 1..Len(q)
  PROVE  Calls(i) \in Nat /\ a + Calls(i) \in Nat /\ a + Calls(i) <= Round
<1>0. Len(q) \in 0..Cardinality(Names) /\ Cardinality(Names) \in Nat
  BY QueueLength, FS_CardinalityType, CadenceAssumption
<1>1. i \in 0..Cardinality(Names) /\ i \in Nat
  BY <1>0
<1>2. Calls(i) \in Nat /\ LongestCall + Calls(i) <= Round /\ Round \in Nat /\ LongestCall \in Nat
  BY <1>1, Allowances
<1> QED
  BY <1>2

\* The call in progress is not longer than the longest.
LEMMA AheadBounded ==
  ASSUME SlackSuffices
  PROVE  /\ JobsOK /\ PaceOK => Ahead \in 0..LongestCall
         /\ JobsOK' /\ PaceOK' => Ahead' \in 0..LongestCall
<1>1. LongestCall \in Nat
  BY Spans
<1>2. ASSUME JobsOK, PaceOK PROVE Ahead \in 0..LongestCall
  BY <1>1, <1>2 DEF JobsOK, BindingJob, Job, PaceOK, Ahead
<1>3. ASSUME JobsOK', PaceOK' PROVE Ahead' \in 0..LongestCall
  BY <1>1, <1>3 DEF JobsOK, BindingJob, Job, PaceOK, Ahead
<1> QED
  BY <1>2, <1>3

\* After the step n may go t more ticks without a query.
Fits(n, t) == age'[n] + t <= Limit(Disturbed')

\* How much time a step leaves.
LEMMA Leeway ==
  ASSUME SlackSuffices, SettingStep, NEW n \in Names
  PROVE  /\ ~Tick => \A t, u \in Nat : u <= t /\ Room(n, t) => Fits(n, u)
         /\ Tick => \A t, u \in Nat : u + 1 <= t /\ Room(n, t) => Fits(n, u)
         /\ age'[n] = 0 => \A t \in Nat : t <= Interval + Round \/ t <= Again => Fits(n, t)
         /\ Disturbed' = Disturbed + 1 /\ ~Tick =>
              \A t \in Nat : t <= Again /\ Room(n, 0) => Fits(n, t)
<1> DEFINE d == Disturbed
           e == Disturbed'
<1>0. Base /\ PaceOK /\ [Next]_vars /\ BoundsOK /\ BoundsOK'
  BY DEF SettingStep, Setting, Base
<1>1. d \in Nat /\ e \in Nat /\ (e = d \/ e = d + 1)
  <2>1. Disturbed \in Nat /\ (Disturbed' = Disturbed \/ Disturbed' = Disturbed + 1)
    BY <1>0, StepSpends, SpendCounts DEF Kinds, bounds
  <2> QED
    BY <2>1
<1>2. age[n] \in Nat /\ age'[n] \in Nat
      /\ (Tick => age'[n] <= age[n] + 1) /\ (~Tick => age'[n] <= age[n])
  BY <1>0, AgesKept DEF PaceOK
<1> HIDE DEF d, e
<1>3. /\ Limit(d) \in Nat /\ Limit(e) \in Nat /\ Limit(d) <= Limit(e)
      /\ Interval + Round <= Limit(e) /\ Again <= Limit(e)
      /\ e = d + 1 => Limit(e) = Limit(d) + Again
      /\ Again \in Nat /\ Interval + Round \in Nat
  <2>1. Again \in Nat /\ Again = Retry + Round /\ Round \in Nat /\ Interval \in Nat
    BY Spans
  <2>2. Limit(d) \in Nat /\ Limit(d + 1) = Limit(d) + Again
    BY <1>1, Allowances
  <2>3. Limit(e) \in Nat /\ Interval + Round <= Limit(e) /\ Retry + Round <= Limit(e)
    BY <1>1, Allowances
  <2>4. Limit(d) <= Limit(e)
    BY <1>1, Allowances
  <2> QED
    BY <2>1, <2>2, <2>3, <2>4
<1>4. ASSUME NEW t PROVE Room(n, t) <=> age[n] + t <= Limit(d)
  BY DEF Room, d
<1>5. ASSUME NEW t PROVE Fits(n, t) <=> age'[n] + t <= Limit(e)
  BY DEF Fits, e
<1>6. ASSUME ~Tick, NEW t \in Nat, NEW u \in Nat, u <= t, Room(n, t) PROVE Fits(n, u)
  <2>1. age[n] + t <= Limit(d)
    BY <1>4, <1>6
  <2>2. age'[n] + u <= Limit(e)
    BY <1>2, <1>3, <1>6, <2>1
  <2> QED
    BY <1>5, <2>2
<1>7. ASSUME Tick, NEW t \in Nat, NEW u \in Nat, u + 1 <= t, Room(n, t) PROVE Fits(n, u)
  <2>1. age[n] + t <= Limit(d)
    BY <1>4, <1>7
  <2>2. age'[n] + u <= Limit(e)
    BY <1>2, <1>3, <1>7, <2>1
  <2> QED
    BY <1>5, <2>2
<1>8. ASSUME age'[n] = 0, NEW t \in Nat, t <= Interval + Round \/ t <= Again PROVE Fits(n, t)
  <2>1. age'[n] + t <= Limit(e)
    BY <1>2, <1>3, <1>8
  <2> QED
    BY <1>5, <2>1
<1>9. ASSUME Disturbed' = Disturbed + 1, ~Tick, NEW t \in Nat, t <= Again, Room(n, 0)
      PROVE  Fits(n, t)
  <2>1. age[n] + 0 <= Limit(d) /\ e = d + 1
    BY <1>4, <1>9 DEF d, e
  <2>2. age'[n] + t <= Limit(e)
    BY <1>2, <1>3, <1>9, <2>1
  <2> QED
    BY <1>5, <2>2
<1> QED
  BY <1>6, <1>7, <1>8, <1>9

\* Time for more is time for less.
LEMMA RoomForLess ==
  ASSUME SlackSuffices, Setting, NEW n \in Names, NEW t \in Nat, NEW u \in Nat, u <= t, Room(n, t)
  PROVE  Room(n, u)
<1>1. age[n] \in Nat /\ Disturbed \in Nat
  BY SpendCounts DEF Setting, Base, PaceOK
<1>2. Limit(Disturbed) \in Nat
  BY <1>1, Allowances
<1> QED
  BY <1>1, <1>2 DEF Room

\* What a delay may be.
LEMMA DelaysAreTicks ==
  ASSUME NEW d \in Delays, d # None
  PROVE  d \in Nat /\ (d <= Interval \/ d <= Retry)
BY CadenceAssumption DEF Delays

\* The numbers of a state.
LEMMA Measures ==
  ASSUME SlackSuffices, Setting, NEW n \in Names
  PROVE  /\ Ahead \in 0..LongestCall /\ queue["binding"] \in Seq(Names)
         /\ NoRepeats(queue["binding"]) /\ Round \in Nat /\ Again \in Nat /\ Round <= Again
         /\ LongestCall \in Nat /\ job["binding"].left \in Nat
         /\ due[n] # None => due[n] \in Nat
<1>1. SchedOK /\ JobsOK /\ PaceOK /\ n \in Keys
  BY Kinship DEF Setting, Base
<1>2. Ahead \in 0..LongestCall /\ Round \in Nat /\ Again \in Nat /\ LongestCall \in Nat
      /\ Again = Retry + Round /\ Retry \in Nat
  BY <1>1, AheadBounded, Spans
<1>3. queue["binding"] \in Seq(Names) /\ NoRepeats(queue["binding"])
  BY <1>1, Queues DEF PaceOK
<1>4. job["binding"].left \in Nat
  BY <1>1 DEF JobsOK, BindingJob, Job
<1>5. due[n] # None => due[n] \in Nat
  BY <1>1, DelaysAreTicks DEF SchedOK
<1> QED
  BY <1>2, <1>3, <1>4, <1>5

\* A binding that is in time is not overdue; one that is neither queued nor
\* reconciled has time for a round.
LEMMA NotOverdue ==
  ASSUME SlackSuffices, Setting, NEW n \in Names, InTime(n)
  PROVE  /\ Room(n, 0)
         /\ n \notin ToSet(queue["binding"]) /\ job["binding"].key # n => Room(n, Round)
<1>1. Waits(n) /\ Serves(n) /\ Coming(n)
  BY DEF InTime
<1>2. /\ Ahead \in 0..LongestCall /\ queue["binding"] \in Seq(Names)
      /\ NoRepeats(queue["binding"]) /\ Round \in Nat /\ Again \in Nat /\ Round <= Again
      /\ LongestCall \in Nat /\ job["binding"].left \in Nat
      /\ due[n] # None => due[n] \in Nat
  BY Measures
<1>3. ASSUME n \in events \/ due[n] # None PROVE Room(n, Round)
  <2>1. CASE n \in events
    BY <1>1, <1>2, <2>1, RoomForLess DEF Waits
  <2>2. CASE due[n] # None
    <3>1. Room(n, due[n] + Round) /\ due[n] + Round \in Nat /\ Round <= due[n] + Round
      BY <1>1, <1>2, <2>2 DEF Waits
    <3> QED
      BY <1>2, <3>1, RoomForLess
  <2> QED
    BY <1>3, <2>1, <2>2
<1>4. ASSUME job["binding"].key = n PROVE Room(n, 0)
  BY <1>1, <1>2, <1>4, RoomForLess DEF Serves
<1>5. ASSUME job["binding"].key # n, n \in ToSet(queue["binding"]) PROVE Room(n, 0)
  <2>1. PICK i \in 1..Len(queue["binding"]) : queue["binding"][i] = n
    BY <1>2, <1>5 DEF ToSet
  <2>2. Room(n, Ahead + Calls(i))
    BY <1>1, <1>5, <2>1 DEF Waits
  <2>3. Ahead + Calls(i) \in Nat
    BY <1>2, Turns
  <2> QED
    BY <2>2, <2>3, RoomForLess
<1>6. Room(n, Round) => Room(n, 0)
  BY <1>2, RoomForLess
<1> QED
  BY <1>1, <1>3, <1>4, <1>5, <1>6 DEF Coming

\* Those who wait wait on while their places are kept.
LEMMA WaitsOn ==
  ASSUME SlackSuffices, SettingStep, ~Tick, NEW n \in Names, Waits(n),
         n \in events' => n \in events, due'[n] \in {due[n], None},
         queue'["binding"] = queue["binding"],
         job'["binding"].key # n => job["binding"].key # n, Ahead' <= Ahead
  PROVE  Waits(n)'
<1>1. Setting /\ JobsOK' /\ PaceOK'
  BY DEF SettingStep, Base
<1>2. /\ Ahead \in 0..LongestCall /\ queue["binding"] \in Seq(Names)
      /\ NoRepeats(queue["binding"]) /\ Round \in Nat /\ Again \in Nat /\ Round <= Again
      /\ due[n] # None => due[n] \in Nat
  BY <1>1, Measures
<1>3. \A t, u \in Nat : u <= t /\ Room(n, t) => Fits(n, u)
  BY Leeway
<1>4. n \in events' => Fits(n, Again)
  BY <1>2, <1>3 DEF Waits
<1>5. due'[n] # None => Fits(n, due'[n] + Round)
  BY <1>2, <1>3 DEF Waits
<1>6. ASSUME job'["binding"].key # n, NEW i \in 1..Len(queue["binding"]), queue["binding"][i] = n
      PROVE  Fits(n, Ahead' + Calls(i))
  <2>1. Room(n, Ahead + Calls(i))
    BY <1>6 DEF Waits
  <2>2. Ahead + Calls(i) \in Nat /\ Calls(i) \in Nat
    BY <1>2, Turns
  <2>3. Ahead' \in Nat
    BY <1>1, AheadBounded, Spans
  <2> QED
    BY <1>2, <1>3, <2>1, <2>2, <2>3
<1> QED
  BY <1>4, <1>5, <1>6 DEF Waits, Room, Fits

\* What leaves n alone leaves it in time.
LEMMA UntouchedInTime ==
  ASSUME SlackSuffices, SettingStep, ~Tick, NEW n \in Names, InTime(n), Untouched(n)
  PROVE  InTime(n)'
<1>1. job'["binding"] = job["binding"] /\ live'[n] = live[n]
      /\ queue'["binding"] = queue["binding"] /\ due'[n] = due[n] /\ (n \in events' <=> n \in events)
  BY DEF Untouched
<1>2. Ahead' = Ahead
  BY <1>1 DEF Ahead
<1>3. Setting
  BY DEF SettingStep
<1>4. Ahead \in 0..LongestCall /\ LongestCall \in Nat /\ Again \in Nat /\ job["binding"].left \in Nat
  BY <1>3, Measures
<1>5. Waits(n)'
  BY <1>1, <1>2, <1>4, WaitsOn DEF InTime
<1>6. \A t, u \in Nat : u <= t /\ Room(n, t) => Fits(n, u)
  BY Leeway
<1>7. Serves(n)'
  <2>1. CASE job["binding"].key # n
    BY <1>1, <2>1 DEF Serves
  <2>2. CASE job["binding"].key = n
    <3>1. Current(job["binding"])' <=> Current(job["binding"])
      BY <1>1, <2>2 DEF Current
    <3>2. IF job["binding"].pc = "request" THEN Fits(n, job["binding"].left)
          ELSE Fits(n, LongestCall) /\ (~Current(job["binding"]) => Fits(n, Again))
      BY <1>4, <1>6, <2>2 DEF InTime, Serves
    <3> QED
      BY <1>1, <3>1, <3>2 DEF Serves, Room, Fits
  <2> QED
    BY <2>1, <2>2
<1>8. Coming(n)'
  BY <1>1 DEF InTime, Coming
<1> QED
  BY <1>5, <1>7, <1>8 DEF InTime

\* The reconcile in progress goes on, and gets its answer in time.
LEMMA ProgressInTime ==
  ASSUME SlackSuffices, SettingStep, ~Tick, NEW n \in Names, InTime(n),
         n \in events' <=> n \in events, due'[n] = due[n],
         queue'["binding"] = queue["binding"], live'[n] = live[n],
         job'["binding"].key = job["binding"].key, Ahead' <= Ahead,
         job["binding"].key = n =>
           \/ age'[n] = 0
           \/ job["binding"].pc # "request" /\ job'["binding"].pc = "request"
           \/ /\ job["binding"].pc # "request" /\ job'["binding"].pc # "request"
              /\ job'["binding"].behind = job["binding"].behind
              /\ job'["binding"].copy = job["binding"].copy
  PROVE  InTime(n)'
<1>1. Setting /\ PaceOK' /\ JobsOK'
  BY DEF SettingStep, Base
<1>2. Ahead \in 0..LongestCall /\ LongestCall \in Nat /\ Again \in Nat /\ Round <= Again
      /\ Round \in Nat
  BY <1>1, Measures
<1>3. Waits(n)'
  BY WaitsOn DEF InTime
<1>4. Coming(n)'
  BY DEF InTime, Coming
<1>5. /\ \A t, u \in Nat : u <= t /\ Room(n, t) => Fits(n, u)
      /\ age'[n] = 0 => \A t \in Nat : t <= Interval + Round \/ t <= Again => Fits(n, t)
  BY Leeway
<1>6. ASSUME job["binding"].key = n
      PROVE  IF job'["binding"].pc = "request" THEN Fits(n, job'["binding"].left)
             ELSE Fits(n, LongestCall) /\ (~Current(job["binding"])' => Fits(n, Again))
  <2>1. job'["binding"].left \in Nat
        /\ (job'["binding"].pc = "request" => job'["binding"].left <= LongestCall)
    BY <1>1 DEF PaceOK, JobsOK, BindingJob, Job
  <2>2. LongestCall <= Round
    <3>1. Cardinality(Names) \in Nat
      BY FS_CardinalityType, CadenceAssumption
    <3>2. 0 \in 0..Cardinality(Names) /\ 0 \in Nat
      BY <3>1
    <3>3. Calls(0) \in Nat /\ LongestCall + Calls(0) <= Round
      BY <3>2, Allowances
    <3> QED
      BY <1>2, <3>3
  <2>3. CASE age'[n] = 0
    <3>1. \A t \in Nat : t <= Again => Fits(n, t)
      BY <1>5, <2>3
    <3>2. Fits(n, LongestCall) /\ Fits(n, Again)
      BY <1>2, <2>2, <3>1
    <3>3. job'["binding"].pc = "request" => Fits(n, job'["binding"].left)
      BY <1>2, <2>1, <2>2, <3>1
    <3> QED
      BY <3>2, <3>3
  <2>4. CASE job["binding"].pc # "request"
    <3>1. Room(n, LongestCall) /\ (~Current(job["binding"]) => Room(n, Again))
      BY <1>6, <2>4 DEF InTime, Serves
    <3>2. job'["binding"].pc = "request" => Fits(n, job'["binding"].left)
      BY <1>2, <1>5, <2>1, <3>1
    <3>3. Fits(n, LongestCall) /\ (~Current(job["binding"]) => Fits(n, Again))
      BY <1>2, <1>5, <3>1
    <3>4. ASSUME job'["binding"].behind = job["binding"].behind,
                 job'["binding"].copy = job["binding"].copy
          PROVE  Current(job["binding"])' <=> Current(job["binding"])
      BY <1>6, <3>4 DEF Current
    <3>5. CASE age'[n] = 0
      BY <2>3, <3>5
    <3> QED
      BY <1>6, <3>2, <3>3, <3>4, <3>5
  <2> QED
    BY <1>6, <2>3, <2>4
<1>7. Serves(n)'
  BY <1>6 DEF Serves, Room, Fits
<1> QED
  BY <1>3, <1>4, <1>7 DEF InTime

\* The steps of a reconcile keep everybody in time.
LEMMA WorkerInTime ==
  ASSUME SlackSuffices, SettingStep, NEW n \in Names, InTime(n),
         \/ LoadProvider \/ BuildClient("binding") \/ RequestDone("binding")
         \/ \E reply \in Replies : Apply(reply)
  PROVE  InTime(n)'
<1> DEFINE j == job["binding"]
           k == job'["binding"]
<1>0. /\ Setting /\ Base /\ StoreOK /\ JobsOK /\ PaceOK /\ PaceOK' /\ JobsOK'
      /\ "binding" \in Controllers
  BY DEF SettingStep, Setting, Base, Controllers
<1>1. LongestCall \in Nat /\ Ahead \in 0..LongestCall /\ Ahead' \in 0..LongestCall
  BY <1>0, Spans, AheadBounded
<1>2. j.pc \in {"provider", "client", "apply"} \/ (j.pc = "request" /\ j.left = 0)
  BY DEF LoadProvider, BuildClient, RequestDone, Apply
<1>3. ~Tick
  BY <1>0, <1>2, TimePasses, IdleJob
<1>4. CASE LoadProvider
  <2>1. /\ j.pc = "provider" /\ k.key = j.key /\ k.copy = j.copy /\ k.behind = j.behind
        /\ k.pc \in {"status", "client"}
    BY <1>0, <1>4, LoadProviderJob
  <2>2. Ahead = LongestCall
    BY <2>1 DEF Ahead
  <2>3. live' = live /\ events' = events /\ queue' = queue /\ due' = due
    BY <1>4 DEF LoadProvider, api, sched
  <2> QED
    BY <1>1, <1>3, <2>1, <2>2, <2>3, ProgressInTime
<1>5. CASE BuildClient("binding")
  <2>1. /\ j.pc = "client" /\ k.key = j.key /\ k.copy = j.copy /\ k.behind = j.behind
        /\ k.pc \in {"status", "request"}
    BY <1>0, <1>5, BuildClientJob
  <2>2. Ahead = LongestCall
    BY <2>1 DEF Ahead
  <2>3. live' = live /\ events' = events /\ queue' = queue /\ due' = due
    BY <1>5 DEF BuildClient, api, sched
  <2> QED
    BY <1>1, <1>3, <2>1, <2>2, <2>3, ProgressInTime
<1>6. CASE RequestDone("binding")
  <2>1. j.pc = "request" /\ k.key = j.key /\ k.pc \in {"apply", "status"}
    BY <1>0, <1>6, RequestDoneJob
  <2>2. Ahead' = 0
    BY <2>1 DEF Ahead
  <2>3. live' = live /\ events' = events /\ queue' = queue /\ due' = due
        /\ age' = [age EXCEPT ![j.key] = 0]
    BY <1>6 DEF RequestDone, api, sched
  <2>4. j.key = n => age'[n] = 0
    BY <1>0, <2>3 DEF PaceOK
  <2> QED
    BY <1>1, <1>3, <2>1, <2>2, <2>3, <2>4, ProgressInTime
<1>7. ASSUME NEW reply \in Replies, Apply(reply) PROVE InTime(n)'
  <2> DEFINE o == ClusterRoleBindingOf(j.key)
  <2>1. j.pc = "apply" /\ k.key = j.key /\ k.pc = "status" /\ j.key \in Names
    BY <1>0, <1>7, ApplyJob
  <2>2. Ahead' = 0
    BY <2>1 DEF Ahead
  <2>3. /\ queue' = queue /\ due' = due /\ age' = age
        /\ live' = live \/ \E v : live' = [live EXCEPT ![o] = v]
        /\ events' = events \/ events' = events \cup {o}
    BY <1>7 DEF Apply, sched, clock
  <2>4. o # n /\ n \in Objects
    BY <2>1, OwnObject, Kinship
  <2>5. live'[n] = live[n] /\ (n \in events' <=> n \in events)
    BY <1>0, <2>3, <2>4 DEF StoreOK
  <2>6. j.key = n => age'[n] = 0
    BY <1>0, <2>1, <2>3 DEF Setting, Queried
  <2> QED
    BY <1>1, <1>3, <2>1, <2>2, <2>3, <2>5, <2>6, ProgressInTime
<1> QED
  BY <1>4, <1>5, <1>6, <1>7

\* A request comes back after its delay, or earlier.
LEMMA FinishDelay ==
  ASSUME Base, NEW delay \in Nat, Finish("binding", delay), job["binding"].pc # "idle"
  PROVE  LET k == job["binding"].key IN due'[k] # None => due'[k] \in Nat /\ due'[k] <= delay
<1> DEFINE k == job["binding"].key
           d == IF k \in ToSet(queue["binding"]) \/ delay = None THEN due[k]
                ELSE IF due[k] = None \/ delay < due[k] THEN delay ELSE due[k]
<1>1. due' = [due EXCEPT ![k] = d]
  BY DEF Finish
<1>2. k \in Keys /\ SchedOK /\ "binding" \in Controllers
  BY Kinship DEF Base, JobsOK, BindingJob, Controllers
<1>3. due[k] \in Delays /\ (k \in ToSet(queue["binding"]) => due[k] = None)
  BY <1>2 DEF SchedOK
<1>4. due[k] # None => due[k] \in Nat
  BY <1>3, DelaysAreTicks
<1>5. delay # None
  BY Kinship
<1>6. d # None => d \in Nat /\ d <= delay
  BY <1>3, <1>4, <1>5
<1> HIDE DEF d
<1>7. due'[k] = d
  BY <1>1, <1>2 DEF SchedOK
<1> QED
  BY <1>6, <1>7

\* A reconcile ends: its binding comes back in time, the others move up.
LEMMA FinishInTime ==
  ASSUME SlackSuffices, SettingStep, NEW n \in Names, NEW delay \in {Interval, Retry},
         Finish("binding", delay), job["binding"].pc \in {"status", "provider"}, queue' = queue,
         events \subseteq events', events' \subseteq events \cup {job["binding"].key},
         n # job["binding"].key => InTime(n),
         n = job["binding"].key => Fits(n, delay + Round) /\ Fits(n, Again)
  PROVE  InTime(n)'
<1> DEFINE j == job["binding"]
<1>0. /\ Setting /\ Base /\ JobsOK /\ SchedOK /\ PaceOK /\ PaceOK' /\ JobsOK'
      /\ "binding" \in Controllers /\ n \in Keys
  BY Kinship DEF SettingStep, Setting, Base, Controllers
<1>1. ~Tick
  BY <1>0, TimePasses, IdleJob
<1>2. job'["binding"] = Idle /\ job'["binding"].key # n /\ Ahead' = 0
  <2>1. job'["binding"] = Idle
    BY <1>0, FinishJob
  <2> QED
    BY <2>1, IdleJob, Kinship DEF Ahead
<1>3. Serves(n)'
  BY <1>2 DEF Serves
<1>4. /\ j.key \in Keys /\ \A i \in Keys \ {j.key} : due'[i] = due[i]
      /\ j.key \in ToSet(queue["binding"]) \/ due'[j.key] # None
  <2>1. delay \in Delays /\ delay # None /\ j.pc # "idle"
    BY DelaysAre, Kinship, CadenceAssumption
  <2> QED
    BY <1>0, <2>1, FinishSched
<1>5. LongestCall \in Nat /\ Ahead \in 0..LongestCall /\ Round \in Nat /\ Again \in Nat
      /\ Round <= Again /\ queue["binding"] \in Seq(Names) /\ NoRepeats(queue["binding"])
  BY <1>0, Measures
<1>6. CASE n # j.key
  <2>1. Waits(n)'
    BY <1>0, <1>1, <1>2, <1>4, <1>5, <1>6, WaitsOn DEF InTime
  <2>2. Coming(n)'
    BY <1>0, <1>4, <1>6 DEF InTime, Coming
  <2> QED
    BY <1>3, <2>1, <2>2 DEF InTime
<1>7. CASE n = j.key
  <2>1. due'[n] # None => due'[n] \in Nat /\ due'[n] <= delay
    BY <1>0, <1>7, FinishDelay, CadenceAssumption
  <2>2. age'[n] \in Nat /\ Limit(Disturbed') \in Nat /\ delay \in Nat
    <3>1. Disturbed' \in Nat
      BY DEF SettingStep, Base, BoundsOK, Disturbed, Kinds
    <3> QED
      BY <1>0, <3>1, Allowances, CadenceAssumption DEF PaceOK
  <2>3. due'[n] # None => Fits(n, due'[n] + Round)
    BY <1>5, <1>7, <2>1, <2>2 DEF Fits
  <2>4. ASSUME NEW i \in 1..Len(queue["binding"]) PROVE Fits(n, 0 + Calls(i))
    <3>1. Calls(i) \in Nat /\ 0 + Calls(i) <= Round
      <4>1. 0 \in 0..LongestCall
        BY <1>5
      <4> QED
        BY <1>5, <4>1, Turns
    <3> QED
      BY <1>5, <1>7, <2>2, <3>1 DEF Fits
  <2>5. Waits(n)'
    BY <1>2, <1>7, <2>3, <2>4 DEF Waits, Room, Fits
  <2>6. Coming(n)'
    BY <1>4, <1>7 DEF Coming
  <2> QED
    BY <1>3, <2>5, <2>6 DEF InTime
<1> QED
  BY <1>6, <1>7

\* The provider cannot be read: one more fault, one more round.
LEMMA ReadFailsInTime ==
  ASSUME SlackSuffices, SettingStep, NEW n \in Names, InTime(n), ReadFails
  PROVE  InTime(n)'
<1>0. Setting /\ Base /\ BoundsOK
  BY DEF SettingStep, Setting, Base
<1>1. /\ Finish("binding", Retry) /\ queue' = queue /\ events' = events
      /\ job["binding"].pc = "provider" /\ Spend("fault")
  BY DEF ReadFails, api
<1>2. ~Tick
  BY <1>0, <1>1, TimePasses, IdleJob
<1>3. Disturbed' = Disturbed + 1
  BY <1>0, <1>1, SpendCounts
<1>4. Again \in Nat /\ Again = Retry + Round
  BY Spans
<1>5. Fits(n, Again)
  BY <1>0, <1>2, <1>3, <1>4, NotOverdue, Leeway
<1> QED
  BY <1>1, <1>4, <1>5, FinishInTime

\* A status is written, or refused, and the reconcile ends.
LEMMA WriteInTime ==
  ASSUME SlackSuffices, SettingStep, NEW n \in Names, Reports(n) => InTime(n), Reports(n)',
         NEW reply \in Replies, WriteStatus("binding", reply)
  PROVE  InTime(n)'
<1> DEFINE j == job["binding"]
           ok == reply = "ok" /\ Current(j)
<1>0. Setting /\ Base /\ BoundsOK /\ StoreOK /\ JobsOK /\ PaceOK /\ Queried
  BY DEF SettingStep, Setting, Base
<1>1. /\ j.pc = "status" /\ queue' = queue /\ age' = age /\ Replied(reply)
      /\ Finish("binding", Delay(ok, j))
      /\ IF ok /\ ~Unchanged(j)
           THEN status' = [status EXCEPT ![j.key] = MarkedStatus(j)] /\ events' = events \cup {j.key}
           ELSE status' = status /\ events' = events
  BY DEF WriteStatus, clock
<1>2. j.key \in Names /\ n \in Keys /\ j.key \in Keys
  BY <1>0, <1>1, Kinship DEF JobsOK, BindingJob
<1>3. ~Tick
  BY <1>0, <1>1, TimePasses, IdleJob
<1>4. Again \in Nat /\ Again = Retry + Round /\ Round \in Nat /\ Interval \in Nat
      /\ Interval + Round \in Nat
  BY Spans
<1>5. CASE n # j.key
  <2>1. status'[n] = status[n]
    BY <1>0, <1>1, <1>2, <1>5 DEF StoreOK
  <2>2. InTime(n)
    BY <2>1 DEF Reports
  <2>3. Delay(ok, j) \in {Interval, Retry}
    BY DEF Delay
  <2>4. events \subseteq events' /\ events' \subseteq events \cup {j.key}
    BY <1>1
  <2> HIDE DEF ok
  <2> QED
    BY <1>1, <1>5, <2>2, <2>3, <2>4, FinishInTime
<1>6. CASE n = j.key
  <2>1. CASE ~ok
    <3>1. Finish("binding", Retry) /\ status' = status /\ events' = events
      BY <1>1, <2>1 DEF Delay
    <3>2. InTime(n)
      BY <3>1 DEF Reports
    <3>3. Fits(n, Again)
      <4>1. CASE reply = "ok"
        <5>1. ~Current(j)
          BY <2>1, <4>1
        <5>2. Room(n, Again)
          BY <1>1, <1>6, <3>2, <5>1 DEF InTime, Serves
        <5> QED
          BY <1>3, <1>4, <5>2, Leeway
      <4>2. CASE reply # "ok"
        <5>1. Disturbed' = Disturbed + 1
          BY <1>0, <1>1, <4>2, SpendCounts DEF Replied
        <5> QED
          BY <1>0, <1>3, <1>4, <3>2, <5>1, NotOverdue, Leeway
      <4> QED
        BY <4>1, <4>2
    <3> QED
      BY <1>1, <1>4, <1>6, <3>1, <3>2, <3>3, FinishInTime
  <2>2. CASE ok /\ j.phase = "Degraded"
    <3>1. MarkedStatus(j).phase = "Degraded"
      BY <2>2 DEF MarkedStatus
    <3>2. status'[n] = MarkedStatus(j)
      BY <1>0, <1>1, <1>2, <1>6, <2>2 DEF StoreOK, Unchanged
    <3> QED
      BY <3>1, <3>2 DEF Reports
  <2>3. CASE ok /\ j.phase # "Degraded"
    <3>1. age'[n] = 0
      BY <1>0, <1>1, <1>6, <2>3 DEF Queried
    <3>2. Finish("binding", Interval)
      BY <1>1, <2>3 DEF Delay
    <3>3. Fits(n, Interval + Round) /\ Fits(n, Again)
      BY <1>4, <3>1, Leeway
    <3>4. events \subseteq events' /\ events' \subseteq events \cup {j.key}
      BY <1>1
    <3> QED
      BY <1>1, <1>6, <3>2, <3>3, <3>4, FinishInTime
  <2> QED
    BY <2>1, <2>2, <2>3
<1> QED
  BY <1>5, <1>6

\* A reconcile begins, with time for its call, and the queue moves up.
LEMMA TakeInTime ==
  ASSUME SlackSuffices, SettingStep, NEW n \in Names, InTime(n), Reports(n), Take("binding")
  PROVE  InTime(n)'
<1> DEFINE j == job["binding"]
           q == queue["binding"]
           b == queue'["binding"]
           k == Head(q)
<1>0. /\ Setting /\ Base /\ JobsOK /\ SchedOK /\ PaceOK /\ PaceOK' /\ JobsOK' /\ Known /\ Announced
      /\ "binding" \in Controllers /\ n \in Objects
  BY Kinship DEF SettingStep, Setting, Base, Controllers
<1>1. /\ live' = live /\ events' = events /\ due' = due
  BY DEF Take, api
<1>2. q # <<>> /\ b = Tail(q) /\ ToSet(q) = {k} \cup ToSet(b) /\ k \in Names
  BY <1>0, TakeSched
<1>3. LongestCall \in Nat /\ Ahead' \in 0..LongestCall /\ Round \in Nat /\ Again \in Nat
      /\ Round <= Again /\ q \in Seq(Names) /\ NoRepeats(q) /\ (due[n] # None => due[n] \in Nat)
  BY <1>0, Measures, AheadBounded
<1>4. /\ Len(q) >= 1 /\ k = q[1]
      /\ \A i \in 1..Len(b) : i + 1 \in 1..Len(q) /\ b[i] = q[i + 1]
  BY <1>2, <1>3, TailPlaces
<1>5. j = Idle /\ j.key # n /\ Ahead = 0
  <2>1. j = Idle
    BY <1>0, TakeJob
  <2> QED
    BY <2>1, IdleJob, Kinship DEF Ahead
<1>6. ~Tick
  BY <1>0, <1>2, <1>5, TimePasses, IdleJob
<1>7. \A t, u \in Nat : u <= t /\ Room(n, t) => Fits(n, u)
  BY <1>6, Leeway
<1>8. \A i \in 1..Len(q) : q[i] = n => Room(n, 0 + Calls(i)) /\ Calls(i) \in Nat
  <2>1. 0 \in 0..LongestCall
    BY <1>3
  <2> QED
    BY <1>3, <1>5, <2>1, Turns DEF InTime, Waits
<1>9. Waits(n)'
  <2>1. n \in events' => Fits(n, Again)
    BY <1>1, <1>3, <1>7 DEF InTime, Waits
  <2>2. due'[n] # None => Fits(n, due'[n] + Round)
    BY <1>1, <1>3, <1>7 DEF InTime, Waits
  <2>3. ASSUME NEW i \in 1..Len(b), b[i] = n PROVE Fits(n, Ahead' + Calls(i))
    <3>1. i \in Nat /\ i + 1 \in 1..Len(q) /\ q[i + 1] = n
      BY <1>4, <2>3
    <3>2. Calls(i) \in Nat /\ Calls(i + 1) = Calls(i) + LongestCall
      BY <3>1, Allowances
    <3>3. Room(n, 0 + Calls(i + 1))
      BY <1>8, <3>1
    <3>4. Ahead' + Calls(i) \in Nat /\ 0 + Calls(i + 1) \in Nat /\ Ahead' + Calls(i) <= 0 + Calls(i + 1)
      BY <1>3, <3>2
    <3> QED
      BY <1>7, <3>3, <3>4
  <2> QED
    BY <2>1, <2>2, <2>3 DEF Waits, Room, Fits
<1>10. ASSUME n = k
       PROVE  /\ job'["binding"].key = n /\ job'["binding"].pc = "provider"
              /\ job'["binding"].copy = cache[n] /\ (job'["binding"].behind => n \in events)
  <2>1. cache[n] # None
    BY <1>0 DEF Known, Reports
  <2> QED
    BY <1>0, <1>10, <2>1, TakeJob
<1>11. ASSUME n # k PROVE job'["binding"].key # n
  <2>1. job' = job \/ job'["binding"].key = k
    BY <1>0, TakeJob
  <2> QED
    BY <1>5, <1>11, <2>1
<1>12. Serves(n)'
  <2>1. CASE n # k
    BY <1>11, <2>1 DEF Serves
  <2>2. CASE n = k
    <3>0. 1 \in 1..Len(q) /\ q[1] = n
      BY <1>3, <1>4, <2>2
    <3>1. Room(n, 0 + Calls(1)) /\ Calls(1) = LongestCall
      BY <1>8, <3>0, Allowances
    <3>2. Fits(n, LongestCall)
      BY <1>3, <1>7, <3>1
    <3>3. ASSUME ~Current(job["binding"])' PROVE n \in events
      <4>1. job'["binding"].behind \/ job'["binding"].copy # live'[n]
        BY <1>10, <2>2, <3>3 DEF Current
      <4>2. cache[n] # live[n] => n \in events
        BY <1>0 DEF Announced
      <4> QED
        BY <1>1, <1>10, <2>2, <4>1, <4>2
    <3>4. ~Current(job["binding"])' => Fits(n, Again)
      BY <1>3, <1>7, <3>3 DEF InTime, Waits
    <3> QED
      BY <1>10, <2>2, <3>2, <3>4 DEF Serves, Room, Fits
  <2> QED
    BY <2>1, <2>2
<1>13. Coming(n)'
  BY <1>1, <1>2, <1>5, <1>10 DEF InTime, Coming
<1> QED
  BY <1>9, <1>12, <1>13 DEF InTime

\* Requests join the queue: whoever was neither queued nor reconciled has time
\* for a round.
LEMMA JoinInTime ==
  ASSUME SlackSuffices, SettingStep, ~Tick, NEW n \in Names, InTime(n),
         Extended(queue["binding"], queue'["binding"]), live' = live, job' = job,
         events' \subseteq events, due'[n] \in {due[n], None}, Coming(n)'
  PROVE  InTime(n)'
<1> DEFINE q == queue["binding"]
           b == queue'["binding"]
<1>0. Setting /\ JobsOK' /\ SchedOK' /\ PaceOK'
  BY DEF SettingStep, Base
<1>1. /\ Ahead \in 0..LongestCall /\ q \in Seq(Names) /\ Round \in Nat /\ Again \in Nat
      /\ LongestCall \in Nat /\ job["binding"].left \in Nat /\ NoRepeats(q)
      /\ due[n] # None => due[n] \in Nat
  BY <1>0, Measures
<1>2. Ahead' = Ahead
  BY DEF Ahead
<1>3. b \in Seq(Names) /\ NoRepeats(b) /\ Len(q) <= Len(b) /\ \A i \in 1..Len(q) : b[i] = q[i]
  BY <1>0 DEF SchedOK, PaceOK, Extended
<1>4. \A t, u \in Nat : u <= t /\ Room(n, t) => Fits(n, u)
  BY Leeway
<1>5. ASSUME job["binding"].key # n, NEW i \in 1..Len(b), b[i] = n
      PROVE  Fits(n, Ahead + Calls(i))
  <2>0. Ahead + Calls(i) \in Nat /\ Ahead + Calls(i) <= Round
    BY <1>1, <1>3, Turns
  <2>1. CASE i \in 1..Len(q)
    BY <1>3, <1>4, <1>5, <2>0, <2>1 DEF InTime, Waits
  <2>2. CASE i \notin 1..Len(q)
    <3>1. \A l \in 1..Len(q) : q[l] # n
      <4> SUFFICES ASSUME NEW l \in 1..Len(q), q[l] = n PROVE FALSE
        OBVIOUS
      <4>1. l \in 1..Len(b) /\ b[l] = n
        BY <1>1, <1>3
      <4>2. l = i
        BY <1>3, <1>5, <4>1 DEF NoRepeats
      <4> QED
        BY <2>2, <4>2
    <3>2. n \notin ToSet(q)
      BY <1>1, <3>1 DEF ToSet
    <3>3. Room(n, Round)
      BY <1>0, <1>5, <3>2, NotOverdue
    <3> QED
      BY <1>1, <1>4, <2>0, <3>3
  <2> QED
    BY <2>1, <2>2
<1>6. Waits(n)'
  <2>1. n \in events' => Fits(n, Again)
    BY <1>1, <1>4 DEF InTime, Waits
  <2>2. due'[n] # None => Fits(n, due'[n] + Round)
    BY <1>1, <1>4 DEF InTime, Waits
  <2> QED
    BY <1>2, <1>5, <2>1, <2>2 DEF Waits, Room, Fits
<1>7. Serves(n)'
  <2>1. Current(job["binding"])' <=> Current(job["binding"])
    BY DEF Current
  <2>2. job["binding"].key = n =>
          IF job["binding"].pc = "request" THEN Fits(n, job["binding"].left)
          ELSE Fits(n, LongestCall) /\ (~Current(job["binding"]) => Fits(n, Again))
    BY <1>1, <1>4 DEF InTime, Serves
  <2> QED
    BY <2>1, <2>2 DEF Serves, Room, Fits
<1> QED
  BY <1>6, <1>7 DEF InTime

\* An event is delivered.
LEMMA DeliverInTime ==
  ASSUME SlackSuffices, SettingStep, NEW n \in Names, InTime(n),
         NEW o \in Objects, NEW listed \in BOOLEAN, Deliver(o, listed)
  PROVE  InTime(n)'
<1> DEFINE q == queue["binding"]
           b == queue'["binding"]
<1>0. Base /\ SchedOK /\ q \in Seq(Names) /\ NoRepeats(q) /\ n \in Keys
  BY Queues, Kinship DEF SettingStep, Setting, Base, PaceOK
<1>1. /\ o \in events /\ events' = events \ {o} /\ live' = live /\ job' = job
      /\ due' = [k \in Keys |-> IF k \in ToSet(queue'["binding"]) \cup ToSet(queue'["provider"])
                                  THEN None ELSE due[k]]
  BY DEF Deliver
<1>2. ToSet(b) = ToSet(q) \cup BindingRequests(o, listed) /\ b \in Enqueued(q, BindingRequests(o, listed))
  BY <1>0, DeliverSched
<1>3. Extended(q, b)
  BY <1>0, <1>2, RequestsAreNames, EnqueuedPlaces
<1>4. ~Tick
  BY <1>0, <1>1, TimePasses
<1>5. n = o => n \in ToSet(b)
  BY <1>2, Kinship DEF BindingRequests
<1>6. due'[n] # due[n] => n \in ToSet(b)
  <2>1. SchedOK'
    BY DEF SettingStep, Base
  <2>2. n \notin ToSet(queue'["provider"])
    BY <2>1, Kinship DEF SchedOK, ToSet
  <2> QED
    BY <1>0, <1>1, <2>2
<1>7. Coming(n)'
  BY <1>1, <1>2, <1>5, <1>6 DEF InTime, Coming
<1>8. due'[n] \in {due[n], None}
  BY <1>0, <1>1
<1> QED
  BY <1>1, <1>3, <1>4, <1>7, <1>8, JoinInTime

\* A delay is over.
LEMMA TimerInTime ==
  ASSUME SlackSuffices, SettingStep, NEW n \in Names, InTime(n), NEW k \in Keys, TimerFires(k)
  PROVE  InTime(n)'
<1> DEFINE q == queue["binding"]
           b == queue'["binding"]
<1>0. Base /\ SchedOK /\ q \in Seq(Names) /\ NoRepeats(q) /\ n \in Keys
  BY Queues, Kinship DEF SettingStep, Setting, Base, PaceOK
<1>1. /\ due[k] = 0 /\ events' = events /\ live' = live /\ job' = job
      /\ due' = [due EXCEPT ![k] = None]
  BY DEF TimerFires, api
<1>2. ToSet(q) \subseteq ToSet(b) /\ b = (IF k \in Names THEN Append(q, k) ELSE q)
  BY <1>0, TimerSched
<1>3. Extended(q, b)
  <2>1. CASE k \in Names
    <3>1. k \notin ToSet(q)
      BY <1>0, <1>1, Kinship DEF SchedOK, Controllers
    <3> QED
      BY <1>0, <1>2, <2>1, <3>1, AppendPlaces
  <2>2. CASE k \notin Names
    BY <1>0, <1>2, <2>2 DEF Extended
  <2> QED
    BY <2>1, <2>2
<1>4. ~Tick
  BY <1>1 DEF Tick
<1>5. n = k => n \in ToSet(b)
  BY <1>0, <1>2, ToSetAppend
<1>6. due'[n] = IF n = k THEN None ELSE due[n]
  BY <1>0, <1>1 DEF SchedOK
<1>7. Coming(n)'
  BY <1>1, <1>2, <1>5, <1>6 DEF InTime, Coming
<1> QED
  BY <1>1, <1>3, <1>4, <1>6, <1>7, JoinInTime

\* Time passes, and everything that n waits for comes closer.
LEMMA TickInTime ==
  ASSUME SlackSuffices, SettingStep, NEW n \in Names, InTime(n), Tick
  PROVE  InTime(n)'
<1> DEFINE j == job["binding"]
           q == queue["binding"]
<1>0. Setting /\ Base /\ n \in Keys
  BY Kinship DEF SettingStep, Setting
<1>1. /\ Ahead \in 0..LongestCall /\ q \in Seq(Names) /\ Round \in Nat /\ Again \in Nat
      /\ LongestCall \in Nat /\ j.left \in Nat /\ NoRepeats(q) /\ (due[n] # None => due[n] \in Nat)
  BY <1>0, Measures
<1>2. /\ events = {} /\ events' = {} /\ queue' = queue
      /\ \/ j = Idle /\ job'["binding"] = Idle /\ q = <<>>
         \/ /\ j.pc = "request" /\ job'["binding"].pc = "request" /\ job'["binding"].key = j.key
            /\ j.left > 0 /\ job'["binding"].left = j.left - 1
  BY <1>0, TimePasses
<1>3. due[n] # 0 /\ due'[n] = IF due[n] = None THEN None ELSE due[n] - 1
  BY <1>0 DEF Tick
<1>4. \A t, u \in Nat : u + 1 <= t /\ Room(n, t) => Fits(n, u)
  BY Leeway
<1>5. due'[n] # None => Fits(n, due'[n] + Round)
  <2> SUFFICES ASSUME due'[n] # None PROVE Fits(n, due'[n] + Round)
    OBVIOUS
  <2>1. due[n] \in Nat /\ due[n] # 0 /\ due'[n] = due[n] - 1 /\ Room(n, due[n] + Round)
    BY <1>1, <1>3 DEF InTime, Waits
  <2>2. due[n] + Round \in Nat /\ due'[n] + Round \in Nat /\ due'[n] + Round + 1 <= due[n] + Round
    BY <1>1, <2>1
  <2> QED
    BY <1>4, <2>1, <2>2
<1>6. CASE j = Idle /\ job'["binding"] = Idle /\ q = <<>>
  <2>1. Len(q) = 0 /\ ToSet(q) = {} /\ job'["binding"].key # n /\ j.key # n
    BY <1>6, IdleJob, Kinship DEF ToSet
  <2>2. Waits(n)'
    BY <1>2, <1>5, <2>1 DEF Waits, Room, Fits
  <2>3. Serves(n)'
    BY <2>1 DEF Serves
  <2>4. due[n] # None
    BY <1>2, <2>1 DEF InTime, Coming
  <2>5. due'[n] # None
    BY <1>1, <1>3, <2>4, Kinship
  <2> QED
    BY <2>2, <2>3, <2>5 DEF InTime, Coming
<1>7. CASE /\ j.pc = "request" /\ job'["binding"].pc = "request" /\ job'["binding"].key = j.key
           /\ j.left > 0 /\ job'["binding"].left = j.left - 1
  <2>1. Ahead = j.left /\ Ahead' = j.left - 1
    BY <1>7 DEF Ahead
  <2>2. ASSUME j.key # n, NEW i \in 1..Len(q), q[i] = n PROVE Fits(n, Ahead' + Calls(i))
    <3>1. Room(n, Ahead + Calls(i)) /\ Ahead + Calls(i) \in Nat /\ Calls(i) \in Nat
      BY <1>1, <2>2, Turns DEF InTime, Waits
    <3>2. Ahead' + Calls(i) \in Nat /\ Ahead' + Calls(i) + 1 <= Ahead + Calls(i)
      <4> DEFINE c == Calls(i)
                 l == j.left
      <4>1. l \in Nat /\ l > 0 /\ c \in Nat /\ Ahead = l /\ Ahead' = l - 1
        BY <1>1, <1>7, <2>1, <3>1
      <4> HIDE DEF c, l
      <4>2. (l - 1) + c \in Nat /\ (l - 1) + c + 1 <= l + c
        BY <4>1
      <4> QED
        BY <4>1, <4>2 DEF c
    <3> QED
      BY <1>4, <3>1, <3>2
  <2>3. Waits(n)'
    BY <1>2, <1>5, <1>7, <2>2 DEF Waits, Room, Fits
  <2>4. j.key = n => Fits(n, j.left - 1)
    BY <1>1, <1>4, <1>7 DEF InTime, Serves
  <2>5. Serves(n)'
    BY <1>7, <2>4 DEF Serves, Room, Fits
  <2>6. due[n] # None => due'[n] # None
    BY <1>1, <1>3, Kinship
  <2>7. Coming(n)'
    BY <1>2, <1>7, <2>6 DEF InTime, Coming
  <2> QED
    BY <2>3, <2>5, <2>7 DEF InTime
<1> QED
  BY <1>2, <1>6, <1>7

\* An edit makes the reconcile in progress come back, and pays for it.
LEMMA EditInTime ==
  ASSUME SlackSuffices, SettingStep, NEW n \in Names, InTime(n), NEW m \in Names, NEW p, NEW r,
         SetBinding(m, p, r)
  PROVE  InTime(n)'
<1> DEFINE j == job["binding"]
           q == queue["binding"]
<1>0. Setting /\ Base /\ BoundsOK
  BY DEF SettingStep, Setting, Base
<1>1. events' = events \cup {m} /\ queue' = queue /\ due' = due /\ job' = job /\ age' = age
      /\ Spend("edit")
  BY DEF SetBinding, Change, Inside, sched, clock
<1>2. /\ Ahead \in 0..LongestCall /\ q \in Seq(Names) /\ Round \in Nat /\ Again \in Nat
      /\ LongestCall \in Nat /\ j.left \in Nat /\ NoRepeats(q) /\ (due[n] # None => due[n] \in Nat)
  BY <1>0, Measures
<1>3. Disturbed' = Disturbed + 1
  BY <1>0, <1>1, SpendCounts
<1>4. ~Tick
  <2>1. m \in events'
    BY <1>1
  <2> QED
    BY <1>0, <2>1, TimePasses
<1>5. Fits(n, Again) /\ \A t, u \in Nat : u <= t /\ Room(n, t) => Fits(n, u)
  BY <1>0, <1>2, <1>3, <1>4, NotOverdue, Leeway
<1>6. Ahead' = Ahead
  BY <1>1 DEF Ahead
<1>7. due[n] # None => Fits(n, due[n] + Round)
  BY <1>2, <1>5 DEF InTime, Waits
<1>8. ASSUME j.key # n, NEW i \in 1..Len(q), q[i] = n PROVE Fits(n, Ahead + Calls(i))
  <2>1. Room(n, Ahead + Calls(i)) /\ Ahead + Calls(i) \in Nat
    BY <1>2, <1>8, Turns DEF InTime, Waits
  <2> QED
    BY <1>5, <2>1
<1>9. Waits(n)'
  BY <1>1, <1>5, <1>6, <1>7, <1>8 DEF Waits, Room, Fits
<1>10. j.key = n => IF j.pc = "request" THEN Fits(n, j.left) ELSE Fits(n, LongestCall)
  BY <1>2, <1>5 DEF InTime, Serves
<1>11. Serves(n)'
  BY <1>1, <1>5, <1>10 DEF Serves, Room, Fits
<1>12. Coming(n)'
  BY <1>1 DEF InTime, Coming
<1> QED
  BY <1>9, <1>11, <1>12 DEF InTime

\* Every step keeps every binding in time.
LEMMA TimelyKept ==
  ASSUME SlackSuffices, SettingStep, Timely
  PROVE  Timely'
<1>0. Base /\ StoreOK /\ [Next]_vars
  BY DEF SettingStep, Setting, Base
<1> SUFFICES ASSUME NEW n \in Names, Reports(n)' PROVE InTime(n)'
  BY DEF Timely
<1>1. Reports(n) => InTime(n)
  BY DEF Timely
<1>2. status'[n] = status[n] => InTime(n) /\ Reports(n)
  BY <1>1 DEF Reports
<1>3. CASE Tick
  BY <1>2, <1>3, TickInTime DEF Tick
<1>4. CASE Untouched(n) /\ ~Tick
  BY <1>2, <1>4, UntouchedInTime DEF Untouched
<1>5. CASE Take("binding")
  BY <1>2, <1>5, TakeInTime DEF Take, api
<1>6. CASE LoadProvider \/ BuildClient("binding") \/ RequestDone("binding")
  BY <1>2, <1>6, WorkerInTime DEF LoadProvider, BuildClient, RequestDone, api
<1>7. CASE ReadFails
  BY <1>2, <1>7, ReadFailsInTime DEF ReadFails, api
<1>8. ASSUME NEW reply \in Replies, Apply(reply) PROVE InTime(n)'
  <2>1. status' = status
    BY <1>8 DEF Apply
  <2> QED
    BY <1>2, <1>8, <2>1, WorkerInTime
<1>9. ASSUME NEW reply \in Replies, WriteStatus("binding", reply) PROVE InTime(n)'
  BY <1>1, <1>9, WriteInTime
<1>10. ASSUME NEW o \in Objects, NEW listed \in BOOLEAN, Deliver(o, listed) PROVE InTime(n)'
  <2>1. status' = status
    BY <1>10 DEF Deliver
  <2> QED
    BY <1>2, <1>10, <2>1, DeliverInTime
<1>11. ASSUME NEW k \in Keys, TimerFires(k) PROVE InTime(n)'
  <2>1. status' = status
    BY <1>11 DEF TimerFires, api
  <2> QED
    BY <1>2, <1>11, <2>1, TimerInTime
<1>12. ASSUME NEW m \in Names, NEW p, NEW r, SetBinding(m, p, r) PROVE InTime(n)'
  <2>1. status' = status
    BY <1>12 DEF SetBinding, Change
  <2> QED
    BY <1>2, <1>12, <2>1, EditInTime
<1> QED
  BY <1>0, <1>3, <1>4, <1>5, <1>6, <1>7, <1>8, <1>9, <1>10, <1>11, <1>12, Elsewhere

\* The process starts with nothing reported.
LEMMA TimelyInit ==
  ASSUME Init
  PROVE  PaceOK /\ Queried /\ Known /\ Timely
<1>1. PICK s \in Scenarios :
        /\ live = s.objects /\ cache = s.objects /\ scenario = s
        /\ queue \in [binding : Enqueued(<<>>, {n \in Names : s.objects[n] # None}),
                      provider : Enqueued(<<>>, {p \in Providers : s.objects[p] # None})]
  BY DEF Init
<1>2. /\ status = [k \in Keys |-> NewStatus] /\ job = [c \in Controllers |-> Idle]
      /\ age = [n \in Names |-> 0] /\ spent = [k \in Kinds |-> 0]
  BY DEF Init
<1>3. NoRepeats(queue["binding"])
  <2> DEFINE S == {n \in Names : s.objects[n] # None}
  <2>1. queue["binding"] \in Enqueued(<<>>, S) /\ S \in SUBSET Names
    BY <1>1
  <2>2. <<>> \in Seq(Names) /\ NoRepeats(<<>>)
    BY DEF NoRepeats
  <2> HIDE DEF S
  <2>3. Extended(<<>>, queue["binding"])
    BY <2>1, <2>2, EnqueuedPlaces
  <2> QED
    BY <2>3 DEF Extended
<1>4. job["binding"] = Idle /\ \A n \in Names : n \in Keys /\ status[n] = NewStatus /\ n # None
  BY <1>2, Kinship DEF Controllers
<1>5. s.moves \in [Kinds -> Nat]
  BY CadenceAssumption
<1>6. PaceOK
  BY <1>1, <1>2, <1>3, <1>4, <1>5, IdleJob DEF PaceOK
<1>7. Queried /\ Known /\ Timely
  BY <1>1, <1>4, IdleJob DEF Queried, Known, Timely, Reports, NewStatus
<1> QED
  BY <1>6, <1>7

\* An answer in time is not too old.
LEMMA InTimeMeansFresh ==
  ASSUME SlackSuffices, Setting, Timely
  PROVE  BoundedStaleness
<1> SUFFICES ASSUME NEW n \in Names, Reports(n) PROVE age[n] <= Interval + Slack
  BY DEF BoundedStaleness, Reports
<1>1. Room(n, 0)
  BY NotOverdue DEF Timely
<1> DEFINE moves == scenario.moves["fault"] + scenario.moves["edit"]
<1>2. scenario \in Scenarios /\ spent \in [Kinds -> Nat] /\ scenario.moves \in [Kinds -> Nat]
      /\ \A kind \in Kinds : spent[kind] <= scenario.moves[kind]
  BY CadenceAssumption DEF Setting, Base, BoundsOK, PaceOK
<1>3. Disturbed \in Nat /\ moves \in Nat /\ Disturbed <= moves
  BY <1>2 DEF Disturbed, Kinds
<1>4. Limit(moves) <= Interval + Slack
  BY <1>2 DEF SlackSuffices
<1> HIDE DEF moves
<1>5. Limit(Disturbed) <= Limit(moves) /\ Limit(Disturbed) \in Nat /\ Limit(moves) \in Nat
  BY <1>3, Allowances
<1>6. age[n] \in Nat /\ age[n] <= Limit(Disturbed)
  BY <1>1 DEF Room, Setting, PaceOK
<1> QED
  BY <1>4, <1>5, <1>6, CadenceAssumption

\* A binding that reports Ready or GroupNotFound was queried at most Interval +
\* Slack ticks ago, for every number of bindings and providers, rate, latency
\* and interval, whenever Slack covers a round of calls and, for each of the
\* faults and edits there may be, a retry and another round (Delay, Connect,
\* WriteStatus, Deliver).
THEOREM StalenessBounded == SlackSuffices => (Spec => []BoundedStaleness)
<1> SUFFICES ASSUME SlackSuffices PROVE Spec => []BoundedStaleness
  OBVIOUS
<1> DEFINE IInv == Setting /\ Timely
<1>1. Init => IInv
  BY BaseInit, TimelyInit DEF Setting
<1>2. IInv /\ [Next]_vars => IInv'
  BY BaseStep, PaceKept, QueriedKept, KnownKept, TimelyKept DEF Setting, SettingStep
<1>3. IInv => BoundedStaleness
  BY InTimeMeansFresh
<1> QED
  BY <1>1, <1>2, <1>3, PTL DEF Spec

=============================================================================
