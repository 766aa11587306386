----------------------- MODULE DuplicateWebhookProofs -----------------------
(***************************************************************************)
(* Safety of DuplicateWebhook for any number of bindings, scopes, clients, *)
(* replicas and providers.                                                 *)
(***************************************************************************)
EXTENDS DuplicateWebhook, TLAPS

\* TypeOK speaks of positions and requests one by one; together they are
\* functions, and there is a revision to look at.
Shape ==
  /\ \A n \in Names : Len(log[n]) > 0
  /\ seen \in [Replicas -> [Names -> Nat]]
  /\ req \in [Clients -> {None} \cup Request]

Base == TypeOK /\ Shape

Allowed(c) == req[c] # None /\ req[c].allowed

\* Binding m, other than n and in its scope, has the mapping of b.
Sibling(m, n, b) ==
  m # n /\ scope[m] = scope[n] /\ Live(m) # None /\ SameSpec(Live(m), b)

\* At most one request is allowed and not stored yet ...
OneInFlight == \A c, d \in Clients : Allowed(c) /\ Allowed(d) => c = d

\* ... and what it will store has no duplicate, however long it takes.
InFlightUnique ==
  \A c \in Clients, m \in Names : Allowed(c) => ~Sibling(m, req[c].name, req[c].object)

\* The strengthening of SerialAdmissionsNeverDuplicate.
Serial == ~raced => NoDuplicateMapping /\ OneInFlight /\ InFlightUnique

----------------------------------------------------------------------------
(* Types. *)

\* Logs are never empty, and a binding's live revision is a binding or None.
LEMMA LogType ==
  ASSUME Base, NEW n \in Names
  PROVE  /\ log[n] \in Seq({None} \cup Binding) /\ Live(n) \in {None} \cup Binding
         /\ Len(log[n]) \in Nat \ {0}
<1>1. log[n] \in Seq({None} \cup Binding) /\ Len(log[n]) > 0
  BY DEF Base, TypeOK, Shape
<1>2. QED
  BY <1>1 DEF Live

\* The API server stores one more revision of n.
Stores(n, r) == log' = [log EXCEPT ![n] = Append(@, r)]

\* It leaves the other bindings alone, and the past of n.
LEMMA AppendRevision ==
  ASSUME Base, NEW n \in Names, NEW r \in {None} \cup Binding, Stores(n, r)
  PROVE  /\ log' \in [Names -> Seq({None} \cup Binding)]
         /\ \A m \in Names : Len(log'[m]) >= Len(log[m]) /\ Len(log'[m]) > 0
         /\ Live(n)' = r
         /\ \A m \in Names \ {n} : Live(m)' = Live(m)
<1>1. log \in [Names -> Seq({None} \cup Binding)]
  BY DEF Base, TypeOK
<1>2. \A m \in Names : log[m] \in Seq({None} \cup Binding) /\ Len(log[m]) \in Nat \ {0}
  BY LogType
<1>3. log'[n] = Append(log[n], r) /\ \A m \in Names \ {n} : log'[m] = log[m]
  BY <1>1 DEF Stores
<1>4. Append(log[n], r) \in Seq({None} \cup Binding) /\ Len(Append(log[n], r)) = Len(log[n]) + 1
      /\ Append(log[n], r)[Len(log[n]) + 1] = r
  BY <1>2
<1>5. log' \in [Names -> Seq({None} \cup Binding)]
  BY <1>1, <1>4 DEF Stores
<1>6. QED
  BY <1>2, <1>3, <1>4, <1>5 DEF Live

\* What a client or the API server stores: what one of the requests that were
\* allowed asks for, which is thereby answered, or a deletion.
Persisted(n, r) ==
  \E c \in Clients :
    /\ Allowed(c) /\ req[c].name = n /\ (r = None \/ r = req[c].object)
    /\ req' = [req EXCEPT ![c] = None]

Deleted(n, r) ==
  /\ Live(n) # None /\ req' = req
  /\ r = None \/ SameSpec(r, Live(n))

LogStep ==
  \/ log' = log
  \/ \E n \in Names, r \in {None} \cup Binding :
       Stores(n, r) /\ raced' = raced /\ (Persisted(n, r) \/ Deleted(n, r))

\* Requests come and go one at a time, and only the webhook allows one.
ReqStep ==
  \/ req' = req
  \/ \E c \in Clients, x \in {None} \cup Request :
       /\ req' = [req EXCEPT ![c] = x]
       /\ x = None \/ ~x.allowed \/ \E p \in Replicas : Validate(c, p)

\* A request under way has its fields, and allowing it changes neither the
\* binding nor the object.
LEMMA RequestType ==
  ASSUME Base, NEW c \in Clients, req[c] # None
  PROVE  /\ req[c] \in Request /\ req[c].name \in Names /\ req[c].object \in Binding
         /\ [req[c] EXCEPT !.allowed = TRUE] \in Request
         /\ [req[c] EXCEPT !.allowed = TRUE].name = req[c].name
         /\ [req[c] EXCEPT !.allowed = TRUE].object = req[c].object
<1>1. req[c] \in Request
  BY DEF Base, Shape
<1>2. QED
  BY <1>1 DEF Request

\* An edited binding is a binding, and a deletion mark changes no mapping.
LEMMA BindingType ==
  ASSUME NEW b \in Binding
  PROVE  /\ \A g \in Groups, r \in Roles : [b EXCEPT !.group = g, !.role = r] \in Binding
         /\ [b EXCEPT !.deleting = TRUE] \in Binding
         /\ SameSpec([b EXCEPT !.deleting = TRUE], b)
  BY DEF Binding, SameSpec

\* Every step moves the logs and the requests in these ways.
LEMMA StepShape ==
  ASSUME Base, [Next]_vars
  PROVE  LogStep /\ ReqStep
<1>1. ASSUME NEW c \in Clients, NEW op \in {"create", "update", "finish"}, NEW n \in Names,
             NEW b \in Binding, Send(c, op, n, b)
      PROVE  LogStep /\ ReqStep
  <2> DEFINE x == [op |-> op, name |-> n, at |-> Len(log[n]), object |-> b, allowed |-> FALSE]
  <2>1. x \in Request /\ ~x.allowed
    BY LogType DEF Request
  <2>2. req' = [req EXCEPT ![c] = x] /\ log' = log
    BY <1>1 DEF Send
  <2> HIDE DEF x
  <2>3. QED
    BY <2>1, <2>2 DEF LogStep, ReqStep
<1>2. ASSUME NEW c \in Clients, NEW n \in Names, NEW g \in Groups, NEW r \in Roles,
             CreateBinding(c, n, g, r)
      PROVE  LogStep /\ ReqStep
  BY <1>1, <1>2 DEF CreateBinding, Binding
<1>3. ASSUME NEW c \in Clients, NEW n \in Names, NEW g \in Groups, NEW r \in Roles,
             UpdateBinding(c, n, g, r)
      PROVE  LogStep /\ ReqStep
  <2>1. Live(n) \in Binding
    BY <1>3, LogType DEF UpdateBinding
  <2>2. QED
    BY <1>1, <1>3, <2>1, BindingType DEF UpdateBinding
<1>4. ASSUME NEW c \in Clients, NEW n \in Names, FinishDeletion(c, n)
      PROVE  LogStep /\ ReqStep
  <2>1. Live(n) \in Binding
    BY <1>4, LogType DEF FinishDeletion
  <2>2. QED
    BY <1>1, <1>4, <2>1 DEF FinishDeletion
<1>5. ASSUME NEW c \in Clients, NEW p \in Replicas, Validate(c, p)
      PROVE  LogStep /\ ReqStep
  <2>1. log' = log /\ req[c] # None
    BY <1>5 DEF Validate
  <2>2. req' = [req EXCEPT ![c] = None]
        \/ req' = [req EXCEPT ![c] = [req[c] EXCEPT !.allowed = TRUE]]
    BY <1>5 DEF Validate
  <2>3. QED
    BY <1>5, <2>1, <2>2, RequestType DEF LogStep, ReqStep
<1>6. ASSUME NEW c \in Clients, Unavailable(c) \/ ListFails(c)
      PROVE  LogStep /\ ReqStep
  BY <1>6 DEF Unavailable, ListFails, LogStep, ReqStep
<1>7. ASSUME NEW c \in Clients, Persist(c)
      PROVE  LogStep /\ ReqStep
  <2> DEFINE r == req[c]
             stored == IF r.op = "finish" THEN None ELSE r.object
  <2>1. /\ Allowed(c) /\ req' = [req EXCEPT ![c] = None] /\ raced' = raced
        /\ log' = log \/ Stores(r.name, stored)
    BY <1>7 DEF Persist, Allowed, Stores
  <2>2. r.name \in Names /\ r.object \in Binding
    BY <2>1, RequestType DEF Allowed
  <2>3. stored \in {None} \cup Binding /\ (stored = None \/ stored = r.object)
    BY <2>2
  <2>4. Persisted(r.name, stored)
    BY <2>1, <2>3 DEF Persisted
  <2> HIDE DEF stored
  <2>5. LogStep
    BY <2>1, <2>2, <2>3, <2>4 DEF LogStep
  <2>6. QED
    BY <2>1, <2>5 DEF ReqStep
<1>8. ASSUME NEW n \in Names, NEW foreground \in BOOLEAN, DeleteBinding(n, foreground)
      PROVE  LogStep /\ ReqStep
  <2> DEFINE r == IF foreground THEN [Live(n) EXCEPT !.deleting = TRUE] ELSE None
  <2>1. Live(n) # None /\ Stores(n, r) /\ req' = req /\ raced' = raced
    BY <1>8 DEF DeleteBinding, Stores
  <2>2. Live(n) \in Binding
    BY <2>1, LogType
  <2>3. r \in {None} \cup Binding /\ (r = None \/ SameSpec(r, Live(n)))
    BY <2>2, BindingType
  <2> HIDE DEF r
  <2>4. QED
    BY <2>1, <2>3 DEF LogStep, ReqStep, Deleted
<1>9. ASSUME \/ \E p \in Replicas, n \in Names : Deliver(p, n)
             \/ \E q \in Providers, v \in Conditions : ChangeHealth(q, v)
             \/ \E p \in Replicas : DeliverHealth(p) \/ Probe(p)
             \/ UNCHANGED vars
      PROVE  LogStep /\ ReqStep
  BY <1>9 DEF Deliver, ChangeHealth, DeliverHealth, Probe, vars, LogStep, ReqStep
<1>10. QED
  BY <1>2, <1>3, <1>4, <1>5, <1>6, <1>7, <1>8, <1>9 DEF Next

\* The initial state is well typed.
LEMMA BaseInit == Init => Base
<1> SUFFICES ASSUME Init PROVE Base
  OBVIOUS
<1>1. log \in [Names -> Seq({None} \cup Binding)] /\ \A n \in Names : Len(log[n]) = 1
  BY DEF Init
<1>2. seen \in [Replicas -> [Names -> Nat]] /\ \A p \in Replicas, n \in Names : seen[p][n] = 1
  BY DEF Init
<1>3. req \in [Clients -> {None} \cup Request]
  BY DEF Init
<1>4. scope \in Scopes /\ cond \in [Providers -> Conditions]
      /\ view \in [Replicas -> [Providers -> Conditions]] /\ ready \subseteq Replicas
      /\ raced \in BOOLEAN /\ spent \in [Kinds -> Nat]
  BY DEF Init, Conditions
<1>5. ASSUME NEW p \in Replicas, NEW n \in Names PROVE seen[p][n] \in 1..Len(log[n])
  <2>1. seen[p][n] = 1 /\ Len(log[n]) = 1
    BY <1>1, <1>2
  <2>2. QED
    BY <2>1
<1>6. \A c \in Clients : req[c] = None \/ req[c] \in Request
  BY <1>3
<1>7. Shape
  BY <1>1, <1>2, <1>3 DEF Shape
<1>8. QED
  BY <1>1, <1>4, <1>5, <1>6, <1>7 DEF Base, TypeOK

\* Every step keeps the types.
LEMMA BaseStep ==
  ASSUME Base, [Next]_vars
  PROVE  Base'
<1>1. /\ log' \in [Names -> Seq({None} \cup Binding)]
      /\ \A m \in Names : Len(log'[m]) >= Len(log[m]) /\ Len(log'[m]) > 0
  <2>1. CASE log' = log
    BY <2>1, LogType DEF Base, TypeOK
  <2>2. ASSUME NEW n \in Names, NEW r \in {None} \cup Binding, Stores(n, r)
        PROVE  /\ log' \in [Names -> Seq({None} \cup Binding)]
               /\ \A m \in Names : Len(log'[m]) >= Len(log[m]) /\ Len(log'[m]) > 0
    BY <2>2, AppendRevision
  <2>3. QED
    BY <2>1, <2>2, StepShape DEF LogStep
<1>2. req' \in [Clients -> {None} \cup Request]
  BY StepShape DEF ReqStep, Base, Shape
<1>3. /\ seen' \in [Replicas -> [Names -> Nat]]
      /\ \A p \in Replicas, n \in Names : seen'[p][n] \in 1..Len(log'[n])
  <2>1. /\ seen \in [Replicas -> [Names -> Nat]]
        /\ \A p \in Replicas, n \in Names : seen[p][n] \in 1..Len(log[n])
        /\ \A n \in Names : Len(log[n]) \in Nat /\ Len(log'[n]) \in Nat
    BY <1>1, LogType DEF Base, TypeOK, Shape
  <2>2. CASE seen' = seen
    BY <1>1, <2>1, <2>2
  <2>3. ASSUME NEW p \in Replicas, NEW n \in Names, Deliver(p, n)
        PROVE  /\ seen' \in [Replicas -> [Names -> Nat]]
               /\ \A q \in Replicas, m \in Names : seen'[q][m] \in 1..Len(log'[m])
    <3>1. log' = log /\ seen[p][n] < Len(log[n])
          /\ seen' = [seen EXCEPT ![p][n] = seen[p][n] + 1]
      BY <2>3 DEF Deliver
    <3>2. \A q \in Replicas, m \in Names :
            seen'[q][m] = IF q = p /\ m = n THEN seen[p][n] + 1 ELSE seen[q][m]
      BY <2>1, <3>1
    <3>3. seen' \in [Replicas -> [Names -> Nat]]
      BY <2>1, <3>1
    <3>4. QED
      BY <2>1, <3>1, <3>2, <3>3
  <2>4. seen' = seen \/ \E p \in Replicas, n \in Names : Deliver(p, n)
    BY DEF Next, CreateBinding, UpdateBinding, FinishDeletion, Send, Validate, Unavailable,
         ListFails, Persist, DeleteBinding, ChangeHealth, DeliverHealth, Probe, vars
  <2>5. QED
    BY <2>2, <2>3, <2>4
<1>4. scope' = scope
  BY DEF Next, CreateBinding, UpdateBinding, FinishDeletion, Send, Validate, Unavailable,
       ListFails, Persist, DeleteBinding, Deliver, ChangeHealth, DeliverHealth, Probe, pods, vars
<1>5. cond' \in [Providers -> Conditions]
  <2>1. cond' = cond \/ \E q \in Providers, v \in Conditions : cond' = [cond EXCEPT ![q] = v]
    BY DEF Next, CreateBinding, UpdateBinding, FinishDeletion, Send, Validate, Unavailable,
         ListFails, Persist, DeleteBinding, Deliver, ChangeHealth, DeliverHealth, Probe, pods, vars
  <2>2. QED
    BY <2>1 DEF Base, TypeOK
<1>6. view' \in [Replicas -> [Providers -> Conditions]]
  <2>1. view' = view \/ \E p \in Replicas : view' = [view EXCEPT ![p] = cond]
    BY DEF Next, CreateBinding, UpdateBinding, FinishDeletion, Send, Validate, Unavailable,
         ListFails, Persist, DeleteBinding, Deliver, ChangeHealth, DeliverHealth, Probe, pods, vars
  <2>2. QED
    BY <2>1 DEF Base, TypeOK
<1>7. ready' \subseteq Replicas
  <2>1. ready' = ready \/ \E p \in Replicas : ready' = ready \cup {p} \/ ready' = ready \ {p}
    BY DEF Next, CreateBinding, UpdateBinding, FinishDeletion, Send, Validate, Unavailable,
         ListFails, Persist, DeleteBinding, Deliver, ChangeHealth, DeliverHealth, Probe, pods, vars
  <2>2. QED
    BY <2>1 DEF Base, TypeOK
<1>8. raced' \in BOOLEAN
  <2>1. ASSUME NEW c \in Clients, NEW p \in Replicas, Validate(c, p) PROVE raced' \in BOOLEAN
    BY <2>1 DEF Validate, Base, TypeOK
  <2>2. ASSUME ~\E c \in Clients, p \in Replicas : Validate(c, p) PROVE raced' = raced
    BY <2>2 DEF Next, CreateBinding, UpdateBinding, FinishDeletion, Send, Unavailable,
         ListFails, Persist, DeleteBinding, Deliver, ChangeHealth, DeliverHealth, Probe, vars
  <2>3. QED
    BY <2>1, <2>2 DEF Base, TypeOK
<1>9. spent' \in [Kinds -> Nat]
  <2>1. ASSUME NEW k \in Kinds, Spend(k) PROVE spent' \in [Kinds -> Nat]
    BY <2>1 DEF Spend, Base, TypeOK
  <2>2. spent' = spent \/ \E k \in Kinds : Spend(k)
    BY DEF Next, CreateBinding, UpdateBinding, FinishDeletion, Send, Validate, Unavailable,
         ListFails, Persist, DeleteBinding, Deliver, ChangeHealth, DeliverHealth, Probe, vars, Kinds
  <2>3. QED
    BY <2>1, <2>2 DEF Base, TypeOK
<1>10. Shape'
  BY <1>1, <1>2, <1>3 DEF Shape
<1>11. TypeOK'
  BY <1>1, <1>2, <1>3, <1>4, <1>5, <1>6, <1>7, <1>8, <1>9 DEF TypeOK, Base
<1>12. QED
  BY <1>10, <1>11 DEF Base

\* Types are correct in every reachable state; in particular no cache is ahead
\* of the API server.
THEOREM TypeCorrect == Spec => []TypeOK
<1>1. Base => TypeOK
  BY DEF Base
<1>2. QED
  BY <1>1, BaseInit, BaseStep, PTL DEF Spec

----------------------------------------------------------------------------
(* Duplicates. *)

\* Without a race the history variable stays FALSE.
LEMMA RacedStays ==
  ASSUME [Next]_vars, ~raced'
  PROVE  ~raced
<1>1. ASSUME NEW c \in Clients, NEW p \in Replicas, Validate(c, p) PROVE ~raced
  BY <1>1 DEF Validate
<1>2. ASSUME ~\E c \in Clients, p \in Replicas : Validate(c, p) PROVE raced' = raced
  BY <1>2 DEF Next, CreateBinding, UpdateBinding, FinishDeletion, Send, Unavailable,
       ListFails, Persist, DeleteBinding, Deliver, ChangeHealth, DeliverHealth, Probe, vars
<1>3. QED
  BY <1>1, <1>2

\* Scopes are fixed.
LEMMA ScopeStays ==
  ASSUME [Next]_vars
  PROVE  scope' = scope
  BY DEF Next, CreateBinding, UpdateBinding, FinishDeletion, Send, Validate, Unavailable,
       ListFails, Persist, DeleteBinding, Deliver, ChangeHealth, DeliverHealth, Probe, pods, vars

\* What rejectDuplicate lets through, on a cache that is up to date, has no
\* duplicate among the stored bindings, in either kind of scope.
LEMMA AcceptedIsUnique ==
  ASSUME Base, NEW p \in Replicas, NEW n \in Names, NEW b \in Binding,
         ~Reject(p, n, b), \A m \in Names : ~(seen[p][m] < Len(log[m]))
  PROVE  \A m \in Names : ~Sibling(m, n, b)
<1> SUFFICES ASSUME NEW m \in Names, Sibling(m, n, b) PROVE FALSE
  OBVIOUS
<1>1. seen[p][m] = Len(log[m])
  BY LogType DEF Base, TypeOK
<1>2. Cached(p, m) = Live(m)
  BY <1>1 DEF Cached, Live
<1>3. CASE scope[n] = Cluster
  BY <1>2, <1>3 DEF Sibling, Reject, RejectClusterDuplicate
<1>4. CASE scope[n] # Cluster
  BY <1>2, <1>4 DEF Sibling, Reject, RejectDuplicate
<1>5. QED
  BY <1>3, <1>4

\* A step on the logs keeps the strengthening: what is stored was unique when
\* it was allowed, nothing else has been stored since, and deletions add no
\* mapping.
LEMMA SerialLogStep ==
  ASSUME Base, NoDuplicateMapping, OneInFlight, InFlightUnique, scope' = scope,
         NEW n \in Names, NEW r \in {None} \cup Binding, Stores(n, r),
         Persisted(n, r) \/ Deleted(n, r)
  PROVE  NoDuplicateMapping' /\ OneInFlight' /\ InFlightUnique'
<1>1. Live(n)' = r /\ \A m \in Names \ {n} : Live(m)' = Live(m)
  BY AppendRevision
<1>2. CASE Persisted(n, r)
  <2>1. PICK c \in Clients : /\ Allowed(c) /\ req[c].name = n /\ (r = None \/ r = req[c].object)
                             /\ req' = [req EXCEPT ![c] = None]
    BY <1>2 DEF Persisted
  <2>2. \A d \in Clients : ~Allowed(d)'
    <3> SUFFICES ASSUME NEW d \in Clients, Allowed(d)' PROVE FALSE
      OBVIOUS
    <3>1. req'[d] = IF d = c THEN None ELSE req[d]
      BY <2>1 DEF Base, Shape
    <3>2. d # c /\ Allowed(d)
      BY <3>1 DEF Allowed
    <3>3. QED
      BY <2>1, <3>2 DEF OneInFlight
  <2>3. OneInFlight' /\ InFlightUnique'
    BY <2>2 DEF OneInFlight, InFlightUnique
  <2>4. ASSUME NEW m \in Names, r # None PROVE ~Sibling(m, n, r)
    BY <2>1, <2>4 DEF InFlightUnique
  <2>5. NoDuplicateMapping'
    <3> SUFFICES ASSUME NEW k \in Names, NEW m \in Names, SameMapping(k, m)' PROVE FALSE
      BY DEF NoDuplicateMapping
    <3>1. CASE k # n /\ m # n
      BY <1>1, <3>1 DEF SameMapping, NoDuplicateMapping
    <3>2. CASE k = n
      BY <1>1, <2>4, <3>2 DEF SameMapping, Sibling, SameSpec
    <3>3. CASE m = n
      BY <1>1, <2>4, <3>3 DEF SameMapping, Sibling, SameSpec
    <3>4. QED
      BY <3>1, <3>2, <3>3
  <2>6. QED
    BY <2>3, <2>5
<1>3. CASE Deleted(n, r)
  <2>1. req' = req /\ Live(n) # None /\ (r = None \/ SameSpec(r, Live(n)))
    BY <1>3 DEF Deleted
  <2>2. OneInFlight'
    BY <2>1 DEF OneInFlight, Allowed
  <2>3. InFlightUnique'
    <3> SUFFICES ASSUME NEW c \in Clients, NEW m \in Names, Allowed(c)',
                        Sibling(m, req[c].name, req[c].object)'
                 PROVE  FALSE
      BY DEF InFlightUnique
    <3>1. Allowed(c)
      BY <2>1 DEF Allowed
    <3>2. Live(m)' # None /\ SameSpec(Live(m)', req[c].object)
          /\ m # req[c].name /\ scope[m] = scope[req[c].name]
      BY <2>1 DEF Sibling, SameSpec
    <3>3. Live(m) # None /\ SameSpec(Live(m), req[c].object)
      BY <1>1, <2>1, <3>2 DEF SameSpec
    <3>4. QED
      BY <3>1, <3>2, <3>3 DEF InFlightUnique, Sibling
  <2>4. ASSUME NEW k \in Names, NEW m \in Names, SameMapping(k, m)' PROVE SameMapping(k, m)
    BY <1>1, <2>1, <2>4 DEF SameMapping, SameSpec
  <2>5. QED
    BY <2>2, <2>3, <2>4 DEF NoDuplicateMapping
<1>4. QED
  BY <1>2, <1>3

\* Two bindings of one scope never map the same groupDN to the same role as
\* long as admissions neither overlap nor find a lagging cache: for any number
\* of replicas, and whatever deletions, re-creations, conflicting updates and
\* outages do in between (rejectDuplicate).
THEOREM NoDuplicatesWithoutRace == Spec => []SerialAdmissionsNeverDuplicate
<1> DEFINE I == Base /\ Serial
<1>1. Init => I
  <2> SUFFICES ASSUME Init PROVE NoDuplicateMapping /\ OneInFlight /\ InFlightUnique
    BY BaseInit DEF Serial
  <2>1. \A n \in Names : Live(n) = None
    BY DEF Init, Live
  <2>2. \A c \in Clients : ~Allowed(c)
    BY DEF Init, Allowed
  <2>3. QED
    BY <2>1, <2>2 DEF NoDuplicateMapping, SameMapping, OneInFlight, InFlightUnique
<1>2. I /\ [Next]_vars => I'
  <2> SUFFICES ASSUME I, [Next]_vars, ~raced'
               PROVE  NoDuplicateMapping' /\ OneInFlight' /\ InFlightUnique'
    BY BaseStep DEF Serial
  <2>1. NoDuplicateMapping /\ OneInFlight /\ InFlightUnique /\ scope' = scope
    BY RacedStays, ScopeStays DEF Serial
  <2>2. ASSUME log' = log
        PROVE  NoDuplicateMapping'
    BY <2>1, <2>2 DEF NoDuplicateMapping, SameMapping, Live
  <2>3. ASSUME NEW n \in Names, NEW r \in {None} \cup Binding, Stores(n, r),
               Persisted(n, r) \/ Deleted(n, r)
        PROVE  NoDuplicateMapping' /\ OneInFlight' /\ InFlightUnique'
    BY <2>1, <2>3, SerialLogStep
  <2>4. CASE log' = log /\ req' = req
    <3>1. OneInFlight'
      BY <2>1, <2>4 DEF OneInFlight, Allowed
    <3>2. InFlightUnique'
      <4> SUFFICES ASSUME NEW c \in Clients, NEW m \in Names, Allowed(c)'
                   PROVE  ~Sibling(m, req[c].name, req[c].object)'
        BY DEF InFlightUnique
      <4>1. Allowed(c) /\ req[c].name \in Names
        BY <2>4, RequestType DEF Allowed
      <4>2. QED
        BY <2>1, <2>4, <4>1 DEF InFlightUnique, Sibling, Live
    <3>3. QED
      BY <2>2, <2>4, <3>1, <3>2
  <2>5. ASSUME log' = log, NEW c \in Clients, NEW x \in {None} \cup Request,
               req' = [req EXCEPT ![c] = x], x = None \/ ~x.allowed
        PROVE  NoDuplicateMapping' /\ OneInFlight' /\ InFlightUnique'
    <3>1. \A d \in Clients : req'[d] = IF d = c THEN x ELSE req[d]
      BY <2>5 DEF Base, Shape
    <3>2. \A d \in Clients : Allowed(d)' => Allowed(d) /\ req'[d] = req[d]
      BY <2>5, <3>1 DEF Allowed
    <3>3. OneInFlight'
      BY <2>1, <3>2 DEF OneInFlight
    <3>4. InFlightUnique'
      BY <2>1, <2>5, <3>2 DEF InFlightUnique, Sibling, Live
    <3>5. QED
      BY <2>2, <2>5, <3>3, <3>4
  <2>6. ASSUME NEW c \in Clients, NEW p \in Replicas, Validate(c, p)
        PROVE  NoDuplicateMapping' /\ OneInFlight' /\ InFlightUnique'
    <3> DEFINE rq == req[c]
    <3>1. /\ log' = log /\ rq # None /\ ~InFlight(c)
          /\ \A m \in Names : ~(seen[p][m] < Len(log[m]))
      BY <2>6 DEF Validate
    <3>2. CASE Reject(p, rq.name, rq.object)
      BY <2>5, <2>6, <3>1, <3>2 DEF Validate
    <3>3. CASE ~Reject(p, rq.name, rq.object)
      <4>1. req' = [req EXCEPT ![c] = [rq EXCEPT !.allowed = TRUE]]
        BY <2>6, <3>3 DEF Validate
      <4>2. rq.name \in Names /\ rq.object \in Binding
        BY <3>1, RequestType
      <4>3. \A m \in Names : ~Sibling(m, rq.name, rq.object)
        BY <3>1, <3>3, <4>2, AcceptedIsUnique
      <4>4. /\ req'[c].name = rq.name /\ req'[c].object = rq.object
            /\ \A d \in Clients \ {c} : req'[d] = req[d] /\ ~Allowed(d)
        BY <3>1, <4>1, RequestType DEF InFlight, Allowed, Base, Shape
      <4>5. \A d \in Clients : Allowed(d)' => d = c
        BY <4>4 DEF Allowed
      <4>6. OneInFlight'
        BY <4>5 DEF OneInFlight
      <4>7. InFlightUnique'
        BY <2>1, <3>1, <4>3, <4>4, <4>5 DEF InFlightUnique, Sibling, Live
      <4>8. QED
        BY <2>2, <3>1, <4>6, <4>7
    <3>4. QED
      BY <3>2, <3>3
  <2>7. QED
    BY <2>3, <2>4, <2>5, <2>6, StepShape DEF LogStep, ReqStep
<1>3. I => SerialAdmissionsNeverDuplicate
  BY DEF Serial, SerialAdmissionsNeverDuplicate
<1>4. QED
  BY <1>1, <1>2, <1>3, PTL DEF Spec

=============================================================================
