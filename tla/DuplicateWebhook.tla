-------------------------- MODULE DuplicateWebhook --------------------------
(***************************************************************************)
(* RBACGroupBindingValidator and ClusterRBACGroupBindingValidator          *)
(* (internal/webhook): admission of creates and updates of bindings,       *)
(* together with LDAPProviderReadiness (internal/controller/readiness.go), *)
(* which decides whether there is a pod to ask.  The API server calls the  *)
(* webhook of one ready replica of the operator, which lists siblings from *)
(* its informer cache, and stores the object some time later.  Bindings    *)
(* are logs of revisions as in BindingReconciler; each replica has its own *)
(* position in them, and its own view of the providers' Ready conditions.  *)
(***************************************************************************)
EXTENDS Naturals, Sequences, FiniteSets

CONSTANTS
  Names,    \* bindings
  Scopes,   \* choices of scope: the namespace of each binding, or Cluster
  Cluster,  \* for a ClusterRBACGroupBinding
  Providers, Groups, Roles,
  Clients,  \* users, and the garbage collector, with a request each
  Replicas, \* operator pods that serve the webhook
  None,
  Budgets   \* bounds on requests, deletions, failed lists and changes of
            \* health; a behaviour stays within one of them

Kinds == {"request", "delete", "fault", "health"}

ASSUME WebhookAssumption ==
  /\ \A scope \in Scopes : DOMAIN scope = Names
  /\ Budgets \subseteq [Kinds -> Nat]

\* deleting: foreground deletion is waiting for its finalizer to be removed.
Binding == [group : Groups, role : Roles, deleting : BOOLEAN]

\* Ready of an LDAPProvider; None when there is none, "Unknown" before its
\* first health check.
Conditions == {None, "Unknown", "True", "False"}

Request == [op : {"create", "update", "finish"}, name : Names, at : Nat,
            object : Binding, allowed : BOOLEAN]

VARIABLES
  log,     \* per binding, its revisions
  seen,    \* per replica and binding, the revision its cache has reached
  req,     \* per client, the request under way
  scope,   \* the scope of each binding, fixed
  cond,    \* per provider, its Ready condition as stored
  view,    \* per replica, the conditions in its cache
  ready,   \* the replicas that are ready, the webhook service's endpoints
  raced,   \* history: some admission ran on a lagging cache, or while another
           \* one had been allowed and not stored yet
  spent

pods == <<scope, cond, view, ready>>
vars == <<log, seen, req, scope, cond, view, ready, raced, spent>>

Live(n) == log[n][Len(log[n])]

Spend(kind) ==
  /\ spent' = [spent EXCEPT ![kind] = @ + 1]
  /\ \E budget \in Budgets : \A k \in Kinds : spent'[k] <= budget[k]

Init ==
  /\ log = [n \in Names |-> <<None>>]
  /\ seen = [p \in Replicas |-> [n \in Names |-> 1]]
  /\ req = [c \in Clients |-> None]
  /\ scope \in Scopes
  /\ cond = [q \in Providers |-> "True"]
  /\ view = [p \in Replicas |-> cond] /\ ready = Replicas
  /\ raced = FALSE
  /\ spent = [k \in Kinds |-> 0]

----------------------------------------------------------------------------
(* The API server's clients. *)

Send(c, op, n, b) ==
  /\ req[c] = None
  /\ req' = [req EXCEPT ![c] = [op |-> op, name |-> n, at |-> Len(log[n]),
                                object |-> b, allowed |-> FALSE]]
  /\ UNCHANGED <<log, seen, pods, raced>>

CreateBinding(c, n, g, r) ==
  /\ Live(n) = None
  /\ Spend("request")
  /\ Send(c, "create", n, [group |-> g, role |-> r, deleting |-> FALSE])

\* An edit of the spec, or of the metadata when the spec stays the same.
UpdateBinding(c, n, g, r) ==
  /\ Live(n) # None
  /\ Spend("request")
  /\ Send(c, "update", n, [Live(n) EXCEPT !.group = g, !.role = r])

\* DELETE is not among the webhook's verbs: a background deletion removes the
\* object, a foreground deletion leaves it with a finalizer ...
DeleteBinding(n, foreground) ==
  /\ Live(n) # None
  /\ ~Live(n).deleting
  /\ Spend("delete")
  /\ log' = [log EXCEPT ![n] =
       Append(@, IF foreground THEN [Live(n) EXCEPT !.deleting = TRUE] ELSE None)]
  /\ UNCHANGED <<seen, req, pods, raced>>

\* ... which the garbage collector removes with an update, once the managed
\* RoleBinding is gone.
FinishDeletion(c, n) ==
  /\ Live(n) # None
  /\ Live(n).deleting
  /\ Send(c, "finish", n, Live(n))
  /\ UNCHANGED spent

----------------------------------------------------------------------------
(* The webhook. *)

Cached(p, n) == log[n][seen[p][n]]

SameSpec(b, d) == b.group = d.group /\ b.role = d.role

\* Mutants of RejectDuplicate: finding oneself in the list ends the search;
\* one does not skip oneself.
RejectUnlessListed(p, n, b) ==
  /\ Cached(p, n) = None
  /\ \E m \in Names \ {n} :
       scope[m] = scope[n] /\ Cached(p, m) # None /\ SameSpec(Cached(p, m), b)
RejectOneself(p, n, b) ==
  \E m \in Names :
    scope[m] = scope[n] /\ Cached(p, m) # None /\ SameSpec(Cached(p, m), b)

\* RBACGroupBindingValidator.rejectDuplicate: another binding the cache lists
\* in the namespace maps the same groupDN to the same roleRef.
RejectDuplicate(p, n, b) ==
  \E m \in Names \ {n} :
    /\ scope[m] = scope[n]
    /\ Cached(p, m) # None
    /\ SameSpec(Cached(p, m), b)

\* ClusterRBACGroupBindingValidator.rejectDuplicate: likewise, among all.
RejectClusterDuplicate(p, n, b) ==
  \E m \in {m \in Names : scope[m] = Cluster} \ {n} :
    /\ Cached(p, m) # None
    /\ SameSpec(Cached(p, m), b)

Reject(p, n, b) ==
  IF scope[n] = Cluster THEN RejectClusterDuplicate(p, n, b) ELSE RejectDuplicate(p, n, b)

InFlight(c) == \E d \in Clients \ {c} : req[d] # None /\ req[d].allowed

\* ValidateCreate and ValidateUpdate, for one request on one replica.
Validate(c, p) ==
  /\ req[c] # None
  /\ ~req[c].allowed
  /\ p \in ready
  /\ LET r == req[c] IN
       req' = IF Reject(p, r.name, r.object)
                THEN [req EXCEPT ![c] = None]
                ELSE [req EXCEPT ![c].allowed = TRUE]
  /\ raced' = (raced \/ InFlight(c) \/ \E m \in Names : seen[p][m] < Len(log[m]))
  /\ UNCHANGED <<log, seen, pods, spent>>

\* failurePolicy=fail: without an endpoint the request is refused.
Unavailable(c) ==
  /\ req[c] # None
  /\ ~req[c].allowed
  /\ ready = {}
  /\ req' = [req EXCEPT ![c] = None]
  /\ UNCHANGED <<log, seen, pods, raced, spent>>

\* rejectDuplicate cannot list the siblings: the request is refused.
ListFails(c) ==
  /\ req[c] # None
  /\ ~req[c].allowed
  /\ ready # {}
  /\ Spend("fault")
  /\ req' = [req EXCEPT ![c] = None]
  /\ UNCHANGED <<log, seen, pods, raced>>

\* The admitted object is stored unless the binding has moved on.
Persist(c) ==
  /\ req[c] # None
  /\ req[c].allowed
  /\ LET r == req[c]
         stored == IF r.op = "finish" THEN None ELSE r.object IN
       log' = IF r.at = Len(log[r.name]) /\ stored # Live(r.name)
                THEN [log EXCEPT ![r.name] = Append(@, stored)] ELSE log
  /\ req' = [req EXCEPT ![c] = None]
  /\ UNCHANGED <<seen, pods, raced, spent>>

\* Mutant of Deliver: the position runs ahead of the log.
DeliverAhead(p, n) ==
  /\ seen[p][n] < Len(log[n])
  /\ seen' = [seen EXCEPT ![p][n] = Len(log[n]) + 1]
  /\ UNCHANGED <<log, req, pods, raced, spent>>

\* The informer of one replica receives the next revision of n.
Deliver(p, n) ==
  /\ seen[p][n] < Len(log[n])
  /\ seen' = [seen EXCEPT ![p][n] = @ + 1]
  /\ UNCHANGED <<log, req, pods, raced, spent>>

----------------------------------------------------------------------------
(* Readiness. *)

\* What LDAPProviderReconciler and users do to a provider: a health check
\* that sets the condition, deletion, creation.
ChangeHealth(q, v) ==
  /\ v # cond[q]
  /\ (v = "Unknown") = (cond[q] = None)
  /\ Spend("health")
  /\ cond' = [cond EXCEPT ![q] = v]
  /\ UNCHANGED <<log, seen, req, scope, view, ready, raced>>

DeliverHealth(p) ==
  /\ view[p] # cond
  /\ view' = [view EXCEPT ![p] = cond]
  /\ UNCHANGED <<log, seen, req, scope, cond, ready, raced, spent>>

\* Mutant of Check: a provider that was deleted is still waited for.
CheckDeletedToo(p) == \A q \in Providers : view[p][q] = "True"

\* LDAPProviderReadiness.Check: every provider the cache lists has a Ready
\* condition, and it is true.
Check(p) == \A q \in Providers : view[p][q] \in {None, "True"}

\* The kubelet's probe makes the pod an endpoint of the service, or no more.
Probe(p) ==
  /\ (p \in ready) # Check(p)
  /\ ready' = IF Check(p) THEN ready \cup {p} ELSE ready \ {p}
  /\ UNCHANGED <<log, seen, req, scope, cond, view, raced, spent>>

Next ==
  \/ \E c \in Clients :
       \/ \E n \in Names :
            \/ \E g \in Groups, r \in Roles :
                 CreateBinding(c, n, g, r) \/ UpdateBinding(c, n, g, r)
            \/ FinishDeletion(c, n)
       \/ \E p \in Replicas : Validate(c, p)
       \/ Unavailable(c) \/ ListFails(c) \/ Persist(c)
  \/ \E n \in Names, foreground \in BOOLEAN : DeleteBinding(n, foreground)
  \/ \E p \in Replicas, n \in Names : Deliver(p, n)
  \/ \E q \in Providers, v \in Conditions : ChangeHealth(q, v)
  \/ \E p \in Replicas : DeliverHealth(p) \/ Probe(p)

Spec == Init /\ [][Next]_vars

\* Requests are answered, caches catch up, and the garbage collector keeps
\* trying although its client is busy with other requests in between; the
\* conditions reach the caches and pods are probed again and again.
Fairness ==
  /\ \A c \in Clients :
       /\ WF_vars(Unavailable(c) \/ \E p \in Replicas : Validate(c, p))
       /\ WF_vars(Persist(c))
  /\ \A n \in Names : SF_vars(\E c \in Clients : FinishDeletion(c, n))
  /\ \A p \in Replicas, n \in Names : WF_vars(Deliver(p, n))
  /\ \A p \in Replicas : WF_vars(DeliverHealth(p)) /\ WF_vars(Probe(p))

FairSpec == Spec /\ Fairness

----------------------------------------------------------------------------
(* Properties. *)

\* Types of all variables.
TypeOK ==
  /\ log \in [Names -> Seq({None} \cup Binding)]
  /\ \A p \in Replicas, n \in Names : seen[p][n] \in 1..Len(log[n])
  /\ \A c \in Clients : req[c] = None \/ req[c] \in Request
  /\ scope \in Scopes /\ cond \in [Providers -> Conditions]
  /\ view \in [Replicas -> [Providers -> Conditions]] /\ ready \subseteq Replicas
  /\ raced \in BOOLEAN
  /\ spent \in [Kinds -> Nat]

SameMapping(n, m) ==
  /\ n # m
  /\ scope[n] = scope[m]
  /\ Live(n) # None /\ Live(m) # None
  /\ Live(n).group = Live(m).group /\ Live(n).role = Live(m).role

\* What the validator's comment promises: two bindings of one scope never map
\* the same groupDN to the same role.
NoDuplicateMapping == \A n, m \in Names : ~SameMapping(n, m)

\* The promise holds as long as admissions do not overlap and find a cache
\* that is up to date, whatever replicas, deletions, re-creations, conflicting
\* updates and outages do otherwise (rejectDuplicate).
SerialAdmissionsNeverDuplicate == ~raced => NoDuplicateMapping

Deleting(n) == IF Live(n) = None THEN FALSE ELSE Live(n).deleting

\* ValidateDelete: "Deletion never creates a duplicate mapping, so there is
\* nothing to check": a deletion that was accepted completes.
DeletionUnblocked == \A n \in Names : []<>~Deleting(n)

\* Some provider exists and is not known to be Ready.
Unhealthy == \E q \in Providers : cond[q] \in {"Unknown", "False"}

\* The validator holds up a foreground deletion only while a duplicate exists
\* or a provider stays unhealthy, which takes every pod out of service; an
\* outage that ends, and a provider that is deleted, hold up nothing
\* (rejectDuplicate, LDAPProviderReadiness.Check, failurePolicy=fail).
DeletionHeldOnlyByDuplicate ==
  \A n \in Names :
    \/ []<>~Deleting(n)
    \/ []<>(\E m \in Names : SameMapping(n, m))
    \/ <>[]Unhealthy

=============================================================================
