-------------------------- MODULE BindingContract --------------------------
(***************************************************************************)
(* What RBACGroupBindingReconciler promises, without workers, caches,      *)
(* queues or retries: which grants it may give and take away and what it   *)
(* may report, at the moment it does so.  Users, the directory and the     *)
(* garbage collector are free to do what they may do in a cluster.         *)
(***************************************************************************)
EXTENDS Naturals

CONSTANTS Names, None

VARIABLES
  current,  \* per name, the live spec [uid, gen, group, role], or None
  accepted, \* per name, the specs there have been
  answers,  \* [group, members] the directory has held; members None: no group
  grant,    \* per name, the live RoleBinding [role, subjects, owner, by], or None
  granted,  \* per name, the RoleBindings there have been
  report,   \* per name, the status of the live binding, or None
  meddled   \* how often somebody else has changed a RoleBinding

vars == <<current, accepted, answers, grant, granted, report, meddled>>

Init ==
  /\ current = [n \in Names |-> None] /\ accepted = [n \in Names |-> {}]
  /\ grant = [n \in Names |-> None] /\ granted = [n \in Names |-> {}]
  /\ report = [n \in Names |-> None]
  /\ meddled = 0

Keeps(s) == IF s = None THEN {} ELSE {s}

\* A user creates a binding under a new uid, edits or deletes one: access and
\* status are not touched by that, except that a new binding has a new status.
Submit(n) ==
  /\ \E s \in {current'[n]} :
       /\ s # current[n]
       /\ s # None /\ current[n] = None => \A old \in accepted[n] : s.uid # old.uid
       /\ s # None /\ current[n] # None => s.uid = current[n].uid /\ s.gen = current[n].gen + 1
       /\ current' = [current EXCEPT ![n] = s]
       /\ accepted' = [accepted EXCEPT ![n] = @ \cup Keeps(s)]
       /\ s # None /\ current[n] # None => report' = report
       /\ s = None => report' = [report EXCEPT ![n] = None]
       /\ s # None /\ current[n] = None =>
            /\ report' = [report EXCEPT ![n] = report'[n]]
            /\ report'[n].phase = "New"
  /\ UNCHANGED <<answers, grant, granted, meddled>>

\* The directory changes.
Learn ==
  /\ answers \subseteq answers'
  /\ UNCHANGED <<current, accepted, grant, granted, report, meddled>>

Regrant(n, g) ==
  /\ grant' = [grant EXCEPT ![n] = g]
  /\ granted' = [granted EXCEPT ![n] = @ \cup Keeps(g)]
  /\ UNCHANGED <<current, accepted, answers, report>>

\* Somebody else creates, edits or deletes the RoleBinding.
Meddle(n) ==
  /\ meddled' = meddled + 1
  /\ Regrant(n, grant'[n])
  /\ grant'[n] # None => grant'[n].by = "user"

\* The operator gives or corrects access: role, owner and members are those
\* of one accepted spec and one answer for the group of that spec.
Grant(n) ==
  /\ \E s \in accepted[n], a \in answers :
       /\ a.group = s.group /\ a.members # None
       /\ grant[n] # None => grant[n].role = s.role
       /\ Regrant(n, [role |-> s.role, subjects |-> a.members, owner |-> s.uid,
                      by |-> "operator"])
  /\ UNCHANGED meddled

\* The operator takes access away only to give it again under another role:
\* a role that was asked for is not one that was granted, and there are
\* members to grant it to.
Withdraw(n) ==
  /\ grant[n] # None
  /\ \E s \in accepted[n], g \in granted[n], a \in answers :
       s.role # g.role /\ a.group = s.group /\ a.members # None
  /\ Regrant(n, None)
  /\ UNCHANGED meddled

\* The garbage collector removes what belongs to no binding any more.
Collect(n) ==
  /\ grant[n] # None /\ grant[n].owner # 0
  /\ current[n] # None => current[n].uid # grant[n].owner
  /\ Regrant(n, None)
  /\ UNCHANGED meddled

\* The operator reports on the spec that is live at that moment.  Ready: the
\* role and owner of this spec have been granted to the members reported.
\* Otherwise the members last reported are kept.
Report(n) ==
  LET old == report[n]
      new == report'[n] IN
  /\ current[n] # None
  /\ new.phase \in {"Ready", "Degraded", "GroupNotFound"}
  /\ new.gen = current[n].gen
  /\ new.phase = "Ready" => \E g \in granted[n] :
       g.role = current[n].role /\ g.owner = current[n].uid /\ g.subjects = new.members
  /\ new.phase # "Ready" => new.members = old.members /\ new.syncTime = old.syncTime
  /\ new.phase = "GroupNotFound" => [group |-> current[n].group, members |-> None] \in answers
  /\ report' = [report EXCEPT ![n] = new]
  /\ UNCHANGED <<current, accepted, answers, grant, granted, meddled>>

Next ==
  \/ \E n \in Names : \/ Submit(n) \/ Meddle(n) \/ Grant(n) \/ Withdraw(n)
                      \/ Collect(n) \/ Report(n)
  \/ Learn

Spec == Init /\ [][Next]_vars

=============================================================================
