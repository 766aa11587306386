------------------------------ MODULE RBACSync ------------------------------
(***************************************************************************)
(* Package rbacsync (internal/rbacsync): how members become subjects, how  *)
(* two subject lists are compared, and how the status summarises a         *)
(* membership.  Names are numbers, whose order stands for that of strings. *)
(*                                                                         *)
(* The state is what one reconcile works on: the members the directory     *)
(* returned, in its order and with repetitions when two entries share a    *)
(* username, and the subjects found in the cluster, which anybody may have *)
(* edited.                                                                 *)
(***************************************************************************)
EXTENDS Naturals, Sequences, SequencesExt

CONSTANTS
  Usernames,  \* a set of numbers
  PreviewCap, \* previewCap
  MaxInt32,   \* the largest value of status.memberCount
  MaxLen      \* bound on the two lists

ASSUME SyncAssumption ==
  /\ Usernames \subseteq Nat
  /\ PreviewCap \in Nat /\ MaxInt32 \in Nat /\ MaxLen \in Nat

\* The API server admits User and Group only with the RBAC API group and
\* ServiceAccount only without one, so that the kind determines it.
SubjectKinds == {"Group", "ServiceAccount", "User"}
APIGroupOf(kind) == IF kind = "ServiceAccount" THEN "" ELSE "rbac"
Subject(kind, namespace, name) ==
  [kind |-> kind, apiGroup |-> APIGroupOf(kind), namespace |-> namespace,
   name |-> name]
\* Namespaces are numbers too; 0 is the empty one of Users and Groups.
NamespacesOf(kind) == IF kind = "ServiceAccount" THEN {1, 2} ELSE {0}

VARIABLES members, existing
vars == <<members, existing>>

----------------------------------------------------------------------------
(* The code. *)

\* Subjects: every member becomes a User, in the same order.
Subjects(ms) == [i \in 1..Len(ms) |-> Subject("User", 0, ms[i])]

KindRank == [Group |-> 1, ServiceAccount |-> 2, User |-> 3]

\* The comparison of sortedSubjects: kind, namespace, name, but no apiGroup.
Less(s, t) ==
  \/ KindRank[s.kind] < KindRank[t.kind]
  \/ s.kind = t.kind /\ s.namespace < t.namespace
  \/ s.kind = t.kind /\ s.namespace = t.namespace /\ s.name < t.name

\* The lists with the elements of s in some order, repetitions included.
Rearrangements(s) ==
  {[i \in 1..Len(s) |-> s[p[i]]] : p \in Bijection(1..Len(s), 1..Len(s))}

\* sort.Slice returns a copy in which nothing comes before something less.
SortedSubjects(ss) ==
  CHOOSE t \in Rearrangements(ss) : \A i, j \in 1..Len(ss) : i < j => ~Less(t[j], t[i])

\* Mutants of SubjectsEqual: repetitions are not counted; kinds are ignored.
SubjectsEqualAsSets(a, b) == ToSet(a) = ToSet(b)
SubjectsEqualByName(a, b) ==
  /\ Len(a) = Len(b)
  /\ \A i \in 1..Len(a) : SortedSubjects(a)[i].name = SortedSubjects(b)[i].name

\* SubjectsEqual compares lengths, then the sorted copies element by element.
SubjectsEqual(a, b) ==
  /\ Len(a) = Len(b)
  /\ LET sortedA == SortedSubjects(a)
         sortedB == SortedSubjects(b)
     IN  \A i \in 1..Len(a) : sortedA[i] = sortedB[i]

\* GetGroupMembers sorts what it returns.
SortedMembers ==
  CHOOSE t \in Rearrangements(members) : \A i, j \in 1..Len(members) : i < j => t[i] <= t[j]

\* Mutant of PreviewMembers: off by one when deciding about truncation.
PreviewOffByOne(ms) ==
  [preview |-> SubSeq(ms, 1, IF Len(ms) < PreviewCap THEN Len(ms) ELSE PreviewCap),
   truncated |-> Len(ms) > PreviewCap + 1]

\* PreviewMembers: the first PreviewCap members, and whether any are missing.
PreviewMembers(ms) ==
  IF Len(ms) <= PreviewCap THEN [preview |-> ms, truncated |-> FALSE]
  ELSE [preview |-> SubSeq(ms, 1, PreviewCap), truncated |-> TRUE]

MemberCount(ms) == IF Len(ms) > MaxInt32 THEN MaxInt32 ELSE Len(ms)

\* The update of reconcileRoleBinding: unequal lists are overwritten.
Reconciled(ms, ss) == IF SubjectsEqual(ss, Subjects(ms)) THEN ss ELSE Subjects(ms)

----------------------------------------------------------------------------
(* Everything that can be compared: lists grow, and a reconcile runs. *)

Init == members = <<>> /\ existing = <<>>

\* The directory returns one more member.
Join(u) ==
  /\ Len(members) < MaxLen
  /\ members' = Append(members, u)
  /\ UNCHANGED existing

\* Somebody adds a subject to the object in the cluster.
Drift(kind, ns, u) ==
  /\ Len(existing) < MaxLen
  /\ existing' = Append(existing, Subject(kind, ns, u))
  /\ UNCHANGED members

Reconcile ==
  /\ existing' = Reconciled(SortedMembers, existing)
  /\ UNCHANGED members

Next ==
  \/ \E u \in Usernames : Join(u)
  \/ \E kind \in SubjectKinds : \E ns \in NamespacesOf(kind), u \in Usernames :
       Drift(kind, ns, u)
  \/ Reconcile

Spec == Init /\ [][Next]_vars

----------------------------------------------------------------------------
(* Properties. *)

\* SubjectsEqual "reports whether a and b contain the same subjects,
\* irrespective of order": it is equality of bags - a repeated subject counts,
\* a User and a Group of one name differ, and the order the object happens to
\* have in the cluster never matters.
SubjectsEqualIsBagEquality ==
  LET desired == Subjects(SortedMembers) IN
  SubjectsEqual(existing, desired) <=> ToBag(existing) = ToBag(desired)

\* Drift never survives a reconcile: afterwards the object grants to exactly
\* the members, as Users, and a second reconcile changes nothing, so that
\* comparing never causes a write on every sync (reconcileRoleBinding).
ReconcileIsIdempotent ==
  LET after == Reconciled(SortedMembers, existing) IN
  /\ ToSet(after) = {Subject("User", 0, u) : u \in ToSet(members)}
  /\ Reconciled(SortedMembers, after) = after

\* The status never understates silently: a preview that hides a member says
\* so, it lists the first members in order, and the count is that of the full
\* list unless it is at its cap (markReady).
SummaryIsHonest ==
  LET ms == SortedMembers
      p == PreviewMembers(ms) IN
  /\ IsPrefix(p.preview, ms)
  /\ p.truncated <=> \E i \in 1..Len(ms) : i > Len(p.preview)
  /\ p.truncated => Len(p.preview) = PreviewCap
  /\ MemberCount(ms) = Len(ms) \/ (MemberCount(ms) = MaxInt32 /\ Len(ms) > MaxInt32)

=============================================================================
