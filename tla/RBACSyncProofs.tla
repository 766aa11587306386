--------------------------- MODULE RBACSyncProofs ---------------------------
(***************************************************************************)
(* Theorems about RBACSync, for lists of any length: what sorting returns, *)
(* why comparing sorted copies compares bags, and what follows for         *)
(* reconciling and for the status.  Orders are sets of pairs, so that one  *)
(* lemma serves both that of subjects and that of names.                   *)
(***************************************************************************)
EXTENDS RBACSync, Integers, FiniteSetTheorems, SequenceTheorems, TLAPS

----------------------------------------------------------------------------
(* Counting. *)

\* The positions of x in s.
Places(s, x) == {i \in 1..Len(s) : s[i] = x}

\* R is a strict total order of S.
IsOrder(R, S) ==
  /\ \A x \in S : <<x, x>> \notin R
  /\ \A x, y, z \in S : <<x, y>> \in R /\ <<y, z>> \in R => <<x, z>> \in R
  /\ \A x, y \in S : x = y \/ <<x, y>> \in R \/ <<y, x>> \in R

\* Nothing in t comes before something less.
InOrder(R, t) == \A i, j \in 1..Len(t) : i < j => <<t[j], t[i]>> \notin R

\* A set of positions has a least one: otherwise "one more" would map the
\* finite set of lower bounds into itself and never reach 1.
LEMMA LeastPosition ==
  ASSUME NEW n \in Nat, NEW S \in SUBSET (1..n), S # {}
  PROVE  \E m \in S : \A k \in S : m <= k
<1> DEFINE lower == {m \in 1..n : \A k \in S : m <= k}
<1>1. SUFFICES ASSUME \A m \in S : \E k \in S : k < m
               PROVE  FALSE
  <2>1. \A m, k \in S : m \in Int /\ k \in Int
    OBVIOUS
  <2> QED
    BY <1>1, <2>1
<1>2. PICK e \in S : TRUE
  OBVIOUS
<1>3. 1 \in lower
  <2>1. e \in 1..n /\ \A j \in S : j \in Nat /\ 1 <= j
    OBVIOUS
  <2> QED
    BY <2>1
<1>4. \A m \in lower : m \notin S
  BY <1>1
<1>5. \A m \in lower : m + 1 \in lower
  <2> SUFFICES ASSUME NEW m \in lower
               PROVE  m + 1 \in lower
    OBVIOUS
  <2>1. \A k \in S : m <= k /\ k # m /\ k \in 1..n
    BY <1>4
  <2>2. \A k \in S : m + 1 <= k
    BY <2>1
  <2> QED
    BY <2>2, <1>2
<1> DEFINE next == [m \in lower |-> m + 1]
<1>6. next \in Injection(lower, lower)
  <2>1. next \in [lower -> lower]
    BY <1>5
  <2>2. \A a, b \in lower : next[a] = next[b] => a = b
    OBVIOUS
  <2> QED
    BY <2>1, <2>2 DEF Injection, IsInjective
<1>7. IsFiniteSet(lower)
  <2>1. IsFiniteSet(1..n)
    BY FS_Interval
  <2> QED
    BY <2>1, FS_Subset
<1>8. next \in Surjection(lower, lower)
  BY <1>6, <1>7, FS_Injection
<1>9. \E m \in lower : next[m] = 1
  BY <1>3, <1>8 DEF Surjection
<1> QED
  BY <1>9

\* Positions are counted by a natural number.
LEMMA PlacesFinite ==
  ASSUME NEW S, NEW s \in Seq(S), NEW x
  PROVE  IsFiniteSet(Places(s, x)) /\ Cardinality(Places(s, x)) \in Nat
<1>1. IsFiniteSet(1..Len(s))
  BY FS_Interval
<1>2. Places(s, x) \subseteq 1..Len(s)
  BY DEF Places
<1> QED
  BY <1>1, <1>2, FS_Subset, FS_CardinalityType

\* A rearrangement has the length, the elements and the counts of the list.
LEMMA RearrangedCounts ==
  ASSUME NEW S, NEW s \in Seq(S), NEW t \in Rearrangements(s)
  PROVE  /\ t \in Seq(S) /\ Len(t) = Len(s)
         /\ ToSet(t) = ToSet(s)
         /\ \A x : Cardinality(Places(t, x)) = Cardinality(Places(s, x))
<1> DEFINE I == 1..Len(s)
<1>1. PICK p \in Bijection(I, I) : t = [i \in I |-> s[p[i]]]
  BY DEF Rearrangements
<1>2. /\ p \in [I -> I]
      /\ \A a, b \in I : p[a] = p[b] => a = b
      /\ \A k \in I : \E i \in I : p[i] = k
  BY DEF Bijection, Injection, Surjection, IsInjective
<1>3. t \in Seq(S) /\ Len(t) = Len(s)
  BY <1>1, <1>2
<1>4. \A i \in I : t[i] = s[p[i]] /\ p[i] \in I
  BY <1>1, <1>2
<1>5. ToSet(t) = ToSet(s)
  <2>1. DOMAIN t = I /\ DOMAIN s = I
    BY <1>1
  <2> QED
    BY <2>1, <1>2, <1>4 DEF ToSet
<1>6. ASSUME NEW x
      PROVE  Cardinality(Places(t, x)) = Cardinality(Places(s, x))
  <2> DEFINE f == [i \in Places(t, x) |-> p[i]]
  <2>1. Places(t, x) = {i \in I : t[i] = x} /\ Places(s, x) = {i \in I : s[i] = x}
    BY <1>3 DEF Places
  <2>2. f \in [Places(t, x) -> Places(s, x)]
    BY <2>1, <1>4
  <2>3. \A a, b \in Places(t, x) : f[a] = f[b] => a = b
    BY <2>1, <1>2
  <2>4. \A k \in Places(s, x) : \E i \in Places(t, x) : f[i] = k
    <3> SUFFICES ASSUME NEW k \in Places(s, x)
                 PROVE  \E i \in Places(t, x) : f[i] = k
      OBVIOUS
    <3>1. PICK i \in I : p[i] = k
      BY <2>1, <1>2
    <3>2. i \in Places(t, x)
      BY <3>1, <2>1, <1>4
    <3> QED
      BY <3>1, <3>2
  <2>5. f \in Bijection(Places(t, x), Places(s, x))
    BY <2>2, <2>3, <2>4 DEF Bijection, Injection, Surjection, IsInjective
  <2>6. ExistsBijection(Places(t, x), Places(s, x))
    BY <2>5 DEF ExistsBijection
  <2> QED
    BY <2>6, <1>3, PlacesFinite, FS_Bijection
<1> QED
  BY <1>3, <1>5, <1>6

\* Fewer positions, and one that is missing: a smaller count.
LEMMA FewerPlaces ==
  ASSUME NEW S, NEW s \in Seq(S), NEW t \in Seq(S), NEW x, NEW i \in Places(s, x),
         Places(t, x) \subseteq Places(s, x) \ {i}
  PROVE  Cardinality(Places(t, x)) # Cardinality(Places(s, x))
<1>1. IsFiniteSet(Places(s, x))
  BY PlacesFinite
<1>2. Places(t, x) \in SUBSET Places(s, x) /\ Places(t, x) # Places(s, x)
  OBVIOUS
<1> QED
  BY <1>1, <1>2, FS_Subset

----------------------------------------------------------------------------
(* Sorting. *)

\* Every list can be sorted: an element goes to the place given by how many
\* come before it.
LEMMA SortingPossible ==
  ASSUME NEW S, NEW R, IsOrder(R, S), NEW s \in Seq(S)
  PROVE  \E t \in Rearrangements(s) : InOrder(R, t)
<1> DEFINE I == 1..Len(s)
           Earlier(j, i) == <<s[j], s[i]>> \in R \/ (s[j] = s[i] /\ j < i)
           Before(i) == {j \in I : Earlier(j, i)}
           rank == [i \in I |-> Cardinality(Before(i)) + 1]
<1>1. \A i \in I : s[i] \in S /\ i \in Int
  OBVIOUS
<1>2. \A i \in I : ~Earlier(i, i)
  BY <1>1 DEF IsOrder
<1>3. \A i, j, k \in I : Earlier(i, j) /\ Earlier(j, k) => Earlier(i, k)
  BY <1>1 DEF IsOrder
<1>4. \A i, j \in I : i = j \/ Earlier(i, j) \/ Earlier(j, i)
  BY <1>1 DEF IsOrder
<1>5. IsFiniteSet(I) /\ Cardinality(I) = Len(s)
  <2>1. Len(s) \in Nat
    OBVIOUS
  <2> QED
    BY <2>1, FS_Interval
<1> HIDE DEF Earlier
<1>6. \A i \in I : IsFiniteSet(Before(i)) /\ Cardinality(Before(i)) \in 0..Len(s) - 1
  <2> SUFFICES ASSUME NEW i \in I
               PROVE  IsFiniteSet(Before(i)) /\ Cardinality(Before(i)) \in 0..Len(s) - 1
    OBVIOUS
  <2>1. Before(i) \in SUBSET I /\ Before(i) # I
    BY <1>2
  <2>2. IsFiniteSet(Before(i)) /\ Cardinality(Before(i)) <= Cardinality(I)
        /\ Cardinality(Before(i)) # Cardinality(I)
    BY <2>1, <1>5, FS_Subset
  <2>3. Cardinality(Before(i)) \in Nat
    BY <2>2, FS_CardinalityType
  <2>4. Len(s) \in Nat
    OBVIOUS
  <2> HIDE DEF Before
  <2> QED
    BY <2>2, <2>3, <2>4, <1>5
<1>7. \A i, j \in I : Earlier(i, j) => Cardinality(Before(i)) < Cardinality(Before(j))
  <2> SUFFICES ASSUME NEW i \in I, NEW j \in I, Earlier(i, j)
               PROVE  Cardinality(Before(i)) < Cardinality(Before(j))
    OBVIOUS
  <2>1. Before(i) \in SUBSET Before(j)
    BY <1>3
  <2>2. i \in Before(j) /\ i \notin Before(i)
    BY <1>2
  <2>3. IsFiniteSet(Before(j)) /\ Cardinality(Before(i)) \in 0..Len(s) - 1
        /\ Cardinality(Before(j)) \in 0..Len(s) - 1
    BY <1>6
  <2>4. Cardinality(Before(i)) <= Cardinality(Before(j))
        /\ (Cardinality(Before(j)) = Cardinality(Before(i)) => Before(j) = Before(i))
    BY <2>1, <2>3, FS_Subset
  <2> HIDE DEF Before
  <2> QED
    BY <2>2, <2>3, <2>4
<1> HIDE DEF Before
<1>8. rank \in [I -> I]
  <2>1. Len(s) \in Nat
    OBVIOUS
  <2>2. \A i \in I : Cardinality(Before(i)) + 1 \in 1..Len(s)
    BY <2>1, <1>6
  <2> QED
    BY <2>2
<1>9. \A i, j \in I : Earlier(i, j) => rank[i] < rank[j]
  BY <1>6, <1>7
<1>10. \A i, j \in I : rank[i] = rank[j] => i = j
  BY <1>4, <1>8, <1>9
<1>11. rank \in Injection(I, I)
  BY <1>8, <1>10 DEF Injection, IsInjective
<1>12. rank \in Surjection(I, I)
  BY <1>11, <1>5, FS_Injection
<1> DEFINE p == [k \in I |-> CHOOSE i \in I : rank[i] = k]
<1>13. \A k \in I : p[k] \in I /\ rank[p[k]] = k
  BY <1>12 DEF Surjection
<1> DEFINE t == [i \in I |-> s[p[i]]]
<1>14. p \in Bijection(I, I)
  <2>1. p \in [I -> I]
    BY <1>13
  <2>2. \A a, b \in I : p[a] = p[b] => a = b
    BY <1>13
  <2>3. \A i \in I : p[rank[i]] = i
    BY <1>8, <1>10, <1>13
  <2>4. \A i \in I : rank[i] \in I
    BY <1>8
  <2> HIDE DEF p, rank
  <2> QED
    BY <2>1, <2>2, <2>3, <2>4 DEF Bijection, Injection, Surjection, IsInjective
<1>15. t \in Rearrangements(s)
  <2> HIDE DEF p
  <2> QED
    BY <1>14 DEF Rearrangements
<1>16. InOrder(R, t)
  <2>1. Len(t) = Len(s)
    OBVIOUS
  <2> SUFFICES ASSUME NEW i \in I, NEW j \in I, i < j, <<t[j], t[i]>> \in R
               PROVE  FALSE
    BY <2>1 DEF InOrder
  <2>2. Earlier(p[j], p[i])
    BY DEF Earlier
  <2>3. rank[p[j]] < rank[p[i]]
    BY <2>2, <1>9, <1>13
  <2> HIDE DEF p, rank
  <2> QED
    BY <2>3, <1>13
<1> QED
  BY <1>15, <1>16

\* A sorted list is determined by its counts: where two lists first differ,
\* the lesser of the two elements occurs once more in one of them.
LEMMA SortedUnique ==
  ASSUME NEW S, NEW R, IsOrder(R, S), NEW s \in Seq(S), NEW t \in Seq(S),
         InOrder(R, s), InOrder(R, t), Len(s) <= Len(t),
         \A x : Cardinality(Places(s, x)) = Cardinality(Places(t, x))
  PROVE  s = t
<1> DEFINE D == {i \in 1..Len(t) : i > Len(s) \/ s[i] # t[i]}
<1>1. Len(s) \in Nat /\ Len(t) \in Nat
  OBVIOUS
<1>2. CASE D = {}
  <2>1. \A i \in 1..Len(t) : i <= Len(s) /\ s[i] = t[i]
    BY <1>1, <1>2
  <2>2. Len(s) = Len(t)
    BY <2>1, <1>1
  <2> QED
    BY <2>1, <2>2
<1>3. CASE D # {}
  <2>1. PICK i \in D : \A k \in D : i <= k
    BY <1>1, <1>3, LeastPosition
  <2>2. i \in 1..Len(t) /\ t[i] \in S
    OBVIOUS
  <2>3. \A k \in 1..Len(t) : k < i => k <= Len(s) /\ s[k] = t[k]
    BY <2>1, <2>2, <1>1
  <2>4. CASE i > Len(s)
    <3>1. i \in Places(t, t[i])
      BY <2>2 DEF Places
    <3>2. Places(s, t[i]) \subseteq Places(t, t[i]) \ {i}
      BY <2>2, <2>3, <2>4, <1>1 DEF Places
    <3> QED
      BY <3>1, <3>2, FewerPlaces
  <2>5. CASE i <= Len(s) /\ <<s[i], t[i]>> \in R
    <3>1. i \in 1..Len(s) /\ s[i] \in S
      BY <2>2, <2>5, <1>1
    <3>2. i \in Places(s, s[i])
      BY <3>1 DEF Places
    <3>3. \A k \in 1..Len(t) : k >= i => t[k] # s[i]
      <4> SUFFICES ASSUME NEW k \in 1..Len(t), k >= i, t[k] = s[i]
                   PROVE  FALSE
        OBVIOUS
      <4>1. k # i
        BY <2>5, <3>1 DEF IsOrder
      <4>2. <<t[k], t[i]>> \notin R
        BY <4>1, <2>2, <1>1 DEF InOrder
      <4> QED
        BY <4>2, <2>5
    <3>4. Places(t, s[i]) \subseteq Places(s, s[i]) \ {i}
      BY <3>1, <3>3, <2>2, <2>3, <1>1 DEF Places
    <3> QED
      BY <3>2, <3>4, FewerPlaces
  <2>6. CASE i <= Len(s) /\ <<t[i], s[i]>> \in R
    <3>1. i \in 1..Len(s) /\ s[i] \in S
      BY <2>2, <2>6, <1>1
    <3>2. i \in Places(t, t[i])
      BY <2>2 DEF Places
    <3>3. \A k \in 1..Len(s) : k >= i => s[k] # t[i]
      <4> SUFFICES ASSUME NEW k \in 1..Len(s), k >= i, s[k] = t[i]
                   PROVE  FALSE
        OBVIOUS
      <4>1. k # i
        BY <2>2, <2>6, <3>1 DEF IsOrder
      <4>2. <<s[k], s[i]>> \notin R
        BY <4>1, <3>1, <1>1 DEF InOrder
      <4> QED
        BY <4>2, <2>6
    <3>4. Places(s, t[i]) \subseteq Places(t, t[i]) \ {i}
      BY <3>1, <3>3, <2>2, <2>3, <1>1 DEF Places
    <3> QED
      BY <3>2, <3>4, FewerPlaces
  <2>7. i <= Len(s) => s[i] # t[i] /\ s[i] \in S
    BY <2>2, <1>1
  <2> QED
    BY <2>2, <2>4, <2>5, <2>6, <2>7, <1>1 DEF IsOrder
<1> QED
  BY <1>2, <1>3

----------------------------------------------------------------------------
(* Subjects and names. *)

\* The subjects that the API server admits.
AllSubjects ==
  {s \in [kind : SubjectKinds, apiGroup : {"", "rbac"}, namespace : Nat, name : Nat] :
     s.apiGroup = APIGroupOf(s.kind)}
SubjectOrder == {e \in AllSubjects \X AllSubjects : Less(e[1], e[2])}
NameOrder == {e \in Nat \X Nat : e[1] < e[2]}

\* Less is a strict total order although it does not look at the API group,
\* so that it does not matter that sort.Slice is not stable.
LEMMA SubjectsOrdered == IsOrder(SubjectOrder, AllSubjects)
<1>1. KindRank["Group"] = 1 /\ KindRank["ServiceAccount"] = 2 /\ KindRank["User"] = 3
  BY DEF KindRank
<1>2. \A s \in AllSubjects : /\ s.kind \in SubjectKinds /\ s.namespace \in Nat /\ s.name \in Nat
                            /\ KindRank[s.kind] \in 1..3
  <2>1. \A k \in SubjectKinds : KindRank[k] \in 1..3
    BY <1>1 DEF SubjectKinds
  <2>2. \A s \in AllSubjects : s.kind \in SubjectKinds /\ s.namespace \in Nat /\ s.name \in Nat
    BY DEF AllSubjects
  <2> QED
    BY <2>1, <2>2
<1>3. \A s, t \in AllSubjects : KindRank[s.kind] = KindRank[t.kind] => s.kind = t.kind
  BY <1>1, <1>2 DEF SubjectKinds
<1>4. \A s, t \in AllSubjects :
        s.kind = t.kind /\ s.namespace = t.namespace /\ s.name = t.name => s = t
  <2>1. \A s \in AllSubjects :
          s = [kind |-> s.kind, apiGroup |-> APIGroupOf(s.kind), namespace |-> s.namespace,
               name |-> s.name]
    <3> SUFFICES ASSUME NEW s \in AllSubjects
                 PROVE  s = [kind |-> s.kind, apiGroup |-> APIGroupOf(s.kind),
                             namespace |-> s.namespace, name |-> s.name]
      OBVIOUS
    <3>1. s \in [kind : SubjectKinds, apiGroup : {"", "rbac"}, namespace : Nat, name : Nat]
          /\ s.apiGroup = APIGroupOf(s.kind)
      BY DEF AllSubjects
    <3>2. s = [kind |-> s.kind, apiGroup |-> s.apiGroup, namespace |-> s.namespace,
               name |-> s.name]
      BY <3>1
    <3> QED
      BY <3>1, <3>2
  <2> QED
    BY <2>1
<1>5. \A s, t \in AllSubjects : <<s, t>> \in SubjectOrder <=> Less(s, t)
  BY DEF SubjectOrder
<1>6. \A s \in AllSubjects : ~Less(s, s)
  BY <1>2 DEF Less
<1>7. \A s, t, u \in AllSubjects : Less(s, t) /\ Less(t, u) => Less(s, u)
  BY <1>2, <1>3 DEF Less
<1>8. \A s, t \in AllSubjects : s = t \/ Less(s, t) \/ Less(t, s)
  BY <1>2, <1>3, <1>4 DEF Less
<1> QED
  BY <1>5, <1>6, <1>7, <1>8 DEF IsOrder

\* So is the order of names.
LEMMA NamesOrdered == IsOrder(NameOrder, Nat)
BY DEF IsOrder, NameOrder

\* sortedSubjects sorts.
LEMMA SortedSubjectsSorts ==
  ASSUME NEW ss \in Seq(AllSubjects)
  PROVE  SortedSubjects(ss) \in Rearrangements(ss) /\ InOrder(SubjectOrder, SortedSubjects(ss))
<1> DEFINE Sorted(t) == \A i, j \in 1..Len(ss) : i < j => ~Less(t[j], t[i])
<1>1. ASSUME NEW t \in Rearrangements(ss)
      PROVE  InOrder(SubjectOrder, t) <=> Sorted(t)
  <2>1. t \in Seq(AllSubjects) /\ Len(t) = Len(ss)
    BY RearrangedCounts
  <2>2. \A i \in 1..Len(ss) : t[i] \in AllSubjects
    BY <2>1
  <2>3. \A i, j \in 1..Len(ss) : <<t[j], t[i]>> \in SubjectOrder <=> Less(t[j], t[i])
    BY <2>2 DEF SubjectOrder
  <2> QED
    BY <2>1, <2>3 DEF InOrder
<1>2. \E t \in Rearrangements(ss) : Sorted(t)
  BY <1>1, SortingPossible, SubjectsOrdered
<1>3. SortedSubjects(ss) \in Rearrangements(ss) /\ Sorted(SortedSubjects(ss))
  BY <1>2 DEF SortedSubjects
<1> QED
  BY <1>1, <1>3

\* GetGroupMembers sorts.
LEMMA SortedMembersSorts ==
  ASSUME members \in Seq(Nat)
  PROVE  SortedMembers \in Rearrangements(members) /\ InOrder(NameOrder, SortedMembers)
<1> DEFINE Sorted(t) == \A i, j \in 1..Len(members) : i < j => t[i] <= t[j]
<1>1. ASSUME NEW t \in Rearrangements(members)
      PROVE  InOrder(NameOrder, t) <=> Sorted(t)
  <2>1. t \in Seq(Nat) /\ Len(t) = Len(members)
    BY RearrangedCounts
  <2>2. \A i \in 1..Len(members) : t[i] \in Nat
    BY <2>1
  <2>3. \A i, j \in 1..Len(members) : <<t[j], t[i]>> \notin NameOrder <=> t[i] <= t[j]
    BY <2>2 DEF NameOrder
  <2> QED
    BY <2>1, <2>3 DEF InOrder
<1>2. \E t \in Rearrangements(members) : Sorted(t)
  BY <1>1, SortingPossible, NamesOrdered
<1>3. SortedMembers \in Rearrangements(members) /\ Sorted(SortedMembers)
  BY <1>2 DEF SortedMembers
<1> QED
  BY <1>1, <1>3

\* Comparing the sorted copies is comparing how often each subject occurs.
LEMMA ComparesBags ==
  ASSUME NEW a \in Seq(AllSubjects), NEW b \in Seq(AllSubjects)
  PROVE  SubjectsEqual(a, b) <=> ToBag(a) = ToBag(b)
<1> DEFINE sa == SortedSubjects(a)
           sb == SortedSubjects(b)
<1>1. /\ sa \in Rearrangements(a) /\ InOrder(SubjectOrder, sa)
      /\ sb \in Rearrangements(b) /\ InOrder(SubjectOrder, sb)
  BY SortedSubjectsSorts
<1>2. /\ sa \in Seq(AllSubjects) /\ Len(sa) = Len(a) /\ ToSet(sa) = ToSet(a)
      /\ \A x : Cardinality(Places(sa, x)) = Cardinality(Places(a, x))
  BY <1>1, RearrangedCounts
<1>3. /\ sb \in Seq(AllSubjects) /\ Len(sb) = Len(b) /\ ToSet(sb) = ToSet(b)
      /\ \A x : Cardinality(Places(sb, x)) = Cardinality(Places(b, x))
  BY <1>1, RearrangedCounts
<1> HIDE DEF sa, sb
<1>4. SubjectsEqual(a, b) <=> sa = sb
  <2>1. SubjectsEqual(a, b) <=> Len(a) = Len(b) /\ \A i \in 1..Len(a) : sa[i] = sb[i]
    BY DEF SubjectsEqual, sa, sb
  <2> QED
    BY <2>1, <1>2, <1>3
<1>5. /\ ToBag(a) = [x \in ToSet(a) |-> Cardinality(Places(a, x))]
      /\ ToBag(b) = [x \in ToSet(b) |-> Cardinality(Places(b, x))]
  <2>1. DOMAIN a = 1..Len(a) /\ DOMAIN b = 1..Len(b)
    OBVIOUS
  <2> QED
    BY <2>1 DEF ToBag, ToSet, Range, Places
<1>6. ASSUME sa = sb
      PROVE  ToBag(a) = ToBag(b)
  BY <1>2, <1>3, <1>5, <1>6
<1>7. ASSUME ToBag(a) = ToBag(b)
      PROVE  sa = sb
  <2>1. ToSet(a) = ToSet(b) /\ \A x \in ToSet(a) : Cardinality(Places(a, x)) = Cardinality(Places(b, x))
    BY <1>5, <1>7
  <2>2. \A x : x \notin ToSet(a) => Places(a, x) = {}
    BY DEF Places, ToSet
  <2>3. \A x : x \notin ToSet(b) => Places(b, x) = {}
    BY DEF Places, ToSet
  <2>4. \A x : Cardinality(Places(sa, x)) = Cardinality(Places(sb, x))
    BY <2>1, <2>2, <2>3, <1>2, <1>3
  <2>5. Len(sa) <= Len(sb) \/ Len(sb) <= Len(sa)
    BY <1>2, <1>3
  <2> QED
    BY <2>4, <2>5, <1>1, <1>2, <1>3, SubjectsOrdered, SortedUnique
<1> QED
  BY <1>4, <1>6, <1>7

----------------------------------------------------------------------------
(* The theorems. *)

\* The lists have subjects and names in them, whoever has written them.
ListsOK == members \in Seq(Usernames) /\ existing \in Seq(AllSubjects)

\* Subjects are subjects.
LEMMA SubjectsType ==
  ASSUME NEW ms \in Seq(Nat)
  PROVE  /\ Subjects(ms) \in Seq(AllSubjects)
         /\ Len(Subjects(ms)) = Len(ms)
         /\ ToSet(Subjects(ms)) = {Subject("User", 0, u) : u \in ToSet(ms)}
<1>1. \A u \in Nat : Subject("User", 0, u) \in AllSubjects
  BY DEF Subject, AllSubjects, SubjectKinds, APIGroupOf
<1>2. \A i \in 1..Len(ms) : ms[i] \in Nat
  OBVIOUS
<1>3. Subjects(ms) \in Seq(AllSubjects) /\ Len(Subjects(ms)) = Len(ms)
  BY <1>1, <1>2 DEF Subjects
<1>4. DOMAIN Subjects(ms) = 1..Len(ms) /\ DOMAIN ms = 1..Len(ms)
  BY DEF Subjects
<1>5. \A i \in 1..Len(ms) : Subjects(ms)[i] = Subject("User", 0, ms[i])
  BY DEF Subjects
<1>6. ToSet(Subjects(ms)) = {Subjects(ms)[i] : i \in 1..Len(ms)}
  BY <1>4 DEF ToSet
<1>7. ToSet(ms) = {ms[i] : i \in 1..Len(ms)}
  BY <1>4 DEF ToSet
<1> QED
  BY <1>3, <1>5, <1>6, <1>7

\* What a reconcile starts from.
LEMMA DesiredType ==
  ASSUME ListsOK
  PROVE  /\ SortedMembers \in Seq(Nat) /\ ToSet(SortedMembers) = ToSet(members)
         /\ Subjects(SortedMembers) \in Seq(AllSubjects)
<1>1. members \in Seq(Nat)
  BY SyncAssumption, SeqMonotonic DEF ListsOK
<1> QED
  BY <1>1, SortedMembersSorts, RearrangedCounts, SubjectsType

\* Anybody's step leaves lists of names and subjects.
LEMMA ListsInvariant == Spec => []ListsOK
<1>1. Init => ListsOK
  BY DEF Init, ListsOK
<1>2. ListsOK /\ [Next]_vars => ListsOK'
  <2> SUFFICES ASSUME ListsOK, [Next]_vars
               PROVE  ListsOK'
    OBVIOUS
  <2>1. ASSUME NEW u \in Usernames, Join(u)
        PROVE  ListsOK'
    BY <2>1 DEF ListsOK, Join
  <2>2. ASSUME NEW kind \in SubjectKinds, NEW ns \in NamespacesOf(kind), NEW u \in Usernames,
               Drift(kind, ns, u)
        PROVE  ListsOK'
    <3>1. ns \in Nat /\ u \in Nat
      BY SyncAssumption DEF NamespacesOf
    <3>2. Subject(kind, ns, u) \in AllSubjects
      BY <3>1 DEF Subject, AllSubjects, APIGroupOf
    <3> QED
      BY <2>2, <3>2 DEF ListsOK, Drift
  <2>3. CASE Reconcile
    BY <2>3, DesiredType DEF ListsOK, Reconcile, Reconciled
  <2>4. CASE UNCHANGED vars
    BY <2>4 DEF ListsOK, vars
  <2> QED
    BY <2>1, <2>2, <2>3, <2>4 DEF Next
<1> QED
  BY <1>1, <1>2, PTL DEF Spec

\* SubjectsEqual decides equality of bags for lists of any length: neither the
\* order in the cluster nor the instability of the sort matters, repetitions
\* and kinds do.
THEOREM ComparisonExact == Spec => []SubjectsEqualIsBagEquality
<1>1. ListsOK => SubjectsEqualIsBagEquality
  BY DesiredType, ComparesBags DEF ListsOK, SubjectsEqualIsBagEquality
<1> QED
  BY <1>1, ListsInvariant, PTL

\* After a reconcile the object grants to exactly the members, whatever drift
\* it found, and the next reconcile writes nothing (reconcileRoleBinding).
THEOREM ReconcileOnce == Spec => []ReconcileIsIdempotent
<1>1. ASSUME ListsOK
      PROVE  ReconcileIsIdempotent
  <2> DEFINE desired == Subjects(SortedMembers)
             after == Reconciled(SortedMembers, existing)
  <2>1. /\ SortedMembers \in Seq(Nat) /\ desired \in Seq(AllSubjects)
        /\ ToSet(desired) = {Subject("User", 0, u) : u \in ToSet(members)}
    BY <1>1, DesiredType, SubjectsType
  <2>2. existing \in Seq(AllSubjects)
    BY <1>1 DEF ListsOK
  <2>3. CASE SubjectsEqual(existing, desired)
    <3>1. after = existing
      BY <2>3 DEF Reconciled
    <3>2. ToBag(existing) = ToBag(desired)
      BY <2>1, <2>2, <2>3, ComparesBags
    <3>3. ToSet(existing) = ToSet(desired)
      <4>1. DOMAIN ToBag(existing) = ToSet(existing) /\ DOMAIN ToBag(desired) = ToSet(desired)
        BY DEF ToBag, ToSet, Range
      <4> QED
        BY <3>2, <4>1
    <3> QED
      BY <3>1, <3>3, <2>1 DEF ReconcileIsIdempotent
  <2>4. CASE ~SubjectsEqual(existing, desired)
    <3>1. after = desired
      BY <2>4 DEF Reconciled
    <3>2. Reconciled(SortedMembers, desired) = desired
      BY DEF Reconciled
    <3> QED
      BY <3>1, <3>2, <2>1 DEF ReconcileIsIdempotent
  <2> QED
    BY <2>3, <2>4
<1> QED
  BY <1>1, ListsInvariant, PTL

\* The status says how many members there are and whether the preview shows
\* them all, at and around both caps.
THEOREM StatusHonest == Spec => []SummaryIsHonest
<1>1. ASSUME ListsOK
      PROVE  SummaryIsHonest
  <2> DEFINE ms == SortedMembers
             p == PreviewMembers(ms)
  <2>1. ms \in Seq(Nat) /\ Len(ms) \in Nat
    BY <1>1, DesiredType
  <2>2. PreviewCap \in Nat /\ MaxInt32 \in Nat
    BY SyncAssumption
  <2> HIDE DEF ms
  <2>3. MemberCount(ms) = Len(ms) \/ (MemberCount(ms) = MaxInt32 /\ Len(ms) > MaxInt32)
    BY <2>1, <2>2 DEF MemberCount
  <2>4. CASE Len(ms) <= PreviewCap
    <3>1. p.preview = ms /\ p.truncated = FALSE
      BY <2>4 DEF PreviewMembers
    <3>2. IsPrefix(ms, ms)
      BY <2>1 DEF IsPrefix
    <3>3. ~\E i \in 1..Len(ms) : i > Len(ms)
      BY <2>1
    <3> QED
      BY <3>1, <3>2, <3>3, <2>3 DEF SummaryIsHonest, ms
  <2>5. CASE Len(ms) > PreviewCap
    <3>1. p.preview = SubSeq(ms, 1, PreviewCap) /\ p.truncated = TRUE
      BY <2>1, <2>2, <2>5 DEF PreviewMembers
    <3>2. Len(SubSeq(ms, 1, PreviewCap)) = PreviewCap
      BY <2>1, <2>2, <2>5
    <3>3. SubSeq(SubSeq(ms, 1, PreviewCap), 1, PreviewCap) = SubSeq(ms, 1, PreviewCap)
      BY <2>1, <2>2, <2>5
    <3>4. IsPrefix(SubSeq(ms, 1, PreviewCap), ms)
      BY <3>2, <3>3, <2>1, <2>2, <2>5 DEF IsPrefix
    <3>5. \E i \in 1..Len(ms) : i > PreviewCap
      BY <2>1, <2>2, <2>5
    <3> QED
      BY <3>1, <3>2, <3>4, <3>5, <2>3 DEF SummaryIsHonest, ms
  <2> QED
    BY <2>1, <2>2, <2>4, <2>5
<1> QED
  BY <1>1, ListsInvariant, PTL

=============================================================================
