----------------------- MODULE GroupResolutionProofs -----------------------
(***************************************************************************)
(* Safety of GroupResolution for every set of entries, page size, server   *)
(* type and schema, and any number of calls, changes and failures.         *)
(***************************************************************************)
EXTENDS GroupResolution, TLAPS

\* What a configuration is made of.
LEMMA ConfigFields ==
  ASSUME cfg \in Configs
  PROVE  /\ cfg.directory \in Directories
         /\ cfg.directory.dns \subseteq DNs
         /\ cfg.directory.moves \in [Kinds -> Nat]
         /\ cfg.type \in Types /\ cfg.overlay \in BOOLEAN
         /\ cfg.unique \subseteq DNs
<1>1. PICK d \in Directories :
        cfg \in [directory : {d}, transport : d.transports, type : Types,
                 overlay : BOOLEAN, unique : d.uniques]
  BY DEF Configs
<1>2. d \in [dns : SUBSET DNs, uniques : SUBSET (SUBSET DNs), pageSize : Nat \ {0},
             transports : SUBSET [ldaps : BOOLEAN, insecureSkipTLS : BOOLEAN],
             moves : [Kinds -> Nat]]
  BY ResolutionAssumption
<1>3. cfg.directory = d /\ cfg.type \in Types /\ cfg.overlay \in BOOLEAN
      /\ cfg.unique \in d.uniques
  BY <1>1
<1>4. QED
  BY <1>2, <1>3

\* A move is counted, and the counters stay natural numbers.
LEMMA SpendType ==
  ASSUME spent \in [Kinds -> Nat], NEW k \in Kinds, Spend(k)
  PROVE  spent' \in [Kinds -> Nat]
  BY DEF Spend

\* The parts of TypeOK that a step of the client and a step of the server
\* move.
ServerTypeOK ==
  /\ exists \in BOOLEAN
  /\ direct \subseteq DNs /\ nested \subseteq DNs /\ entries \subseteq DNs

ClientTypeOK ==
  /\ pc \in {"idle", "dial", "starttls", "bind", "group", "reverse", "member"}
  /\ op \in {"none", "ping", "members"} /\ (op = "none" <=> pc = "idle")
  /\ conn \in {"closed", "plain", "tls"}
  /\ conn = "closed" <=> pc \in {"idle", "dial"}
  /\ bound \in {"no", "plain", "tls"}

LocalsTypeOK ==
  /\ groupEntry \in [member : SUBSET DNs, uniqueMember : SUBSET DNs]
  /\ unread \subseteq Inside /\ hits \subseteq Inside
  /\ pending \subseteq DNs /\ members \subseteq DNs
  /\ result \in [kind : {"none", "pong", "ok", "notfound", "error"}, dns : SUBSET DNs]

HistoryTypeOK ==
  /\ ever \subseteq DNs /\ always \subseteq ever /\ changed \in BOOLEAN

\* TypeOK is the conjunction of its parts.
LEMMA TypeParts ==
  TypeOK <=> /\ cfg \in Configs /\ ServerTypeOK /\ ClientTypeOK /\ LocalsTypeOK
             /\ HistoryTypeOK /\ spent \in [Kinds -> Nat]
  BY DEF TypeOK, ServerTypeOK, ClientTypeOK, LocalsTypeOK, HistoryTypeOK

\* The members listed are entries.
LEMMA ListedType == TypeOK => Listed \subseteq DNs
  BY DEF TypeOK, Listed

\* The initial state is well typed.
LEMMA InitTypeOK == Init => TypeOK
<1> SUFFICES ASSUME Init PROVE TypeOK
  OBVIOUS
<1>1. cfg \in Configs /\ cfg.directory.dns \subseteq DNs
  BY ConfigFields DEF Init
<1>2. ServerTypeOK /\ ClientTypeOK
  BY <1>1 DEF Init, ServerTypeOK, ClientTypeOK
<1>3. LocalsTypeOK /\ HistoryTypeOK
  BY DEF Init, LocalsTypeOK, HistoryTypeOK, NoAttributes, NoResult
<1>4. spent \in [Kinds -> Nat]
  BY DEF Init
<1>5. QED
  BY <1>1, <1>2, <1>3, <1>4, TypeParts

\* A call that returns leaves typed variables behind.
LEMMA ReturnType ==
  ASSUME TypeOK, NEW kind \in {"pong", "ok", "notfound", "error"},
         NEW dns \in SUBSET DNs, Return(kind, dns),
         bound' \in {"no", "plain", "tls"}, spent' \in [Kinds -> Nat]
  PROVE  TypeOK'
<1>1. cfg' \in Configs /\ ServerTypeOK' /\ HistoryTypeOK'
  BY DEF Return, TypeOK, directory, history, ServerTypeOK, HistoryTypeOK
<1>2. ClientTypeOK'
  BY DEF Return, ClientTypeOK
<1>3. LocalsTypeOK'
  BY DEF Return, LocalsTypeOK, NoAttributes
<1>4. QED
  BY <1>1, <1>2, <1>3, TypeParts DEF TypeOK, ServerTypeOK, ClientTypeOK, LocalsTypeOK, HistoryTypeOK

\* Every step keeps the types.
LEMMA TypeStep ==
  ASSUME TypeOK, [Next]_vars
  PROVE  TypeOK'
<1>1. /\ cfg \in Configs /\ ServerTypeOK /\ ClientTypeOK /\ LocalsTypeOK
      /\ HistoryTypeOK /\ spent \in [Kinds -> Nat]
  BY TypeParts
<1>2. cfg.directory.dns \subseteq DNs
  BY <1>1, ConfigFields
<1>3. \A k \in Kinds : Spend(k) => spent' \in [Kinds -> Nat]
  BY <1>1, SpendType
<1>4. ASSUME NEW o \in {"ping", "members"}, Begin(o)
      PROVE  TypeOK'
  <2>1. cfg' \in Configs /\ ServerTypeOK' /\ spent' \in [Kinds -> Nat]
    BY <1>1, <1>3, <1>4 DEF Begin, directory, ServerTypeOK, Kinds
  <2>2. ClientTypeOK'
    BY <1>1, <1>4 DEF Begin, ClientTypeOK
  <2>3. LocalsTypeOK'
    BY <1>1, <1>4 DEF Begin, locals, LocalsTypeOK, NoResult
  <2>4. HistoryTypeOK'
    BY <1>4, ListedType DEF Begin, HistoryTypeOK
  <2>5. QED
    BY <2>1, <2>2, <2>3, <2>4 DEF TypeOK, ServerTypeOK, ClientTypeOK, LocalsTypeOK, HistoryTypeOK
<1>5. ASSUME NEW step, Proceed(step)
      PROVE  cfg' \in Configs /\ ServerTypeOK' /\ HistoryTypeOK' /\ spent' \in [Kinds -> Nat]
             /\ op' = op /\ result' = result /\ pc' = step
  BY <1>1, <1>5 DEF Proceed, directory, history, ServerTypeOK, HistoryTypeOK
<1>6. CASE Dial \/ StartTLS
  <2>1. /\ cfg' \in Configs /\ ServerTypeOK' /\ HistoryTypeOK' /\ spent' \in [Kinds -> Nat]
        /\ op' = op /\ result' = result /\ pc' \in {"bind", "starttls"}
    BY <1>5, <1>6 DEF Dial, StartTLS
  <2>2. ClientTypeOK'
    BY <1>1, <1>6, <2>1 DEF Dial, StartTLS, ClientTypeOK
  <2>3. LocalsTypeOK'
    BY <1>1, <1>6, <2>1 DEF Dial, StartTLS, locals, LocalsTypeOK
  <2>4. QED
    BY <2>1, <2>2, <2>3 DEF TypeOK, ServerTypeOK, ClientTypeOK, LocalsTypeOK, HistoryTypeOK
<1>7. CASE Bind
  <2>1. bound' \in {"no", "plain", "tls"}
    BY <1>1, <1>7 DEF Bind, ClientTypeOK
  <2>2. CASE op = "ping"
    BY <1>1, <1>7, <2>1, <2>2, ReturnType DEF Bind
  <2>3. CASE op # "ping"
    <3>1. Proceed("group") /\ UNCHANGED <<conn, locals>>
      BY <1>7, <2>3 DEF Bind
    <3>2. ClientTypeOK'
      BY <1>1, <1>5, <1>7, <2>1, <3>1 DEF Bind, ClientTypeOK
    <3>3. LocalsTypeOK'
      BY <1>1, <1>5, <3>1 DEF locals, LocalsTypeOK
    <3>4. QED
      BY <1>5, <3>1, <3>2, <3>3 DEF TypeOK, ServerTypeOK, ClientTypeOK, LocalsTypeOK, HistoryTypeOK
  <2>4. QED
    BY <2>2, <2>3
<1>8. CASE RequestFails
  <2>1. bound' \in {"no", "plain", "tls"}
    BY <1>1, <1>8 DEF RequestFails, ClientTypeOK
  <2>2. spent' \in [Kinds -> Nat]
    BY <1>3, <1>8 DEF RequestFails, Kinds
  <2>3. QED
    BY <1>8, <2>1, <2>2, ReturnType DEF RequestFails
<1>9. CASE LookupGroup
  <2>1. CASE ~exists
    BY <1>1, <1>9, <2>1, ReturnType DEF LookupGroup, ClientTypeOK
  <2>2. CASE exists
    <3>1. /\ groupEntry' = [member |-> direct \ cfg.unique,
                            uniqueMember |-> direct \cap cfg.unique]
          /\ unread' = Inside \cap cfg.directory.dns
          /\ Proceed("reverse") /\ UNCHANGED <<conn, bound, hits, pending, members>>
      BY <1>9, <2>2 DEF LookupGroup
    <3>2. groupEntry' \in [member : SUBSET DNs, uniqueMember : SUBSET DNs]
      BY <1>1, <3>1 DEF ServerTypeOK
    <3>3. ClientTypeOK' /\ LocalsTypeOK'
      BY <1>1, <1>5, <1>9, <3>1, <3>2 DEF LookupGroup, ClientTypeOK, LocalsTypeOK
    <3>4. QED
      BY <1>5, <3>1, <3>3 DEF TypeOK, ServerTypeOK, ClientTypeOK, LocalsTypeOK, HistoryTypeOK
  <2>3. QED
    BY <2>1, <2>2
<1>10. ASSUME NEW batch \in Batches, Page(batch)
       PROVE  TypeOK'
  <2>1. batch \subseteq Inside
    BY <1>1 DEF Batches, LocalsTypeOK
  <2>2. ClientTypeOK' /\ LocalsTypeOK'
    BY <1>1, <1>5, <1>10, <2>1 DEF Page, ClientTypeOK, LocalsTypeOK
  <2>3. QED
    BY <1>5, <1>10, <2>2 DEF Page, TypeOK, ServerTypeOK, ClientTypeOK, LocalsTypeOK, HistoryTypeOK
<1>11. CASE PagesDone
  <2>1. CASE hits # {}
    <3>1. hits \cap Named \in SUBSET DNs
      BY ResolutionAssumption
    <3>2. QED
      BY <1>1, <1>11, <2>1, <3>1, ReturnType DEF PagesDone, ClientTypeOK
  <2>2. CASE hits = {}
    <3>1. MemberDNs \subseteq DNs
      BY <1>1 DEF MemberDNs, LocalsTypeOK
    <3>2. ClientTypeOK' /\ LocalsTypeOK'
      BY <1>1, <1>5, <1>11, <2>2, <3>1 DEF PagesDone, ClientTypeOK, LocalsTypeOK
    <3>3. QED
      BY <1>5, <1>11, <2>2, <3>2 DEF PagesDone, TypeOK, ServerTypeOK, ClientTypeOK, LocalsTypeOK, HistoryTypeOK
  <2>3. QED
    BY <2>1, <2>2
<1>12. ASSUME NEW dn \in pending, LookupUsername(dn)
       PROVE  TypeOK'
  <2>1. ClientTypeOK' /\ LocalsTypeOK'
    BY <1>1, <1>5, <1>12 DEF LookupUsername, ClientTypeOK, LocalsTypeOK
  <2>2. QED
    BY <1>5, <1>12, <2>1 DEF LookupUsername, TypeOK, ServerTypeOK, ClientTypeOK, LocalsTypeOK, HistoryTypeOK
<1>13. CASE MembersDone
  BY <1>1, <1>13, ReturnType DEF MembersDone, LocalsTypeOK, ClientTypeOK
<1>14. ASSUME NEW e \in BOOLEAN, NEW d \in SUBSET DNs, NEW n \in SUBSET DNs,
              NEW u \in SUBSET DNs, ChangeDirectory(e, d, n, u)
       PROVE  TypeOK'
  <2>1. ServerTypeOK' /\ cfg' \in Configs /\ spent' \in [Kinds -> Nat]
    BY <1>1, <1>3, <1>14 DEF ChangeDirectory, ServerTypeOK, Kinds
  <2>2. ClientTypeOK'
    BY <1>1, <1>14 DEF ChangeDirectory, ClientTypeOK
  <2>3. LocalsTypeOK'
    BY <1>1, <1>14 DEF ChangeDirectory, locals, LocalsTypeOK
  <2>4. HistoryTypeOK'
    BY <1>1, <1>14, <2>1 DEF ChangeDirectory, HistoryTypeOK, ServerTypeOK, Listed
  <2>5. QED
    BY <2>1, <2>2, <2>3, <2>4 DEF TypeOK, ServerTypeOK, ClientTypeOK, LocalsTypeOK, HistoryTypeOK
<1>15. CASE Change
  BY <1>1, <1>2, <1>14, <1>15 DEF Change, ServerTypeOK
<1>16. CASE UNCHANGED vars
  BY <1>16 DEF vars, TypeOK
<1>17. QED
  BY <1>4, <1>6, <1>7, <1>8, <1>9, <1>10, <1>11, <1>12, <1>13, <1>15, <1>16 DEF Next

\* Every variable has its type in every reachable state, and a connection is
\* open exactly inside a call.
THEOREM TypeCorrect == Spec => []TypeOK
<1>1. TypeOK /\ [Next]_vars => TypeOK'
  BY TypeStep
<1>2. QED
  BY <1>1, InitTypeOK, PTL DEF Spec

----------------------------------------------------------------------------
(***************************************************************************)
(* The inductive invariants.                                               *)
(***************************************************************************)

\* A connection that is still plain when credentials are about to be sent is
\* one for which InsecureSkipTLS allows it, and only ldap:// gets to StartTLS.
PlainIsAllowed ==
  /\ pc = "starttls" => ~cfg.transport.ldaps
  /\ pc = "bind" /\ conn = "plain" => cfg.transport.insecureSkipTLS /\ ~cfg.transport.ldaps

\* The entries and the group stay within what the directory may hold.
WithinDirectory ==
  /\ direct \subseteq cfg.directory.dns /\ nested \subseteq cfg.directory.dns
  /\ entries \subseteq cfg.directory.dns

\* Between calls the client remembers nothing, and it has resolved nobody by
\* lookup before the fallback.
Forgotten ==
  /\ pc \in {"idle", "dial", "starttls", "bind", "group"} =>
       groupEntry = NoAttributes /\ unread = {} /\ hits = {} /\ pending = {}
  /\ pc # "member" => members = {}

\* What has been collected was listed during the call.
CollectedWasListed ==
  /\ pc # "idle" => Listed \subseteq ever
  /\ groupEntry.member \subseteq ever /\ groupEntry.uniqueMember \subseteq ever
  /\ hits \subseteq ever /\ pending \subseteq ever /\ members \subseteq ever

\* The reverse query can find members at all.
Reversible == cfg.type # "OpenLDAP" \/ cfg.overlay

\* Of the group entry, member and uniqueMember hold what is stored under them.
EntryShape ==
  groupEntry.member \cap cfg.unique = {} /\ groupEntry.uniqueMember \subseteq cfg.unique

\* The steady members that the client owes its caller.
Owed == (always \cap Inside) \ Overlooked

\* A steady member is still on the way to the result: not examined yet, hit,
\* or listed in the group entry that the fallback goes through.
SteadyOnTheWay ==
  /\ always \subseteq Listed \cap entries
  /\ pc = "reverse" /\ Reversible => Owed \subseteq hits \cup unread
  /\ pc = "reverse" /\ ~Reversible =>
       hits = {} /\ always \subseteq groupEntry.member \cup groupEntry.uniqueMember
  /\ pc = "member" => Owed \cap Named \subseteq members \cup pending

\* What an undisturbed call has collected is part of the membership, and the
\* steady members are all of it.
SoundSoFar ==
  ~changed =>
    /\ pc # "idle" \/ result.kind = "ok" => always = Listed \cap entries
    /\ groupEntry.member \subseteq Listed /\ groupEntry.uniqueMember \subseteq Listed
    /\ hits \subseteq (Listed \cap entries) \ Foreign
    /\ pending \subseteq Listed
    /\ members \subseteq Resolvable
    /\ result.kind = "ok" => result.dns \subseteq Resolvable

----------------------------------------------------------------------------
(* Facts about the server. *)

\* One change leaves the directory within its bounds.
LEMMA ChangeShape ==
  ASSUME TypeOK, WithinDirectory, Change
  PROVE  \E e \in BOOLEAN, d, n, u \in SUBSET cfg.directory.dns : ChangeDirectory(e, d, n, u)
  BY DEF Change, WithinDirectory, TypeOK

\* What the reverse query matches: members that exist, all of them where the
\* server maintains memberOf, none where it does not.
LEMMA Matches ==
  ASSUME TypeOK
  PROVE  /\ MatchedBy(MembershipFilter) \subseteq Listed \cap entries
         /\ Reversible => MatchedBy(MembershipFilter) = Listed \cap entries
         /\ ~Reversible => MatchedBy(MembershipFilter) = {}
<1>1. cfg.type \in Types /\ cfg.overlay \in BOOLEAN
  BY ConfigFields DEF TypeOK
<1>2. CASE cfg.type = "OpenLDAP"
  BY <1>1, <1>2 DEF MatchedBy, MembershipFilter, Listed, Transitive, Reversible
<1>3. CASE cfg.type = "ActiveDirectory"
  BY <1>1, <1>3 DEF MatchedBy, MembershipFilter, Listed, Transitive, Reversible
<1>4. CASE cfg.type = "FreeIPA"
  BY <1>1, <1>4 DEF MatchedBy, MembershipFilter, Listed, Transitive, Reversible
<1>5. QED
  BY <1>1, <1>2, <1>3, <1>4 DEF Types

\* Without a change of the directory the server's answers stay the same.
LEMMA ServerStands ==
  ASSUME cfg' = cfg, UNCHANGED directory
  PROVE  /\ exists' = exists /\ direct' = direct /\ nested' = nested /\ entries' = entries
         /\ Listed' = Listed /\ Reversible' = Reversible
         /\ MatchedBy(MembershipFilter)' = MatchedBy(MembershipFilter)
  BY DEF directory, Listed, Transitive, Reversible, MatchedBy, MembershipFilter

\* Only the administrator touches the directory, and nobody the configuration.
LEMMA StandsUnlessChanged ==
  ASSUME [Next]_vars
  PROVE  cfg' = cfg /\ (Change \/ UNCHANGED directory)
  BY DEF Next, Begin, Dial, StartTLS, Bind, RequestFails, LookupGroup, Page, PagesDone,
         LookupUsername, MembersDone, Return, Proceed, vars, directory, Change, ChangeDirectory

\* The directory's content stays within its bounds.
LEMMA WithinDirectoryStep ==
  ASSUME TypeOK, WithinDirectory, [Next]_vars
  PROVE  WithinDirectory'
<1>1. cfg' = cfg
  BY StandsUnlessChanged
<1>2. CASE Change
  <2>1. PICK e \in BOOLEAN, d, n, u \in SUBSET cfg.directory.dns : ChangeDirectory(e, d, n, u)
    BY <1>2, ChangeShape
  <2>2. QED
    BY <1>1, <2>1 DEF ChangeDirectory, WithinDirectory
<1>3. CASE UNCHANGED directory
  BY <1>1, <1>3 DEF directory, WithinDirectory
<1>4. QED
  BY <1>2, <1>3, StandsUnlessChanged

\* The client starts each call from scratch.
LEMMA ForgottenStep ==
  ASSUME TypeOK, Forgotten, [Next]_vars
  PROVE  Forgotten'
<1>1. ASSUME NEW kind, NEW dns, Return(kind, dns)
      PROVE  Forgotten'
  BY <1>1 DEF Return, Forgotten
<1>2. ASSUME NEW o, Begin(o)
      PROVE  Forgotten'
  BY <1>2 DEF Begin, Forgotten, locals
<1>3. CASE Dial \/ StartTLS
  BY <1>3 DEF Dial, StartTLS, Proceed, Forgotten, locals
<1>4. CASE Bind
  BY <1>1, <1>4 DEF Bind, Proceed, Forgotten, locals
<1>5. CASE RequestFails \/ MembersDone
  BY <1>1, <1>5 DEF RequestFails, MembersDone
<1>6. CASE LookupGroup
  BY <1>1, <1>6 DEF LookupGroup, Proceed, Forgotten
<1>7. CASE PagesDone
  BY <1>1, <1>7 DEF PagesDone, Proceed, Forgotten
<1>8. ASSUME NEW batch, NEW dn, Page(batch) \/ LookupUsername(dn)
      PROVE  Forgotten'
  BY <1>8 DEF Page, LookupUsername, Proceed, Forgotten
<1>9. ASSUME NEW e, NEW d, NEW n, NEW u, ChangeDirectory(e, d, n, u)
      PROVE  Forgotten'
  BY <1>9 DEF ChangeDirectory, Forgotten, locals
<1>10. CASE UNCHANGED vars
  BY <1>10 DEF vars, Forgotten
<1>11. QED
  BY <1>2, <1>3, <1>4, <1>5, <1>6, <1>7, <1>8, <1>9, <1>10 DEF Next, Change

----------------------------------------------------------------------------
\* Credentials, of a health check or of a lookup, are sent in the clear only
\* if the provider opted out of TLS: the order of dial, StartTLS and bind.
THEOREM CredentialsSafe == Spec => []CredentialsProtected
<1> DEFINE I == TypeOK /\ PlainIsAllowed /\ CredentialsProtected
<1>1. Init => I
  BY InitTypeOK DEF Init, PlainIsAllowed, CredentialsProtected
<1>2. I /\ [Next]_vars => I'
  <2> SUFFICES ASSUME I, [Next]_vars PROVE (PlainIsAllowed /\ CredentialsProtected)'
    BY TypeStep
  <2> USE DEF PlainIsAllowed, CredentialsProtected
  <2>1. cfg' = cfg
    BY StandsUnlessChanged
  <2>2. ASSUME NEW o, Begin(o)
        PROVE  (PlainIsAllowed /\ CredentialsProtected)'
    BY <2>1, <2>2 DEF Begin
  <2>3. CASE Dial \/ StartTLS
    BY <2>1, <2>3 DEF Dial, StartTLS, Proceed
  <2>4. CASE Bind
    BY <2>1, <2>4 DEF Bind, Proceed, Return
  <2>5. CASE RequestFails \/ MembersDone
    BY <2>1, <2>5 DEF RequestFails, MembersDone, Return
  <2>6. CASE LookupGroup \/ PagesDone
    BY <2>1, <2>6 DEF LookupGroup, PagesDone, Proceed, Return
  <2>7. ASSUME NEW batch, NEW dn, Page(batch) \/ LookupUsername(dn)
        PROVE  (PlainIsAllowed /\ CredentialsProtected)'
    BY <2>1, <2>7 DEF Page, LookupUsername, Proceed
  <2>8. ASSUME NEW e, NEW d, NEW n, NEW u, ChangeDirectory(e, d, n, u)
        PROVE  (PlainIsAllowed /\ CredentialsProtected)'
    BY <2>1, <2>8 DEF ChangeDirectory
  <2>9. CASE UNCHANGED vars
    BY <2>9 DEF vars
  <2>10. QED
    BY <2>2, <2>3, <2>4, <2>5, <2>6, <2>7, <2>8, <2>9 DEF Next, Change
<1>3. QED
  BY <1>1, <1>2, PTL DEF Spec

----------------------------------------------------------------------------
\* The invariant that the results about members rest on.
Ground == TypeOK /\ WithinDirectory /\ Forgotten

\* It holds initially ...
LEMMA GroundInit == Init => Ground
  BY InitTypeOK DEF Init, Ground, WithinDirectory, Forgotten

\* ... and every step keeps it.
LEMMA GroundStep ==
  ASSUME Ground, [Next]_vars
  PROVE  Ground'
  BY TypeStep, WithinDirectoryStep, ForgottenStep DEF Ground

\* A name that a successful call returns was a member at some instant of that
\* call, however the directory changed between the group entry, the pages and
\* the lookups.
THEOREM NobodyInvented == Spec => []NoPhantomMember
<1> DEFINE I == Ground /\ CollectedWasListed /\ NoPhantomMember
<1>1. Init => I
  BY GroundInit DEF Init, CollectedWasListed, NoPhantomMember, NoAttributes, NoResult
<1>2. I /\ [Next]_vars => I'
  <2> SUFFICES ASSUME I, [Next]_vars PROVE CollectedWasListed' /\ NoPhantomMember'
    BY GroundStep
  <2>1. TypeOK /\ WithinDirectory /\ Forgotten /\ cfg' = cfg
    BY StandsUnlessChanged DEF Ground
  <2>2. ASSUME NEW kind, NEW dns, Return(kind, dns), kind = "ok" => dns \subseteq ever
        PROVE  CollectedWasListed' /\ NoPhantomMember'
    BY <2>2 DEF Return, history, CollectedWasListed, NoPhantomMember, NoAttributes
  <2>3. ASSUME NEW o, Begin(o)
        PROVE  CollectedWasListed' /\ NoPhantomMember'
    <3>1. Listed' = Listed
      BY <2>1, <2>3, ServerStands DEF Begin
    <3>2. NoPhantomMember'
      BY <2>3 DEF Begin, NoPhantomMember, NoResult
    <3>3. /\ groupEntry' = NoAttributes
          /\ hits' = {} /\ pending' = {} /\ members' = {} /\ ever' = Listed
      BY <2>1, <2>3 DEF Begin, locals, Forgotten
    <3>4. CollectedWasListed'
      BY <3>1, <3>3 DEF CollectedWasListed, NoAttributes
    <3>5. QED
      BY <3>2, <3>4
  <2>4. ASSUME NEW step, Proceed(step), pc # "idle",
               /\ groupEntry'.member \subseteq ever /\ groupEntry'.uniqueMember \subseteq ever
               /\ hits' \subseteq ever /\ pending' \subseteq ever /\ members' \subseteq ever
        PROVE  CollectedWasListed' /\ NoPhantomMember'
    <3>1. Listed' = Listed /\ ever' = ever /\ result' = result
      BY <2>4, ServerStands DEF Proceed, history
    <3>2. QED
      BY <2>4, <3>1 DEF CollectedWasListed, NoPhantomMember
  <2>5. CASE Dial \/ StartTLS
    BY <2>4, <2>5 DEF Dial, StartTLS, locals, CollectedWasListed
  <2>6. CASE Bind
    BY <2>2, <2>4, <2>6 DEF Bind, locals, CollectedWasListed
  <2>7. CASE RequestFails
    BY <2>2, <2>7 DEF RequestFails
  <2>8. CASE LookupGroup
    <3>1. CASE ~exists
      BY <2>2, <2>8, <3>1 DEF LookupGroup
    <3>2. CASE exists
      <4>1. direct \subseteq ever
        BY <2>8, <3>2 DEF LookupGroup, CollectedWasListed, Listed
      <4>2. groupEntry' = [member |-> direct \ cfg.unique,
                           uniqueMember |-> direct \cap cfg.unique]
        BY <2>8, <3>2 DEF LookupGroup
      <4>3. groupEntry'.member \subseteq ever /\ groupEntry'.uniqueMember \subseteq ever
        BY <4>1, <4>2
      <4>4. QED
        BY <2>4, <2>8, <3>2, <4>3 DEF LookupGroup, CollectedWasListed
    <3>3. QED
      BY <3>1, <3>2
  <2>9. ASSUME NEW batch, Page(batch)
        PROVE  CollectedWasListed' /\ NoPhantomMember'
    <3>1. hits' \subseteq ever
      BY <2>1, <2>9, Matches DEF Page, CollectedWasListed
    <3>2. QED
      BY <2>4, <2>9, <3>1 DEF Page, CollectedWasListed
  <2>10. CASE PagesDone
    <3>1. CASE hits # {}
      BY <2>2, <2>10, <3>1 DEF PagesDone, CollectedWasListed
    <3>2. CASE hits = {}
      BY <2>4, <2>10, <3>2 DEF PagesDone, MemberDNs, CollectedWasListed
    <3>3. QED
      BY <3>1, <3>2
  <2>11. ASSUME NEW dn \in pending, LookupUsername(dn)
         PROVE  CollectedWasListed' /\ NoPhantomMember'
    BY <2>4, <2>11 DEF LookupUsername, CollectedWasListed
  <2>12. CASE MembersDone
    BY <2>2, <2>12 DEF MembersDone, CollectedWasListed
  <2>13. ASSUME NEW e, NEW d, NEW n, NEW u, ChangeDirectory(e, d, n, u)
         PROVE  CollectedWasListed' /\ NoPhantomMember'
    BY <2>13 DEF ChangeDirectory, locals, CollectedWasListed, NoPhantomMember
  <2>14. CASE UNCHANGED vars
    BY <2>14 DEF vars, CollectedWasListed, NoPhantomMember, Listed, Transitive
  <2>15. QED
    BY <2>3, <2>5, <2>6, <2>7, <2>8, <2>9, <2>10, <2>11, <2>12, <2>13, <2>14 DEF Next, Change
<1>3. QED
  BY <1>1, <1>2, PTL DEF Spec

----------------------------------------------------------------------------
\* Each attribute of the group entry holds what is stored under it, since an
\* entry is read as a whole or dropped.
LEMMA EntryShapeStep ==
  ASSUME TypeOK, EntryShape, [Next]_vars
  PROVE  EntryShape'
<1>1. cfg' = cfg
  BY StandsUnlessChanged
<1>2. ASSUME groupEntry' = NoAttributes PROVE EntryShape'
  BY <1>1, <1>2 DEF EntryShape, NoAttributes
<1>3. ASSUME groupEntry' = [member |-> direct \ cfg.unique, uniqueMember |-> direct \cap cfg.unique]
      PROVE  EntryShape'
  BY <1>1, <1>3 DEF EntryShape
<1>4. ASSUME groupEntry' = groupEntry PROVE EntryShape'
  BY <1>1, <1>4 DEF EntryShape
<1>5. \/ groupEntry' = NoAttributes
      \/ groupEntry' = [member |-> direct \ cfg.unique, uniqueMember |-> direct \cap cfg.unique]
      \/ groupEntry' = groupEntry
  BY DEF Next, Begin, Dial, StartTLS, Bind, RequestFails, LookupGroup, Page, PagesDone,
         LookupUsername, MembersDone, Return, Proceed, Change, ChangeDirectory, locals, vars
<1>6. QED
  BY <1>2, <1>3, <1>4, <1>5

\* Preferring member to uniqueMember therefore loses only those overlooked.
LEMMA MemberDNsOfEntry ==
  ASSUME TypeOK, EntryShape
  PROVE  (groupEntry.member \cup groupEntry.uniqueMember) \ Overlooked \subseteq MemberDNs
<1>1. groupEntry.member \subseteq DNs /\ groupEntry.uniqueMember \subseteq DNs
  BY DEF TypeOK
<1>2. CASE cfg.unique = DNs
  <2>1. groupEntry.member = {}
    BY <1>1, <1>2 DEF EntryShape
  <2>2. QED
    BY <2>1 DEF MemberDNs
<1>3. CASE cfg.unique # DNs
  <2>1. groupEntry.uniqueMember \subseteq Overlooked
    BY <1>3 DEF EntryShape, Overlooked
  <2>2. QED
    BY <2>1 DEF MemberDNs
<1>4. QED
  BY <1>2, <1>3

\* Whom the client owes its caller changes only with the steady members.
LEMMA OwedStands ==
  ASSUME cfg' = cfg
  PROVE  /\ Overlooked' = Overlooked
         /\ always' \subseteq always => Owed' \subseteq Owed
  BY DEF Overlooked, Owed

\* The invariant behind SteadyMemberKept.
Keeping == Ground /\ EntryShape /\ SteadyOnTheWay /\ SteadyMemberKept

\* It holds initially ...
LEMMA KeepingInit == Init => Keeping
<1> SUFFICES ASSUME Init PROVE Keeping
  OBVIOUS
<1>1. EntryShape
  BY DEF Init, EntryShape, NoAttributes
<1>2. SteadyOnTheWay /\ SteadyMemberKept
  BY DEF Init, SteadyOnTheWay, SteadyMemberKept, NoResult
<1>3. QED
  BY <1>1, <1>2, GroundInit DEF Keeping

\* ... and every step keeps it.
LEMMA KeepingStep ==
  ASSUME Keeping, [Next]_vars
  PROVE  Keeping'
<1> SUFFICES SteadyOnTheWay' /\ SteadyMemberKept'
  BY GroundStep, EntryShapeStep DEF Keeping, Ground
<1>1. /\ TypeOK /\ WithinDirectory /\ Forgotten /\ EntryShape /\ cfg' = cfg
      /\ SteadyOnTheWay /\ SteadyMemberKept
  BY StandsUnlessChanged DEF Keeping, Ground
<1>2. /\ Overlooked' = Overlooked
      /\ always' \subseteq always => Owed' \subseteq Owed
  BY <1>1, OwedStands
<1>3. ASSUME NEW kind, NEW dns, Return(kind, dns),
             kind \in {"ok", "notfound"} => Owed \cap Named \subseteq dns
      PROVE  SteadyOnTheWay' /\ SteadyMemberKept'
  <2>1. Listed' = Listed /\ entries' = entries
    BY <1>3, ServerStands DEF Return
  <2>2. QED
    BY <1>1, <1>2, <1>3, <2>1 DEF Return, history, SteadyOnTheWay, SteadyMemberKept, Owed
<1>4. ASSUME NEW o, Begin(o)
      PROVE  SteadyOnTheWay' /\ SteadyMemberKept'
  <2>1. Listed' = Listed /\ entries' = entries
    BY <1>1, <1>4, ServerStands DEF Begin
  <2>2. QED
    BY <1>4, <2>1 DEF Begin, SteadyOnTheWay, SteadyMemberKept, NoResult
<1>5. ASSUME NEW step, Proceed(step)
      PROVE  /\ always' = always /\ Owed' = Owed /\ always \subseteq Listed' \cap entries'
             /\ Reversible' = Reversible /\ pc' = step
             /\ SteadyMemberKept'
  <2>1. Listed' = Listed /\ entries' = entries /\ Reversible' = Reversible
    BY <1>5, ServerStands DEF Proceed
  <2>2. always' = always /\ result' = result /\ pc' = step
    BY <1>5 DEF Proceed, history
  <2>3. QED
    BY <1>1, <1>2, <2>1, <2>2 DEF SteadyOnTheWay, SteadyMemberKept, Owed
<1>6. CASE Dial \/ StartTLS
  BY <1>5, <1>6 DEF Dial, StartTLS, SteadyOnTheWay
<1>7. CASE Bind
  <2>1. CASE op = "ping"
    BY <1>3, <1>7, <2>1 DEF Bind
  <2>2. CASE op # "ping"
    BY <1>5, <1>7, <2>2 DEF Bind, SteadyOnTheWay
  <2>3. QED
    BY <2>1, <2>2
<1>8. CASE RequestFails
  BY <1>3, <1>8 DEF RequestFails
<1>9. CASE LookupGroup
  <2>1. CASE ~exists
    <3>1. Owed = {}
      BY <1>1, <2>1 DEF SteadyOnTheWay, Listed, Owed
    <3>2. QED
      BY <1>3, <1>9, <2>1, <3>1 DEF LookupGroup
  <2>2. CASE exists
    <3>1. /\ groupEntry' = [member |-> direct \ cfg.unique,
                            uniqueMember |-> direct \cap cfg.unique]
          /\ unread' = Inside \cap cfg.directory.dns /\ Proceed("reverse") /\ hits' = hits
      BY <1>9, <2>2 DEF LookupGroup
    <3>2. Owed \subseteq unread'
      BY <1>1, <3>1 DEF SteadyOnTheWay, WithinDirectory, Owed
    <3>3. groupEntry'.member \cup groupEntry'.uniqueMember = direct
      BY <3>1
    <3>4. ~Reversible => hits = {} /\ always \subseteq direct
      BY <1>1, <1>9 DEF LookupGroup, Forgotten, SteadyOnTheWay, Reversible, Listed, Transitive
    <3>5. QED
      BY <1>5, <3>1, <3>2, <3>3, <3>4 DEF SteadyOnTheWay
  <2>3. QED
    BY <2>1, <2>2
<1>10. ASSUME NEW batch, Page(batch)
       PROVE  SteadyOnTheWay' /\ SteadyMemberKept'
  <2>1. /\ unread' = unread \ batch /\ Proceed("reverse") /\ groupEntry' = groupEntry
        /\ hits' = hits \cup ((batch \cap MatchedBy(MembershipFilter)) \ Foreign)
        /\ pc = "reverse"
    BY <1>10 DEF Page
  <2>2. ASSUME Reversible PROVE Owed \subseteq hits' \cup unread'
    <3>1. Owed \subseteq hits \cup unread /\ Owed \subseteq Listed \cap entries
      BY <1>1, <2>1, <2>2 DEF SteadyOnTheWay, Owed
    <3>2. hits' = hits \cup ((batch \cap (Listed \cap entries)) \ Foreign)
      BY <1>1, <2>1, <2>2, Matches
    <3>3. Owed \cap Foreign = {}
      BY DEF Owed, Overlooked
    <3>4. QED
      BY <2>1, <3>1, <3>2, <3>3
  <2>3. ~Reversible => hits' = {} /\ always \subseteq groupEntry'.member \cup groupEntry'.uniqueMember
    BY <1>1, <2>1, Matches DEF SteadyOnTheWay
  <2>4. QED
    BY <1>5, <2>1, <2>2, <2>3 DEF SteadyOnTheWay
<1>11. CASE PagesDone
  <2>1. pc = "reverse" /\ unread = {}
    BY <1>11 DEF PagesDone
  <2>2. CASE hits # {}
    <3>1. Owed \cap Named \subseteq hits \cap Named
      BY <1>1, <2>1, <2>2 DEF SteadyOnTheWay
    <3>2. QED
      BY <1>3, <1>11, <2>2, <3>1 DEF PagesDone
  <2>3. CASE hits = {}
    <3>1. pending' = MemberDNs /\ Proceed("member") /\ members' = members
      BY <1>11, <2>3 DEF PagesDone
    <3>2. CASE Reversible
      <4>1. Owed = {}
        BY <1>1, <2>1, <2>3, <3>2 DEF SteadyOnTheWay
      <4>2. QED
        BY <1>5, <3>1, <4>1 DEF SteadyOnTheWay
    <3>3. CASE ~Reversible
      <4>1. Owed \subseteq (groupEntry.member \cup groupEntry.uniqueMember) \ Overlooked
        BY <1>1, <2>1, <3>3 DEF SteadyOnTheWay, Owed
      <4>2. Owed \subseteq pending'
        BY <1>1, <3>1, <4>1, MemberDNsOfEntry
      <4>3. QED
        BY <1>5, <3>1, <4>2 DEF SteadyOnTheWay
    <3>4. QED
      BY <3>2, <3>3
  <2>4. QED
    BY <2>2, <2>3
<1>12. ASSUME NEW dn \in pending, LookupUsername(dn)
       PROVE  SteadyOnTheWay' /\ SteadyMemberKept'
  <2>1. /\ pending' = pending \ {dn} /\ pc = "member" /\ Proceed("member")
        /\ members' = members \cup (({dn} \cap entries \cap Named) \ Foreign)
    BY <1>12 DEF LookupUsername
  <2>2. /\ Owed \subseteq entries /\ Owed \cap Foreign = {}
        /\ Owed \cap Named \subseteq members \cup pending
    BY <1>1, <2>1 DEF SteadyOnTheWay, Owed, Overlooked
  <2>3. Owed \cap Named \subseteq members' \cup pending'
    BY <2>1, <2>2
  <2>4. QED
    BY <1>5, <2>1, <2>3 DEF SteadyOnTheWay
<1>13. CASE MembersDone
  BY <1>1, <1>3, <1>13 DEF MembersDone, SteadyOnTheWay
<1>14. ASSUME NEW e, NEW d, NEW n, NEW u, ChangeDirectory(e, d, n, u)
       PROVE  SteadyOnTheWay' /\ SteadyMemberKept'
  <2>1. /\ always' \subseteq always /\ always' \subseteq Listed' \cap entries'
        /\ pc' = pc /\ result' = result /\ hits' = hits /\ unread' = unread
        /\ groupEntry' = groupEntry /\ members' = members /\ pending' = pending
    BY <1>14 DEF ChangeDirectory, locals
  <2>2. Reversible' = Reversible /\ Owed' \subseteq Owed
    BY <1>1, <1>2, <2>1 DEF Reversible
  <2>3. QED
    BY <1>1, <1>2, <2>1, <2>2 DEF SteadyOnTheWay, SteadyMemberKept
<1>15. CASE UNCHANGED vars
  <2>1. Owed' = Owed /\ Listed' = Listed /\ Reversible' = Reversible
    BY <1>2, <1>15 DEF vars, Owed, Listed, Transitive, Reversible
  <2>2. QED
    BY <1>1, <1>2, <1>15, <2>1 DEF vars, SteadyOnTheWay, SteadyMemberKept
<1>16. QED
  BY <1>4, <1>6, <1>7, <1>8, <1>9, <1>10, <1>11, <1>12, <1>13, <1>14, <1>15 DEF Next, Change

\* A user under the search base, of this naming context and in an attribute the
\* client reads, who is a member throughout a call that reports success is in
\* its result, by whichever of the two paths.
THEOREM NobodyDropped == Spec => []SteadyMemberKept
<1>1. Keeping /\ [Next]_vars => Keeping'
  BY KeepingStep
<1>2. Keeping => SteadyMemberKept
  BY DEF Keeping
<1>3. QED
  BY <1>1, <1>2, KeepingInit, PTL DEF Spec

----------------------------------------------------------------------------
\* What an undisturbed call collects stays within the membership.
LEMMA SoundStep ==
  ASSUME Keeping, SoundSoFar, [Next]_vars
  PROVE  SoundSoFar'
<1>1. TypeOK /\ Forgotten /\ cfg' = cfg
  BY StandsUnlessChanged DEF Keeping, Ground
<1>2. ASSUME UNCHANGED directory
      PROVE  /\ Resolvable' = Resolvable /\ Listed' = Listed
             /\ entries' = entries
  BY <1>1, <1>2, ServerStands DEF Resolvable
<1>3. ASSUME NEW kind, NEW dns, Return(kind, dns), pc # "idle",
             ~changed /\ kind = "ok" => dns \subseteq Resolvable
      PROVE  SoundSoFar'
  BY <1>2, <1>3 DEF Return, history, SoundSoFar, NoAttributes
<1>4. ASSUME NEW o, Begin(o)
      PROVE  SoundSoFar'
  <2>1. /\ groupEntry' = NoAttributes /\ hits' = {} /\ pending' = {} /\ members' = {}
        /\ always' = Listed \cap entries /\ result'.kind # "ok" /\ UNCHANGED directory
    BY <1>1, <1>4 DEF Begin, locals, Forgotten, NoResult
  <2>2. QED
    BY <1>2, <2>1 DEF SoundSoFar, NoAttributes
<1>5. ASSUME NEW step, Proceed(step), pc # "idle",
             ~changed =>
               /\ groupEntry'.member \subseteq Listed /\ groupEntry'.uniqueMember \subseteq Listed
               /\ hits' \subseteq (Listed \cap entries) \ Foreign
               /\ pending' \subseteq Listed /\ members' \subseteq Resolvable
      PROVE  SoundSoFar'
  <2>1. /\ Resolvable' = Resolvable /\ Listed' = Listed /\ entries' = entries
        /\ changed' = changed /\ always' = always /\ result' = result
    BY <1>2, <1>5 DEF Proceed, history
  <2>2. QED
    BY <1>5, <2>1 DEF SoundSoFar
<1>6. CASE Dial \/ StartTLS
  BY <1>5, <1>6 DEF Dial, StartTLS, locals, SoundSoFar
<1>7. CASE Bind
  BY <1>3, <1>5, <1>7 DEF Bind, locals, SoundSoFar
<1>8. CASE RequestFails
  BY <1>3, <1>8 DEF RequestFails
<1>9. CASE LookupGroup
  <2>1. CASE ~exists
    BY <1>3, <1>9, <2>1 DEF LookupGroup
  <2>2. CASE exists
    <3>1. groupEntry' = [member |-> direct \ cfg.unique, uniqueMember |-> direct \cap cfg.unique]
      BY <1>9, <2>2 DEF LookupGroup
    <3>2. groupEntry'.member \subseteq Listed /\ groupEntry'.uniqueMember \subseteq Listed
      BY <2>2, <3>1 DEF Listed
    <3>3. QED
      BY <1>5, <1>9, <2>2, <3>2 DEF LookupGroup, SoundSoFar
  <2>3. QED
    BY <2>1, <2>2
<1>10. ASSUME NEW batch, Page(batch)
       PROVE  SoundSoFar'
  <2>1. ~changed => hits' \subseteq (Listed \cap entries) \ Foreign
    BY <1>1, <1>10, Matches DEF Page, SoundSoFar
  <2>2. QED
    BY <1>5, <1>10, <2>1 DEF Page, SoundSoFar
<1>11. CASE PagesDone
  <2>1. CASE hits # {}
    <3>1. ~changed => hits \cap Named \subseteq Resolvable
      BY DEF SoundSoFar, Resolvable
    <3>2. QED
      BY <1>3, <1>11, <2>1, <3>1 DEF PagesDone
  <2>2. CASE hits = {}
    BY <1>5, <1>11, <2>2 DEF PagesDone, MemberDNs, SoundSoFar
  <2>3. QED
    BY <2>1, <2>2
<1>12. ASSUME NEW dn \in pending, LookupUsername(dn)
       PROVE  SoundSoFar'
  <2>1. ~changed => members' \subseteq Resolvable /\ pending' \subseteq Listed
    BY <1>12 DEF LookupUsername, SoundSoFar, Resolvable
  <2>2. QED
    BY <1>5, <1>12, <2>1 DEF LookupUsername, SoundSoFar
<1>13. CASE MembersDone
  BY <1>3, <1>13 DEF MembersDone, SoundSoFar
<1>14. ASSUME NEW e, NEW d, NEW n, NEW u, ChangeDirectory(e, d, n, u)
       PROVE  SoundSoFar'
  BY <1>14 DEF ChangeDirectory, SoundSoFar
<1>15. CASE UNCHANGED vars
  <2>1. UNCHANGED directory
    BY <1>15 DEF vars, directory
  <2>2. QED
    BY <1>2, <1>15, <2>1 DEF vars, SoundSoFar
<1>16. QED
  BY <1>4, <1>6, <1>7, <1>8, <1>9, <1>10, <1>11, <1>12, <1>13, <1>14, <1>15 DEF Next, Change

\* A call during which nothing changes returns only members that this server
\* can resolve, and of those under the search base all, unless overlooked.
THEOREM UndisturbedExact == Spec => []UndisturbedCallExact
<1> DEFINE I == Keeping /\ SoundSoFar
<1>1. Init => I
  BY KeepingInit DEF Init, SoundSoFar, NoResult, NoAttributes
<1>2. I /\ [Next]_vars => I'
  BY KeepingStep, SoundStep
<1>3. I => UndisturbedCallExact
  <2> SUFFICES ASSUME I, ~changed, result.kind = "ok"
               PROVE  /\ result.dns \subseteq Resolvable
                      /\ Resolvable \cap Inside \subseteq result.dns \cup Overlooked
    BY DEF UndisturbedCallExact
  <2>1. result.dns \subseteq Resolvable /\ always = Listed \cap entries
    BY DEF SoundSoFar
  <2>2. always \cap Inside \cap Named \subseteq result.dns \cup Overlooked
    BY DEF Keeping, SteadyMemberKept
  <2>3. QED
    BY <2>1, <2>2 DEF Resolvable
<1>4. QED
  BY <1>1, <1>2, <1>3, PTL DEF Spec

=============================================================================
