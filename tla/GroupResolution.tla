-------------------------- MODULE GroupResolution --------------------------
(***************************************************************************)
(* ldapclient.Client (internal/ldapclient/client.go): Ping and             *)
(* GetGroupMembers.  A call dials, secures and binds a connection of its   *)
(* own, reads the group entry, pages through the reverse memberOf query    *)
(* and, when that has no hit, looks up the DNs the group entry listed.     *)
(* The directory may change between any two of these requests, each of     *)
(* which may fail.                                                         *)
(*                                                                         *)
(* One group is resolved.  A DN stands for its username: the attribute's   *)
(* value is abstracted to whether it is set (Named), and the sorted result *)
(* to a set.                                                               *)
(***************************************************************************)
EXTENDS Naturals, FiniteSets

CONSTANTS
  DNs,      \* entries that may be members of the group
  Inside,   \* those under UserSearchBase
  Foreign,  \* those in another naming context, under UserSearchBase or not:
            \* of them the server has only referrals to give
  Named,    \* those whose UsernameAttribute is set
  Directories \* what there is to resolve: the dns that occur, the uniques a
              \* group may list as uniqueMember, the pageSize of the server's
              \* batches, the transports (URL scheme and insecureSkipTLS), and
              \* bounds on moves: calls, changes of the directory, failed
              \* requests

Kinds == {"call", "change", "fault"}
Types == {"OpenLDAP", "ActiveDirectory", "FreeIPA"}

ASSUME ResolutionAssumption ==
  /\ IsFiniteSet(DNs)
  /\ Inside \subseteq DNs /\ Foreign \subseteq DNs /\ Named \subseteq DNs
  /\ Directories \subseteq [dns : SUBSET DNs, uniques : SUBSET (SUBSET DNs),
                            pageSize : Nat \ {0},
                            transports : SUBSET [ldaps : BOOLEAN, insecureSkipTLS : BOOLEAN],
                            moves : [Kinds -> Nat]]

\* Config, and what the server is like: overlay says whether an OpenLDAP
\* maintains memberOf for its groups, unique which members the group has under
\* uniqueMember, all others being under member.
Configs == UNION {[directory : {d}, transport : d.transports, type : Types,
                   overlay : BOOLEAN, unique : d.uniques] : d \in Directories}

VARIABLES
  cfg,                       \* the client's configuration, fixed
  exists, direct, nested,    \* the group: is there, lists, contains by nesting
  entries,                   \* the user entries that exist
  pc, op,                    \* next step, and the operation it belongs to
  conn,                      \* the connection: closed, plain, tls
  bound,                     \* how this call's credentials were sent, if at all
  groupEntry,                \* the attributes lookupGroup returned
  unread, hits,              \* reverse query: still to be examined; matched
  pending, members,          \* fallback: still to be looked up; resolved
  result,                    \* outcome of the last call
  ever, always, changed,     \* history of the current call, see Begin
  spent

directory == <<exists, direct, nested, entries>>
locals    == <<groupEntry, unread, hits, pending, members>>
history   == <<ever, always, changed>>
vars      == <<cfg, exists, direct, nested, entries, pc, op, conn, bound,
               groupEntry, unread, hits, pending, members, result, ever,
               always, changed, spent>>

Spend(kind) ==
  /\ spent[kind] < cfg.directory.moves[kind]
  /\ spent' = [spent EXCEPT ![kind] = @ + 1]

NoAttributes == [member |-> {}, uniqueMember |-> {}]
NoResult == [kind |-> "none", dns |-> {}]

----------------------------------------------------------------------------
(* The server. *)

\* memberOf is maintained transitively by FreeIPA; Active Directory walks the
\* chain when the filter asks for it; OpenLDAP has it only with the overlay.
Transitive == cfg.type \in {"ActiveDirectory", "FreeIPA"}
Listed == IF ~exists THEN {} ELSE IF Transitive THEN direct \cup nested ELSE direct

MatchedBy(filter) ==
  IF ~exists THEN {}
  ELSE entries \cap
       CASE cfg.type = "OpenLDAP" -> IF cfg.overlay THEN direct ELSE {}
         [] cfg.type = "FreeIPA"  -> direct \cup nested
         [] cfg.type = "ActiveDirectory" ->
              IF filter = "inChain" THEN direct \cup nested ELSE direct

\* The administrator adds or removes members and users, or the group itself.
ChangeDirectory(e, d, n, u) ==
  /\ <<e, d, n, u>> # directory
  /\ Spend("change")
  /\ exists' = e /\ direct' = d /\ nested' = n /\ entries' = u
  /\ UNCHANGED <<cfg, pc, op, conn, bound, locals, result>>
  /\ ever' = ever \cup Listed'
  /\ always' = always \cap (Listed \cap entries)'
  /\ changed' = TRUE

\* One attribute of the group or of a user changes at a time.
Change ==
  \/ ChangeDirectory(~exists, direct, nested, entries)
  \/ \E dn \in cfg.directory.dns :
       \/ ChangeDirectory(exists, direct \cup {dn}, nested, entries)
       \/ ChangeDirectory(exists, direct \ {dn}, nested, entries)
       \/ ChangeDirectory(exists, direct, nested \cup {dn}, entries)
       \/ ChangeDirectory(exists, direct, nested \ {dn}, entries)
       \/ ChangeDirectory(exists, direct, nested, entries \cup {dn})
       \/ ChangeDirectory(exists, direct, nested, entries \ {dn})

----------------------------------------------------------------------------
(* The client. *)

Init ==
  /\ cfg \in Configs
  /\ exists = TRUE /\ entries = cfg.directory.dns
  /\ direct \in SUBSET entries /\ nested \in SUBSET entries
  /\ pc = "idle" /\ op = "none" /\ conn = "closed" /\ bound = "no"
  /\ groupEntry = NoAttributes
  /\ unread = {} /\ hits = {} /\ pending = {} /\ members = {}
  /\ result = NoResult
  /\ ever = {} /\ always = {} /\ changed = FALSE
  /\ spent = [k \in Kinds |-> 0]

\* Mutant of Return: the connection is not closed.
ReturnLeaking(kind, dns) ==
  /\ pc' = "idle" /\ op' = "none"
  /\ groupEntry' = NoAttributes
  /\ unread' = {} /\ hits' = {} /\ pending' = {} /\ members' = {}
  /\ result' = [kind |-> kind, dns |-> dns]
  /\ UNCHANGED <<cfg, directory, history, conn>>

\* The deferred Close, and what the caller gets.
Return(kind, dns) ==
  /\ pc' = "idle" /\ op' = "none" /\ conn' = "closed"
  /\ groupEntry' = NoAttributes
  /\ unread' = {} /\ hits' = {} /\ pending' = {} /\ members' = {}
  /\ result' = [kind |-> kind, dns |-> dns]
  /\ UNCHANGED <<cfg, directory, history>>

\* A call starts; the limiter has let it through.  The history begins: ever
\* are the DNs listed at some instant of the call, always those listed and
\* existing throughout it.
Begin(o) ==
  /\ pc = "idle"
  /\ Spend("call")
  /\ pc' = "dial" /\ op' = o /\ result' = NoResult /\ bound' = "no"
  /\ ever' = Listed /\ always' = Listed \cap entries /\ changed' = FALSE
  /\ UNCHANGED <<cfg, directory, conn, locals>>

Proceed(step) ==
  /\ pc' = step
  /\ UNCHANGED <<cfg, directory, op, result, history, spent>>

\* Mutant of Dial: ldap:// is never upgraded.
DialPlain ==
  /\ pc = "dial"
  /\ conn' = IF cfg.transport.ldaps THEN "tls" ELSE "plain"
  /\ Proceed("bind")
  /\ UNCHANGED <<bound, locals>>

\* dial: ldaps is secure from the start; ldap:// is upgraded with StartTLS
\* unless InsecureSkipTLS allows a plaintext bind.
Dial ==
  /\ pc = "dial"
  /\ conn' = IF cfg.transport.ldaps THEN "tls" ELSE "plain"
  /\ Proceed(IF cfg.transport.ldaps \/ cfg.transport.insecureSkipTLS
               THEN "bind" ELSE "starttls")
  /\ UNCHANGED <<bound, locals>>

StartTLS ==
  /\ pc = "starttls"
  /\ conn' = "tls"
  /\ Proceed("bind")
  /\ UNCHANGED <<bound, locals>>

\* connectAndBind sends the credentials; Ping is then done.
Bind ==
  /\ pc = "bind"
  /\ bound' = conn
  /\ IF op = "ping" THEN Return("pong", {}) /\ UNCHANGED spent
                    ELSE Proceed("group") /\ UNCHANGED <<conn, locals>>

\* Mutant of RequestFails: what has been found so far is returned.
RequestFailsPartially ==
  /\ pc \in {"dial", "starttls", "bind", "group", "reverse", "member"}
  /\ Spend("fault")
  /\ IF pc \in {"reverse", "member"} THEN Return("ok", (hits \cap Named) \cup members)
                                     ELSE Return("error", {})
  /\ UNCHANGED bound

\* The limiter, the dial, StartTLS, the bind, or one of the three searches
\* fails: the connection is closed and no member is returned.  Credentials
\* that were refused have been sent.
RequestFails ==
  /\ pc \in {"dial", "starttls", "bind", "group", "reverse", "member"}
  /\ Spend("fault")
  /\ bound' = IF pc = "bind" THEN conn ELSE bound
  /\ Return("error", {})

\* lookupGroup: a base-scope search for the two member attributes.  A group in
\* another naming context is an error, see RequestFails.
LookupGroup ==
  /\ pc = "group"
  /\ IF ~exists
       THEN Return("notfound", {}) /\ UNCHANGED <<bound, spent>>
       ELSE /\ groupEntry' = [member |-> direct \ cfg.unique,
                               uniqueMember |-> direct \cap cfg.unique]
            /\ unread' = Inside \cap cfg.directory.dns
            /\ Proceed("reverse")
            /\ UNCHANGED <<conn, bound, hits, pending, members>>

\* Mutant of MembershipFilter: Active Directory is asked like the others.
PlainFilter == "memberOf"

\* The filter of the reverse query.
MembershipFilter == IF cfg.type = "ActiveDirectory" THEN "inChain" ELSE "memberOf"

\* Up to PageSize more entries of the subtree.
Batches == {b \in SUBSET unread : b # {} /\ Cardinality(b) <= cfg.directory.pageSize}

\* Mutant of Page: the filter matches every user.
PageUnfiltered(batch) ==
  /\ pc = "reverse"
  /\ unread' = unread \ batch
  /\ hits' = hits \cup ((batch \cap entries) \ Foreign)
  /\ Proceed("reverse")
  /\ UNCHANGED <<conn, bound, groupEntry, pending, members>>

\* SearchWithPaging: the server examines another batch and returns the hits.
\* For the part of the subtree in another naming context it returns continuation
\* referrals, which logReferrals logs and nobody follows.
Page(batch) ==
  /\ pc = "reverse"
  /\ unread' = unread \ batch
  /\ hits' = hits \cup ((batch \cap MatchedBy(MembershipFilter)) \ Foreign)
  /\ Proceed("reverse")
  /\ UNCHANGED <<conn, bound, groupEntry, pending, members>>

\* The values of member, or of uniqueMember when there are none.
MemberDNs == IF groupEntry.member # {} THEN groupEntry.member
                                       ELSE groupEntry.uniqueMember

\* The last page is in: any hit at all decides for the reverse query;
\* otherwise the DNs of the group entry that was read before are looked up.
PagesDone ==
  /\ pc = "reverse" /\ unread = {}
  /\ IF hits # {}
       THEN Return("ok", hits \cap Named) /\ UNCHANGED <<bound, spent>>
       ELSE /\ pending' = MemberDNs
            /\ Proceed("member")
            /\ UNCHANGED <<conn, bound, groupEntry, unread, hits, members>>

\* lookupUsername: a DN that is gone, or that yields a referral or no
\* username, is skipped.
LookupUsername(dn) ==
  /\ pc = "member"
  /\ pending' = pending \ {dn}
  /\ members' = members \cup (({dn} \cap entries \cap Named) \ Foreign)
  /\ Proceed("member")
  /\ UNCHANGED <<conn, bound, groupEntry, unread, hits>>

MembersDone ==
  /\ pc = "member" /\ pending = {}
  /\ Return("ok", members)
  /\ UNCHANGED <<bound, spent>>

Next ==
  \/ \E o \in {"ping", "members"} : Begin(o)
  \/ Dial \/ StartTLS \/ Bind \/ RequestFails \/ LookupGroup
  \/ \E batch \in Batches : Page(batch)
  \/ PagesDone
  \/ \E dn \in pending : LookupUsername(dn)
  \/ MembersDone
  \/ Change

Spec == Init /\ [][Next]_vars

----------------------------------------------------------------------------
(* Properties. *)

\* Types of all variables; the connection is open only inside a call.
TypeOK ==
  /\ cfg \in Configs /\ exists \in BOOLEAN
  /\ direct \subseteq DNs /\ nested \subseteq DNs /\ entries \subseteq DNs
  /\ pc \in {"idle", "dial", "starttls", "bind", "group", "reverse", "member"}
  /\ op \in {"none", "ping", "members"} /\ (op = "none" <=> pc = "idle")
  /\ conn \in {"closed", "plain", "tls"}
  /\ conn = "closed" <=> pc \in {"idle", "dial"}
  /\ bound \in {"no", "plain", "tls"}
  /\ groupEntry \in [member : SUBSET DNs, uniqueMember : SUBSET DNs]
  /\ unread \subseteq Inside /\ hits \subseteq Inside
  /\ pending \subseteq DNs /\ members \subseteq DNs
  /\ result \in [kind : {"none", "pong", "ok", "notfound", "error"}, dns : SUBSET DNs]
  /\ ever \subseteq DNs /\ always \subseteq ever /\ changed \in BOOLEAN
  /\ spent \in [Kinds -> Nat]

\* Credentials, of a health check or of a lookup, refused or accepted, travel
\* under TLS unless the provider opted out with insecureSkipTLS (dial,
\* connectAndBind).
CredentialsProtected ==
  bound = "plain" => cfg.transport.insecureSkipTLS /\ ~cfg.transport.ldaps

\* Nobody is granted access who was not in the group: each name returned was
\* listed at some instant of that very call, although the group entry, the
\* pages and the single lookups are read at different times (resolveMembers).
NoPhantomMember == result.kind = "ok" => result.dns \subseteq ever

\* Whom the client cannot find although he is a member: it follows no referral,
\* and of a group that uses both attributes it reads member only.
Overlooked == Foreign \cup (IF cfg.unique = DNs THEN {} ELSE cfg.unique)

\* Nobody loses access by accident: a user under UserSearchBase, in the naming
\* context of this server and in an attribute the client reads, who is a member
\* all through a call that reports success is in its result, whichever of the
\* two paths produced it and whatever changed around him (resolveMembers,
\* lookupUsername: one failed lookup fails the call).
SteadyMemberKept ==
  result.kind \in {"ok", "notfound"} =>
    always \cap Inside \cap Named \subseteq result.dns \cup Overlooked

\* The membership as this server can tell it: every member, by nesting too
\* where the directory supports it, with an entry and a username here.
Resolvable == (Listed \cap entries \cap Named) \ Foreign

\* A call during which nothing changes returns only the membership, without
\* stale DNs, and under UserSearchBase all of it: no page is lost, nesting is
\* followed, and a reverse query that cannot answer is made good for
\* (resolveMembers, membershipFilter).
UndisturbedCallExact ==
  ~changed /\ result.kind = "ok" =>
    /\ result.dns \subseteq Resolvable
    /\ Resolvable \cap Inside \subseteq result.dns \cup Overlooked

\* Not so: docs/wiki/Directory-Backends.md says of Active Directory that
\* referral responses are "returned as errors instead of silently producing
\* partial RBAC", so that a successful call has every steady member under the
\* search base, those in another domain of the forest included.
NoPartialRBAC ==
  cfg.type = "ActiveDirectory" /\ result.kind = "ok" =>
    always \cap Inside \cap Named \subseteq result.dns

\* Not so: api/v1alpha1/ldapprovider_types.go says that UserSearchBase is the
\* base DN "under which user entries are searched", so that nobody outside it
\* is granted access.
SearchBaseRespected == result.kind = "ok" => result.dns \subseteq Inside

=============================================================================
