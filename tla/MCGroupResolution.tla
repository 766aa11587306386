------------------------- MODULE MCGroupResolution -------------------------
(* Small instances of GroupResolution for TLC. *)
EXTENDS GroupResolution

CONSTANTS a, b, c, x, y

StartTLSOnly == {[ldaps |-> FALSE, insecureSkipTLS |-> FALSE]}
LDAPS == {[ldaps |-> TRUE, insecureSkipTLS |-> FALSE]}

\* One call.  Torn: the directory changes twice, and one request may fail; one
\* member lies outside the search base.
Torn == [dns |-> {a, b, x}, uniques |-> {{}, DNs}, pageSize |-> 1,
         transports |-> StartTLSOnly,
         moves |-> [call |-> 1, change |-> 2, fault |-> 1]]

\* TornForest: the same with a member in another naming context under the
\* search base, and with groups that use both attributes.
TornForest == [dns |-> {a, b, y}, uniques |-> {{}, {b}}, pageSize |-> 1,
               transports |-> LDAPS,
               moves |-> [call |-> 1, change |-> 1, fault |-> 1]]

\* Still: more entries, every transport, the directory stands still.
Still == [dns |-> DNs, uniques |-> {{}, DNs, {b}}, pageSize |-> 2,
          transports |-> [ldaps : BOOLEAN, insecureSkipTLS : BOOLEAN],
          moves |-> [call |-> 1, change |-> 0, fault |-> 1]]

All == {Torn, TornForest, Still}

=============================================================================
