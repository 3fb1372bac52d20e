--------------------------- MODULE MCServiceTable ---------------------------
(* A small instance of ServiceTable. *)
EXTENDS ServiceTable, TLC

CONSTANTS n1, n2, s1, s2, a1, a2, k1, k2, c1

\* Both services have the key k2: the first keeps it private in its specification
\* and overrides that, the second has its events there.
MCEndpointOf == n1 :> <<s1, a1>> @@ n2 :> <<s2, a2>>
MCRoutesInfo == s1 :> {<<k1, FALSE>>, <<k2, TRUE>>} @@ s2 :> {<<k1, TRUE>>}
MCPrivateOverrides == s1 :> {<<k2, FALSE>>} @@ s2 :> {}
MCEventsAPIs == s1 :> {} @@ s2 :> {k2}
MCAPILimiters == [s \in Service |-> [k \in Api |-> NoLimiter]]
\* Both services are required, by their names.
MCNameOf == s1 :> "s1" @@ s2 :> "s2"
MCRequired == <<"s1", "s2">>
=============================================================================
