------------------------------ MODULE MCClients ------------------------------
(* The instance of ClientMetadata that TLC checks. *)
EXTENDS ClientMetadata, TLC

CONSTANTS u1, u2

Document(u, scope, header, value) ==
    [client_id |-> u, redirect_uris |-> {"https"}, grant_types |-> {}, well_formed |-> TRUE,
     auth_method |-> "none", scope |-> scope, header |-> header, value |-> value]

\* A document for each kind of cache header: one claims no scope and one a scope the
\* server does not serve; a site that serves the other's document fails the ID check.
MCDocuments ==
    {Document(u1, {"read"}, "max-age", 1),
     Document(u1, {}, "expires", 2),
     Document(u2, {"read"}, "silent", 0),
     Document(u2, {"admin"}, "no-store", 0)}

RequestSymmetry == Permutations(Requests)
=============================================================================
