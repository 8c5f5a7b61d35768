-------------------------- MODULE RequestPoolLease --------------------------
(***************************************************************************)
(* The pools, routes and error handler implement DtoLease: under every     *)
(* interleaving an object is lent to one request at a time.                *)
(***************************************************************************)
EXTENDS RequestPool

CONSTANT NoRequest

ASSUME LeaseAssumption == NoRequest \notin Requests

\* Who is responsible for an object
Owner(d) == IF \E r \in Requests : d \in Held(r)
            THEN CHOOSE r \in Requests : d \in Held(r)
            ELSE NoRequest

Lease == INSTANCE DtoLease
    WITH Clients <- Requests, Items <- Dtos, Nobody <- NoRequest,
         owner <- [d \in Dtos |-> Owner(d)],
         contents <- [d \in Dtos |-> Contents(d)]

\* The lease of an object is exclusive, starts and ends empty, and the texts of
\* one request never meet those of another (lib/Utils/Router.ts).
LeaseSpec == Lease!Spec
=============================================================================
