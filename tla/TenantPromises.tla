--------------------------- MODULE TenantPromises --------------------------
(***************************************************************************)
(* The rows that registration, the administrators and the onboarding       *)
(* workflow share, and what holds of them whoever writes: the state and    *)
(* the promises that TenantRegistration keeps.                             *)
(***************************************************************************)
CONSTANTS
  Req,      \* registration requests: each Submit makes a new id
  Slug,
  Call      \* an HTTP request, or an execution of the workflow

VARIABLES
  request,  \* the rows of the requests
  tenant,   \* the tenants, by slug (which is their id), and the call that made them
  call      \* the calls: what, of which request or slug, the next step, what was read

Creators == {"onboard", "workflow", "create"}

\* However calls for one slug interleave, fail and are repeated, one of them is
\* given it: a call that answered with a tenant made that tenant, and an active
\* request names the tenant that was made for it (the look at the slug and the
\* insert are two steps of AggregateService.Create).
SlugGivenOnce ==
  /\ \A c \in Call : call[c].kind \in Creators /\ call[c].step = "done" => tenant[call[c].slug].by = c
  /\ \A r \in Req : request[r].status = "active" =>
       \E c \in Call : /\ call[c].kind = "onboard" /\ call[c].req = r
                       /\ tenant[request[r].tenant].by = c

\* A tenant that was made for a request was made after its address was verified,
\* and the request never falls back behind that, whatever late call saves it.
TenantIsVerified ==
  \A s \in Slug, c \in Call :
    tenant[s].by = c /\ call[c].kind \in {"onboard", "workflow"} =>
      request[call[c].req].status \in {"verified", "active"}
=============================================================================
