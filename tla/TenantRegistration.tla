------------------------ MODULE TenantRegistration -------------------------
(***************************************************************************)
(* Self-service registration (internal/registration) and the tenants it    *)
(* creates (internal/tenant/aggregate.go), with what else creates or moves *)
(* a tenant: the administrators' API (cmd/mc-api/tenant_admin_handlers.go) *)
(* and TenantOnboardingWorkflow (internal/workflow/tenant_onboarding.go).  *)
(*                                                                         *)
(* Each repository locks for one call only, so a service method is a       *)
(* sequence of steps: a row is read, a new value computed from what was    *)
(* read, and the whole row (request) or its status (tenant) written.  A    *)
(* call is one HTTP request, or one execution of the workflow.             *)
(***************************************************************************)
EXTENDS TenantPromises, Naturals, FiniteSets

CONSTANTS
  Email, EmailOf,
  SlugOf,    \* the slug a request asks for
  Kinds,     \* what a call may be, for each call: see KindsOfCall
  MaxFaults  \* bound: calls of a repository that fail, or whose reply is lost

KindsOfCall == {"verify", "onboard", "workflow", "create", "activate", "suspend", "archive"}

ASSUME RegistrationAssumption ==
  /\ EmailOf \in [Req -> Email] /\ SlugOf \in [Req -> Slug]
  /\ Kinds \in [Call -> SUBSET KindsOfCall] /\ MaxFaults \in Nat
  /\ "none" \notin Req \cup Call

VARIABLES
  byEmail,  \* the latest request of an address
  faults

vars == <<request, byEmail, tenant, call, faults>>

NoReq == [status |-> "none", tenant |-> "none"]
NoTenant == [status |-> "none", by |-> "none"]
CallOf(kind, r, s, step, read) == [kind |-> kind, req |-> r, slug |-> s, step |-> step, read |-> read]
Idle == CallOf("none", "none", "none", "new", "none")

Steps == {"new", "save", "look", "insert", "get", "put", "close", "done", "refused"}
Statuses == {"pending", "verified", "active"}

Init ==
  /\ request = [r \in Req |-> NoReq]
  /\ byEmail = [e \in Email |-> "none"]
  /\ tenant = [s \in Slug |-> NoTenant]
  /\ call = [c \in Call |-> Idle]
  /\ faults = 0

\* The transition table of a tenant.
Moves == {<<"provisioning", "activate", "active">>, <<"provisioning", "archive", "archived">>,
          <<"active", "suspend", "suspended">>, <<"active", "archive", "archived">>,
          <<"suspended", "activate", "active">>, <<"suspended", "archive", "archived">>}

Goes(c, to) == call' = [call EXCEPT ![c].step = to]

At(c, step) == call[c].step = step

-----------------------------------------------------------------------------
(* The requests *)

\* A second request of an address replaces the first, unless that is active.
Submit(r) ==
  /\ request[r].status = "none"
  /\ LET prior == byEmail[EmailOf[r]]
     IN prior # "none" => request[prior].status # "active"
  /\ request' = [request EXCEPT ![r].status = "pending"]
  /\ byEmail' = [byEmail EXCEPT ![EmailOf[r]] = r]
  /\ UNCHANGED <<tenant, call, faults>>

\* A new call, of a request.
Begins(c, r, kind) ==
  /\ At(c, "new") /\ kind \in Kinds[c] /\ request[r].status # "none"

ReadRequest(c, r, s, kind, next) ==
  call' = [call EXCEPT ![c] = CallOf(kind, r, s, next, request[r].status)]

\* Verify: the row, the token, which may have run out, and the transition table.
VerifyLoad(c, r) ==
  /\ Begins(c, r, "verify")
  /\ \/ request[r].status = "pending" /\ ReadRequest(c, r, SlugOf[r], "verify", "save")
     \/ ReadRequest(c, r, SlugOf[r], "verify", "refused")
  /\ UNCHANGED <<request, byEmail, tenant, faults>>

\* The row is written as it was read, but for the status.
VerifySave(c) ==
  /\ At(c, "save") /\ call[c].kind = "verify"
  /\ request' = [request EXCEPT ![call[c].req] = [status |-> "verified", tenant |-> "none"]]
  /\ Goes(c, "done")
  /\ UNCHANGED <<byEmail, tenant, faults>>

\* Slip: the status is not looked at.
MayOnboardUnverified(status) == status # "active"

\* Neither pending nor active: the table leads to onboarding from verified only.
MayOnboard(status) == status = "verified"

OnboardLoad(c, r) ==
  /\ Begins(c, r, "onboard")
  /\ ReadRequest(c, r, SlugOf[r], "onboard", IF MayOnboard(request[r].status) THEN "look" ELSE "refused")
  /\ UNCHANGED <<request, byEmail, tenant, faults>>

\* MarkActive and Save: the last step of CompleteOnboarding.
OnboardSave(c) ==
  /\ At(c, "close") /\ call[c].kind = "onboard"
  /\ request' = [request EXCEPT ![call[c].req] = [status |-> "active", tenant |-> call[c].slug]]
  /\ Goes(c, "done")
  /\ UNCHANGED <<byEmail, tenant, faults>>

-----------------------------------------------------------------------------
(* The tenants *)

\* The administrators' POST /tenants.
AdminCreate(c, s) ==
  /\ At(c, "new") /\ "create" \in Kinds[c]
  /\ call' = [call EXCEPT ![c] = CallOf("create", "none", s, "look", "none")]
  /\ UNCHANGED <<request, byEmail, tenant, faults>>

\* checkSlugUnique.
Look(c) ==
  /\ At(c, "look")
  /\ Goes(c, IF tenant[call[c].slug] = NoTenant THEN "insert" ELSE "refused")
  /\ UNCHANGED <<request, byEmail, tenant, faults>>

\* Slip: a tenant is created operational.
ProvisionedActive(c) == [status |-> "active", by |-> c]

\* A new tenant takes no traffic before it is activated.
Provisioned(c) == [status |-> "provisioning", by |-> c]

\* After the insert: CompleteOnboarding activates, the others are done with the tenant.
AfterInsert(c) == IF call[c].kind = "onboard" THEN "get" ELSE "done"

\* Slip: the insert trusts the look.
FreeOnTrust(s) == TRUE

\* Under the lock, or by the unique index: the slug is free.
FreeSlug(s) == tenant[s] = NoTenant

Insert(c) ==
  /\ At(c, "insert") /\ FreeSlug(call[c].slug)
  /\ tenant' = [tenant EXCEPT ![call[c].slug] = Provisioned(c)]
  /\ Goes(c, AfterInsert(c))
  /\ UNCHANGED <<request, byEmail, faults>>

InsertRefused(c) ==
  /\ At(c, "insert") /\ ~FreeSlug(call[c].slug)
  /\ Goes(c, "refused")
  /\ UNCHANGED <<request, byEmail, tenant, faults>>

\* Activate, Suspend and Archive of the administrators.
AdminMove(c, s, kind) ==
  /\ At(c, "new") /\ kind \in Kinds[c] /\ tenant[s] # NoTenant
  /\ call' = [call EXCEPT ![c] = CallOf(kind, "none", s, "get", "none")]
  /\ UNCHANGED <<request, byEmail, tenant, faults>>

\* What a call asks of the table.
Asked(c) == IF call[c].kind = "onboard" THEN "activate" ELSE call[c].kind

\* transition: the tenant is read and the table asked ...
GetTenant(c) ==
  /\ At(c, "get")
  /\ \/ \E to \in {"active", "suspended", "archived"} :
          /\ <<tenant[call[c].slug].status, Asked(c), to>> \in Moves
          /\ call' = [call EXCEPT ![c].step = "put", ![c].read = to]
     \/ /\ \A to \in {"active", "suspended", "archived"} :
             <<tenant[call[c].slug].status, Asked(c), to>> \notin Moves
        /\ Goes(c, "refused")
  /\ UNCHANGED <<request, byEmail, tenant, faults>>

\* ... and the answer saved.
PutStatus(c) ==
  /\ At(c, "put")
  /\ tenant' = [tenant EXCEPT ![call[c].slug].status = call[c].read]
  /\ Goes(c, IF call[c].kind = "onboard" THEN "close" ELSE "done")
  /\ UNCHANGED <<request, byEmail, faults>>

-----------------------------------------------------------------------------
(* The workflow, and failures *)

\* ValidateRegistration; ProvisionTenant is Create of the tenants, of the slug the
\* workflow was given, which nothing compares with the request's.
WorkflowValidate(c, r, s) ==
  /\ Begins(c, r, "workflow")
  /\ ReadRequest(c, r, s, "workflow", IF MayOnboard(request[r].status) THEN "look" ELSE "refused")
  /\ UNCHANGED <<request, byEmail, tenant, faults>>

\* ProvisionTenant creates the tenant, its reply is lost, and the activity is
\* tried again; a later activity fails: the rollback removes nothing.
WorkflowFails(c) ==
  /\ call[c].kind = "workflow" /\ faults < MaxFaults
  /\ \/ /\ At(c, "insert") /\ FreeSlug(call[c].slug)
        /\ tenant' = [tenant EXCEPT ![call[c].slug] = Provisioned(c)]
        /\ Goes(c, "look")
     \/ At(c, "done") /\ Goes(c, "refused") /\ UNCHANGED tenant
  /\ faults' = faults + 1
  /\ UNCHANGED <<request, byEmail>>

\* A repository fails and the call ends with its error.
StoreFails(c) ==
  /\ call[c].step \in {"save", "look", "insert", "get", "put", "close"}
  /\ faults < MaxFaults /\ faults' = faults + 1
  /\ Goes(c, "refused")
  /\ UNCHANGED <<request, byEmail, tenant>>

-----------------------------------------------------------------------------
Proceeds(c) ==
  \/ VerifySave(c) \/ OnboardSave(c) \/ Look(c) \/ Insert(c) \/ InsertRefused(c)
  \/ GetTenant(c) \/ PutStatus(c)

Next ==
  \/ \E r \in Req : Submit(r)
  \/ \E c \in Call :
       \/ Proceeds(c) \/ WorkflowFails(c) \/ StoreFails(c)
       \/ \E r \in Req : VerifyLoad(c, r) \/ OnboardLoad(c, r)
       \/ \E s \in Slug :
            \/ AdminCreate(c, s)
            \/ \E r \in Req : WorkflowValidate(c, r, s)
            \/ \E kind \in {"activate", "suspend", "archive"} : AdminMove(c, s, kind)

Spec == Init /\ [][Next]_vars

\* A handler runs to its end.
FairSpec == Spec /\ \A c \in Call : WF_vars(Proceeds(c))

-----------------------------------------------------------------------------
(* Properties *)

TypeOK ==
  /\ request \in [Req -> [status : Statuses \cup {"none"}, tenant : Slug \cup {"none"}]]
  /\ byEmail \in [Email -> Req \cup {"none"}]
  /\ tenant \in [Slug -> [status : {"none", "provisioning", "active", "suspended", "archived"},
                          by : Call \cup {"none"}]]
  /\ call \in [Call -> [kind : KindsOfCall \cup {"none"}, req : Req \cup {"none"},
                        slug : Slug \cup {"none"}, step : Steps,
                        read : Statuses \cup {"none", "suspended", "archived"}]]
  /\ faults \in 0 .. MaxFaults

\* The only call that asks for the tenant of the slug of a request.
Alone(c) ==
  \A d \in Call \ {c} :
    call[d].slug = call[c].slug => call[d].kind \in {"none", "verify", "onboard"}

\* Where no repository fails and nobody else wants the slug, an onboarding that
\* found its request verified makes it active or finds that another onboarding
\* of the slug has: two concurrent ones do not refuse each other.
OnboardingEnds ==
  \A c \in {x \in Call : "onboard" \in Kinds[x]} :
    At(c, "look") /\ call[c].kind = "onboard" ~>
      \/ \E d \in Call : call[d].kind = "onboard" /\ At(d, "done") /\ call[d].slug = call[c].slug
      \/ ~Alone(c) \/ faults > 0

-----------------------------------------------------------------------------
(* Refuted: see the README *)

\* "StatusActive is the terminal status" (internal/registration/registration.go:39).
ActiveIsTerminal ==
  [][\A r \in Req : request[r].status = "active" => request'[r].status = "active"]_vars

\* "StatusArchived is terminal" (internal/tenant/aggregate.go:26).
ArchivedIsTerminal ==
  [][\A s \in Slug : tenant[s].status = "archived" => tenant'[s].status = "archived"]_vars

\* A request that is not active leaves its slug to be had: "runs RollbackRecord
\* to delete the row" (internal/workflow/tenant_onboarding.go:177).
RefusedLeavesNothing ==
  \A c \in Call : At(c, "refused") => \A s \in Slug : tenant[s].by # c
=============================================================================
