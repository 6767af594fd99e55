---------------------------- MODULE Authorization ----------------------------
(***************************************************************************)
(* The claim mapper and the authorizer of the server image                 *)
(* (images/server/auth): what roles a token gives its bearer and which     *)
(* calls these roles allow, as operators on tokens and calls.              *)
(*                                                                         *)
(* Claims are a set of grants <<scope, role>>, where a scope is a          *)
(* namespace or "temporal-system"; Claims.System holds the roles of the    *)
(* latter, Claims.Namespaces those of the former.  The permissions a token *)
(* carries are such grants too: the expression that splits them is the     *)
(* server's.                                                               *)
(***************************************************************************)
EXTENDS FiniteSets

CONSTANTS
  Namespaces,   \* of the cluster, "default" among them
  TaskQueues,   \* names of task queues
  Emails,       \* e-mail addresses of users, as identity providers write them
  ToLower,      \* strings.ToLower on Emails
  NoQueue,      \* the empty task queue name
  NoToken       \* a call without an authorization header

ASSUME NamespaceAssumption ==
  "default" \in Namespaces /\ "temporal-system" \notin Namespaces
ASSUME EmailAssumption == ToLower \in [Emails -> Emails]
ASSUME QueueAssumption == NoQueue \notin TaskQueues

Scopes == Namespaces \cup {"temporal-system"}

Roles == {"Reader", "Writer", "Worker", "Admin"}

Grants == Scopes \X Roles

\* A token without a permissions claim.
NoPermissions == {<<"no", "permissions">>}

\* A token: the key that signed it and the two claims that are looked at.  The
\* e-mail is what extractEmailFromBearer finds in the payload.
Tokens(keys) ==
  [key : keys, email : Emails, permissions : SUBSET Grants \cup {NoPermissions}]

-----------------------------------------------------------------------------
(* The claim mapper.                                                       *)

emailPermissions ==
  [email \in {"admin@temporal.io"} |->
     {<<"temporal-system", "admin">>, <<"default", "admin">>}]

defaultAuthenticatedPermissions ==
  {<<"default", "worker">>, <<"default", "reader">>}

\* The roles of the names the mapper knows.
RoleNames ==
  [read |-> "Reader", write |-> "Writer", admin |-> "Admin", worker |-> "Worker"]

\* Entries whose role has no such name are skipped.
ApplyPermissions(claims, perms) ==
  claims \cup
    {<<p[1], RoleNames[p[2]]>> : p \in {q \in perms : q[2] \in DOMAIN RoleNames}}

\* The server's own mapper, for a token it has verified.
DefaultClaims(token) ==
  IF token = NoToken \/ token.permissions = NoPermissions
    THEN {} ELSE token.permissions

\* Seeded fault: the address is looked up as it was written.
MutFallbackPermissions(token) ==
  IF token.email \in DOMAIN emailPermissions
    THEN emailPermissions[token.email]
    ELSE defaultAuthenticatedPermissions

\* Permissions for a token that brings no roles of its own.
FallbackPermissions(token) ==
  LET email == ToLower[token.email] IN
  IF email \in DOMAIN emailPermissions
    THEN emailPermissions[email]
    ELSE defaultAuthenticatedPermissions

\* Seeded fault: roles of the e-mail address are added to those of the token.
MutGetClaims(token) ==
  IF token = NoToken
    THEN {}
    ELSE ApplyPermissions(DefaultClaims(token), FallbackPermissions(token))

GetClaims(token) ==
  LET claims == DefaultClaims(token) IN
  IF claims # {} \/ token = NoToken
    THEN claims
    ELSE ApplyPermissions(claims, FallbackPermissions(token))

-----------------------------------------------------------------------------
(* The authorizer.  A call names its API, its namespace and, if the request *)
(* has one, its task queue.                                                *)

\* What a caller must be allowed to do to call an API, and below what the holder
\* of a role may do, as the table of roles in the README of the chart has it.
Access(api) ==
  CASE api = "HealthCheck" -> "health"
    [] api \in {"PollWorkflowTaskQueue", "PollActivityTaskQueue",
                "RespondWorkflowTaskCompleted", "RespondWorkflowTaskFailed",
                "RespondActivityTaskCompleted", "RespondActivityTaskFailed",
                "RecordActivityTaskHeartbeat"} -> "work"
    [] api \in {"DescribeNamespace", "QueryWorkflow"} -> "read"
    [] api = "UpdateNamespace" -> "administer"
    [] OTHER -> "write"

Allows(role) ==
  CASE role = "Reader" -> {"read"}
    [] role = "Writer" -> {"read", "write"}
    [] role = "Worker" -> {"work"}
    [] OTHER -> {"read", "write", "work", "administer"}

\* The server's own authorizer.
DefaultAuthorize(claims, call) ==
  \/ Access(call.api) = "health"
  \/ \E g \in claims :
       g[1] \in {"temporal-system", call.namespace} /\ Access(call.api) \in Allows(g[2])

IsWorkerPollingAPI(api) == api \in {"PollWorkflowTaskQueue", "PollActivityTaskQueue"}

\* A worker polls a queue that this server was started to block.
Restricted(blocked, call) ==
  /\ call.queue # NoQueue
  /\ call.queue \in blocked
  /\ IsWorkerPollingAPI(call.api)

\* Seeded fault: administrators may poll any queue.
MutAuthorize(blocked, claims, call) ==
  /\ ~Restricted(blocked, call) \/ \E g \in claims : g[2] = "Admin"
  /\ DefaultAuthorize(claims, call)

Authorize(blocked, claims, call) ==
  ~Restricted(blocked, call) /\ DefaultAuthorize(claims, call)
=============================================================================
