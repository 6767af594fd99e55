------------------------------- MODULE Frontend -------------------------------
(***************************************************************************)
(* The frontend pods of the server image and the calls they decide:        *)
(* images/server/main.go wires the claim mapper, the authorizer and the    *)
(* interceptor into a server, which this module starts, crashes, rolls     *)
(* over to another environment and calls.                                  *)
(*                                                                         *)
(* The set of blocked task queues is read once, when a process starts,     *)
(* from an environment fixed when its pod was created.  The keys tokens    *)
(* are verified with are fetched when the process starts and refreshed     *)
(* from time to time; Dex keeps them in memory and makes a new one         *)
(* whenever it restarts.                                                   *)
(***************************************************************************)
EXTENDS Authorization, PlaintextPayload

CONSTANTS
  Pods,         \* replicas of the frontend deployment
  Environments, \* values of TEMPORAL_BLOCKED_TASK_QUEUES, as sets of items
  Calls,        \* [api, namespace, queue, body]
  Users,        \* [email, permissions]: those Dex gives tokens to
  NoCall,       \* no call has just been decided
  MaxRollouts,  \* bound: changes of the environment
  MaxKeys,      \* bound: keys of Dex, one more than its restarts
  MaxFaults     \* bound: crashes, failed starts and failed fetches of keys

ASSUME EnvironmentAssumption == Environments \subseteq SUBSET (TaskQueues \cup {NoQueue})
ASSUME CallAssumption ==
  \A c \in Calls : /\ c.namespace \in Namespaces /\ c.queue \in TaskQueues \cup {NoQueue}
                    /\ IsRequest(c.api, c.body)
ASSUME UserAssumption ==
  Users \subseteq [email : Emails, permissions : SUBSET Grants \cup {NoPermissions}]
ASSUME BoundsAssumption ==
  MaxRollouts \in Nat /\ MaxKeys \in Nat \ {0} /\ MaxFaults \in Nat
ASSUME NoTokenAssumption == NoToken \notin Tokens(1..MaxKeys)

VARIABLES
  env,      \* the environment of the deployment's pod template
  pods,     \* per pod its template's environment, process status, what the
            \* process has read of the environment, and the key it knows
  dexKey,   \* the key Dex signs with
  rollouts, \* changes of the environment so far
  faults,   \* faults so far
  last      \* the call decided by the step that led here, or NoCall

vars == <<env, pods, dexKey, rollouts, faults, last>>

Keys == 1..MaxKeys

NoKey == 0

Pod == [template : Environments, status : {"down", "starting", "up"},
        blocked : SUBSET TaskQueues, key : Keys \cup {NoKey}]

NewPod == [template |-> env, status |-> "down", blocked |-> {}, key |-> NoKey]

\* Tokens Dex has issued so far.
Issued ==
  {[key |-> k, email |-> u.email, permissions |-> u.permissions] :
     k \in 1..dexKey, u \in Users}

Init ==
  /\ env \in Environments
  /\ pods = [p \in Pods |-> NewPod]
  /\ dexKey = 1 /\ rollouts = 0 /\ faults = 0 /\ last = NoCall

-----------------------------------------------------------------------------
(* Deployment, pods and processes.                                         *)

SetEnv ==
  /\ rollouts < MaxRollouts
  /\ rollouts' = rollouts + 1
  /\ env' \in Environments \ {env}
  /\ last' = NoCall
  /\ UNCHANGED <<pods, dexKey, faults>>

\* The rollout replaces a pod of the old template.
ReplacePod(p) ==
  /\ pods[p].template # env
  /\ pods' = [pods EXCEPT ![p] = NewPod]
  /\ last' = NoCall
  /\ UNCHANGED <<env, dexKey, rollouts, faults>>

\* Seeded fault: empty items are kept.
MutBlockedQueues(items) == items

\* The items of the environment variable: empty ones are dropped.
BlockedQueues(items) == items \ {NoQueue}

\* The start action as far as the constructors of authorizer and claim mapper.
\* That of the claim mapper goes on without keys if it cannot fetch them.
Construct(p) ==
  /\ pods[p].status = "down"
  /\ \E key \in {dexKey, NoKey} :
       /\ key = NoKey => faults < MaxFaults
       /\ faults' = IF key = NoKey THEN faults + 1 ELSE faults
       /\ pods' = [pods EXCEPT ![p] =
                     [@ EXCEPT !.status = "starting", !.key = key,
                               !.blocked = BlockedQueues(pods[p].template)]]
  /\ last' = NoCall
  /\ UNCHANGED <<env, dexKey, rollouts>>

\* The rest of the start action, up to a server that serves.
Serve(p) ==
  /\ pods[p].status = "starting"
  /\ pods' = [pods EXCEPT ![p].status = "up"]
  /\ last' = NoCall
  /\ UNCHANGED <<env, dexKey, rollouts, faults>>

\* The process ends, because a later constructor failed or for any reason
\* after that.  Its pod stays, and its container is started again.
Exit(p) ==
  /\ faults < MaxFaults
  /\ pods[p].status \in {"starting", "up"}
  /\ pods' = [pods EXCEPT ![p] = [@ EXCEPT !.status = "down", !.blocked = {}, !.key = NoKey]]
  /\ faults' = faults + 1
  /\ last' = NoCall
  /\ UNCHANGED <<env, dexKey, rollouts>>

\* Seeded fault: keys are fetched only by a process that has none.
MutRefreshKeys(p) ==
  /\ pods[p].status \in {"starting", "up"}
  /\ pods[p].key = NoKey
  /\ pods' = [pods EXCEPT ![p].key = dexKey]
  /\ last' = NoCall
  /\ UNCHANGED <<env, dexKey, rollouts, faults>>

\* The token key provider replaces the keys it knows.
RefreshKeys(p) ==
  /\ pods[p].status \in {"starting", "up"}
  /\ pods[p].key # dexKey
  /\ pods' = [pods EXCEPT ![p].key = dexKey]
  /\ last' = NoCall
  /\ UNCHANGED <<env, dexKey, rollouts, faults>>

DexRestart ==
  /\ dexKey < MaxKeys
  /\ dexKey' = dexKey + 1
  /\ last' = NoCall
  /\ UNCHANGED <<env, pods, rollouts, faults>>

-----------------------------------------------------------------------------
(* Calls.  Authorization comes before the interceptor, the interceptor     *)
(* before the handler.                                                     *)

\* The claim mapper refuses a token it has no key for.
Verified(p, token) == token = NoToken \/ token.key = pods[p].key

\* Seeded fault: an error of the server's own mapper is taken for no claims.
MutDecide(p, call, token) ==
  Authorize(pods[p].blocked,
            IF Verified(p, token) THEN GetClaims(token)
              ELSE ApplyPermissions({}, FallbackPermissions(token)), call)

Decide(p, call, token) ==
  Verified(p, token) /\ Authorize(pods[p].blocked, GetClaims(token), call)

\* A call changes nothing that another would see, so each is looked at alone.
Call(p, call, token) ==
  LET admitted == Decide(p, call, token) IN
  /\ last = NoCall
  /\ pods[p].status = "up"
  /\ last' = [pod |-> p, call |-> call, token |-> token, admitted |-> admitted,
              recorded |-> IF admitted THEN Check(call.api, call.body) ELSE <<>>]
  /\ UNCHANGED <<env, pods, dexKey, rollouts, faults>>

PodStep(p) == ReplacePod(p) \/ Construct(p) \/ Serve(p) \/ RefreshKeys(p)

Next ==
  \/ SetEnv
  \/ DexRestart
  \/ \E p \in Pods : PodStep(p) \/ Exit(p)
  \/ \E p \in Pods, c \in Calls, t \in Issued \cup {NoToken} : Call(p, c, t)

Spec == Init /\ [][Next]_vars

\* Kubernetes replaces and restarts, processes start, keys are refreshed.
FairSpec ==
  /\ Spec
  /\ \A p \in Pods : /\ WF_vars(ReplacePod(p)) /\ WF_vars(Construct(p))
                     /\ WF_vars(Serve(p)) /\ WF_vars(RefreshKeys(p))
-----------------------------------------------------------------------------
(* Properties.                                                             *)

Decisions ==
  [pod : Pods, call : Calls, token : Tokens(Keys) \cup {NoToken},
   admitted : BOOLEAN, recorded : Seq(Recording)]

\* Every variable has its type.
TypeOK ==
  /\ env \in Environments
  /\ pods \in [Pods -> Pod]
  /\ dexKey \in Keys
  /\ rollouts \in 0..MaxRollouts
  /\ faults \in 0..MaxFaults
  /\ last = NoCall \/ last \in Decisions

\* No worker gets to poll a queue that the environment of the pod it reached
\* blocks, whatever its roles; once a rollout is complete that is the
\* environment of the deployment (NewCustomAuthorizer, checkTaskQueueRestrictions).
BlockedQueueQuiet ==
  last # NoCall /\ last.admitted /\ IsWorkerPollingAPI(last.call.api) =>
    /\ last.call.queue \notin pods[last.pod].template \ {NoQueue}
    /\ (\A p \in Pods : pods[p].template = env) =>
         last.call.queue \notin env \ {NoQueue}

\* A token whose permissions grant something is decided by them alone: with any
\* other e-mail address it would have been decided alike (GetClaims).
PermissionsPrevail ==
  last # NoCall /\ last.token # NoToken =>
    (last.token.permissions \notin {NoPermissions, {}} =>
       \A email \in Emails :
         last.admitted = Decide(last.pod, last.call, [last.token EXCEPT !.email = email]))

\* Who cannot show a token signed with the key the pod knows is refused
\* everything but health checks, however the pod got to its key.  The server has
\* no other authorizer (main.go:211-219, 274), also where authentication is disabled.
OnlyHealthUnverified ==
  last # NoCall /\ last.admitted /\ Access(last.call.api) # "health" =>
    /\ last.token # NoToken
    /\ last.token.key = pods[last.pod].key
    /\ last.token.key \in 1..dexKey

\* A user the table of addresses makes an administrator is one, however the
\* address is spelled: refused are only polls of blocked queues, and tokens of a
\* key the pod does not know, as after a restart of Dex.
KnownUserServed ==
  last # NoCall /\ last.token # NoToken /\ ~last.admitted =>
    (last.token.permissions = NoPermissions =>
       \/ ToLower[last.token.email] \notin DOMAIN emailPermissions
       \/ last.token.key # pods[last.pod].key
       \/ IsWorkerPollingAPI(last.call.api) /\ last.call.queue \in pods[last.pod].template)

\* Of an admitted request the interceptor records each unencrypted payload once,
\* and of a refused one nothing (check).  Payloads in parts it has no case for
\* (PassedOver) it does not record, although the comment on it speaks of whatever
\* "carries a payload with an unencrypted encoding" (lines 39-40).
CountedOnce ==
  last # NoCall =>
    Len(last.recorded) =
      IF last.admitted THEN PlainPayloads(last.call.api, last.call.body) ELSE 0

\* After the last change, restart of Dex and fault, all pods serve, block what
\* the deployment says, and know the key Dex signs with.
EventuallyConsistent ==
  <>[](\A p \in Pods : /\ pods[p].status = "up"
                       /\ pods[p].blocked = BlockedQueues(env)
                       /\ pods[p].key = dexKey)

\* Any authenticated user may read in the default namespace
\* (claim_mapper.go:24-28 "Grants worker + reader on the default namespace").
DocumentedRoles ==
  last # NoCall /\ last.token # NoToken =>
    (last.token.permissions = NoPermissions =>
       \/ last.admitted
       \/ last.token.key # pods[last.pod].key
       \/ Access(last.call.api) # "read" \/ last.call.namespace # "default")
=============================================================================
