---------------------------- MODULE FrontendProofs ----------------------------
(***************************************************************************)
(* Proofs about Frontend: for any number of pods, namespaces, queues,      *)
(* users, calls, rollouts, restarts of Dex and faults.                     *)
(***************************************************************************)
EXTENDS Frontend, PlaintextPayloadProofs, TLAPS

\* The types of all but the call just decided.
StateTypeOK ==
  /\ env \in Environments
  /\ pods \in [Pods -> Pod]
  /\ dexKey \in Keys
  /\ rollouts \in 0..MaxRollouts
  /\ faults \in 0..MaxFaults

\* A process blocks what its pod was made with.
BlocksItsEnvironment ==
  \A p \in Pods : pods[p].status # "down" =>
                    pods[p].blocked = BlockedQueues(pods[p].template)

\* Keys were made before anyone knows them.
KeysWereMade == \A p \in Pods : pods[p].key <= dexKey

\* What has just been decided was decided by the pod as it still is.
JustDecided ==
  last # NoCall =>
    /\ last \in Decisions
    /\ last.token \in Issued \cup {NoToken}
    /\ pods[last.pod].status = "up"
    /\ last.admitted = Decide(last.pod, last.call, last.token)
    /\ last.recorded = IF last.admitted THEN Check(last.call.api, last.call.body) ELSE <<>>

FInv == StateTypeOK /\ BlocksItsEnvironment /\ KeysWereMade /\ JustDecided

-----------------------------------------------------------------------------

\* Tokens Dex has issued are tokens, and not the lack of one.
LEMMA IssuedAreTokens ==
  ASSUME StateTypeOK
  PROVE  \A t \in Issued : /\ t \in Tokens(Keys) /\ t # NoToken
                           /\ t.key \in 1..dexKey
<1> SUFFICES ASSUME NEW t \in Issued
             PROVE  t \in Tokens(Keys) /\ t # NoToken /\ t.key \in 1..dexKey
  OBVIOUS
<1>1. PICK k \in 1..dexKey, u \in Users :
        t = [key |-> k, email |-> u.email, permissions |-> u.permissions]
  BY DEF Issued
<1>2. k \in Keys
  BY BoundsAssumption DEF StateTypeOK, Keys
<1>3. u.email \in Emails /\ u.permissions \in SUBSET Grants \cup {NoPermissions}
  BY UserAssumption
<1>4. t \in Tokens(Keys)
  BY <1>1, <1>2, <1>3 DEF Tokens
<1> QED BY <1>1, <1>4, NoTokenAssumption DEF Keys

\* What a process reads of its environment is a set of queues.
LEMMA BlockedType ==
  ASSUME NEW items \in Environments
  PROVE  BlockedQueues(items) \in SUBSET TaskQueues
BY EnvironmentAssumption DEF BlockedQueues

\* What the interceptor records of a call.
LEMMA RecordedOfCall ==
  ASSUME NEW call \in Calls
  PROVE  /\ Check(call.api, call.body) \in Seq(Recording)
         /\ Len(Check(call.api, call.body)) = PlainPayloads(call.api, call.body)
BY CallAssumption, EachPayloadOnce

LEMMA FStarts == Init => FInv
<1> SUFFICES ASSUME Init PROVE FInv
  OBVIOUS
<1>1. NewPod \in Pod
  BY DEF Init, NewPod, Pod
<1>2. StateTypeOK
  BY <1>1, BoundsAssumption DEF Init, StateTypeOK, Keys
<1> QED
  BY <1>1, <1>2
  DEF Init, FInv, BlocksItsEnvironment, KeysWereMade, JustDecided, NewPod, NoKey

LEMMA FSteps == FInv /\ [Next]_vars => FInv'
<1> SUFFICES ASSUME FInv, [Next]_vars PROVE FInv'
  OBVIOUS
<1> USE BoundsAssumption
        DEF FInv, StateTypeOK, BlocksItsEnvironment, KeysWereMade, JustDecided, Keys, NoKey
<1>1. CASE SetEnv
  BY <1>1 DEF SetEnv
<1>2. CASE DexRestart
  <2>1. dexKey' \in Keys /\ dexKey < dexKey'
    BY <1>2 DEF DexRestart
  <2> QED BY <1>2, <2>1 DEF DexRestart, Pod
<1>3. ASSUME NEW p \in Pods, ReplacePod(p) PROVE FInv'
  <2>1. NewPod \in Pod /\ NewPod.status = "down" /\ NewPod.key = NoKey
    BY DEF NewPod, Pod
  <2> QED BY <1>3, <2>1 DEF ReplacePod
<1>4. ASSUME NEW p \in Pods, Construct(p) PROVE FInv'
  <2>1. pods[p].template \in Environments
    BY DEF Pod
  <2>2. BlockedQueues(pods[p].template) \in SUBSET TaskQueues
    BY <2>1, BlockedType
  <2>3. PICK key \in {dexKey, NoKey} :
          /\ key = NoKey => faults < MaxFaults
          /\ faults' = IF key = NoKey THEN faults + 1 ELSE faults
          /\ pods' = [pods EXCEPT ![p] =
                        [@ EXCEPT !.status = "starting", !.key = key,
                                  !.blocked = BlockedQueues(pods[p].template)]]
    BY <1>4 DEF Construct
  <2>4. pods' \in [Pods -> Pod]
    BY <2>2, <2>3 DEF Pod
  <2>5. faults' \in 0..MaxFaults
    BY <2>3
  <2> QED BY <1>4, <2>3, <2>4, <2>5 DEF Construct, Pod
<1>5. ASSUME NEW p \in Pods, Serve(p) PROVE FInv'
  <2>1. pods' \in [Pods -> Pod]
    BY <1>5 DEF Serve, Pod
  <2> QED BY <1>5, <2>1 DEF Serve, Pod
<1>6. ASSUME NEW p \in Pods, RefreshKeys(p) PROVE FInv'
  <2>1. pods' \in [Pods -> Pod]
    BY <1>6 DEF RefreshKeys, Pod
  <2> QED BY <1>6, <2>1 DEF RefreshKeys, Pod
<1>7. ASSUME NEW p \in Pods, Exit(p) PROVE FInv'
  <2>1. pods' \in [Pods -> Pod]
    BY <1>7 DEF Exit, Pod
  <2> QED BY <1>7, <2>1 DEF Exit, Pod
<1>8. ASSUME NEW p \in Pods, NEW c \in Calls, NEW t \in Issued \cup {NoToken}, Call(p, c, t)
      PROVE  FInv'
  <2>1. Issued' = Issued
    BY <1>8 DEF Call, Issued
  <2>2. \A q, d, s : Decide(q, d, s)' <=> Decide(q, d, s)
    BY <1>8 DEF Call, Decide, Verified
  <2>3. last' \in Decisions
    <3>1. t \in Tokens(Keys) \cup {NoToken}
      BY IssuedAreTokens
    <3>2. Decide(p, c, t) \in BOOLEAN
      BY DEF Decide
    <3> HIDE DEF Keys
    <3>3. (IF Decide(p, c, t) THEN Check(c.api, c.body) ELSE <<>>) \in Seq(Recording)
      BY RecordedOfCall
    <3> QED
      BY <1>8, <3>1, <3>2, <3>3 DEF Call, Decisions
  <2>4. JustDecided'
    BY <1>8, <2>1, <2>2, <2>3 DEF Call
  <2> QED BY <1>8, <2>4 DEF Call
<1>9. CASE UNCHANGED vars
  BY <1>9 DEF vars, Issued, Decide, Verified
<1> QED
  BY <1>1, <1>2, <1>3, <1>4, <1>5, <1>6, <1>7, <1>8, <1>9 DEF Next, PodStep

LEMMA FInvariant == Spec => []FInv
  BY FStarts, FSteps, PTL DEF Spec
-----------------------------------------------------------------------------
(* What follows from the invariant.                                        *)

\* Every variable has its type, with every request the server's API has.
THEOREM FrontendTypeCorrect == Spec => []TypeOK
<1>1. ASSUME FInv PROVE TypeOK
  BY <1>1 DEF FInv, StateTypeOK, JustDecided, TypeOK
<1> QED BY <1>1, FInvariant, PTL

\* Whatever is called, with however many fields, commands, causes and operations
\* in it: of an admitted request each unencrypted payload is recorded once, but for
\* those at PassedOver, of a refused one nothing (plaintext_payload.go, Intercept
\* and check).
THEOREM PayloadsAreCounted == Spec => []CountedOnce
<1>1. ASSUME FInv PROVE CountedOnce
  <2> SUFFICES ASSUME last # NoCall
               PROVE  Len(last.recorded) =
                        IF last.admitted THEN PlainPayloads(last.call.api, last.call.body) ELSE 0
    BY DEF CountedOnce
  <2>1. /\ last.call \in Calls
        /\ last.recorded = IF last.admitted THEN Check(last.call.api, last.call.body) ELSE <<>>
    BY <1>1 DEF FInv, JustDecided, Decisions
  <2> QED BY <2>1, RecordedOfCall
<1> QED BY <1>1, FInvariant, PTL

\* A poll that was admitted was of a queue its pod's environment does not block.
LEMMA AdmittedPoll ==
  ASSUME FInv, last # NoCall, last.admitted, IsWorkerPollingAPI(last.call.api)
  PROVE  last.call.queue \notin pods[last.pod].template \ {NoQueue}
<1>1. /\ last.pod \in Pods
      /\ ~Restricted(pods[last.pod].blocked, last.call)
  BY DEF FInv, JustDecided, Decisions, Decide, Authorize
<1>2. pods[last.pod].blocked = BlockedQueues(pods[last.pod].template)
  BY <1>1 DEF FInv, JustDecided, Decisions, BlocksItsEnvironment
<1> QED BY <1>1, <1>2 DEF Restricted, BlockedQueues

\* No role opens a blocked queue, and a completed rollout blocks all that the
\* deployment says, for any number of pods (authorizer.go, checkTaskQueueRestrictions).
THEOREM BlockedIsBlocked == Spec => []BlockedQueueQuiet
<1>1. ASSUME FInv PROVE BlockedQueueQuiet
  <2> SUFFICES ASSUME last # NoCall, last.admitted, IsWorkerPollingAPI(last.call.api)
               PROVE  /\ last.call.queue \notin pods[last.pod].template \ {NoQueue}
                      /\ (\A p \in Pods : pods[p].template = env) =>
                           last.call.queue \notin env \ {NoQueue}
    BY DEF BlockedQueueQuiet
  <2>1. last.pod \in Pods
    BY <1>1 DEF FInv, JustDecided, Decisions
  <2> QED BY <1>1, <2>1, AdmittedPoll
<1> QED BY <1>1, FInvariant, PTL

\* Claims of a token that grants something are its permissions.
LEMMA OwnClaims ==
  ASSUME NEW t, t # NoToken, t.permissions \notin {NoPermissions, {}}
  PROVE  GetClaims(t) = t.permissions
BY DEF GetClaims, DefaultClaims

\* Permissions in a token are not added to by its e-mail address, for any address
\* and any permissions (claim_mapper.go, GetClaims).
THEOREM PermissionsDecide == Spec => []PermissionsPrevail
<1>1. ASSUME FInv PROVE PermissionsPrevail
  <2> SUFFICES ASSUME last # NoCall, last.token # NoToken,
                      last.token.permissions \notin {NoPermissions, {}},
                      NEW email \in Emails
               PROVE  last.admitted =
                        Decide(last.pod, last.call, [last.token EXCEPT !.email = email])
    BY DEF PermissionsPrevail
  <2> DEFINE t == [last.token EXCEPT !.email = email]
  <2>1. /\ last.token \in Tokens(Keys)
        /\ last.admitted = Decide(last.pod, last.call, last.token)
    BY <1>1, IssuedAreTokens DEF FInv, JustDecided
  <2>2. /\ t \in Tokens(Keys) /\ t.key = last.token.key
        /\ t.permissions = last.token.permissions
    BY <2>1 DEF Tokens
  <2>3. t # NoToken
    BY <2>2, NoTokenAssumption DEF Keys
  <2>4. GetClaims(t) = GetClaims(last.token)
    BY <2>2, <2>3, OwnClaims
  <2>5. Verified(last.pod, t) = Verified(last.pod, last.token)
    BY <2>2, <2>3 DEF Verified
  <2> QED BY <2>1, <2>4, <2>5 DEF Decide
<1> QED BY <1>1, FInvariant, PTL

\* Without a token Dex has signed, with the key the pod knows, there are health
\* checks only, whatever fails (claim_mapper.go, GetClaims; main.go, the start action).
THEOREM UnverifiedIsRefused == Spec => []OnlyHealthUnverified
<1>1. ASSUME FInv PROVE OnlyHealthUnverified
  <2> SUFFICES ASSUME last # NoCall, last.admitted, Access(last.call.api) # "health"
               PROVE  /\ last.token # NoToken
                      /\ last.token.key = pods[last.pod].key
                      /\ last.token.key \in 1..dexKey
    BY DEF OnlyHealthUnverified
  <2>1. Verified(last.pod, last.token) /\ GetClaims(last.token) # {}
    BY <1>1 DEF FInv, JustDecided, Decide, Authorize, DefaultAuthorize
  <2>2. last.token # NoToken
    BY <2>1 DEF GetClaims, DefaultClaims
  <2>3. last.token.key = pods[last.pod].key
    BY <2>1, <2>2 DEF Verified
  <2>4. last.token.key \in 1..dexKey
    BY <1>1, <2>2, IssuedAreTokens DEF FInv, JustDecided
  <2> QED BY <2>2, <2>3, <2>4
<1> QED BY <1>1, FInvariant, PTL

\* The administrator of the table may do everything.
LEMMA AdminClaims ==
  ASSUME NEW t, t # NoToken, t.permissions = NoPermissions,
         ToLower[t.email] \in DOMAIN emailPermissions
  PROVE  <<"temporal-system", "Admin">> \in GetClaims(t)
<1>1. GetClaims(t) = ApplyPermissions({}, FallbackPermissions(t))
  BY DEF GetClaims, DefaultClaims
<1>2. FallbackPermissions(t) = {<<"temporal-system", "admin">>, <<"default", "admin">>}
  BY DEF FallbackPermissions, emailPermissions
<1>3. "admin" \in DOMAIN RoleNames /\ RoleNames["admin"] = "Admin"
  BY DEF RoleNames
<1> QED BY <1>1, <1>2, <1>3 DEF ApplyPermissions

LEMMA AdminMay ==
  ASSUME NEW claims, <<"temporal-system", "Admin">> \in claims, NEW call
  PROVE  DefaultAuthorize(claims, call)
<1>1. Allows("Admin") = {"read", "write", "work", "administer"}
  BY DEF Allows
<1>2. Access(call.api) \in {"health", "read", "write", "work", "administer"}
  BY DEF Access
<1> QED BY <1>1, <1>2 DEF DefaultAuthorize

\* Whoever the table of addresses makes an administrator is served everything but
\* polls of blocked queues, unless the token's key is not the pod's
\* (claim_mapper.go, emailPermissions and extractEmailFromBearer).
THEOREM AdministratorIsServed == Spec => []KnownUserServed
<1>1. ASSUME FInv PROVE KnownUserServed
  <2> SUFFICES ASSUME last # NoCall, last.token # NoToken, ~last.admitted,
                      last.token.permissions = NoPermissions,
                      ToLower[last.token.email] \in DOMAIN emailPermissions,
                      last.token.key = pods[last.pod].key
               PROVE  /\ IsWorkerPollingAPI(last.call.api)
                      /\ last.call.queue \in pods[last.pod].template
    BY DEF KnownUserServed
  <2>1. DefaultAuthorize(GetClaims(last.token), last.call)
    BY AdminClaims, AdminMay
  <2>2. Restricted(pods[last.pod].blocked, last.call)
    BY <1>1, <2>1 DEF FInv, JustDecided, Decide, Verified, Authorize
  <2>3. pods[last.pod].blocked = BlockedQueues(pods[last.pod].template)
    BY <1>1 DEF FInv, JustDecided, Decisions, BlocksItsEnvironment
  <2> QED BY <2>2, <2>3 DEF Restricted, BlockedQueues
<1> QED BY <1>1, FInvariant, PTL
=============================================================================
