--------------------------- MODULE PlaintextPayload ---------------------------
(***************************************************************************)
(* The observe-only interceptor of the server image                        *)
(* (images/server/interceptors/plaintext_payload.go): what it records of a *)
(* request, and, as a reference, the places of a request where a payload   *)
(* can be.                                                                 *)
(*                                                                         *)
(* A payload is its encoding.  A request is [api, body]; the form of the   *)
(* body depends on the API:                                                *)
(*   - most: a function from field names to sequences of payloads;         *)
(*   - RespondWorkflowTaskCompleted: [commands, rest], each command        *)
(*     [type, payloads, rest];                                             *)
(*   - CreateSchedule, UpdateSchedule: the action [kind, input, rest];     *)
(*   - the APIs that report a failure:                                     *)
(*     [failure, last_heartbeat_details, rest], the failure being its      *)
(*     chain of causes, a sequence of [encoded_attributes, info, details]; *)
(*   - ExecuteMultiOperation: a sequence of requests.                      *)
(* rest holds what else a message has of payloads: headers, memos, search  *)
(* attributes, user metadata, query results, protocol messages.            *)
(* The tags other than field and encoding are left out.                    *)
(***************************************************************************)
EXTENDS Naturals, Sequences, FiniteSets, SequencesExt

UnencryptedEncodings == {"json/plain", "binary/plain"}

ScheduleAPIs == {"CreateSchedule", "UpdateSchedule"}
FailureAPIs == {"RespondWorkflowTaskFailed", "RespondActivityTaskFailed"}

\* The fields scanned of each request that has payloads of its own.
ScannedFields ==
  [StartWorkflowExecution           |-> <<"input">>,
   SignalWithStartWorkflowExecution |-> <<"input", "signal_input">>,
   SignalWorkflowExecution          |-> <<"input">>,
   QueryWorkflow                    |-> <<"query_args">>,
   UpdateWorkflowExecution          |-> <<"update_args">>,
   RespondActivityTaskCompleted     |-> <<"result">>,
   RecordActivityTaskHeartbeat      |-> <<"details">>]

ScannedCommands ==
  {"ScheduleActivityTask", "CompleteWorkflowExecution", "CancelWorkflowExecution",
   "SignalExternalWorkflowExecution", "StartChildWorkflowExecution",
   "ContinueAsNewWorkflowExecution"}

\* Where the details of a failure are, for the infos that are looked into.
DetailsField ==
  [Application |-> "ApplicationFailureInfo.details",
   Canceled    |-> "CanceledFailureInfo.details",
   Timeout     |-> "TimeoutFailureInfo.last_heartbeat_details"]

IsPlain(payload) == payload \in UnencryptedEncodings

\* What the counter is told of a payload, the other tags aside.
RecordedFields ==
  {"input", "signal_input", "query_args", "update_args", "result", "details",
   "encoded_attributes", "last_heartbeat_details"}
  \cup ScannedCommands \cup {DetailsField[info] : info \in DOMAIN DetailsField}

Recording == [field : RecordedFields, encoding : UnencryptedEncodings]

\* One recording per unencrypted payload.
ScanPayloads(field, payloads) ==
  FlattenSeq([n \in DOMAIN payloads |->
    IF IsPlain(payloads[n]) THEN <<[field |-> field, encoding |-> payloads[n]]>>
    ELSE <<>>])

ScanFields(api, body) ==
  FlattenSeq([n \in DOMAIN ScannedFields[api] |->
                ScanPayloads(ScannedFields[api][n], body[ScannedFields[api][n]])])

ScanCommands(commands) ==
  FlattenSeq([n \in DOMAIN commands |->
    IF commands[n].type \in ScannedCommands
      THEN ScanPayloads(commands[n].type, commands[n].payloads)
      ELSE <<>>])

ScanScheduleAction(action) ==
  IF action.kind = "StartWorkflow" THEN ScanPayloads("input", action.input) ELSE <<>>

\* Seeded fault: the causes of a failure are not looked into.
MutScanFailure(failure) ==
  IF failure = <<>> THEN <<>> ELSE
    ScanPayloads("encoded_attributes", failure[1].encoded_attributes)
    \o IF failure[1].info \in DOMAIN DetailsField
         THEN ScanPayloads(DetailsField[failure[1].info], failure[1].details)
         ELSE <<>>

\* encoded_attributes holds one payload or none.
ScanFailure(failure) ==
  FlattenSeq([n \in DOMAIN failure |->
    ScanPayloads("encoded_attributes", failure[n].encoded_attributes)
    \o IF failure[n].info \in DOMAIN DetailsField
         THEN ScanPayloads(DetailsField[failure[n].info], failure[n].details)
         ELSE <<>>])

\* A request that is not an ExecuteMultiOperation.  Unknown requests are skipped.
CheckSingle(api, body) ==
  CASE api \in DOMAIN ScannedFields             -> ScanFields(api, body)
    [] api = "RespondWorkflowTaskCompleted"     -> ScanCommands(body.commands)
    [] api \in ScheduleAPIs                     -> ScanScheduleAction(body)
    [] api = "RespondWorkflowTaskFailed"        -> ScanFailure(body.failure)
    [] api = "RespondActivityTaskFailed"        ->
         ScanFailure(body.failure)
         \o ScanPayloads("last_heartbeat_details", body.last_heartbeat_details)
    [] OTHER                                    -> <<>>

Check(api, body) ==
  IF api = "ExecuteMultiOperation"
    THEN FlattenSeq([n \in DOMAIN body |-> CheckSingle(body[n].api, body[n].body)])
    ELSE CheckSingle(api, body)

-----------------------------------------------------------------------------
(* Requests as the server's API has them, whatever the scan looks at.       *)

Payloads == Seq(STRING)

\* Of the messages that are scanned field by field, the fields that are the
\* payloads proper; all others are in rest.
CoveredFields ==
  [StartWorkflowExecution           |-> {"input"},
   SignalWithStartWorkflowExecution |-> {"input", "signal_input"},
   SignalWorkflowExecution          |-> {"input"},
   QueryWorkflow                    |-> {"query_args"},
   UpdateWorkflowExecution          |-> {"update_args"},
   RespondActivityTaskCompleted     |-> {"result"},
   RecordActivityTaskHeartbeat      |-> {"details"}]

\* The commands that have payloads: inputs, results, details, failures, markers,
\* memos, search attributes.
PayloadCommands ==
  {"ScheduleActivityTask", "CompleteWorkflowExecution", "FailWorkflowExecution",
   "CancelWorkflowExecution", "SignalExternalWorkflowExecution",
   "StartChildWorkflowExecution", "ContinueAsNewWorkflowExecution", "RecordMarker",
   "UpsertWorkflowSearchAttributes", "ModifyWorkflowProperties", "ScheduleNexusOperation"}

CommandTypes ==
  PayloadCommands \cup
  {"RequestCancelActivityTask", "StartTimer", "CancelTimer",
   "RequestCancelExternalWorkflowExecution", "ProtocolMessage",
   "RequestCancelNexusOperation"}

\* The failure infos that have details or heartbeat details.
DetailedInfos == {"Application", "Canceled", "Timeout", "ResetWorkflow"}

FailureInfos ==
  DetailedInfos \cup {"None", "Activity", "ChildWorkflow", "Server", "Terminated",
                      "NexusOperation", "NexusHandler"}

IsFailure(failure) ==
  /\ failure \in Seq([encoded_attributes : Payloads, info : FailureInfos, details : Payloads])
  /\ \A n \in 1..Len(failure) :
       failure[n].info \in DetailedInfos \/ failure[n].details = <<>>

IsCommands(commands) ==
  /\ commands \in Seq([type : CommandTypes, payloads : Payloads, rest : Payloads])
  /\ \A n \in 1..Len(commands) :
       commands[n].type \in PayloadCommands \/ commands[n].payloads = <<>>

IsSingleRequest(api, body) ==
  /\ api \in DOMAIN CoveredFields =>
       \A f \in CoveredFields[api] \cup {"rest"} : f \in DOMAIN body /\ body[f] \in Payloads
  /\ api = "RespondWorkflowTaskCompleted" => IsCommands(body.commands) /\ body.rest \in Payloads
  \* The one kind of action there is.
  /\ api \in ScheduleAPIs =>
       body \in [kind : {"StartWorkflow"}, input : Payloads, rest : Payloads]
  \* Only an activity has heartbeats.
  /\ api \in FailureAPIs =>
       /\ IsFailure(body.failure) /\ body.last_heartbeat_details \in Payloads
       /\ body.rest \in Payloads
       /\ api = "RespondActivityTaskFailed" \/ body.last_heartbeat_details = <<>>

IsRequest(api, body) ==
  IF api = "ExecuteMultiOperation"
    THEN /\ body \in Seq(Range(body))
         /\ \A n \in DOMAIN body :
              /\ body[n].api \in {"StartWorkflowExecution", "UpdateWorkflowExecution"}
              /\ IsSingleRequest(body[n].api, body[n].body)
    ELSE IsSingleRequest(api, body)

-----------------------------------------------------------------------------
(* Reference: all places of a request of one of the APIs the comment on the *)
(* interceptor lists (lines 43-48).  A place is <<index, part, number,      *)
(* payload>>, the part being a field, a command or a failure info.          *)

Places(index, part, payloads) ==
  {<<index, part, n, payloads[n]>> : n \in DOMAIN payloads}

CommandPlaces(commands) ==
  UNION {Places(n, commands[n].type, commands[n].payloads)
         \cup Places(n, "rest", commands[n].rest) : n \in DOMAIN commands}

FailurePlaces(failure) ==
  UNION {Places(n, "attributes", failure[n].encoded_attributes)
         \cup Places(n, failure[n].info, failure[n].details) : n \in DOMAIN failure}

PlacesOfSingle(api, body) ==
  CASE api \in DOMAIN CoveredFields ->
         UNION {Places(0, f, body[f]) : f \in CoveredFields[api] \cup {"rest"}}
    [] api = "RespondWorkflowTaskCompleted" ->
         CommandPlaces(body.commands) \cup Places(0, "rest", body.rest)
    [] api \in ScheduleAPIs ->
         Places(0, "input", body.input) \cup Places(0, "rest", body.rest)
    [] api \in FailureAPIs ->
         FailurePlaces(body.failure)
         \cup Places(0, "heartbeat", body.last_heartbeat_details)
         \cup Places(0, "rest", body.rest)
    [] OTHER -> {}

PlacesOf(api, body) ==
  IF api = "ExecuteMultiOperation"
    THEN UNION {{<<n, place>> : place \in PlacesOfSingle(body[n].api, body[n].body)} :
                  n \in DOMAIN body}
    ELSE {<<0, place>> : place \in PlacesOfSingle(api, body)}

\* The payloads of a request that are readable by whoever stores it.
UnencryptedPlaces(api, body) ==
  {p \in PlacesOf(api, body) : p[2][4] \in UnencryptedEncodings}

\* The parts the interceptor has no case for.
PassedOver ==
  {"rest", "FailWorkflowExecution", "RecordMarker", "UpsertWorkflowSearchAttributes",
   "ModifyWorkflowProperties", "ScheduleNexusOperation", "ResetWorkflow"}

\* How many unencrypted payloads a request has elsewhere.
PlainPayloads(api, body) ==
  Cardinality({p \in UnencryptedPlaces(api, body) : p[2][2] \notin PassedOver})
=============================================================================
