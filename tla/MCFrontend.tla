------------------------------ MODULE MCFrontend ------------------------------
(***************************************************************************)
(* An instance of Frontend: every kind of request the interceptor knows,   *)
(* with payloads of each encoding where they can be.                       *)
(***************************************************************************)
EXTENDS Frontend, TLC

MCToLower ==
  [e \in Emails |-> IF e = "Admin@Temporal.io" THEN "admin@temporal.io" ELSE e]

\* What `kubectl set env` may say: nothing, a queue, a list with an empty item.
MCEnvironments == {{}, {"orders"}, {"orders", NoQueue}}

MCUsers ==
  {[email |-> e, permissions |-> NoPermissions] : e \in Emails}
  \cup {[email |-> "Admin@Temporal.io", permissions |-> {<<"default", "Reader">>}],
        [email |-> "dev@example.com", permissions |-> {<<"payments", "Admin">>}]}

Request(api, queue, body) ==
  [api |-> api, namespace |-> "default", queue |-> queue, body |-> body]

None == <<>>
Plain == <<"json/plain">>
Mixed == <<"binary/encrypted", "json/plain", "binary/null", "binary/plain">>

Cause(info, details) ==
  [encoded_attributes |-> Plain, info |-> info, details |-> details]

Start == [input |-> Mixed, rest |-> Plain]

Update == [update_args |-> Plain, rest |-> None]

Command(type, payloads, rest) == [type |-> type, payloads |-> payloads, rest |-> rest]

Completed(commands) ==
  Request("RespondWorkflowTaskCompleted", NoQueue, [commands |-> commands, rest |-> None])

MCCalls ==
  {Request("HealthCheck", NoQueue, None),
   Request("PollWorkflowTaskQueue", "orders", None),
   Request("PollActivityTaskQueue", "orders", None),
   Request("PollActivityTaskQueue", "invoices", None),
   Request("UpdateNamespace", NoQueue, None),
   Request("QueryWorkflow", NoQueue, [query_args |-> Mixed, rest |-> Plain]),
   Request("StartWorkflowExecution", "orders", Start),
   Request("SignalWithStartWorkflowExecution", "orders",
           [input |-> Mixed, signal_input |-> Plain, rest |-> None]),
   Request("CreateSchedule", NoQueue,
           [kind |-> "StartWorkflow", input |-> Mixed, rest |-> Plain]),
   Request("ExecuteMultiOperation", NoQueue,
           <<[api |-> "StartWorkflowExecution", body |-> Start],
             [api |-> "UpdateWorkflowExecution", body |-> Update]>>),
   Completed(<<Command("ScheduleActivityTask", Mixed, Plain),
               Command("StartTimer", None, None),
               Command("ContinueAsNewWorkflowExecution", Plain, None)>>),
   Completed(<<Command("FailWorkflowExecution", Plain, None)>>),
   Request("RespondActivityTaskFailed", NoQueue,
           [failure |-> <<Cause("Application", Mixed), Cause("Activity", None),
                          Cause("ResetWorkflow", Plain), Cause("Timeout", Plain)>>,
            last_heartbeat_details |-> Plain, rest |-> None])}
=============================================================================
