----------------------------- MODULE Installation -----------------------------
(***************************************************************************)
(* install.sh and teardown.sh, the helm processes the former leaves in the *)
(* background, the hook jobs of templates/, and the cluster they work on.  *)
(*                                                                         *)
(* install.sh runs helm twice.  The first pass deploys only PostgreSQL,    *)
(* and so takes away the Temporal server and MinIO of an earlier           *)
(* installation; the second deploys everything, with a hook job before it  *)
(* (the schema of the secondary visibility store) and two after it (the    *)
(* buckets, and the default namespace with its archival).  A release on    *)
(* which a helm process works, or worked when it was killed, is "pending", *)
(* and helm refuses to upgrade it; `helm uninstall` does not ask.  The     *)
(* output of both passes goes through grep, whose exit status is the one   *)
(* the script sees.                                                        *)
(*                                                                         *)
(* One operator runs one script at a time, but a helm process that an      *)
(* interrupted install.sh left behind goes on beside the next script.  A   *)
(* fault is anything that fails or takes longer than the script or helm    *)
(* waits for it.  A run with SKIP_SERVER_WAIT is the first phase of an     *)
(* upgrade test (values.yaml:294-299): its server may be too new for the   *)
(* schema of its database, and the namespace job is disabled.              *)
(***************************************************************************)
EXTENDS Naturals

CONSTANTS
  DualVisibility, \* dualVisibility.enabled in values.yaml
  MaxInstalls,    \* bound: runs of install.sh
  MaxTeardowns,   \* bound: runs of teardown.sh
  MaxFaults       \* bound: faults

ASSUME InstallationAssumption ==
  /\ DualVisibility \in BOOLEAN
  /\ MaxInstalls \in Nat /\ MaxTeardowns \in Nat /\ MaxFaults \in Nat

VARIABLES
  script,    \* where install.sh is
  skip,      \* per run of install.sh its SKIP_SERVER_WAIT
  result,    \* how helm's second pass of the present run ended
  helm,      \* per run where the helm process of its second pass is
  release,   \* status of the release; "databases" is deployed by a first pass
  holder,    \* the run that wrote the release's last record
  images,    \* the two images are in the local Docker cache
  namespace, \* the Kubernetes namespace
  workload,  \* postgresql, server and minio
  scoped,    \* objects of the release that are in no namespace, such as roles
  schema,    \* the secondary visibility store has its schema
  job,       \* the hook jobs
  buckets,   \* the buckets exist in the running MinIO
  default,   \* the default namespace of Temporal: whether it exists and archives
  checkPod,  \* a pod of the checks in step 4 is left over
  teardown,  \* where teardown.sh is
  misread,   \* teardown.sh took an error for the absence of the namespace
  beside,    \* teardown.sh was started beside a helm process
  count      \* faults, installs and teardowns so far

cluster == <<namespace, workload, scoped, schema, job, buckets, default, checkPod>>

vars == <<script, skip, result, helm, release, holder, images, cluster,
          teardown, misread, beside, count>>

Runs == 1..MaxInstalls
Workloads == {"postgresql", "server", "minio"}
Hooks == {"schema", "buckets", "namespace"}

Steps == {"images", "prepare", "pass1", "rollout", "ping", "pass2", "wait",
          "services", "verify"}

NoWorkload == [w \in Workloads |-> "absent"]
NoJob == [h \in Hooks |-> "none"]
NoDefault == [exists |-> FALSE, archival |-> FALSE]

Active == script \in Steps
TornDown == teardown \in {"idle", "stopped", "done"}
HelmRuns == \E n \in Runs : helm[n] # "none"

Fault == count.faults < MaxFaults /\ count' = [count EXCEPT !.faults = @ + 1]

Init ==
  /\ script = "idle" /\ skip = [n \in Runs |-> FALSE] /\ result = "none"
  /\ helm = [n \in Runs |-> "none"] /\ release = "none" /\ holder = 0
  /\ images \in BOOLEAN
  /\ namespace = "absent" /\ workload = NoWorkload /\ scoped = FALSE /\ schema = FALSE
  /\ job = NoJob /\ buckets = FALSE /\ default = NoDefault /\ checkPod = FALSE
  /\ teardown = "idle" /\ misread = FALSE /\ beside = FALSE
  /\ count = [faults |-> 0, installs |-> 0, teardowns |-> 0]

-----------------------------------------------------------------------------
(* install.sh.                                                             *)

StartInstall ==
  /\ ~Active /\ TornDown
  /\ count.installs < MaxInstalls
  /\ count' = [count EXCEPT !.installs = @ + 1]
  /\ script' = "images" /\ result' = "none"
  /\ \E s \in BOOLEAN : skip' = [skip EXCEPT ![count.installs + 1] = s]
  /\ teardown' = "idle"
  /\ UNCHANGED <<helm, release, holder, images, cluster, misread, beside>>

\* A step of the script that goes on to another.
Go(from, to) ==
  /\ script = from
  /\ script' = to
  /\ UNCHANGED <<skip, teardown, misread, beside>>

\* Seeded fault: missing images are not built.
MutCheckImages ==
  /\ Go("images", "prepare")
  /\ UNCHANGED <<result, helm, release, holder, images, cluster, count>>

\* Step 1: missing images are built.
CheckImages ==
  /\ Go("images", "prepare")
  /\ images' = TRUE
  /\ UNCHANGED <<result, helm, release, holder, cluster, count>>

\* Steps 2 and 3: repositories, the namespace, CRDs.
Prepare ==
  /\ Go("prepare", "pass1")
  /\ namespace' = IF namespace = "absent" THEN "present" ELSE namespace
  /\ UNCHANGED <<result, helm, release, holder, images, workload, scoped, schema, job,
                 buckets, default, checkPod, count>>

\* A build, an update of the repositories or an API call fails.
PrepareFails ==
  /\ Go(script, "failed") /\ script \in {"images", "prepare"}
  /\ Fault
  /\ UNCHANGED <<result, helm, release, holder, images, cluster>>

Applied(w) == IF workload[w] = "absent" THEN "pending" ELSE workload[w]

\* What the first pass does, in whole or in part: PostgreSQL is applied, then what
\* the last release had besides is deleted.
FirstPass(part) ==
  /\ part = {} \/ "postgresql" \in part
  /\ release = "none" => part \subseteq {"postgresql"}
  /\ workload' = [w \in Workloads |-> IF w \notin part THEN workload[w]
                                      ELSE IF w = "postgresql" THEN Applied(w) ELSE "absent"]
  /\ buckets' = (buckets /\ "minio" \notin part)
  /\ scoped' \in IF part \subseteq {"postgresql"} THEN {scoped} ELSE {scoped, FALSE}
  /\ UNCHANGED <<namespace, schema, job, default, checkPod>>

\* Seeded fault: helm is made to work on a release another works on.
MutPass1 ==
  /\ Go("pass1", "rollout")
  /\ namespace = "present"
  /\ FirstPass(IF release = "none" THEN {"postgresql"} ELSE Workloads)
  /\ release' = "databases" /\ holder' = count.installs
  /\ UNCHANGED <<result, helm, images, count>>

\* Step 4, the first pass of helm.  It compares with the last release deployed, and
\* after a failed one leaves what only that had brought.
Pass1 ==
  /\ Go("pass1", "rollout")
  /\ namespace = "present" /\ release # "pending"
  /\ \E part \in SUBSET Workloads :
       /\ "postgresql" \in part /\ FirstPass(part)
       /\ release = "deployed" => part = Workloads /\ ~scoped'
  /\ release' = "databases" /\ holder' = count.installs
  /\ UNCHANGED <<result, helm, images, count>>

\* helm refuses to work; the script does not learn of it, ...
Pass1Refused ==
  /\ Go("pass1", "rollout")
  /\ release = "pending" \/ namespace # "present"
  /\ UNCHANGED <<result, helm, release, holder, images, cluster, count>>

\* ... nor of a failure, with some of it done.
Pass1Fails ==
  /\ Go("pass1", "rollout")
  /\ namespace = "present" /\ release # "pending"
  /\ \E part \in SUBSET Workloads : FirstPass(part)
  /\ release' = "failed" /\ holder' = count.installs
  /\ Fault
  /\ UNCHANGED <<result, helm, images>>

\* The operator stops script and helm, with some of it done.
Pass1Killed ==
  /\ Go("pass1", "failed")
  /\ namespace = "present" /\ release # "pending"
  /\ \E part \in SUBSET Workloads : FirstPass(part)
  /\ release' \in {"pending", "failed"} /\ holder' = count.installs
  /\ Fault
  /\ UNCHANGED <<result, helm, images>>

\* Seeded fault: the second pass is started without the databases of the first.
MutRolloutDatabases ==
  /\ Go("rollout", "pass2")
  /\ UNCHANGED <<result, helm, release, holder, images, cluster, count>>

\* Step 4, the waits: first for the pods, with a timeout, ...
RolloutDatabases ==
  /\ Go("rollout", "ping")
  /\ workload["postgresql"] = "ready"
  /\ UNCHANGED <<result, helm, release, holder, images, cluster, count>>

NoDatabases ==
  /\ Go("rollout", "failed")
  /\ workload["postgresql"] = "absent"
  /\ UNCHANGED <<result, helm, release, holder, images, cluster, count>>

RolloutTimesOut ==
  /\ Go("rollout", "failed")
  /\ workload["postgresql"] = "pending" /\ Fault
  /\ UNCHANGED <<result, helm, release, holder, images, cluster>>

\* ... then for the databases to answer a pod started for it, without one.  The
\* name of that pod is fixed: with one left over no other can be started.
PingDatabases ==
  /\ Go("ping", "pass2")
  /\ workload["postgresql"] = "ready" /\ ~checkPod
  /\ UNCHANGED <<result, helm, release, holder, images, cluster, count>>

\* `kubectl run --rm` fails to delete its pod, or to say so; the loop goes on.
CheckPodLeft ==
  /\ Go("ping", "ping")
  /\ checkPod' = TRUE /\ Fault
  /\ UNCHANGED <<result, helm, release, holder, images, namespace, workload, scoped,
                 schema, job, buckets, default>>

\* Step 5, the second pass: helm in the background.  One that finds the release
\* pending, or none, ends at once and leaves it as it is.
StartPass2 ==
  /\ Go("pass2", "wait")
  /\ IF release \in {"pending", "none"}
       THEN /\ result' = "failed"
            /\ UNCHANGED <<helm, release, holder, job>>
       ELSE /\ result' = "none" /\ release' = "pending" /\ holder' = count.installs
            /\ helm' = [helm EXCEPT ![count.installs] =
                          IF DualVisibility THEN "schema" ELSE "apply"]
            /\ job' = IF DualVisibility THEN [job EXCEPT !["schema"] = "running"] ELSE job
  /\ UNCHANGED <<images, namespace, workload, scoped, schema, buckets, default, checkPod, count>>

\* `wait` returns when the pipeline has ended, with the exit status of its grep.
WaitForHelm ==
  /\ Go("wait", "services")
  /\ result # "none"
  /\ UNCHANGED <<result, helm, release, holder, images, cluster, count>>

\* Step 6: with SKIP_SERVER_WAIT only for the admin tools, which are deployed
\* with the server and need nothing.
ServicesReady ==
  /\ Go("services", "verify")
  /\ IF skip[count.installs] THEN workload["server"] # "absent" ELSE workload["server"] = "ready"
  /\ UNCHANGED <<result, helm, release, holder, images, cluster, count>>


\* The server needs its databases, their schemas and its image, which is never
\* pulled.
CanStart ==
  /\ images /\ workload["postgresql"] # "absent"
  /\ DualVisibility => schema

\* There is no server, or it is waited for in vain.
NoServer ==
  /\ Go("services", "failed")
  /\ \/ workload["server"] = "absent"
     \/ /\ workload["server"] # "ready" /\ ~skip[count.installs]
        /\ workload["server"] = "crashing" \/ ~CanStart
  /\ UNCHANGED <<result, helm, release, holder, images, cluster, count>>

ServicesTimeOut ==
  /\ Go("services", "failed")
  /\ workload["server"] = "pending" /\ ~skip[count.installs] /\ Fault
  /\ UNCHANGED <<result, helm, release, holder, images, cluster>>

\* Step 7, without a timeout.
Verify ==
  /\ Go("verify", "complete")
  /\ skip[count.installs] \/ (workload["server"] = "ready" /\ default.exists)
  /\ UNCHANGED <<result, helm, release, holder, images, cluster, count>>

\* The operator stops the script; a helm process in the background goes on, and the
\* pod of a check may be left over.
Interrupt ==
  /\ Go(script, "failed") /\ Active /\ script # "pass1"
  /\ Fault
  /\ checkPod' \in IF script = "ping" THEN {checkPod, TRUE} ELSE {checkPod}
  /\ UNCHANGED <<result, helm, release, holder, images, namespace, workload, scoped,
                 schema, job, buckets, default>>

ScriptStep ==
  \/ CheckImages \/ Prepare \/ Pass1 \/ Pass1Refused
  \/ RolloutDatabases \/ NoDatabases \/ PingDatabases
  \/ StartPass2 \/ WaitForHelm \/ ServicesReady \/ NoServer \/ Verify

ScriptFault ==
  \/ PrepareFails \/ Pass1Fails \/ Pass1Killed
  \/ RolloutTimesOut \/ CheckPodLeft \/ ServicesTimeOut \/ Interrupt

-----------------------------------------------------------------------------
(* helm, in the second pass of run n.  A hook is deleted, created anew, and *)
(* waited for; one that is gone, because its namespace is, helm takes for   *)
(* done or gives up on.  What has been created stays when helm gives up.    *)

\* Seeded fault: how any helm ended is taken for how that of the present run did.
MutHelmEnds(n, how) ==
  /\ helm' = [helm EXCEPT ![n] = "none"]
  /\ result' = how

HelmEnds(n, how) ==
  /\ helm' = [helm EXCEPT ![n] = "none"]
  /\ result' = IF n = count.installs /\ script = "wait" THEN how ELSE result

\* helm writes the status of its release into the record it made.  If teardown.sh
\* has removed that, there is none, or a newer one that may have its number.
HelmRecords(n, status) ==
  /\ release' \in IF holder = n THEN {status}
                  ELSE IF release = "none" THEN {release} ELSE {release, status}
  /\ UNCHANGED holder

HelmFrame ==
  UNCHANGED <<script, skip, images, namespace, schema, buckets, default, checkPod,
              teardown, misread, beside>>

HookDone(h) == job[h] \in {"done", "none"}

\* Seeded fault: the release first, its database schema after it.
MutHelmSchemaHook(n) ==
  /\ helm[n] = "schema"
  /\ helm' = [helm EXCEPT ![n] = "apply"]
  /\ UNCHANGED <<result, release, holder, workload, scoped, job, count>>
  /\ HelmFrame

\* The pre-upgrade hook.
HelmSchemaHook(n) ==
  /\ helm[n] = "schema" /\ HookDone("schema")
  /\ helm' = [helm EXCEPT ![n] = "apply"]
  /\ UNCHANGED <<result, release, holder, workload, scoped, job, count>>
  /\ HelmFrame

\* Some of the workloads are applied.  The server of an upgrade test's first phase
\* crashes if the schema of its database is older than it.
HelmApplies(n, some) ==
  \E server \in {IF workload["server"] = "crashing" THEN "pending" ELSE Applied("server")}
                \cup IF skip[n] THEN {"crashing"} ELSE {} :
    workload' = [w \in Workloads |-> IF w \notin some THEN workload[w]
                                     ELSE IF w = "server" THEN server ELSE Applied(w)]

\* All of the release is applied; the first post-upgrade hook is created.
HelmApply(n) ==
  /\ helm[n] = "apply" /\ namespace = "present"
  /\ helm' = [helm EXCEPT ![n] = "buckets"]
  /\ HelmApplies(n, Workloads) /\ scoped' = TRUE
  /\ job' = [job EXCEPT !["buckets"] = "running"]
  /\ UNCHANGED <<result, release, holder, count>>
  /\ HelmFrame

\* Hooks in the order of their weights, 1 and 5.
HelmBucketsHook(n) ==
  /\ helm[n] = "buckets" /\ HookDone("buckets") /\ namespace = "present" /\ ~skip[n]
  /\ helm' = [helm EXCEPT ![n] = "namespace"]
  /\ job' = [job EXCEPT !["namespace"] = "running"]
  /\ UNCHANGED <<result, release, holder, workload, scoped, count>>
  /\ HelmFrame

\* Seeded fault: the status of the release and the result of helm are mixed up.
MutHelmLastHook(n) ==
  /\ helm[n] = (IF skip[n] THEN "buckets" ELSE "namespace") /\ HookDone(helm[n])
  /\ HelmEnds(n, "deployed")
  /\ HelmRecords(n, "ok")
  /\ UNCHANGED <<workload, scoped, job, count>>
  /\ HelmFrame

\* The last hook is that of the namespace, unless that is disabled.
HelmLastHook(n) ==
  /\ helm[n] = (IF skip[n] THEN "buckets" ELSE "namespace") /\ HookDone(helm[n])
  /\ HelmEnds(n, "ok")
  /\ HelmRecords(n, "deployed")
  /\ UNCHANGED <<workload, scoped, job, count>>
  /\ HelmFrame

\* What the job of a hook waits for.
Awaits == [schema |-> "postgresql", buckets |-> "minio", namespace |-> "server"]

\* A hook has failed, or waits in vain until helm does not wait for it any longer, or
\* nothing can be created but what is in no namespace; none is a fault of its own.
HelmCannotGoOn(n) ==
  /\ \/ /\ helm[n] \in Hooks
        /\ \/ job[helm[n]] \in {"failed", "none"}
           \/ workload[Awaits[helm[n]]] \in {"absent", "crashing"}
        /\ UNCHANGED scoped
     \/ helm[n] = "apply" /\ namespace # "present" /\ scoped' \in {scoped, TRUE}
  /\ HelmEnds(n, "failed")
  /\ HelmRecords(n, "failed")
  /\ UNCHANGED <<workload, job, count>>
  /\ HelmFrame

\* helm ends before its time, with some of the release applied if it was at that.
HelmBreaksOff(n) ==
  /\ helm[n] # "none" /\ Fault
  /\ HelmEnds(n, "failed")
  /\ \E some \in SUBSET Workloads :
       /\ some # {} => helm[n] = "apply" /\ namespace = "present"
       /\ HelmApplies(n, some)
       /\ scoped' \in IF some = {} THEN {scoped} ELSE {scoped, TRUE}
  /\ UNCHANGED job
  /\ HelmFrame

\* An error, or helm does not wait any longer for a hook.
HelmFails(n) == HelmBreaksOff(n) /\ HelmRecords(n, "failed")

\* helm is killed, and the release stays as it is for good.
HelmKilled(n) == HelmBreaksOff(n) /\ UNCHANGED <<release, holder>>

HelmStep(n) ==
  \/ HelmSchemaHook(n) \/ HelmApply(n) \/ HelmBucketsHook(n)
  \/ HelmLastHook(n) \/ HelmCannotGoOn(n)

-----------------------------------------------------------------------------
(* Hook jobs.                                                              *)

JobEnds(h, how) ==
  /\ job[h] = "running"
  /\ job' = [job EXCEPT ![h] = how]
  /\ UNCHANGED <<script, skip, result, helm, release, holder, images, namespace,
                 workload, scoped, checkPod, teardown, misread, beside>>

\* Waits for its database, then sets the schema up.
SchemaJob ==
  /\ JobEnds("schema", "done")
  /\ workload["postgresql"] = "ready"
  /\ schema' = TRUE
  /\ UNCHANGED <<buckets, default, count>>

\* Its deadline or its last retry.
SchemaJobFails ==
  /\ JobEnds("schema", "failed")
  /\ Fault
  /\ UNCHANGED <<schema, buckets, default>>

\* Waits for MinIO, then creates the buckets; an error of that goes unnoticed.
BucketsJob ==
  /\ JobEnds("buckets", "done")
  /\ workload["minio"] = "ready"
  /\ \/ buckets' = TRUE /\ UNCHANGED count
     \/ UNCHANGED buckets /\ Fault
  /\ UNCHANGED <<schema, default>>

\* Waits for the frontend, then creates the namespace and has it archive.
\* Errors of both are printed.
NamespaceJob ==
  /\ JobEnds("namespace", "done")
  /\ workload["server"] = "ready"
  /\ \E created, updated \in BOOLEAN :
       /\ default' = [exists |-> default.exists \/ created,
                      archival |-> default.archival \/ (updated /\ (default.exists \/ created))]
       /\ IF created /\ updated THEN UNCHANGED count ELSE Fault
  /\ UNCHANGED <<schema, buckets>>

-----------------------------------------------------------------------------
(* Pods.                                                                   *)

PodFrame ==
  UNCHANGED <<script, skip, result, helm, release, holder, images, namespace, scoped,
              schema, job, default, checkPod, teardown, misread, beside>>

\* Seeded fault: buckets are created by the job alone.
MutPodReady(w) ==
  /\ workload[w] = "pending"
  /\ w = "server" => CanStart /\ workload["postgresql"] = "ready"
  /\ workload' = [workload EXCEPT ![w] = "ready"]
  /\ UNCHANGED <<buckets, count>>
  /\ PodFrame

\* MinIO's start script creates the buckets.
PodReady(w) ==
  /\ workload[w] = "pending"
  /\ w = "server" => CanStart /\ workload["postgresql"] = "ready"
  /\ workload' = [workload EXCEPT ![w] = "ready"]
  /\ buckets' = (buckets \/ w = "minio")
  /\ UNCHANGED count
  /\ PodFrame

\* A pod is lost and will be replaced; MinIO's data is lost with it.
PodLost(w) ==
  /\ workload[w] = "ready" /\ Fault
  /\ workload' = [workload EXCEPT ![w] = "pending"]
  /\ buckets' = (buckets /\ w # "minio")
  /\ PodFrame

-----------------------------------------------------------------------------
(* teardown.sh.  Every command's failure is taken for nothing to remove,   *)
(* and nothing is asked about a helm process an interrupted install.sh has *)
(* left behind.                                                            *)

StartTeardown ==
  /\ ~Active /\ TornDown
  /\ count.teardowns < MaxTeardowns
  /\ count' = [count EXCEPT !.teardowns = @ + 1]
  /\ teardown' = "uninstall" /\ misread' = FALSE /\ beside' = (beside \/ HelmRuns)
  /\ UNCHANGED <<script, skip, result, helm, release, holder, images, cluster>>

TeardownGo(from, to) ==
  /\ teardown = from
  /\ teardown' = to
  /\ UNCHANGED <<script, skip, result, helm, beside>>

\* Steps 1 and 2.  Volumes and hook jobs are left.  A helm uninstall that fails may
\* have removed some of the release, and is taken for one that found none.
Uninstall ==
  /\ TeardownGo("uninstall", "delete")
  /\ \/ /\ release # "none"
        /\ release' = "none" /\ holder' = 0
        /\ workload' = NoWorkload /\ buckets' = FALSE /\ scoped' = FALSE
        /\ UNCHANGED count
     \/ release = "none" /\ UNCHANGED <<release, holder, workload, buckets, scoped, count>>
     \/ /\ release # "none" /\ Fault
        /\ \E part \in SUBSET Workloads :
             /\ workload' = [w \in Workloads |-> IF w \in part THEN "absent" ELSE workload[w]]
             /\ buckets' = (buckets /\ "minio" \notin part)
        /\ scoped' \in {scoped, FALSE}
        /\ UNCHANGED <<release, holder>>
  /\ UNCHANGED <<images, namespace, schema, job, default, checkPod, misread>>

\* Step 3.  What is in the namespace goes before the namespace does, with the record
\* of the release; what is in none stays.
DeleteNamespace ==
  /\ TeardownGo("delete", "await")
  /\ \/ /\ namespace = "present"
        /\ namespace' = "terminating"
        /\ release' = "none" /\ holder' = 0 /\ workload' = NoWorkload /\ schema' = FALSE
        /\ job' = NoJob /\ buckets' = FALSE /\ default' = NoDefault /\ checkPod' = FALSE
        /\ UNCHANGED <<scoped, count>>
     \/ namespace # "present" /\ UNCHANGED <<release, holder, cluster, count>>
     \/ Fault /\ UNCHANGED <<release, holder, cluster>>
  /\ UNCHANGED <<images, misread>>

\* Seeded fault: the namespace is not waited for.
MutAwaitNamespace ==
  /\ TeardownGo("await", "rmi")
  /\ UNCHANGED <<release, holder, images, cluster, misread, count>>

AwaitNamespace ==
  /\ TeardownGo("await", "rmi")
  /\ namespace = "absent"
  /\ UNCHANGED <<release, holder, images, cluster, misread, count>>

\* `kubectl get` fails for another reason than that it is gone.
MisreadNamespace ==
  /\ TeardownGo("await", "rmi")
  /\ namespace # "absent" /\ Fault
  /\ misread' = TRUE
  /\ UNCHANGED <<release, holder, images, cluster>>

\* Step 4.  With --keep-images, or where `docker rmi` fails, the images stay.
RemoveImages ==
  /\ TeardownGo("rmi", "done")
  /\ images' \in {FALSE, images}
  /\ UNCHANGED <<release, holder, cluster, misread, count>>

\* The operator stops it.
StopTeardown ==
  /\ TeardownGo(teardown, "stopped") /\ ~TornDown
  /\ Fault
  /\ UNCHANGED <<release, holder, images, cluster, misread>>

NamespaceGone ==
  /\ namespace = "terminating"
  /\ namespace' = "absent"
  /\ UNCHANGED <<script, skip, result, helm, release, holder, images, workload, scoped,
                 schema, job, buckets, default, checkPod, teardown, misread, beside, count>>

TeardownStep == Uninstall \/ DeleteNamespace \/ AwaitNamespace \/ RemoveImages

-----------------------------------------------------------------------------

Next ==
  \/ StartInstall \/ ScriptStep \/ ScriptFault
  \/ \E n \in Runs : HelmStep(n) \/ HelmFails(n) \/ HelmKilled(n)
  \/ SchemaJob \/ SchemaJobFails \/ BucketsJob \/ NamespaceJob
  \/ \E w \in Workloads : PodReady(w) \/ PodLost(w)
  \/ StartTeardown \/ TeardownStep \/ MisreadNamespace \/ StopTeardown \/ NamespaceGone

Spec == Init /\ [][Next]_vars

\* Scripts, helm, jobs and the cluster go on; nobody has to start a script.
FairSpec ==
  /\ Spec
  /\ WF_vars(ScriptStep) /\ WF_vars(TeardownStep)
  /\ \A n \in Runs : WF_vars(HelmStep(n))
  /\ WF_vars(SchemaJob) /\ WF_vars(BucketsJob) /\ WF_vars(NamespaceJob)
  /\ \A w \in Workloads : WF_vars(PodReady(w))
  /\ WF_vars(NamespaceGone)

-----------------------------------------------------------------------------
(* Properties.                                                             *)

\* Every variable has its type.
TypeOK ==
  /\ script \in Steps \cup {"idle", "failed", "complete"}
  /\ skip \in [Runs -> BOOLEAN]
  /\ result \in {"none", "ok", "failed"}
  /\ helm \in [Runs -> Hooks \cup {"none", "apply"}]
  /\ release \in {"none", "databases", "deployed", "failed", "pending"}
  /\ holder \in 0..MaxInstalls
  /\ images \in BOOLEAN
  /\ namespace \in {"absent", "present", "terminating"}
  /\ workload \in [Workloads -> {"absent", "pending", "ready", "crashing"}]
  /\ scoped \in BOOLEAN /\ schema \in BOOLEAN
  /\ job \in [Hooks -> {"none", "running", "done", "failed"}]
  /\ buckets \in BOOLEAN
  /\ default \in [exists : BOOLEAN, archival : BOOLEAN]
  /\ checkPod \in BOOLEAN
  /\ teardown \in {"idle", "uninstall", "delete", "await", "rmi", "stopped", "done"}
  /\ misread \in BOOLEAN /\ beside \in BOOLEAN
  /\ count \in [faults : 0..MaxFaults, installs : 0..MaxInstalls,
                teardowns : 0..MaxTeardowns]

\* The server is never deployed before the schema of its secondary visibility
\* store is set up, whichever pass, fault, rerun or teardown came before, as long as
\* teardown.sh was never started beside a helm process: one that finds its release
\* gone and the namespace made anew deploys what it had rendered.
SchemaFirst ==
  DualVisibility /\ ~beside /\ workload["server"] # "absent" => schema

\* The schema hook never runs without the database it waits for being deployed:
\* this is what install.sh has two passes for.  Nothing keeps teardown.sh from
\* uninstalling that beside a hook, and it is the only thing that can.
HookHasDatabase ==
  ~beside => \A n \in Runs : helm[n] = "schema" => workload["postgresql"] # "absent"

\* One helm process at a time works on the release, and one that does has it
\* locked: that of an interrupted run is not disturbed by the next install.sh.  The
\* lock is for helm upgrade only; with teardown.sh beside it nothing is promised.
HelmHoldsRelease ==
  ~beside => \A n \in Runs : helm[n] # "none" =>
    /\ release = "pending" /\ holder = n /\ namespace = "present"
    /\ \A m \in Runs \ {n} : helm[m] = "none"

\* Where the default namespace archives, a MinIO that serves has the buckets:
\* also after its pod was replaced behind the back of the job that creates them
\* (minio.yaml:31-33), and when that job failed without a word.
ArchivalHasBuckets ==
  default.archival /\ workload["minio"] = "ready" => buckets

\* When teardown.sh says it is complete, nothing is left in the namespace, although
\* it takes every failure for nothing to remove and does not look for a helm process
\* still at work; the one exception is an error of `kubectl get` taken for the absence
\* of the namespace.  Images, and objects that are in no namespace, it may leave.
TornIsGone ==
  teardown = "done" /\ ~misread =>
    /\ namespace = "absent" /\ release = "none" /\ workload = NoWorkload
    /\ ~schema /\ ~default.exists /\ job = NoJob /\ ~checkPod

\* When the helm of this run of install.sh has ended well, what it says is there
\* is there, and stays until another script is started: whichever helm an earlier
\* run left behind, whatever pods are lost, and wherever the script is by then
\* (install.sh, the second pass and the waits after it).
InstalledIsWhole ==
  ~beside /\ result = "ok" /\ teardown = "idle" =>
    /\ ~HelmRuns /\ release = "deployed" /\ namespace = "present" /\ images
    /\ scoped /\ \A w \in Workloads : workload[w] # "absent"
    /\ DualVisibility => schema
    /\ job["buckets"] = "done" /\ (skip[count.installs] \/ job["namespace"] = "done")

\* Waits that no one will end: for a pod of the checks whose name is taken, for a
\* default namespace that does not exist and that no job is left to create, or for a
\* server that the helm an interrupted run left behind has broken since.
WaitsInVain ==
  /\ count.faults > 0
  /\ \/ script = "ping" /\ checkPod
     \/ script = "verify" /\ ~default.exists /\ job["namespace"] # "running"
     \/ script = "verify" /\ workload["server"] = "crashing" /\ beside


\* From a namespace that is gone install.sh installs everything if nothing fails,
\* with the images or without, also after a teardown.sh.
CleanInstallCompletes ==
  (/\ script = "images" /\ ~skip[count.installs]
   /\ namespace = "absent" /\ ~HelmRuns /\ count.faults = MaxFaults)
    ~> script = "complete" /\ (result = "ok") /\ default = [exists |-> TRUE, archival |-> TRUE]

\* install.sh says "Install complete! (all 7 steps passed)" only if helm did not
\* fail (lines 377-380 and 439).
HelmFailureReported ==
  script = "complete" /\ ~skip[count.installs] => result = "ok"
=============================================================================
