-------------------------- MODULE InstallationProofs --------------------------
(***************************************************************************)
(* Proofs about Installation: for any number of installs, teardowns and    *)
(* faults, with and without a secondary visibility store.                  *)
(***************************************************************************)
EXTENDS Installation, TLAPS

\* One script at a time, and a helm process beside teardown.sh is noted.
OneAtATime ==
  /\ Active => teardown = "idle"
  /\ ~beside /\ HelmRuns => teardown = "idle"

\* Without the namespace there is nothing that would be in it.
NothingOutside ==
  namespace # "present" =>
    /\ release = "none" /\ holder = 0 /\ workload = NoWorkload
    /\ ~schema /\ ~default.exists /\ job = NoJob /\ ~checkPod

\* install.sh gets past its waits for the databases only with them: a release that
\* helm refused to work on in the first pass has them, or the script has given up.
SecondPassHasDatabase ==
  script \in {"ping", "pass2"} => workload["postgresql"] # "absent"

\* The schema hook is done only with the schema there, and helm goes on to the
\* release only after it.
HookSetsSchema ==
  /\ job["schema"] = "done" => schema
  /\ DualVisibility /\ ~beside => \A n \in Runs : helm[n] = "apply" => schema

\* teardown.sh gets past its wait with the namespace gone, or misreads.
AwaitedIsGone ==
  teardown \in {"rmi", "done"} /\ ~misread => namespace = "absent"

\* A MinIO that serves has its buckets, whether anyone archives or not.
ServingHasBuckets ==
  workload["minio"] = "ready" => buckets

\* How the helm of this run ended is known only from its end on.
ResultIsOurs ==
  result = "ok" => script \in {"wait", "services", "verify", "complete", "failed"}

\* Past its first step install.sh has the images.
ImagesAreThere ==
  Active /\ script # "images" => images

\* The hook that helm waits for has been created, and all before it is done.
HelmHasDone ==
  ~beside => \A n \in Runs :
    /\ helm[n] \in Hooks => job[helm[n]] # "none"
    /\ helm[n] \in {"buckets", "namespace"} =>
         scoped /\ \A w \in Workloads : workload[w] # "absent"
    /\ helm[n] = "namespace" => job["buckets"] = "done"

Safe ==
  /\ ResultIsOurs /\ ImagesAreThere /\ HelmHasDone /\ InstalledIsWhole
  /\ OneAtATime /\ NothingOutside /\ SecondPassHasDatabase /\ HookSetsSchema
  /\ AwaitedIsGone /\ ServingHasBuckets
  /\ SchemaFirst /\ HookHasDatabase /\ HelmHoldsRelease

IInv == TypeOK /\ Safe

-----------------------------------------------------------------------------
LEMMA Starts == Init => IInv
<1> SUFFICES ASSUME Init PROVE IInv
  OBVIOUS
<1> USE InstallationAssumption
        DEF Init, Active, HelmRuns, Steps, Hooks, Workloads, NoWorkload, NoDefault, NoJob, Runs
<1>1. TypeOK
  <2>1. /\ images \in BOOLEAN /\ schema \in BOOLEAN /\ scoped \in BOOLEAN
        /\ buckets \in BOOLEAN /\ misread \in BOOLEAN
        /\ checkPod \in BOOLEAN /\ beside \in BOOLEAN
    OBVIOUS
  <2>2. skip \in [Runs -> BOOLEAN] /\ helm \in [Runs -> Hooks \cup {"none", "apply"}]
    OBVIOUS
  <2>3. default \in [exists : BOOLEAN, archival : BOOLEAN]
    OBVIOUS
  <2> QED BY <2>1, <2>2, <2>3 DEF TypeOK
<1>2. Safe
  BY DEF Safe, OneAtATime, NothingOutside, SecondPassHasDatabase, HookSetsSchema,
         AwaitedIsGone, ServingHasBuckets, SchemaFirst, HookHasDatabase, HelmHoldsRelease,
         ResultIsOurs, ImagesAreThere, HelmHasDone, InstalledIsWhole
<1> QED BY <1>1, <1>2 DEF IInv

LEMMA TypeSteps == TypeOK /\ [Next]_vars => TypeOK'
<1> SUFFICES ASSUME TypeOK, [Next]_vars PROVE TypeOK'
  OBVIOUS
<1> USE InstallationAssumption
        DEF TypeOK, Active, HelmRuns, Steps, Hooks, Workloads, NoWorkload,
            NoDefault, NoJob, Runs, cluster
<1>f. Fault => count' \in [faults : 0..MaxFaults, installs : 0..MaxInstalls,
                           teardowns : 0..MaxTeardowns]
  BY DEF Fault
<1>1. CASE StartInstall
  <2>1. skip' \in [Runs -> BOOLEAN]
    BY <1>1 DEF StartInstall, TornDown
  <2>2. count' \in [faults : 0..MaxFaults, installs : 0..MaxInstalls,
                    teardowns : 0..MaxTeardowns]
    <3>1. count.installs < MaxInstalls /\ count' = [count EXCEPT !.installs = count.installs + 1]
      BY <1>1 DEF StartInstall
    <3> QED BY <3>1
  <2> QED BY <1>1, <2>1, <2>2 DEF StartInstall, TornDown
<1>2. CASE CheckImages
  BY <1>2 DEF CheckImages, Go
<1>3. CASE Prepare
  BY <1>3 DEF Prepare, Go
<1>4. CASE Pass1
  <2>1. workload' \in [Workloads -> {"absent", "pending", "ready", "crashing"}]
    BY <1>4 DEF Pass1, Go, FirstPass, Applied
  <2>2. buckets' \in BOOLEAN
    BY <1>4 DEF Pass1, Go, FirstPass, Applied
  <2>3. scoped' \in BOOLEAN
    BY <1>4 DEF Pass1, Go, FirstPass, Applied
  <2>4. holder' \in 0..MaxInstalls
    BY <1>4 DEF Pass1, Go, FirstPass, Applied
  <2> QED BY <1>4, <2>1, <2>2, <2>3, <2>4 DEF Pass1, Go, FirstPass, Applied
<1>5. CASE Pass1Refused
  BY <1>5 DEF Pass1Refused, Go
<1>6. CASE RolloutDatabases
  BY <1>6 DEF RolloutDatabases, Go
<1>7. CASE NoDatabases
  BY <1>7 DEF NoDatabases, Go
<1>8. CASE PingDatabases
  BY <1>8 DEF PingDatabases, Go
<1>9. CASE StartPass2
  <2>1. helm' \in [Runs -> Hooks \cup {"none", "apply"}]
    BY <1>9 DEF StartPass2, Go
  <2>2. job' \in [Hooks -> {"none", "running", "done", "failed"}]
    BY <1>9 DEF StartPass2, Go
  <2>3. holder' \in 0..MaxInstalls
    BY <1>9 DEF StartPass2, Go
  <2> QED BY <1>9, <2>1, <2>2, <2>3 DEF StartPass2, Go
<1>10. CASE WaitForHelm
  BY <1>10 DEF WaitForHelm, Go
<1>11. CASE ServicesReady
  BY <1>11 DEF ServicesReady, Go
<1>12. CASE NoServer
  BY <1>12 DEF NoServer, Go
<1>13. CASE Verify
  BY <1>13 DEF Verify, Go
<1>14. CASE PrepareFails
  <2>1. count' \in [faults : 0..MaxFaults, installs : 0..MaxInstalls,
                    teardowns : 0..MaxTeardowns]
    BY <1>14, <1>f DEF PrepareFails, Go
  <2> QED BY <1>14, <2>1 DEF PrepareFails, Go
<1>15. CASE Pass1Fails
  <2>1. workload' \in [Workloads -> {"absent", "pending", "ready", "crashing"}]
    BY <1>15 DEF Pass1Fails, Go, FirstPass, Applied
  <2>2. buckets' \in BOOLEAN
    BY <1>15 DEF Pass1Fails, Go, FirstPass, Applied
  <2>3. scoped' \in BOOLEAN
    BY <1>15 DEF Pass1Fails, Go, FirstPass, Applied
  <2>4. holder' \in 0..MaxInstalls
    BY <1>15 DEF Pass1Fails, Go, FirstPass, Applied
  <2>5. count' \in [faults : 0..MaxFaults, installs : 0..MaxInstalls,
                    teardowns : 0..MaxTeardowns]
    BY <1>15, <1>f DEF Pass1Fails, Go, FirstPass, Applied
  <2> QED BY <1>15, <2>1, <2>2, <2>3, <2>4, <2>5 DEF Pass1Fails, Go, FirstPass, Applied
<1>16. CASE Pass1Killed
  <2>1. workload' \in [Workloads -> {"absent", "pending", "ready", "crashing"}]
    BY <1>16 DEF Pass1Killed, Go, FirstPass, Applied
  <2>2. buckets' \in BOOLEAN
    BY <1>16 DEF Pass1Killed, Go, FirstPass, Applied
  <2>3. scoped' \in BOOLEAN
    BY <1>16 DEF Pass1Killed, Go, FirstPass, Applied
  <2>4. holder' \in 0..MaxInstalls
    BY <1>16 DEF Pass1Killed, Go, FirstPass, Applied
  <2>5. count' \in [faults : 0..MaxFaults, installs : 0..MaxInstalls,
                    teardowns : 0..MaxTeardowns]
    BY <1>16, <1>f DEF Pass1Killed, Go, FirstPass, Applied
  <2> QED BY <1>16, <2>1, <2>2, <2>3, <2>4, <2>5 DEF Pass1Killed, Go, FirstPass, Applied
<1>17. CASE RolloutTimesOut
  <2>1. count' \in [faults : 0..MaxFaults, installs : 0..MaxInstalls,
                    teardowns : 0..MaxTeardowns]
    BY <1>17, <1>f DEF RolloutTimesOut, Go
  <2> QED BY <1>17, <2>1 DEF RolloutTimesOut, Go
<1>18. CASE CheckPodLeft
  <2>1. checkPod' \in BOOLEAN
    BY <1>18 DEF CheckPodLeft, Go
  <2>2. count' \in [faults : 0..MaxFaults, installs : 0..MaxInstalls,
                    teardowns : 0..MaxTeardowns]
    BY <1>18, <1>f DEF CheckPodLeft, Go
  <2> QED BY <1>18, <2>1, <2>2 DEF CheckPodLeft, Go
<1>19. CASE ServicesTimeOut
  <2>1. count' \in [faults : 0..MaxFaults, installs : 0..MaxInstalls,
                    teardowns : 0..MaxTeardowns]
    BY <1>19, <1>f DEF ServicesTimeOut, Go
  <2> QED BY <1>19, <2>1 DEF ServicesTimeOut, Go
<1>20. CASE Interrupt
  <2>1. checkPod' \in BOOLEAN
    BY <1>20 DEF Interrupt, Go
  <2>2. count' \in [faults : 0..MaxFaults, installs : 0..MaxInstalls,
                    teardowns : 0..MaxTeardowns]
    BY <1>20, <1>f DEF Interrupt, Go
  <2> QED BY <1>20, <2>1, <2>2 DEF Interrupt, Go
<1>21. ASSUME NEW n \in Runs, HelmSchemaHook(n) PROVE TypeOK'
  BY <1>21 DEF HelmSchemaHook, HelmFrame, HookDone
<1>22. ASSUME NEW n \in Runs, HelmApply(n) PROVE TypeOK'
  <2>1. helm' \in [Runs -> Hooks \cup {"none", "apply"}]
    BY <1>22 DEF HelmApply, HelmFrame, HelmApplies, Applied
  <2>2. workload' \in [Workloads -> {"absent", "pending", "ready", "crashing"}]
    BY <1>22 DEF HelmApply, HelmFrame, HelmApplies, Applied
  <2>3. job' \in [Hooks -> {"none", "running", "done", "failed"}]
    BY <1>22 DEF HelmApply, HelmFrame, HelmApplies, Applied
  <2>4. scoped' \in BOOLEAN
    BY <1>22 DEF HelmApply, HelmFrame, HelmApplies, Applied
  <2> QED BY <1>22, <2>1, <2>2, <2>3, <2>4 DEF HelmApply, HelmFrame, HelmApplies, Applied
<1>23. ASSUME NEW n \in Runs, HelmBucketsHook(n) PROVE TypeOK'
  BY <1>23 DEF HelmBucketsHook, HelmFrame, HookDone
<1>24. ASSUME NEW n \in Runs, HelmLastHook(n) PROVE TypeOK'
  <2>1. helm' \in [Runs -> Hooks \cup {"none", "apply"}]
    BY <1>24 DEF HelmLastHook, HelmFrame, HelmEnds, HelmRecords, HookDone
  <2>2. release' \in {"none", "databases", "deployed", "failed", "pending"}
    BY <1>24 DEF HelmLastHook, HelmFrame, HelmEnds, HelmRecords, HookDone
  <2>3. result' \in {"none", "ok", "failed"}
    BY <1>24 DEF HelmLastHook, HelmFrame, HelmEnds, HelmRecords, HookDone
  <2> QED BY <1>24, <2>1, <2>2, <2>3 DEF HelmLastHook, HelmFrame, HelmEnds, HelmRecords, HookDone
<1>25. ASSUME NEW n \in Runs, HelmCannotGoOn(n) PROVE TypeOK'
  <2>1. helm' \in [Runs -> Hooks \cup {"none", "apply"}]
    BY <1>25 DEF HelmCannotGoOn, HelmFrame, HelmEnds, HelmRecords
  <2>2. release' \in {"none", "databases", "deployed", "failed", "pending"}
    BY <1>25 DEF HelmCannotGoOn, HelmFrame, HelmEnds, HelmRecords
  <2>3. result' \in {"none", "ok", "failed"}
    BY <1>25 DEF HelmCannotGoOn, HelmFrame, HelmEnds, HelmRecords
  <2>4. scoped' \in BOOLEAN
    BY <1>25 DEF HelmCannotGoOn, HelmFrame, HelmEnds, HelmRecords
  <2> QED BY <1>25, <2>1, <2>2, <2>3, <2>4 DEF HelmCannotGoOn, HelmFrame, HelmEnds, HelmRecords
<1>26. ASSUME NEW n \in Runs, HelmFails(n) PROVE TypeOK'
  <2>1. helm' \in [Runs -> Hooks \cup {"none", "apply"}]
    BY <1>26 DEF HelmFails, HelmBreaksOff, HelmFrame, HelmEnds, HelmRecords, HelmApplies, Applied
  <2>2. release' \in {"none", "databases", "deployed", "failed", "pending"}
    BY <1>26 DEF HelmFails, HelmBreaksOff, HelmFrame, HelmEnds, HelmRecords, HelmApplies, Applied
  <2>3. result' \in {"none", "ok", "failed"}
    BY <1>26 DEF HelmFails, HelmBreaksOff, HelmFrame, HelmEnds, HelmRecords, HelmApplies, Applied
  <2>4. scoped' \in BOOLEAN
    BY <1>26 DEF HelmFails, HelmBreaksOff, HelmFrame, HelmEnds, HelmRecords, HelmApplies, Applied
  <2>5. workload' \in [Workloads -> {"absent", "pending", "ready", "crashing"}]
    BY <1>26 DEF HelmFails, HelmBreaksOff, HelmFrame, HelmEnds, HelmRecords, HelmApplies, Applied
  <2>6. count' \in [faults : 0..MaxFaults, installs : 0..MaxInstalls,
                    teardowns : 0..MaxTeardowns]
    BY <1>26, <1>f DEF HelmFails, HelmBreaksOff, HelmFrame, HelmEnds, HelmRecords, HelmApplies, Applied
  <2> QED BY <1>26, <2>1, <2>2, <2>3, <2>4, <2>5, <2>6 DEF HelmFails, HelmBreaksOff, HelmFrame, HelmEnds, HelmRecords, HelmApplies, Applied
<1>27. ASSUME NEW n \in Runs, HelmKilled(n) PROVE TypeOK'
  <2>1. helm' \in [Runs -> Hooks \cup {"none", "apply"}]
    BY <1>27 DEF HelmKilled, HelmBreaksOff, HelmFrame, HelmEnds, HelmApplies, Applied
  <2>2. result' \in {"none", "ok", "failed"}
    BY <1>27 DEF HelmKilled, HelmBreaksOff, HelmFrame, HelmEnds, HelmApplies, Applied
  <2>3. scoped' \in BOOLEAN
    BY <1>27 DEF HelmKilled, HelmBreaksOff, HelmFrame, HelmEnds, HelmApplies, Applied
  <2>4. workload' \in [Workloads -> {"absent", "pending", "ready", "crashing"}]
    BY <1>27 DEF HelmKilled, HelmBreaksOff, HelmFrame, HelmEnds, HelmApplies, Applied
  <2>5. count' \in [faults : 0..MaxFaults, installs : 0..MaxInstalls,
                    teardowns : 0..MaxTeardowns]
    BY <1>27, <1>f DEF HelmKilled, HelmBreaksOff, HelmFrame, HelmEnds, HelmApplies, Applied
  <2> QED BY <1>27, <2>1, <2>2, <2>3, <2>4, <2>5 DEF HelmKilled, HelmBreaksOff, HelmFrame, HelmEnds, HelmApplies, Applied
<1>28. CASE SchemaJob
  BY <1>28 DEF SchemaJob, JobEnds
<1>29. CASE SchemaJobFails
  <2>1. job' \in [Hooks -> {"none", "running", "done", "failed"}]
    BY <1>29 DEF SchemaJobFails, JobEnds
  <2>2. count' \in [faults : 0..MaxFaults, installs : 0..MaxInstalls,
                    teardowns : 0..MaxTeardowns]
    BY <1>29, <1>f DEF SchemaJobFails, JobEnds
  <2> QED BY <1>29, <2>1, <2>2 DEF SchemaJobFails, JobEnds
<1>30. CASE BucketsJob
  <2>1. job' \in [Hooks -> {"none", "running", "done", "failed"}]
    BY <1>30 DEF BucketsJob, JobEnds
  <2>2. buckets' \in BOOLEAN
    BY <1>30 DEF BucketsJob, JobEnds
  <2>3. count' \in [faults : 0..MaxFaults, installs : 0..MaxInstalls,
                    teardowns : 0..MaxTeardowns]
    BY <1>30, <1>f DEF BucketsJob, JobEnds
  <2> QED BY <1>30, <2>1, <2>2, <2>3 DEF BucketsJob, JobEnds
<1>31. CASE NamespaceJob
  <2>1. job' \in [Hooks -> {"none", "running", "done", "failed"}]
    BY <1>31 DEF NamespaceJob, JobEnds
  <2>2. default' \in [exists : BOOLEAN, archival : BOOLEAN]
    BY <1>31 DEF NamespaceJob, JobEnds
  <2>3. count' \in [faults : 0..MaxFaults, installs : 0..MaxInstalls,
                    teardowns : 0..MaxTeardowns]
    BY <1>31, <1>f DEF NamespaceJob, JobEnds
  <2> QED BY <1>31, <2>1, <2>2, <2>3 DEF NamespaceJob, JobEnds
<1>32. ASSUME NEW w \in Workloads, PodReady(w) PROVE TypeOK'
  <2>1. workload' \in [Workloads -> {"absent", "pending", "ready", "crashing"}]
    BY <1>32 DEF PodReady, PodFrame
  <2>2. buckets' \in BOOLEAN
    BY <1>32 DEF PodReady, PodFrame
  <2> QED BY <1>32, <2>1, <2>2 DEF PodReady, PodFrame
<1>33. ASSUME NEW w \in Workloads, PodLost(w) PROVE TypeOK'
  <2>1. workload' \in [Workloads -> {"absent", "pending", "ready", "crashing"}]
    BY <1>33 DEF PodLost, PodFrame
  <2>2. buckets' \in BOOLEAN
    BY <1>33 DEF PodLost, PodFrame
  <2>3. count' \in [faults : 0..MaxFaults, installs : 0..MaxInstalls,
                    teardowns : 0..MaxTeardowns]
    BY <1>33, <1>f DEF PodLost, PodFrame
  <2> QED BY <1>33, <2>1, <2>2, <2>3 DEF PodLost, PodFrame
<1>34. CASE StartTeardown
  <2>1. misread' \in BOOLEAN
    BY <1>34 DEF StartTeardown, TornDown
  <2>2. beside' \in BOOLEAN
    BY <1>34 DEF StartTeardown, TornDown
  <2>3. count' \in [faults : 0..MaxFaults, installs : 0..MaxInstalls,
                    teardowns : 0..MaxTeardowns]
    BY <1>34 DEF StartTeardown, TornDown
  <2> QED BY <1>34, <2>1, <2>2, <2>3 DEF StartTeardown, TornDown
<1>35. CASE Uninstall
  <2>1. workload' \in [Workloads -> {"absent", "pending", "ready", "crashing"}]
    <3>1. \/ workload' = NoWorkload \/ workload' = workload
          \/ \E part \in SUBSET Workloads :
               workload' = [x \in Workloads |-> IF x \in part THEN "absent" ELSE workload[x]]
      BY <1>35 DEF Uninstall
    <3> QED BY <3>1
  <2>2. buckets' \in BOOLEAN
    BY <1>35 DEF Uninstall, TeardownGo
  <2>3. scoped' \in BOOLEAN
    BY <1>35 DEF Uninstall, TeardownGo
  <2>4. count' \in [faults : 0..MaxFaults, installs : 0..MaxInstalls,
                    teardowns : 0..MaxTeardowns]
    BY <1>35, <1>f DEF Uninstall, TeardownGo
  <2>5. release' \in {"none", "databases", "deployed", "failed", "pending"}
    BY <1>35 DEF Uninstall, TeardownGo
  <2>6. holder' \in 0..MaxInstalls
    <3>1. holder' = 0 \/ holder' = holder
      BY <1>35 DEF Uninstall
    <3> QED BY <3>1
  <2> QED BY <1>35, <2>1, <2>2, <2>3, <2>4, <2>5, <2>6 DEF Uninstall, TeardownGo
<1>36. CASE DeleteNamespace
  <2>1. workload' \in [Workloads -> {"absent", "pending", "ready", "crashing"}]
    BY <1>36 DEF DeleteNamespace, TeardownGo
  <2>2. buckets' \in BOOLEAN
    BY <1>36 DEF DeleteNamespace, TeardownGo
  <2>3. schema' \in BOOLEAN
    BY <1>36 DEF DeleteNamespace, TeardownGo
  <2>4. job' \in [Hooks -> {"none", "running", "done", "failed"}]
    BY <1>36 DEF DeleteNamespace, TeardownGo
  <2>5. default' \in [exists : BOOLEAN, archival : BOOLEAN]
    <3>1. NoDefault \in [exists : BOOLEAN, archival : BOOLEAN]
      OBVIOUS
    <3>2. default' = NoDefault \/ default' = default
      BY <1>36 DEF DeleteNamespace
    <3> QED BY <3>1, <3>2
  <2>6. checkPod' \in BOOLEAN
    BY <1>36 DEF DeleteNamespace, TeardownGo
  <2>7. count' \in [faults : 0..MaxFaults, installs : 0..MaxInstalls,
                    teardowns : 0..MaxTeardowns]
    BY <1>36, <1>f DEF DeleteNamespace, TeardownGo
  <2> QED BY <1>36, <2>1, <2>2, <2>3, <2>4, <2>5, <2>6, <2>7 DEF DeleteNamespace, TeardownGo
<1>37. CASE AwaitNamespace
  BY <1>37 DEF AwaitNamespace, TeardownGo
<1>38. CASE RemoveImages
  <2>1. images' \in BOOLEAN
    BY <1>38 DEF RemoveImages, TeardownGo
  <2> QED BY <1>38, <2>1 DEF RemoveImages, TeardownGo
<1>39. CASE MisreadNamespace
  <2>1. misread' \in BOOLEAN
    BY <1>39 DEF MisreadNamespace, TeardownGo
  <2>2. count' \in [faults : 0..MaxFaults, installs : 0..MaxInstalls,
                    teardowns : 0..MaxTeardowns]
    BY <1>39, <1>f DEF MisreadNamespace, TeardownGo
  <2> QED BY <1>39, <2>1, <2>2 DEF MisreadNamespace, TeardownGo
<1>40. CASE StopTeardown
  <2>1. count' \in [faults : 0..MaxFaults, installs : 0..MaxInstalls,
                    teardowns : 0..MaxTeardowns]
    BY <1>40, <1>f DEF StopTeardown, TeardownGo, TornDown
  <2> QED BY <1>40, <2>1 DEF StopTeardown, TeardownGo, TornDown
<1>41. CASE NamespaceGone
  BY <1>41 DEF NamespaceGone
<1>42. CASE UNCHANGED vars
  BY <1>42 DEF vars
<1> QED
  BY <1>1, <1>2, <1>3, <1>4, <1>5, <1>6, <1>7, <1>8, <1>9, <1>10, <1>11, <1>12,
     <1>13, <1>14, <1>15, <1>16, <1>17, <1>18, <1>19, <1>20, <1>21, <1>22, <1>23, <1>24,
     <1>25, <1>26, <1>27, <1>28, <1>29, <1>30, <1>31, <1>32, <1>33, <1>34, <1>35, <1>36,
     <1>37, <1>38, <1>39, <1>40, <1>41, <1>42
  DEF Next, ScriptStep, ScriptFault, HelmStep, TeardownStep

LEMMA SafeSteps == IInv /\ [Next]_vars => Safe'
<1> SUFFICES ASSUME IInv, [Next]_vars PROVE Safe'
  OBVIOUS
<1> USE InstallationAssumption
        DEF IInv, TypeOK, Safe, OneAtATime, NothingOutside, SecondPassHasDatabase,
            HookSetsSchema, AwaitedIsGone, ServingHasBuckets, SchemaFirst,
            HookHasDatabase, HelmHoldsRelease, ResultIsOurs,
            ImagesAreThere, HelmHasDone, InstalledIsWhole, Active, HelmRuns, Steps, Hooks,
            Workloads, NoWorkload, NoDefault, NoJob, Runs, cluster
<1>1. CASE StartInstall
  BY <1>1 DEF StartInstall, TornDown
<1>2. CASE CheckImages
  BY <1>2 DEF CheckImages, Go
<1>3. CASE Prepare
  BY <1>3 DEF Prepare, Go
<1>4. CASE Pass1
  BY <1>4 DEF Pass1, Go, FirstPass, Applied
<1>5. CASE Pass1Refused
  BY <1>5 DEF Pass1Refused, Go
<1>6. CASE RolloutDatabases
  BY <1>6 DEF RolloutDatabases, Go
<1>7. CASE NoDatabases
  BY <1>7 DEF NoDatabases, Go
<1>8. CASE PingDatabases
  BY <1>8 DEF PingDatabases, Go
<1>9. CASE StartPass2
  BY <1>9 DEF StartPass2, Go
<1>10. CASE WaitForHelm
  BY <1>10 DEF WaitForHelm, Go
<1>11. CASE ServicesReady
  BY <1>11 DEF ServicesReady, Go
<1>12. CASE NoServer
  BY <1>12 DEF NoServer, Go
<1>13. CASE Verify
  BY <1>13 DEF Verify, Go
<1>14. CASE PrepareFails
  BY <1>14 DEF PrepareFails, Go, Fault
<1>15. CASE Pass1Fails
  BY <1>15 DEF Pass1Fails, Go, Fault, FirstPass, Applied
<1>16. CASE Pass1Killed
  BY <1>16 DEF Pass1Killed, Go, Fault, FirstPass, Applied
<1>17. CASE RolloutTimesOut
  BY <1>17 DEF RolloutTimesOut, Go, Fault
<1>18. CASE CheckPodLeft
  BY <1>18 DEF CheckPodLeft, Go, Fault
<1>19. CASE ServicesTimeOut
  BY <1>19 DEF ServicesTimeOut, Go, Fault
<1>20. CASE Interrupt
  <2>1. UNCHANGED <<skip, teardown, misread, beside, result, helm, release, holder, images,
                    namespace, workload, scoped, schema, job, buckets, default>>
    BY <1>20 DEF Interrupt, Go
  <2>2. script' = "failed" /\ script \in Steps /\ count'.installs = count.installs
    BY <1>20 DEF Interrupt, Go, Fault
  <2>3. namespace = "present" \/ UNCHANGED checkPod
    BY <1>20 DEF Interrupt, Go
  <2> QED BY <2>1, <2>2, <2>3
<1>21. ASSUME NEW n \in Runs, HelmSchemaHook(n) PROVE Safe'
  BY <1>21 DEF HelmSchemaHook, HelmFrame, HookDone
<1>22. ASSUME NEW n \in Runs, HelmApply(n) PROVE Safe'
  BY <1>22 DEF HelmApply, HelmFrame, HelmApplies, Applied
<1>23. ASSUME NEW n \in Runs, HelmBucketsHook(n) PROVE Safe'
  BY <1>23 DEF HelmBucketsHook, HelmFrame, HookDone
<1>24. ASSUME NEW n \in Runs, HelmLastHook(n) PROVE Safe'
  BY <1>24 DEF HelmLastHook, HelmFrame, HelmEnds, HelmRecords, HookDone
<1>25. ASSUME NEW n \in Runs, HelmCannotGoOn(n) PROVE Safe'
  <2>1. helm[n] # "none" /\ scoped' \in {scoped, TRUE}
    BY <1>25 DEF HelmCannotGoOn
  <2>2. /\ helm' = [helm EXCEPT ![n] = "none"]
        /\ result' \in {result, "failed"}
    BY <1>25 DEF HelmCannotGoOn, HelmEnds
  <2>3. /\ UNCHANGED <<script, skip, images, namespace, schema, buckets, default, checkPod,
                       teardown, misread, beside, workload, job, count, holder>>
        /\ release' \in {release, "failed"} /\ (release = "none" => holder = n \/ release' = release)
    BY <1>25 DEF HelmCannotGoOn, HelmFrame, HelmRecords
  <2> QED BY <2>1, <2>2, <2>3
<1>26. ASSUME NEW n \in Runs, HelmFails(n) PROVE Safe'
  BY <1>26 DEF HelmFails, HelmBreaksOff, HelmFrame, HelmEnds, HelmRecords, HelmApplies, Applied, Fault
<1>27. ASSUME NEW n \in Runs, HelmKilled(n) PROVE Safe'
  BY <1>27 DEF HelmKilled, HelmBreaksOff, HelmFrame, HelmEnds, HelmApplies, Applied, Fault
<1>28. CASE SchemaJob
  BY <1>28 DEF SchemaJob, JobEnds
<1>29. CASE SchemaJobFails
  BY <1>29 DEF SchemaJobFails, JobEnds, Fault
<1>30. CASE BucketsJob
  <2>1. /\ job["buckets"] = "running" /\ job' = [job EXCEPT !["buckets"] = "done"]
        /\ UNCHANGED <<script, skip, result, helm, release, holder, images, namespace, workload,
                       scoped, schema, default, checkPod, teardown, misread, beside>>
    BY <1>30 DEF BucketsJob, JobEnds
  <2>2. (buckets => buckets') /\ count'.installs = count.installs
    <3>1. buckets => buckets'
      BY <1>30 DEF BucketsJob
    <3>2. count'.installs = count.installs
      BY <1>30 DEF BucketsJob, Fault
    <3> QED BY <3>1, <3>2
  <2>3. /\ job' \in [Hooks -> {"none", "running", "done", "failed"}]
        /\ job'["buckets"] = "done"
        /\ \A h \in {"schema", "namespace"} : job'[h] = job[h]
    BY <2>1
  <2> QED BY <2>1, <2>2, <2>3
<1>31. CASE NamespaceJob
  BY <1>31 DEF NamespaceJob, JobEnds, Fault
<1>32. ASSUME NEW w \in Workloads, PodReady(w) PROVE Safe'
  <2>1. /\ workload[w] = "pending" /\ workload' = [workload EXCEPT ![w] = "ready"]
        /\ UNCHANGED <<script, skip, result, helm, release, holder, images, namespace, scoped,
                       schema, job, default, checkPod, teardown, misread, beside, count>>
    BY <1>32 DEF PodReady, PodFrame
  <2>2. (buckets => buckets') /\ (w = "minio" => buckets')
    BY <1>32 DEF PodReady
  <2>3. /\ namespace = "present" /\ \A x \in Workloads : workload'[x] = "absent" <=> workload[x] = "absent"
        /\ \A x \in Workloads \ {w} : workload'[x] = workload[x]
    BY <2>1
  <2> QED BY <2>1, <2>2, <2>3
<1>33. ASSUME NEW w \in Workloads, PodLost(w) PROVE Safe'
  BY <1>33 DEF PodLost, PodFrame, Fault
<1>34. CASE StartTeardown
  BY <1>34 DEF StartTeardown, TornDown
<1>35. CASE Uninstall
  <2>1. /\ teardown = "uninstall" /\ teardown' = "delete"
        /\ UNCHANGED <<script, skip, result, helm, beside, images, namespace, schema, job,
                       default, checkPod, misread>>
    BY <1>35 DEF Uninstall, TeardownGo
  <2>2. ~Active /\ (beside \/ ~HelmRuns)
    BY <2>1
  <2>3. count'.installs = count.installs
    BY <1>35 DEF Uninstall, Fault
  <2>a. \/ workload' = NoWorkload
        \/ UNCHANGED <<workload, buckets>>
        \/ \E part \in SUBSET Workloads :
             /\ workload' = [x \in Workloads |-> IF x \in part THEN "absent" ELSE workload[x]]
             /\ "minio" \notin part => buckets' = buckets
    BY <1>35 DEF Uninstall
  <2>4. \A x \in Workloads : workload'[x] \in {workload[x], "absent"}
    BY <2>a
  <2>5. workload'["minio"] = "ready" => workload["minio"] = "ready" /\ buckets'
    BY <2>a
  <2>6. workload = NoWorkload => workload' = NoWorkload
    BY <1>35 DEF Uninstall
  <2>7. release = "none" /\ holder = 0 => release' = "none" /\ holder' = 0
    BY <1>35 DEF Uninstall
  <2> QED BY <2>1, <2>2, <2>3, <2>4, <2>5, <2>6, <2>7
<1>36. CASE DeleteNamespace
  BY <1>36 DEF DeleteNamespace, TeardownGo, Fault
<1>37. CASE AwaitNamespace
  BY <1>37 DEF AwaitNamespace, TeardownGo
<1>38. CASE RemoveImages
  BY <1>38 DEF RemoveImages, TeardownGo
<1>39. CASE MisreadNamespace
  BY <1>39 DEF MisreadNamespace, TeardownGo, Fault
<1>40. CASE StopTeardown
  BY <1>40 DEF StopTeardown, TeardownGo, TornDown, Fault
<1>41. CASE NamespaceGone
  BY <1>41 DEF NamespaceGone
<1>42. CASE UNCHANGED vars
  BY <1>42 DEF vars
<1> QED
  BY <1>1, <1>2, <1>3, <1>4, <1>5, <1>6, <1>7, <1>8, <1>9, <1>10, <1>11, <1>12,
     <1>13, <1>14, <1>15, <1>16, <1>17, <1>18, <1>19, <1>20, <1>21, <1>22, <1>23, <1>24,
     <1>25, <1>26, <1>27, <1>28, <1>29, <1>30, <1>31, <1>32, <1>33, <1>34, <1>35, <1>36,
     <1>37, <1>38, <1>39, <1>40, <1>41, <1>42
  DEF Next, ScriptStep, ScriptFault, HelmStep, TeardownStep

LEMMA Invariant == Spec => []IInv
<1>1. IInv /\ [Next]_vars => IInv'
  BY TypeSteps, SafeSteps DEF IInv
<1> QED BY <1>1, Starts, PTL DEF Spec

-----------------------------------------------------------------------------

\* Type correctness of Installation.
THEOREM InstallationTypeCorrect == Spec => []TypeOK
<1>1. IInv => TypeOK
  BY DEF IInv
<1> QED BY <1>1, Invariant, PTL

\* However often it is installed, interrupted and torn down, the server is never
\* deployed on a secondary visibility store without schema, unless teardown.sh was
\* started beside a helm process
\* (templates/visibility-secondary-schema-job.yaml, a pre-upgrade hook).
THEOREM ServerHasSchema == Spec => []SchemaFirst
<1>1. IInv => SchemaFirst
  BY DEF IInv, Safe
<1> QED BY <1>1, Invariant, PTL

\* The schema hook of any installation finds its database deployed, unless
\* teardown.sh was started beside a helm process
\* (install.sh, the first pass of helm and the waits after it).
THEOREM SchemaHookHasDatabase == Spec => []HookHasDatabase
<1>1. IInv => HookHasDatabase
  BY DEF IInv, Safe
<1> QED BY <1>1, Invariant, PTL

\* A helm process of install.sh, also one left behind by an interrupt, keeps its
\* release locked and its namespace through every later install.sh; what it is not
\* safe from is a teardown.sh started beside it (install.sh, the second pass of helm).
THEOREM ReleaseIsHeld == Spec => []HelmHoldsRelease
<1>1. IInv => HelmHoldsRelease
  BY DEF IInv, Safe
<1> QED BY <1>1, Invariant, PTL

\* teardown.sh, whatever fails under way and whatever helm still runs beside it, ends
\* with nothing left in the namespace, unless an error was taken for the absence of
\* the namespace (teardown.sh, step 3).
THEOREM TeardownIsClean == Spec => []TornIsGone
<1>1. IInv => TornIsGone
  BY DEF IInv, Safe, AwaitedIsGone, NothingOutside, TornIsGone
<1> QED BY <1>1, Invariant, PTL

\* Where the default namespace archives, a MinIO that serves has its buckets
\* (templates/minio.yaml, the start script of its container).
THEOREM BucketsForArchival == Spec => []ArchivalHasBuckets
<1>1. IInv => ArchivalHasBuckets
  BY DEF IInv, Safe, ServingHasBuckets, ArchivalHasBuckets
<1> QED BY <1>1, Invariant, PTL

\* When the helm of the present install.sh ended well everything it installs is there,
\* through all faults and whatever an earlier run left behind, until the next script,
\* unless teardown.sh was started beside a helm process
\* (install.sh, step 5 and the waits after it).
THEOREM WellEndedIsInstalled == Spec => []InstalledIsWhole
<1>1. IInv => InstalledIsWhole
  BY DEF IInv, Safe
<1> QED BY <1>1, Invariant, PTL
=============================================================================
