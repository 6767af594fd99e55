-------------------------- MODULE HistoryArchiver --------------------------
(***************************************************************************)
(* MinioHistoryArchiver.Archive of images/server/archiver/                 *)
(* history_archiver.go, run by archival tasks of the Temporal server.      *)
(*                                                                         *)
(* A task is submitted with a request for a closed run and is attempted    *)
(* until Archive returns nil or a non-retryable error.  An attempt builds  *)
(* a history iterator, accumulates blobs until the last one and uploads    *)
(* the accumulated history as one object.  Between any two steps of an     *)
(* attempt other tasks (a duplicate signal for the same run included) take *)
(* steps, the server may crash, the run may be rewritten by conflict       *)
(* resolution, and, once some task for its history was acknowledged, its   *)
(* history may be deleted.                                                 *)
(***************************************************************************)
EXTENDS ArchiveData

CONSTANTS
  Tasks,               \* archival tasks
  RunOf,               \* RunOf[t]: the run task t is to archive
  HasProgressManager,  \* the caller passes ArchiveOptions with a ProgressManager
  MaxLen,              \* bound: batches in a history
  MaxFaults            \* bound: failed calls and crashes

ASSUME TaskAssumption == RunOf \in [Tasks -> Runs]
ASSUME ProgressAssumption == HasProgressManager \in BOOLEAN
ASSUME BoundAssumption == MaxLen \in Nat \ {0} /\ MaxFaults \in Nat

VARIABLES
  history,   \* the closed history of each run in persistence
  deleted,   \* runs whose history has been deleted
  objects,   \* the bucket: the history stored under each key, << >> if none
  pc,        \* where each task is
  request,   \* the ArchiveHistoryRequest of each task
  asked,     \* history variable: the history the request was made for
  buf,       \* allHistories: the batches accumulated by the current attempt
  iter,      \* the iterator of the current attempt
  progress,  \* the iterator state last recorded with the ProgressManager
  faults     \* failed calls and crashes so far

bucketVars == <<history, deleted, objects>>
requestVars == <<request, asked>>
attemptVars == <<buf, iter>>
vars == <<bucketVars, pc, requestVars, attemptVars, progress, faults>>

\* An iterator is the number of batches it has delivered and whether it has
\* delivered the last one (HasNext is its negation).
Iterator == [pos : Nat, finished : BOOLEAN]
FreshIterator == [pos |-> 0, finished |-> FALSE]

PC == {"unsubmitted", "waiting", "reading", "uploading", "stored",
       "acked", "rejected"}

Request == [valid : BOOLEAN, closeFailoverVersion : Version, nextEventID : Nat]

Running(t) == pc[t] \in {"reading", "uploading", "stored"}

Submitted(t) == pc[t] # "unsubmitted"

ObjectKey(t) == HistoryKey(RunOf[t], request[t].closeFailoverVersion)

Secured(r, h) ==
  Filtered(h) \/ objects[HistoryKey(r, CloseVersion(h))] = h

InitialHistory ==
  {[i \in 1..len |-> [id |-> i, version |-> 0,
                      type |-> IF i = len THEN s ELSE OtherEvent]] :
      len \in 1..MaxLen, s \in EventType}

Init ==
  /\ history \in [Runs -> InitialHistory]
  /\ deleted = {}
  /\ objects = [k \in Key |-> << >>]
  /\ pc = [t \in Tasks |-> "unsubmitted"]
  /\ request = [t \in Tasks |-> [valid |-> FALSE, closeFailoverVersion |-> 0,
                                 nextEventID |-> 0]]
  /\ asked = [t \in Tasks |-> << >>]
  /\ buf = [t \in Tasks |-> << >>]
  /\ iter = [t \in Tasks |-> FreshIterator]
  /\ progress = [t \in Tasks |-> FreshIterator]
  /\ faults = 0

-----------------------------------------------------------------------------
(* The environment: the server that owns runs and archival tasks.          *)

\* The server makes an archival task for the run as it closed.  The URI is that
\* of the namespace: it need not be one this archiver accepts.
Submit(t) ==
  LET h == history[RunOf[t]] IN
  /\ pc[t] = "unsubmitted"
  /\ \E ok \in BOOLEAN :
       request' = [request EXCEPT ![t] =
         [valid |-> ok, closeFailoverVersion |-> CloseVersion(h),
          nextEventID |-> Len(h) + 1]]
  /\ asked' = [asked EXCEPT ![t] = h]
  /\ pc' = [pc EXCEPT ![t] = "waiting"]
  /\ UNCHANGED <<bucketVars, attemptVars, progress, faults>>

RewriteHistory(r) ==
  /\ r \notin deleted
  /\ CloseVersion(history[r]) < MaxVersion
  /\ \E keep \in 0..(Len(history[r]) - 1), len \in 1..MaxLen, s \in EventType :
       /\ keep < len
       /\ history' = [history EXCEPT ![r] = Rewriting(@, keep, len, s)]
  /\ UNCHANGED <<deleted, objects, pc, requestVars, attemptVars, progress, faults>>

\* Retention deletes a history once its archival was acknowledged.
DeleteHistory(r) ==
  /\ \E t \in Tasks : RunOf[t] = r /\ pc[t] = "acked" /\ asked[t] = history[r]
  /\ deleted' = deleted \cup {r}
  /\ UNCHANGED <<history, objects, pc, requestVars, attemptVars, progress, faults>>

-----------------------------------------------------------------------------
(* One attempt of Archive.                                                 *)

\* Seeded fault: the recorded position is restored off by one.
MutIterators(t) == {[pos |-> i.pos - 1, finished |-> i.finished] :
                      i \in {progress[t], FreshIterator}}

\* buildHistoryIterator: resume from recorded progress if there is a manager that
\* can load some, else start afresh.
Iterators(t) ==
  IF HasProgressManager THEN {progress[t], FreshIterator} ELSE {FreshIterator}

\* ValidateURI and ValidateHistoryArchiveRequest, then the iterator and an empty
\* allHistories.
StartAttempt(t) ==
  /\ pc[t] = "waiting"
  /\ IF request[t].valid
       THEN /\ pc' = [pc EXCEPT ![t] = "reading"]
            /\ iter' \in {[iter EXCEPT ![t] = i] : i \in Iterators(t)}
            /\ buf' = [buf EXCEPT ![t] = << >>]
       ELSE /\ pc' = [pc EXCEPT ![t] = "rejected"]
            /\ UNCHANGED attemptVars
  /\ UNCHANGED <<bucketVars, requestVars, progress, faults>>

\* The next n batches of the run's history, as iter.Next returns them.
Blob(t, n) ==
  SubSeq(history[RunOf[t]], iter[t].pos + 1, iter[t].pos + n)

IsLast(t, n) == iter[t].pos + n = Len(history[RunOf[t]])

\* Seeded fault: the history is taken to be what the request was made for.
MutHistoryMutated(t, blob, isLast) == FALSE

\* Seeded fault: only the position of the close event is compared.
MutSameLength(t, blob, isLast) ==
  isLast /\ LastBatch(blob).id + 1 # request[t].nextEventID

\* A blob is never empty and neither are its batches, so that the guards for such
\* have nothing to decide here.
HistoryMutated(t, blob, isLast) ==
  LET last == LastBatch(blob) IN
  \/ last.version > request[t].closeFailoverVersion
  \/ /\ isLast
     /\ \/ last.version # request[t].closeFailoverVersion
        \/ last.id + 1 # request[t].nextEventID

\* saveIteratorState; a failure to record is ignored.
SaveIteratorState(t, it) ==
  progress' \in (IF HasProgressManager
                   THEN {progress, [progress EXCEPT ![t] = it]}
                   ELSE {progress})

\* Seeded fault: a close event of unknown type is skipped instead of archived.
MutVerdict(blob) ==
  IF TerminalStatusKnown(blob) /\ ~Filtered(blob) THEN "uploading" ELSE "acked"

\* What the last blob decides: a known status that is not allowed is skipped, all
\* else is uploaded.
Verdict(blob) == IF Filtered(blob) THEN "acked" ELSE "uploading"

\* The loop body on a blob: mutated histories are rejected; else the blob is
\* accumulated and the position recorded, and the last blob decides what happens.
ReadBlob(t) ==
  /\ pc[t] = "reading"
  /\ ~iter[t].finished
  /\ RunOf[t] \notin deleted
  /\ \E n \in 1..(Len(history[RunOf[t]]) - iter[t].pos) :
       LET blob == Blob(t, n)
           next == [pos |-> iter[t].pos + n, finished |-> IsLast(t, n)]
       IN IF HistoryMutated(t, blob, IsLast(t, n))
            THEN /\ pc' = [pc EXCEPT ![t] = "rejected"]
                 /\ UNCHANGED <<attemptVars, progress>>
            ELSE /\ buf' = [buf EXCEPT ![t] = @ \o blob]
                 /\ iter' = [iter EXCEPT ![t] = next]
                 /\ SaveIteratorState(t, next)
                 /\ pc' = [pc EXCEPT ![t] =
                             IF IsLast(t, n) THEN Verdict(blob) ELSE "reading"]
  /\ UNCHANGED <<bucketVars, requestVars, faults>>

\* Seeded fault: a missing history is retried like any other read error.
MutReadNotFound(t) ==
  /\ pc[t] = "reading"
  /\ ~iter[t].finished
  /\ RunOf[t] \in deleted
  /\ pc' = [pc EXCEPT ![t] = "waiting"]
  /\ UNCHANGED <<bucketVars, requestVars, attemptVars, progress, faults>>

\* iter.Next finds no history to read: it was deleted, or it is now shorter than
\* the recorded position.  Archive takes it for a duplicate signal: nil.
ReadNotFound(t) ==
  /\ pc[t] = "reading"
  /\ ~iter[t].finished
  /\ \/ RunOf[t] \in deleted
     \/ iter[t].pos >= Len(history[RunOf[t]])
  /\ pc' = [pc EXCEPT ![t] = "acked"]
  /\ UNCHANGED <<bucketVars, requestVars, attemptVars, progress, faults>>

\* The loop is not entered: HasNext is FALSE on the restored iterator.
NothingToRead(t) ==
  /\ pc[t] = "reading"
  /\ iter[t].finished
  /\ pc' = [pc EXCEPT ![t] = "acked"]
  /\ UNCHANGED <<bucketVars, requestVars, attemptVars, progress, faults>>

Put(t) == objects' = [objects EXCEPT ![ObjectKey(t)] = buf[t]]

\* upload: PutObject succeeds.
PutObject(t) ==
  /\ pc[t] = "uploading"
  /\ Put(t)
  /\ pc' = [pc EXCEPT ![t] = "stored"]
  /\ UNCHANGED <<history, deleted, requestVars, attemptVars, progress, faults>>

\* upload returns nil and so does Archive.
ReturnNil(t) ==
  /\ pc[t] = "stored"
  /\ pc' = [pc EXCEPT ![t] = "acked"]
  /\ UNCHANGED <<bucketVars, requestVars, attemptVars, progress, faults>>

-----------------------------------------------------------------------------
(* Failures.                                                               *)

Fault == faults < MaxFaults /\ faults' = faults + 1

\* The attempt is over, its memory gone; the task and its recorded progress are
\* left, and the server will try again.
TryAgain(t) ==
  /\ pc' = [pc EXCEPT ![t] = "waiting"]
  /\ buf' = [buf EXCEPT ![t] = << >>]
  /\ iter' = [iter EXCEPT ![t] = FreshIterator]
  /\ UNCHANGED <<requestVars, progress>>

\* Seeded fault: any read error is taken for a duplicate signal.
MutReadError(t) ==
  /\ Fault
  /\ pc[t] = "reading" /\ ~iter[t].finished
  /\ pc' = [pc EXCEPT ![t] = "acked"]
  /\ UNCHANGED <<bucketVars, requestVars, attemptVars, progress>>

\* iter.Next fails with an error other than NotFound: a transient error.
ReadError(t) ==
  /\ Fault
  /\ pc[t] = "reading" /\ ~iter[t].finished
  /\ TryAgain(t)
  /\ UNCHANGED bucketVars

\* Seeded fault: the error of PutObject is logged and swallowed.
MutPutObjectError(t) ==
  /\ Fault
  /\ pc[t] = "uploading"
  /\ pc' = [pc EXCEPT ![t] = "acked"]
  /\ UNCHANGED <<bucketVars, requestVars, attemptVars, progress>>

\* PutObject returns an error, with or without having stored the object.
PutObjectError(t) ==
  /\ Fault
  /\ pc[t] = "uploading"
  /\ Put(t) \/ UNCHANGED objects
  /\ TryAgain(t)
  /\ UNCHANGED <<history, deleted>>

\* Encoding or compressing the history fails: a non-retryable error if the caller's
\* feature catalog has one, else an error that is retried.
EncodeError(t) ==
  /\ Fault
  /\ pc[t] = "uploading"
  /\ \/ /\ pc' = [pc EXCEPT ![t] = "rejected"]
        /\ UNCHANGED <<requestVars, attemptVars, progress>>
     \/ TryAgain(t)
  /\ UNCHANGED bucketVars

\* The server crashes or the attempt times out.
Crash(t) ==
  /\ Fault
  /\ Running(t)
  /\ TryAgain(t)
  /\ UNCHANGED bucketVars

-----------------------------------------------------------------------------

Archive(t) ==
  \/ StartAttempt(t) \/ ReadBlob(t) \/ ReadNotFound(t) \/ NothingToRead(t)
  \/ PutObject(t) \/ ReturnNil(t)

Failure(t) == ReadError(t) \/ PutObjectError(t) \/ EncodeError(t) \/ Crash(t)

Next ==
  \/ \E t \in Tasks : Submit(t) \/ Archive(t) \/ Failure(t)
  \/ \E r \in Runs : RewriteHistory(r) \/ DeleteHistory(r)

Spec == Init /\ [][Next]_vars

\* A submitted task is driven by the server until it is answered, and a call
\* that does not fail returns.
Fairness == \A t \in Tasks : WF_vars(Archive(t))

FairSpec == Spec /\ Fairness

-----------------------------------------------------------------------------
(* Properties.                                                             *)

\* Type invariant: among others, a stored object is a history, and an attempt holds
\* part of one.
TypeOK ==
  /\ history \in [Runs -> History \ {<< >>}]
  /\ deleted \in SUBSET Runs
  /\ objects \in [Key -> History]
  /\ pc \in [Tasks -> PC]
  /\ request \in [Tasks -> Request]
  /\ asked \in [Tasks -> History]
  /\ buf \in [Tasks -> History]
  /\ iter \in [Tasks -> Iterator]
  /\ progress \in [Tasks -> Iterator]
  /\ faults \in Nat

\* An object in the bucket is, whole and unmixed, a closed history some task was
\* asked to archive, under that run's key and with a status the filter allows
\* (README.md:68-70: "the complete buffer is ... uploaded as a single object").
StoredIsWhole ==
  \A k \in Key : objects[k] # << >> =>
    \E t \in Tasks :
      /\ Submitted(t) /\ ObjectKey(t) = k
      /\ objects[k] = asked[t]
      /\ ~Filtered(asked[t])

\* A history is deleted only when it is in the bucket, unless the status filter
\* excludes it: no crash, failed call, duplicate task or rewriting makes Archive
\* acknowledge a history it did not store.
NothingLost == \A r \in deleted : Secured(r, history[r])

\* Once acknowledged, a history that is still the run's own is secured and stays
\* so, whatever other tasks for the same run upload later.
AckedIsSecured ==
  \A t \in Tasks :
    pc[t] = "acked" /\ asked[t] = history[RunOf[t]] => Secured(RunOf[t], asked[t])

\* What is once stored under a key is never replaced by something else: a retry
\* or a duplicate task writes the same object again (keys.go: the key is the
\* identity of the history).
StoredIsFinal ==
  [][\A k \in Key : objects[k] # << >> => objects'[k] = objects[k]]_objects

\* Even when an attempt resumed from recorded progress, what it stores ends with
\* the close event it was asked for and has no gap before it.
StoredEndsAsAsked ==
  \A k \in Key : objects[k] # << >> =>
    \E t \in Tasks :
      /\ Submitted(t) /\ ObjectKey(t) = k
      /\ \E from \in 1..Len(asked[t]) :
           objects[k] = SubSeq(asked[t], from, Len(asked[t]))

\* Every valid task is answered, and by then its history is stored, filtered out,
\* rewritten by a failover or found not to be encodable: a transient error is
\* always retried to the end.
EventuallySettled ==
  \A t \in Tasks :
    (pc[t] = "waiting" /\ request[t].valid) ~>
      \/ pc[t] = "acked" /\ (Secured(RunOf[t], asked[t])
                              \/ asked[t] # history[RunOf[t]])
      \/ pc[t] = "rejected"

\* The archiver implements the archive users see: objects appear whole and a
\* history goes away only when it is secured.
Store == INSTANCE ArchiveStore
  WITH requests <- {<<RunOf[t], asked[t]>> : t \in {u \in Tasks : Submitted(u)}}

ImplementsStore == Store!Spec

-----------------------------------------------------------------------------
(* The inductive invariant behind StoredIsWhole, NothingLost and           *)
(* AckedIsSecured when the caller passes no ProgressManager.               *)

\* Either the run is still as the task was asked to archive it, or a later
\* version overwrote a proper suffix of it that includes the close event.
SameOrOverwritten(h, g) ==
  \/ h = g
  \/ /\ CloseVersion(h) < CloseVersion(g)
     /\ \A i \in 1..Len(g) :
          g[i].version <= CloseVersion(h) => i < Len(h) /\ g[i] = h[i]

RequestInv(t) ==
  Submitted(t) =>
    /\ WellFormed(asked[t])
    /\ request[t].closeFailoverVersion = CloseVersion(asked[t])
    /\ request[t].nextEventID = Len(asked[t]) + 1
    /\ SameOrOverwritten(asked[t], history[RunOf[t]])

\* What an attempt accumulated is the beginning of what it was asked for.
AttemptInv(t) ==
  /\ pc[t] = "reading" =>
       /\ ~iter[t].finished
       /\ iter[t].pos < Len(asked[t])
       /\ Len(buf[t]) = iter[t].pos
       /\ \A i \in 1..iter[t].pos : buf[t][i] = asked[t][i]
  /\ pc[t] \in {"uploading", "stored"} => buf[t] = asked[t] /\ ~Filtered(asked[t])
  /\ pc[t] = "stored" => objects[ObjectKey(t)] = asked[t]

OneHistoryPerKey ==
  \A t, u \in Tasks :
    Submitted(t) /\ Submitted(u) /\ ObjectKey(t) = ObjectKey(u) => asked[t] = asked[u]

IInv ==
  /\ \A r \in Runs : WellFormed(history[r])
  /\ \A t \in Tasks : RequestInv(t) /\ AttemptInv(t)
  /\ OneHistoryPerKey
  /\ StoredIsWhole
  /\ NothingLost
  /\ AckedIsSecured

-----------------------------------------------------------------------------
(* The inductive invariant behind StoredEndsAsAsked, with or without a     *)
(* ProgressManager: an attempt may begin anywhere in the history it was    *)
(* asked for, but has accumulated all from there to where its iterator is. *)

\* The sequence s is a piece of the history h that ends at position p.
PieceUpTo(s, h, p) ==
  /\ Len(s) <= p
  /\ \A i \in 1..Len(s) : s[i] = h[p - Len(s) + i]

\* An iterator that has something left to deliver is not at the end of h.
Within(i, h) == i.finished \/ i.pos < Len(h)

ResumeInv(t) ==
  /\ ~Submitted(t) => progress[t] = FreshIterator
  /\ Submitted(t) => Within(progress[t], asked[t])
  /\ pc[t] = "reading" =>
       /\ Within(iter[t], asked[t])
       /\ ~iter[t].finished => PieceUpTo(buf[t], asked[t], iter[t].pos)
  /\ pc[t] = "uploading" =>
       Len(buf[t]) > 0 /\ PieceUpTo(buf[t], asked[t], Len(asked[t]))

EndsInv ==
  /\ \A r \in Runs : WellFormed(history[r])
  /\ \A t \in Tasks : RequestInv(t) /\ ResumeInv(t)
  /\ StoredEndsAsAsked
=============================================================================
