------------------------- MODULE VisibilityArchiver -------------------------
(***************************************************************************)
(* MinioVisibilityArchiver of images/server/archiver/visibility_archiver.go*)
(* for one namespace: archival tasks of the Temporal server call Archive   *)
(* for each closed workflow, and a client lists them with Query, page by   *)
(* page until it gets no token back.                                       *)
(*                                                                         *)
(* A call of Query lists the namespace's keys in batches, downloads the    *)
(* records of a batch one by one and keeps those that match until it has a *)
(* page of them.  Between any two of these steps records are archived, and *)
(* calls fail.  Nothing ties two calls together but the store's own        *)
(* continuation token.                                                     *)
(***************************************************************************)
EXTENDS Integers, Sequences, FiniteSets, ArchiverConfig

CONSTANTS
  Records,        \* visibility records, one per closed workflow run
  CloseTime,      \* CloseTime[r]: in nanoseconds
  ShortRunID,     \* ShortRunID[r]: the first 8 characters of the run id
  BatchFactor, FilterFactor, MinBatchSize,  \* 2, 5 and 50 in the code
  UnknownStatus,  \* a name statusNameToEnum does not have, whatever its case
  None,           \* no record, no token, no filter
  PageSizes,      \* possible request.PageSize
  MaxFaults       \* bound: failed calls

ASSUME RecordAssumption ==
  /\ IsFiniteSet(Records) /\ None \notin Records
  /\ CloseTime \in [Records -> Nat] /\ ShortRunID \in [Records -> Nat]
\* The run id is a random UUID and the close time counts nanoseconds.
ASSUME DistinctRecordsAssumption ==
  \A r, s \in Records :
    CloseTime[r] = CloseTime[s] /\ ShortRunID[r] = ShortRunID[s] => r = s
\* ValidateQueryRequest refuses a page size that is not positive.
ASSUME SizeAssumption ==
  /\ PageSizes \subseteq Nat \ {0}
  /\ {BatchFactor, FilterFactor, MinBatchSize} \subseteq Nat \ {0}
ASSUME QueryAssumption ==
  MaxFaults \in Nat /\ UnknownStatus \notin Statuses /\ None \notin Statuses

Key == Nat \X Nat

ASSUME NoneAssumption == None \notin Key

\* keys.go: namespace and date partition follow from what is left here.
VisibilityKey(r) == <<CloseTime[r], ShortRunID[r]>>

\* The order of keys as strings, in which the store lists them.
Before(j, k) == j[1] < k[1] \/ (j[1] = k[1] /\ j[2] < k[2])

VARIABLES
  status,   \* of each record: the workflow execution status
  task,     \* of each record: "pending", "acked" or "rejected"
  objects,  \* the namespace's objects: functions from their keys to records
  query,    \* the client's request, less its token
  token,    \* NextPageToken of the last call, None if there is none
  out,      \* the records the client has received
  pc,       \* where the client's current call of Query is
  page,     \* response.Executions
  cont,     \* continuationToken
  batch,    \* keys of the current S3 batch not looked at yet
  last,     \* lastListOut: IsTruncated and NextContinuationToken
  before,   \* history variable: records in the bucket when the reading began
  skipped,  \* history variable: records left out after a failed download
  faults

archiveVars == <<status, task, objects>>
clientVars == <<query, token, out>>
callVars == <<pc, page, cont, batch, last>>
vars == <<archiveVars, clientVars, callVars, before, skipped, faults>>

\* The request's query string: no ExecutionStatus clause, or a clause that names
\* a status in the letter case of statusNameToEnum or in another one.
Clause == [name : Statuses \cup {UnknownStatus}, sameCase : BOOLEAN]

Fault == faults < MaxFaults /\ faults' = faults + 1

Init ==
  /\ status \in [Records -> Statuses]
  /\ task = [r \in Records |-> "pending"]
  /\ objects = << >>
  /\ query \in [pageSize : PageSizes, clause : Clause \cup {None}]
  /\ token = None /\ out = << >>
  /\ pc = "new" /\ page = << >> /\ cont = None /\ batch = {}
  /\ last = [truncated |-> FALSE, token |-> None]
  /\ before = {} /\ skipped = {} /\ faults = 0

-----------------------------------------------------------------------------
(* Archive, called for a record until it is acknowledged or rejected.      *)

\* Seeded fault: the object is named for the time of its upload.
MutPutRecord(r) == objects' = [k \in DOMAIN objects \cup {<<4, ShortRunID[r]>>} |->
                                IF k[1] = 4 THEN r ELSE objects[k]]

PutRecord(r) ==
  objects' = [k \in DOMAIN objects \cup {VisibilityKey(r)} |->
                IF k = VisibilityKey(r) THEN r ELSE objects[k]]

\* The status filter, then encoding, compression and PutObject.
Archive(r) ==
  /\ task[r] = "pending"
  /\ IF StatusAllowed(status[r]) THEN PutRecord(r) ELSE UNCHANGED objects
  /\ task' = [task EXCEPT ![r] = "acked"]
  /\ UNCHANGED <<status, clientVars, callVars, before, skipped, faults>>

\* An invalid URI or request, or a record that cannot be encoded.
RejectRecord(r) ==
  /\ Fault
  /\ task[r] = "pending"
  /\ task' = [task EXCEPT ![r] = "rejected"]
  /\ UNCHANGED <<status, objects, clientVars, callVars, before, skipped>>

\* Seeded fault: the error of PutObject is logged and not returned.
MutPutError(r) ==
  /\ Fault
  /\ task[r] = "pending" /\ StatusAllowed(status[r])
  /\ task' = [task EXCEPT ![r] = "acked"]
  /\ UNCHANGED <<status, objects, clientVars, callVars, before, skipped>>

\* PutObject fails, or the server crashes around it: with or without the object
\* stored, the task is retried.
PutError(r) ==
  /\ Fault
  /\ task[r] = "pending" /\ StatusAllowed(status[r])
  /\ PutRecord(r) \/ UNCHANGED objects
  /\ UNCHANGED <<status, task, clientVars, callVars, before, skipped>>

-----------------------------------------------------------------------------
(* Query.                                                                  *)

\* parseStatusFilter: the expression ignores case, the table of names does not.
ParseError(clause) ==
  clause # None /\ (clause.name = UnknownStatus \/ ~clause.sameCase)

Matches(r) == query.clause = None \/ status[r] = query.clause.name

BatchSize ==
  LET n == query.pageSize *
             (IF query.clause = None THEN BatchFactor ELSE FilterFactor)
  IN IF n < MinBatchSize THEN MinBatchSize ELSE n

\* A call, with the token of the call before it.
StartQuery ==
  /\ pc \in {"new", "idle"}
  /\ before' = IF pc = "new" THEN {objects[k] : k \in DOMAIN objects} ELSE before
  /\ IF ParseError(query.clause)
       THEN pc' = "invalid" /\ UNCHANGED <<page, cont>>
       ELSE pc' = "list" /\ page' = << >> /\ cont' = token
  /\ UNCHANGED <<archiveVars, clientVars, batch, last, skipped, faults>>

\* The keys ListObjectsV2 has left to list.
Unlisted == {k \in DOMAIN objects : cont = None \/ Before(cont, k)}

\* The first n of a set of keys.
FirstKeys(S, n) == {k \in S : Cardinality({j \in S : Before(j, k)}) < n}

LastKeys(S) == {k \in S : \A j \in S : j = k \/ Before(j, k)}

\* Seeded fault: the continuation token is not carried over to the next batch.
MutListResults(listed) ==
  {[truncated |-> listed # Unlisted, token |-> cont]}

\* IsTruncated and NextContinuationToken.
ListResults(listed) ==
  IF listed = Unlisted THEN {[truncated |-> FALSE, token |-> None]}
  ELSE {[truncated |-> TRUE, token |-> k] : k \in LastKeys(listed)}

ListObjects ==
  /\ pc = "list"
  /\ batch' = FirstKeys(Unlisted, BatchSize)
  /\ last' \in ListResults(batch')
  /\ pc' = "scan"
  /\ UNCHANGED <<archiveVars, clientVars, page, cont, before, skipped, faults>>

\* ListObjectsV2 fails: an error to the client, which repeats the call.  A bucket
\* that is gone (InvalidArgument instead of Unavailable) and comes back is one of them.
ListError ==
  /\ Fault
  /\ pc = "list"
  /\ pc' = "idle"
  /\ UNCHANGED <<archiveVars, clientVars, page, cont, batch, last, before, skipped>>

PageFull == Len(page) >= query.pageSize

FirstIn(k, S) == k \in S /\ \A j \in S : j = k \/ Before(k, j)

\* Seeded fault: a record that does not match ends the page.
MutScanRecord ==
  /\ pc = "scan" /\ ~PageFull
  /\ \E k \in batch :
       /\ FirstIn(k, batch)
       /\ batch' = IF Matches(objects[k]) THEN batch \ {k} ELSE {}
       /\ page' = IF Matches(objects[k]) THEN Append(page, objects[k]) ELSE page
  /\ UNCHANGED <<archiveVars, clientVars, pc, cont, last, before, skipped, faults>>

\* The next record is downloaded; it is added if it matches.
ScanRecord ==
  /\ pc = "scan" /\ ~PageFull
  /\ \E k \in batch :
       /\ FirstIn(k, batch)
       /\ batch' = batch \ {k}
       /\ page' = IF Matches(objects[k]) THEN Append(page, objects[k]) ELSE page
  /\ UNCHANGED <<archiveVars, clientVars, pc, cont, last, before, skipped, faults>>

\* Seeded fault: the loop over a batch ends at a record that cannot be downloaded.
MutDownloadError ==
  /\ Fault
  /\ pc = "scan" /\ ~PageFull
  /\ \E k \in batch :
       /\ FirstIn(k, batch)
       /\ batch' = {}
       /\ skipped' = skipped \cup {objects[k]}
  /\ UNCHANGED <<archiveVars, clientVars, pc, page, cont, last, before>>

\* A record that cannot be downloaded or converted is logged and left out.
DownloadError ==
  /\ Fault
  /\ pc = "scan" /\ ~PageFull
  /\ \E k \in batch :
       /\ FirstIn(k, batch)
       /\ batch' = batch \ {k}
       /\ skipped' = skipped \cup {objects[k]}
  /\ UNCHANGED <<archiveVars, clientVars, pc, page, cont, last, before>>

BatchOver == pc = "scan" /\ (PageFull \/ batch = {})

\* Seeded fault: a batch that leaves the page incomplete is listed again.
MutNextBatch ==
  /\ BatchOver /\ last.truncated /\ ~PageFull
  /\ pc' = "list"
  /\ UNCHANGED <<archiveVars, clientVars, page, cont, batch, last, before, skipped, faults>>

\* There is more to list and the page is not full: the loop goes on.
NextBatch ==
  /\ BatchOver /\ last.truncated /\ ~PageFull
  /\ pc' = "list" /\ cont' = last.token
  /\ UNCHANGED <<archiveVars, clientVars, page, batch, last, before, skipped, faults>>

\* The loop is left, by the break or because the page is full.  What is left of
\* the batch is forgotten: the token is that of the batch after it.
Return ==
  /\ BatchOver /\ (~last.truncated \/ PageFull)
  /\ out' = out \o page
  /\ token' = IF last.truncated THEN last.token ELSE None
  /\ pc' = IF last.truncated THEN "idle" ELSE "done"
  /\ page' = << >> /\ batch' = {}
  /\ UNCHANGED <<archiveVars, query, cont, last, before, skipped, faults>>

Query == StartQuery \/ ListObjects \/ ScanRecord \/ NextBatch \/ Return

Next ==
  \/ \E r \in Records : Archive(r) \/ RejectRecord(r) \/ PutError(r)
  \/ Query \/ ListError \/ DownloadError

Spec == Init /\ [][Next]_vars

\* The client goes on until it gets no token back, and calls return.
FairSpec == Spec /\ WF_vars(Query)

-----------------------------------------------------------------------------
(* Properties.                                                             *)

\* What the client has received and the page under construction.
Seen == out \o page

\* Type invariant: every object is a record stored under its own key.
TypeOK ==
  /\ status \in [Records -> Statuses]
  /\ task \in [Records -> {"pending", "acked", "rejected"}]
  /\ DOMAIN objects \in SUBSET Key
  /\ \A k \in DOMAIN objects : objects[k] \in Records /\ VisibilityKey(objects[k]) = k
  /\ query \in [pageSize : PageSizes, clause : Clause \cup {None}]
  /\ token \in Key \cup {None}
  /\ out \in Seq(Records)
  /\ pc \in {"new", "idle", "list", "scan", "done", "invalid"}
  /\ page \in Seq(Records)
  /\ cont \in Key \cup {None}
  /\ batch \in SUBSET DOMAIN objects
  /\ last \in [truncated : BOOLEAN, token : Key \cup {None}]
  /\ before \in SUBSET Records /\ skipped \in SUBSET Records
  /\ faults \in Nat

\* As keys.go:25 says, "listing by prefix gives time-ordered results".  What a
\* client has received over all its pages, and the page under construction, are
\* in the order of close times and hold no record twice, whatever is archived
\* meanwhile.
ListedInOrder ==
  \A i, j \in 1..Len(Seen) :
    i < j => Before(VisibilityKey(Seen[i]), VisibilityKey(Seen[j]))

\* A record whose archival was acknowledged is in the bucket for good, whatever
\* is archived later, unless the status filter leaves it out; and no record is
\* there that the filter leaves out.
AckedIsListed ==
  /\ \A r \in Records : task[r] = "acked" /\ StatusAllowed(status[r]) =>
       \E k \in DOMAIN objects : objects[k] = r
  /\ \A k \in DOMAIN objects : StatusAllowed(status[objects[k]])

Received(r) == \E i \in 1..Len(out) : out[i] = r

\* A client that gets no further token has received every matching record that
\* was there when it began, but for failed downloads, if one page can hold all
\* that match.
CompleteIfOnePage ==
  pc = "done" /\ Cardinality({r \in Records : Matches(r)}) <= query.pageSize =>
    \A r \in before \ skipped : Matches(r) => Received(r)

\* Every page has an end and so has the reading: no token leads back.
QueryEnds == <>(pc \in {"done", "invalid"})

\* The comment at visibility_archiver.go:272-273: the token is carried "so the
\* next call resumes from here".  Calling until there is no token gives all that
\* was there.
ResumesWhereItStopped ==
  pc = "done" => \A r \in before \ skipped : Matches(r) => Received(r)

\* No record of s comes after the token k; without a token there is none.
UpTo(s, k) == \A i \in 1..Len(s) : k # None /\ ~Before(k, VisibilityKey(s[i]))

\* The inductive invariant behind ListedInOrder: each token and each batch lies
\* behind what has been seen before it.
QueryInv ==
  /\ ListedInOrder
  /\ pc # "done" => UpTo(out, token)
  /\ pc = "list" => UpTo(Seen, cont)
  /\ pc = "scan" =>
       /\ \A i \in 1..Len(Seen), k \in batch : Before(VisibilityKey(Seen[i]), k)
       /\ last.truncated =>
            /\ last.token # None
            /\ UpTo(Seen, last.token)
            /\ \A k \in batch : ~Before(last.token, k)

\* The inductive invariant behind AckedIsListed.
ArchiveInv ==
  /\ \A r \in Records : task[r] = "acked" /\ StatusAllowed(status[r]) =>
       VisibilityKey(r) \in DOMAIN objects
  /\ \A k \in DOMAIN objects : StatusAllowed(status[objects[k]])

-----------------------------------------------------------------------------
(* Nothing is missed when one page can hold all that match.                *)

Matching == {r \in Records : Matches(r)}

\* The token t has not gone past the record r.
ToCome(r, t) == t = None \/ Before(t, VisibilityKey(r))

InSeen(r) == \E i \in 1..Len(Seen) : Seen[i] = r

\* What holds of a call whatever the page size: the reading begins without a token
\* and with nothing skipped, nothing leaves the bucket, and only a call whose
\* filter is understood gets as far as a page, whose records match and are stored.
CallInv ==
  /\ pc = "new" => token = None /\ skipped = {}
  /\ ParseError(query.clause) => pc \in {"new", "invalid"}
  /\ \A r \in before : VisibilityKey(r) \in DOMAIN objects
  /\ \A i \in 1..Len(Seen) :
       Seen[i] \in Matching /\ VisibilityKey(Seen[i]) \in DOMAIN objects

\* A record the client has yet to receive is still ahead of wherever it is: of its
\* token, of the listing's token, in the batch, or behind the batch.
Ahead(r) ==
  /\ Received(r) \/ (pc # "done" /\ ToCome(r, token))
  /\ pc = "list" => InSeen(r) \/ ToCome(r, cont)
  /\ pc = "scan" =>
       \/ InSeen(r) \/ VisibilityKey(r) \in batch
       \/ (last.truncated /\ Before(last.token, VisibilityKey(r)))

\* The inductive invariant behind CompleteIfOnePage.
CompleteInv ==
  /\ CallInv
  /\ Cardinality(Matching) <= query.pageSize =>
       \A r \in (before \ skipped) \cap Matching : Ahead(r)

-----------------------------------------------------------------------------
(* What all this promises.                                                 *)

Archived == {objects[k] : k \in DOMAIN objects}

Phase ==
  IF pc = "invalid" THEN "refused"
  ELSE IF pc \in {"new", "done"} THEN pc ELSE "open"

KeyEarlier(r, s) == Before(VisibilityKey(r), VisibilityKey(s))

Abstract ==
  INSTANCE Listing WITH
    Earlier <- KeyEarlier,
    archived <- Archived,
    wanted <- Matching,
    fits <- Cardinality(Matching) <= query.pageSize,
    phase <- Phase,
    owed <- (before \ skipped) \cap Matching,
    received <- out

\* Query and Archive together implement Listing: behind their batches, tokens and
\* retries a client sees records of the archive that it asked for, in order, each
\* once, and no early end of what one page can hold.
ImplementsListing == Abstract!Spec
=============================================================================
