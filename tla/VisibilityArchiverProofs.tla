---------------------- MODULE VisibilityArchiverProofs ----------------------
(***************************************************************************)
(* Proofs about VisibilityArchiver: for every set of records, page and     *)
(* batch size, and whatever is archived or fails while a client reads, the *)
(* client's records come in the order of close times and none comes twice. *)
(***************************************************************************)
EXTENDS VisibilityArchiver, SequenceTheorems, FiniteSetTheorems, TLAPS

\* Keys are totally ordered, by close time and then by run.
LEMMA KeyOrder ==
  /\ \A j, k \in Key : Before(j, k) => ~Before(k, j)
  /\ \A c, j, k \in Key : ~Before(c, j) /\ Before(c, k) => Before(j, k)
BY DEF Key, Before

\* A record's key is a key.
LEMMA KeyType ==
  ASSUME NEW r \in Records
  PROVE  VisibilityKey(r) \in Key
BY RecordAssumption DEF VisibilityKey, Key

\* Records of different runs have different keys: the object stored under the key
\* of a record is that record.
LEMMA ObjectOfKey ==
  ASSUME TypeOK, NEW r \in Records, VisibilityKey(r) \in DOMAIN objects
  PROVE  objects[VisibilityKey(r)] = r
<1> DEFINE s == objects[VisibilityKey(r)]
<1>1. s \in Records /\ VisibilityKey(s) = VisibilityKey(r)
  BY DEF TypeOK
<1>2. CloseTime[s] = CloseTime[r] /\ ShortRunID[s] = ShortRunID[r]
  BY <1>1 DEF VisibilityKey
<1> QED
  BY <1>1, <1>2, DistinctRecordsAssumption

\* The initial states are well typed.
LEMMA InitialTypes ==
  ASSUME Init PROVE TypeOK
<1>1. DOMAIN objects = {}
  BY DEF Init
<1> QED
  BY <1>1, QueryAssumption DEF Init, TypeOK

\* An upload adds one record under its key and leaves the others.
LEMMA PutRecordTypes ==
  ASSUME TypeOK, NEW r \in Records, PutRecord(r)
  PROVE  /\ DOMAIN objects' \in SUBSET Key
         /\ DOMAIN objects \subseteq DOMAIN objects'
         /\ \A k \in DOMAIN objects' :
              objects'[k] \in Records /\ VisibilityKey(objects'[k]) = k
BY KeyType DEF PutRecord, TypeOK

\* Archival does not disturb types.
LEMMA ArchiveTypes ==
  ASSUME TypeOK, NEW r \in Records, Archive(r) \/ RejectRecord(r) \/ PutError(r)
  PROVE  TypeOK'
<1>1. /\ DOMAIN objects' \in SUBSET Key
      /\ DOMAIN objects \subseteq DOMAIN objects'
      /\ \A k \in DOMAIN objects' :
           objects'[k] \in Records /\ VisibilityKey(objects'[k]) = k
  <2>1. CASE PutRecord(r)
    BY <2>1, PutRecordTypes
  <2>2. CASE UNCHANGED objects
    BY <2>2 DEF TypeOK
  <2> QED
    BY <2>1, <2>2 DEF Archive, RejectRecord, PutError
<1>2. /\ task' \in [Records -> {"pending", "acked", "rejected"}] /\ faults' \in Nat
      /\ UNCHANGED <<status, clientVars, callVars, before, skipped>>
  BY DEF Archive, RejectRecord, PutError, Fault, TypeOK
<1> QED
  BY <1>1, <1>2 DEF TypeOK, clientVars, callVars

\* A matching record joins the page.
LEMMA ScanTypes ==
  ASSUME TypeOK, ScanRecord
  PROVE  TypeOK'
<1>1. PICK k \in batch : /\ batch' = batch \ {k}
                         /\ page' = IF Matches(objects[k]) THEN Append(page, objects[k])
                                    ELSE page
  BY DEF ScanRecord
<1>2. objects[k] \in Records
  BY <1>1 DEF TypeOK
<1>3. page' \in Seq(Records)
  BY <1>1, <1>2 DEF TypeOK
<1>4. batch' \in SUBSET DOMAIN objects
  BY <1>1 DEF TypeOK
<1> QED
  BY <1>3, <1>4 DEF TypeOK, ScanRecord, archiveVars, clientVars

\* Steps of Query do not disturb types.
LEMMA QueryTypes ==
  ASSUME TypeOK, Query \/ ListError \/ DownloadError
  PROVE  TypeOK'
<1>1. CASE StartQuery
  <2>1. before' \in SUBSET Records
    BY <1>1 DEF StartQuery, TypeOK
  <2>2. pc' \in {"invalid", "list"} /\ page' \in Seq(Records) /\ cont' \in Key \cup {None}
    <3>1. \/ pc' = "invalid" /\ page' = page /\ cont' = cont
          \/ pc' = "list" /\ page' = << >> /\ cont' = token
      BY <1>1 DEF StartQuery
    <3>2. << >> \in Seq(Records)
      OBVIOUS
    <3> QED
      BY <3>1, <3>2 DEF TypeOK
  <2> QED
    BY <1>1, <2>1, <2>2 DEF StartQuery, TypeOK, archiveVars, clientVars
<1>2. CASE ListObjects
  <2>1. batch' \in SUBSET DOMAIN objects
    BY <1>2 DEF ListObjects, FirstKeys, Unlisted
  <2>2. last' \in [truncated : BOOLEAN, token : Key \cup {None}]
    <3>1. LastKeys(batch') \subseteq Key
      BY <2>1 DEF LastKeys, TypeOK
    <3>2. \/ last' = [truncated |-> FALSE, token |-> None]
          \/ \E k \in LastKeys(batch') : last' = [truncated |-> TRUE, token |-> k]
      BY <1>2 DEF ListObjects, ListResults
    <3>3. CASE last' = [truncated |-> FALSE, token |-> None]
      BY <3>3
    <3>4. ASSUME NEW k \in Key, last' = [truncated |-> TRUE, token |-> k]
          PROVE  last' \in [truncated : BOOLEAN, token : Key \cup {None}]
      BY <3>4
    <3> QED
      BY <3>1, <3>2, <3>3, <3>4
  <2> QED
    BY <1>2, <2>1, <2>2 DEF ListObjects, TypeOK, archiveVars, clientVars
<1>3. CASE ScanRecord
  BY <1>3, ScanTypes
<1>4. CASE NextBatch
  BY <1>4 DEF NextBatch, TypeOK, archiveVars, clientVars
<1>5. CASE Return
  <2>1. out' \in Seq(Records) /\ page' \in Seq(Records)
    BY <1>5, ConcatProperties DEF Return, TypeOK
  <2>2. batch' \in SUBSET DOMAIN objects /\ token' \in Key \cup {None} /\ pc' \in {"idle", "done"}
    BY <1>5 DEF Return, TypeOK
  <2> QED
    BY <1>5, <2>1, <2>2 DEF Return, TypeOK, archiveVars
<1>6. CASE ListError
  BY <1>6 DEF ListError, Fault, TypeOK, archiveVars, clientVars
<1>7. CASE DownloadError
  <2>1. PICK k \in batch : /\ batch' = batch \ {k}
                           /\ skipped' = skipped \cup {objects[k]}
    BY <1>7 DEF DownloadError
  <2>2. objects[k] \in Records
    BY <2>1 DEF TypeOK
  <2> QED
    BY <1>7, <2>1, <2>2 DEF DownloadError, Fault, TypeOK, archiveVars, clientVars
<1> QED
  BY <1>1, <1>2, <1>3, <1>4, <1>5, <1>6, <1>7 DEF Query

\* Type correctness; in particular each object is stored under its record's key.
THEOREM VisibilityTypeCorrect == Spec => []TypeOK
<1>1. TypeOK /\ [Next]_vars => TypeOK'
  <2> SUFFICES ASSUME TypeOK, [Next]_vars PROVE TypeOK'
    OBVIOUS
  <2>1. CASE UNCHANGED vars
    BY <2>1 DEF vars, archiveVars, clientVars, callVars, TypeOK
  <2>2. CASE Next
    BY <2>2, ArchiveTypes, QueryTypes DEF Next
  <2> QED
    BY <2>1, <2>2
<1> QED
  BY <1>1, InitialTypes, PTL DEF Spec

-----------------------------------------------------------------------------
(* The order of what a client sees.                                        *)

\* Appending a record that comes after all others keeps a sequence in order.
LEMMA AppendInOrder ==
  ASSUME NEW s \in Seq(Records), NEW r \in Records,
         \A i, j \in 1..Len(s) :
           i < j => Before(VisibilityKey(s[i]), VisibilityKey(s[j])),
         \A i \in 1..Len(s) : Before(VisibilityKey(s[i]), VisibilityKey(r)),
         NEW t, t = Append(s, r)
  PROVE  \A i, j \in 1..Len(t) :
           i < j => Before(VisibilityKey(t[i]), VisibilityKey(t[j]))
<1>1. /\ Len(t) = Len(s) + 1 /\ t[Len(s) + 1] = r /\ Len(s) \in Nat
      /\ \A i \in 1..Len(s) : t[i] = s[i]
  BY AppendProperties
<1> HIDE DEF Before, VisibilityKey
<1>2. ASSUME NEW i \in 1..Len(t), NEW j \in 1..Len(t), i < j
      PROVE  Before(VisibilityKey(t[i]), VisibilityKey(t[j]))
  <2>1. i \in 1..Len(s) /\ t[i] = s[i]
    BY <1>1, <1>2
  <2>2. CASE j \in 1..Len(s)
    BY <1>1, <1>2, <2>1, <2>2
  <2>3. CASE j = Len(s) + 1
    BY <1>1, <2>1, <2>3
  <2> QED
    BY <1>1, <2>2, <2>3
<1> QED
  BY <1>2

\* The records received are the beginning of those seen, and in order like them.
LEMMA OutOfSeen ==
  ASSUME TypeOK, ListedInOrder
  PROVE  /\ Seen \in Seq(Records) /\ Len(Seen) \in Nat /\ out \o << >> = out
         /\ \A i \in 1..Len(out) : i \in 1..Len(Seen) /\ Seen[i] = out[i]
         /\ \A i, j \in 1..Len(out) :
              i < j => Before(VisibilityKey(out[i]), VisibilityKey(out[j]))
<1>1. /\ Seen \in Seq(Records) /\ Len(Seen) = Len(out) + Len(page)
      /\ \A i \in 1..(Len(out) + Len(page)) :
           Seen[i] = IF i <= Len(out) THEN out[i] ELSE page[i - Len(out)]
  BY ConcatProperties DEF TypeOK, Seen
<1>2. Len(out) \in Nat /\ Len(page) \in Nat /\ out \o << >> = out
  BY ConcatEmptySeq DEF TypeOK
<1>3. \A i \in 1..Len(out) : i \in 1..Len(Seen) /\ Seen[i] = out[i]
  BY <1>1, <1>2
<1>4. ASSUME NEW i \in 1..Len(out), NEW j \in 1..Len(out), i < j
      PROVE  Before(VisibilityKey(out[i]), VisibilityKey(out[j]))
  <2>1. Before(VisibilityKey(Seen[i]), VisibilityKey(Seen[j]))
    BY <1>3, <1>4 DEF ListedInOrder
  <2> QED
    BY <1>3, <2>1
<1> QED
  BY <1>1, <1>2, <1>3, <1>4

\* A record that joins the page joins what has been seen.
LEMMA SeenAppend ==
  ASSUME TypeOK, ListedInOrder, NEW r \in Records,
         page' = Append(page, r), out' = out
  PROVE  /\ Seen \in Seq(Records) /\ Len(Seen) \in Nat
         /\ Seen' = Append(Seen, r)
         /\ Len(Seen') = Len(Seen) + 1 /\ Seen'[Len(Seen) + 1] = r
         /\ \A i \in 1..Len(Seen) : Seen'[i] = Seen[i]
<1>1. Seen' = Append(Seen, r)
  <2>1. /\ Append(page, r) = page \o <<r>> /\ Append(Seen, r) = Seen \o <<r>>
        /\ <<r>> \in Seq(Records)
    BY OutOfSeen, AppendIsConcat DEF TypeOK
  <2>2. (out \o page) \o <<r>> = out \o (page \o <<r>>)
    BY <2>1, ConcatAssociative DEF TypeOK
  <2> QED
    BY <2>1, <2>2 DEF Seen
<1> QED
  BY <1>1, OutOfSeen, AppendProperties

\* A step that neither moves the client nor shrinks a batch unseen keeps the order.
LEMMA QueryInvFrame ==
  ASSUME QueryInv, UNCHANGED <<pc, out, page, token, cont, last>>,
         batch' \subseteq batch
  PROVE  QueryInv'
BY DEF QueryInv, ListedInOrder, Seen, UpTo

\* A call begins with an empty page and where the token says.
LEMMA QueryInvStart ==
  ASSUME TypeOK, QueryInv, StartQuery
  PROVE  QueryInv'
<1>1. pc # "done" /\ out' = out /\ token' = token
  BY DEF StartQuery, clientVars
<1>2. CASE pc' = "invalid" /\ UNCHANGED page
  BY <1>1, <1>2 DEF QueryInv, ListedInOrder, Seen, UpTo
<1>3. CASE pc' = "list" /\ page' = << >> /\ cont' = token
  <2>1. Seen' = out /\ ListedInOrder'
    BY <1>1, <1>3, OutOfSeen DEF Seen, ListedInOrder, QueryInv
  <2> QED
    BY <1>1, <1>3, <2>1 DEF QueryInv, UpTo
<1> QED
  BY <1>2, <1>3 DEF StartQuery

\* A batch lies behind all that has been seen, and ends at the token that comes
\* with it.
LEMMA QueryInvList ==
  ASSUME TypeOK, QueryInv, ListObjects
  PROVE  QueryInv'
<1>1. /\ pc = "list" /\ pc' = "scan" /\ UNCHANGED <<out, page, token, cont, objects>>
      /\ batch' \subseteq Unlisted /\ last' \in ListResults(batch')
  BY DEF ListObjects, FirstKeys, clientVars, archiveVars
<1>2. Seen' = Seen /\ ListedInOrder' /\ UpTo(out, token)' /\ UpTo(Seen, cont)
  BY <1>1 DEF QueryInv, Seen, ListedInOrder, UpTo
<1>3. /\ \A i \in 1..Len(Seen) : VisibilityKey(Seen[i]) \in Key
      /\ Unlisted \subseteq Key
  <2>1. \A i \in 1..Len(Seen) : Seen[i] \in Records
    BY OutOfSeen DEF QueryInv
  <2> QED
    BY <2>1, KeyType DEF Unlisted, TypeOK
<1>4. ASSUME NEW i \in 1..Len(Seen), NEW k \in batch'
      PROVE  Before(VisibilityKey(Seen[i]), k)
  <2>1. cont # None /\ cont \in Key /\ ~Before(cont, VisibilityKey(Seen[i]))
    BY <1>2 DEF UpTo, TypeOK
  <2>2. Before(cont, k) /\ k \in Key
    BY <1>1, <1>3, <2>1 DEF Unlisted
  <2> QED
    BY <1>3, <2>1, <2>2, KeyOrder
<1>5. ASSUME last'.truncated
      PROVE  /\ last'.token # None /\ UpTo(Seen, last'.token)
             /\ \A k \in batch' : ~Before(last'.token, k)
  <2>1. PICK t \in LastKeys(batch') : last' = [truncated |-> TRUE, token |-> t]
    BY <1>1, <1>5 DEF ListResults
  <2>2. t \in batch' /\ t \in Key /\ last'.token = t
    BY <1>1, <1>3, <2>1 DEF LastKeys
  <2>3. \A k \in batch' : ~Before(t, k)
    <3> SUFFICES ASSUME NEW k \in batch' PROVE ~Before(t, k)
      OBVIOUS
    <3>1. (k = t \/ Before(k, t)) /\ k \in Key
      BY <1>1, <1>3, <2>1 DEF LastKeys
    <3> QED
      BY <2>2, <3>1, KeyOrder
  <2>4. UpTo(Seen, t)
    <3> SUFFICES ASSUME NEW i \in 1..Len(Seen)
                 PROVE  t # None /\ ~Before(t, VisibilityKey(Seen[i]))
      BY DEF UpTo
    <3>1. ~Before(t, VisibilityKey(Seen[i]))
      BY <1>3, <1>4, <2>2, KeyOrder
    <3>2. t # None
      BY <2>2, NoneAssumption
    <3> QED
      BY <3>1, <3>2
  <2> QED
    BY <2>2, <2>3, <2>4, NoneAssumption
<1> QED
  BY <1>1, <1>2, <1>4, <1>5 DEF QueryInv, UpTo

\* The record that joins the page is the first of the batch.
LEMMA QueryInvScan ==
  ASSUME TypeOK, QueryInv, ScanRecord
  PROVE  QueryInv'
<1>1. PICK k \in batch : /\ FirstIn(k, batch) /\ batch' = batch \ {k}
                         /\ page' = IF Matches(objects[k]) THEN Append(page, objects[k])
                                    ELSE page
  BY DEF ScanRecord
<1>2. pc = "scan" /\ UNCHANGED <<pc, out, token, cont, last>>
  BY DEF ScanRecord, clientVars
<1>3. k \in Key /\ objects[k] \in Records /\ VisibilityKey(objects[k]) = k
      /\ batch \subseteq Key
  BY <1>1 DEF TypeOK
<1>4. CASE page' = page
  BY <1>1, <1>2, <1>4, QueryInvFrame
<1>5. CASE page' = Append(page, objects[k])
  <2> DEFINE r == objects[k]
  <2>2. /\ Seen \in Seq(Records) /\ Len(Seen) \in Nat /\ Seen' = Append(Seen, r)
        /\ Len(Seen') = Len(Seen) + 1 /\ Seen'[Len(Seen) + 1] = r
        /\ \A i \in 1..Len(Seen) : Seen'[i] = Seen[i]
    BY <1>2, <1>3, <1>5, SeenAppend DEF QueryInv
  <2>3. \A i \in 1..Len(Seen) : Before(VisibilityKey(Seen[i]), VisibilityKey(r))
    BY <1>1, <1>2, <1>3 DEF QueryInv
  <2>4. ListedInOrder'
    <3> HIDE DEF r
    <3>1. r \in Records
      BY <1>3 DEF r
    <3>2. \A i, j \in 1..Len(Seen) :
            i < j => Before(VisibilityKey(Seen[i]), VisibilityKey(Seen[j]))
      BY DEF QueryInv, ListedInOrder
    <3>3. \A i, j \in 1..Len(Seen') :
            i < j => Before(VisibilityKey(Seen'[i]), VisibilityKey(Seen'[j]))
      BY <2>2, <2>3, <3>1, <3>2, AppendInOrder
    <3> QED
      BY <3>3 DEF ListedInOrder
  <2>5. ASSUME NEW i \in 1..Len(Seen'), NEW j \in batch'
        PROVE  Before(VisibilityKey(Seen'[i]), j)
    <3>1. j \in batch /\ j # k /\ Before(k, j)
      BY <1>1 DEF FirstIn
    <3>2. CASE i \in 1..Len(Seen)
      BY <1>2, <2>2, <3>1, <3>2 DEF QueryInv
    <3>3. CASE i = Len(Seen) + 1
      BY <1>3, <2>2, <3>1, <3>3
    <3> QED
      BY <2>2, <3>2, <3>3
  <2>6. ASSUME last.truncated
        PROVE  UpTo(Seen', last.token)
    <3> SUFFICES ASSUME NEW i \in 1..Len(Seen')
                 PROVE  last.token # None /\ ~Before(last.token, VisibilityKey(Seen'[i]))
      BY DEF UpTo
    <3>1. UpTo(Seen, last.token) /\ ~Before(last.token, k)
      BY <1>2, <2>6 DEF QueryInv
    <3>2. CASE i \in 1..Len(Seen)
      BY <2>2, <3>1, <3>2 DEF UpTo
    <3>3. CASE i = Len(Seen) + 1
      <4>1. Seen'[i] = r /\ VisibilityKey(r) = k
        BY <1>3, <2>2, <3>3
      <4>2. last.token # None
        BY <1>2, <2>6 DEF QueryInv
      <4> QED
        BY <3>1, <4>1, <4>2
    <3> QED
      BY <2>2, <3>2, <3>3
  <2>7. \A j \in batch' : last.truncated => ~Before(last.token, j)
    BY <1>1, <1>2 DEF QueryInv
  <2>8. pc' = "scan" /\ UpTo(out, token)'
    BY <1>2 DEF QueryInv, UpTo
  <2> QED
    BY <1>2, <2>4, <2>5, <2>6, <2>7, <2>8 DEF QueryInv
<1> QED
  BY <1>1, <1>4, <1>5

\* The next batch begins where the last one ended.
LEMMA QueryInvNextBatch ==
  ASSUME QueryInv, NextBatch
  PROVE  QueryInv'
<1>1. /\ pc = "scan" /\ last.truncated /\ pc' = "list" /\ cont' = last.token
      /\ UNCHANGED <<out, page, token, last>>
  BY DEF NextBatch, BatchOver, clientVars
<1>2. Seen' = Seen
  BY <1>1 DEF Seen
<1> QED
  BY <1>1, <1>2 DEF QueryInv, ListedInOrder, UpTo

\* A page that is returned ends before the token that is returned with it.
LEMMA QueryInvReturn ==
  ASSUME TypeOK, QueryInv, Return
  PROVE  QueryInv'
<1>1. /\ pc = "scan" /\ out' = Seen /\ page' = << >>
      /\ token' = IF last.truncated THEN last.token ELSE None
      /\ pc' = IF last.truncated THEN "idle" ELSE "done"
  BY DEF Return, BatchOver, Seen
<1>2. Seen' = Seen
  BY <1>1, OutOfSeen, ConcatEmptySeq DEF Seen, QueryInv
<1>3. ListedInOrder'
  BY <1>2 DEF QueryInv, ListedInOrder
<1>4. CASE last.truncated
  <2>1. UpTo(Seen, last.token)
    BY <1>1, <1>4 DEF QueryInv
  <2> QED
    BY <1>1, <1>3, <1>4, <2>1 DEF QueryInv, UpTo
<1>5. CASE ~last.truncated
  BY <1>1, <1>3, <1>5 DEF QueryInv
<1> QED
  BY <1>4, <1>5

\* Errors and archival leave the client where it is, or send it back to its token.
LEMMA QueryInvOther ==
  ASSUME TypeOK, QueryInv,
         \/ \E r \in Records : Archive(r) \/ RejectRecord(r) \/ PutError(r)
         \/ ListError \/ DownloadError \/ UNCHANGED vars
  PROVE  QueryInv'
<1>1. CASE ListError
  <2>1. /\ pc = "list" /\ pc' = "idle" /\ UNCHANGED <<out, page, token>>
    BY <1>1 DEF ListError, clientVars
  <2> QED
    BY <2>1 DEF QueryInv, ListedInOrder, Seen, UpTo
<1>2. CASE \/ \E r \in Records : Archive(r) \/ RejectRecord(r) \/ PutError(r)
           \/ DownloadError \/ UNCHANGED vars
  <2>1. UNCHANGED <<pc, out, page, token, cont, last>> /\ batch' \subseteq batch
    BY <1>2 DEF Archive, RejectRecord, PutError, DownloadError, vars, clientVars, callVars
  <2> QED
    BY <2>1, QueryInvFrame
<1> QED
  BY <1>1, <1>2

\* Tokens and batches lie behind what has been seen before them.
THEOREM QueryInvariant == Spec => []QueryInv
<1>1. Init => QueryInv
  <2> SUFFICES ASSUME Init PROVE QueryInv
    OBVIOUS
  <2>1. Seen = << >> /\ Len(Seen) = 0 /\ Len(out) = 0 /\ pc = "new"
    BY DEF Init, Seen
  <2> QED
    BY <2>1 DEF QueryInv, ListedInOrder, UpTo
<1>2. TypeOK /\ QueryInv /\ [Next]_vars => QueryInv'
  <2> SUFFICES ASSUME TypeOK, QueryInv, [Next]_vars PROVE QueryInv'
    OBVIOUS
  <2>1. CASE StartQuery
    BY <2>1, QueryInvStart
  <2>2. CASE ListObjects
    BY <2>2, QueryInvList
  <2>3. CASE ScanRecord
    BY <2>3, QueryInvScan
  <2>4. CASE NextBatch
    BY <2>4, QueryInvNextBatch
  <2>5. CASE Return
    BY <2>5, QueryInvReturn
  <2>6. CASE \/ \E r \in Records : Archive(r) \/ RejectRecord(r) \/ PutError(r)
             \/ ListError \/ DownloadError \/ UNCHANGED vars
    BY <2>6, QueryInvOther
  <2> QED
    BY <2>1, <2>2, <2>3, <2>4, <2>5, <2>6 DEF Next, Query
<1> QED
  BY <1>1, <1>2, VisibilityTypeCorrect, PTL DEF Spec

\* What a client lists over all its pages comes in the order of close times, no
\* record twice: whatever records are archived meanwhile, whatever calls fail.
THEOREM ListsInOrder == Spec => []ListedInOrder
<1>1. QueryInv => ListedInOrder
  BY DEF QueryInv
<1> QED
  BY <1>1, QueryInvariant, PTL

-----------------------------------------------------------------------------
(* What an acknowledgement promises.                                       *)

\* Archival of one record keeps the promises made for the others.
LEMMA ArchiveInvStep ==
  ASSUME TypeOK, ArchiveInv, NEW r \in Records,
         Archive(r) \/ RejectRecord(r) \/ PutError(r)
  PROVE  ArchiveInv'
<1>1. status' = status /\ \A s \in Records : s # r => task'[s] = task[s]
  BY DEF Archive, RejectRecord, PutError, TypeOK
<1>2. CASE PutRecord(r) /\ StatusAllowed(status[r])
  <2>1. /\ DOMAIN objects' = DOMAIN objects \cup {VisibilityKey(r)}
        /\ \A k \in DOMAIN objects' : objects'[k] = r \/ (k \in DOMAIN objects
                                                       /\ objects'[k] = objects[k])
    BY <1>2 DEF PutRecord
  <2> QED
    BY <1>1, <1>2, <2>1 DEF ArchiveInv
<1>3. CASE /\ UNCHANGED objects
           /\ \/ task'[r] # "acked" \/ ~StatusAllowed(status[r])
  BY <1>1, <1>3 DEF ArchiveInv
<1> QED
  BY <1>2, <1>3 DEF Archive, RejectRecord, PutError, TypeOK

\* An acknowledged record that the filter allows is in the bucket and stays there,
\* and the bucket holds nothing that the filter leaves out.
THEOREM AcknowledgedStays == Spec => []AckedIsListed
<1>1. Init => ArchiveInv
  BY DEF Init, ArchiveInv
<1>2. TypeOK /\ ArchiveInv /\ [Next]_vars => ArchiveInv'
  <2> SUFFICES ASSUME TypeOK, ArchiveInv, [Next]_vars PROVE ArchiveInv'
    OBVIOUS
  <2>1. CASE \E r \in Records : Archive(r) \/ RejectRecord(r) \/ PutError(r)
    BY <2>1, ArchiveInvStep
  <2>2. CASE Query \/ ListError \/ DownloadError \/ UNCHANGED vars
    <3>1. UNCHANGED archiveVars
      BY <2>2 DEF Query, StartQuery, ListObjects, ScanRecord, NextBatch, Return,
                  ListError, DownloadError, vars
    <3> QED
      BY <3>1 DEF archiveVars, ArchiveInv
  <2> QED
    BY <2>1, <2>2 DEF Next
<1>3. TypeOK /\ ArchiveInv => AckedIsListed
  <2> SUFFICES ASSUME TypeOK, ArchiveInv PROVE AckedIsListed
    OBVIOUS
  <2> QED
    BY ObjectOfKey DEF ArchiveInv, AckedIsListed
<1> QED
  BY <1>1, <1>2, <1>3, VisibilityTypeCorrect, PTL DEF Spec

-----------------------------------------------------------------------------
(* Counting.                                                               *)

\* A sequence without repetitions is no longer than the set its elements are from,
\* and one that is as long has them all.
LEMMA DistinctElements ==
  ASSUME NEW S, IsFiniteSet(S), NEW p \in Seq(S),
         \A i, j \in 1..Len(p) : i < j => p[i] # p[j]
  PROVE  /\ Len(p) <= Cardinality(S)
         /\ Cardinality(S) <= Len(p) => \A x \in S : \E i \in 1..Len(p) : p[i] = x
<1> DEFINE D == 1..Len(p)
           f == [i \in D |-> p[i]]
<1>1. Len(p) \in Nat /\ \A i \in D : p[i] \in S
  OBVIOUS
<1>2. IsFiniteSet(D) /\ Cardinality(D) = Len(p)
  <2>1. 1 \in Int /\ Len(p) \in Int
    BY <1>1
  <2>2. /\ IsFiniteSet(1..Len(p))
        /\ Cardinality(1..Len(p)) = IF 1 > Len(p) THEN 0 ELSE Len(p) - 1 + 1
    BY <2>1, FS_Interval
  <2> QED
    BY <1>1, <2>2
<1>3. \A i, j \in D : p[i] = p[j] => i = j
  BY <1>1
<1>4. f \in Injection(D, S)
  BY <1>1, <1>3 DEF Injection, IsInjective
<1>5. Cardinality(D) <= Cardinality(S) /\ (Cardinality(D) = Cardinality(S) <=> f \in Surjection(D, S))
  BY <1>4, FS_Injection
<1>6. Cardinality(S) \in Nat
  BY FS_CardinalityType
<1>7. ASSUME Cardinality(S) <= Len(p), NEW x \in S
      PROVE  \E i \in D : p[i] = x
  <2>1. f \in Surjection(D, S)
    BY <1>1, <1>2, <1>5, <1>6, <1>7
  <2> QED
    BY <2>1 DEF Surjection
<1> QED
  BY <1>2, <1>5, <1>7

\* The bucket holds finitely many objects.
LEMMA FiniteBucket ==
  ASSUME TypeOK
  PROVE  IsFiniteSet(DOMAIN objects) /\ IsFiniteSet(Archived)
<1> DEFINE f == [k \in DOMAIN objects |-> objects[k]]
<1>1. f \in Injection(DOMAIN objects, Records)
  BY DEF TypeOK, Injection, IsInjective
<1>2. Archived \in SUBSET Records
  BY DEF TypeOK, Archived
<1> QED
  BY <1>1, <1>2, FS_Injection, FS_Subset, RecordAssumption

\* A batch has a size.
LEMMA BatchSizeType ==
  ASSUME TypeOK
  PROVE  BatchSize \in Nat
<1> DEFINE f == IF query.clause = None THEN BatchFactor ELSE FilterFactor
<1>1. query.pageSize \in Nat
  <2>1. query.pageSize \in PageSizes
    BY DEF TypeOK
  <2> QED
    BY <2>1, SizeAssumption
<1>2. f \in Nat /\ MinBatchSize \in Nat
  BY SizeAssumption
<1>3. \A m, n \in Nat : m * n \in Nat
  OBVIOUS
<1>4. query.pageSize * f \in Nat
  BY <1>1, <1>2, <1>3
<1> QED
  BY <1>2, <1>4 DEF BatchSize

\* The keys of a batch come before all that it leaves unlisted.
LEMMA BatchIsFirst ==
  ASSUME NEW S \in SUBSET Key, IsFiniteSet(S), NEW n \in Nat,
         NEW k \in S, k \notin FirstKeys(S, n), NEW t \in FirstKeys(S, n)
  PROVE  Before(t, k)
<1> DEFINE Smaller(x) == {j \in S : Before(j, x)}
<1>1. t \in S /\ Cardinality(Smaller(t)) < n /\ ~(Cardinality(Smaller(k)) < n)
  BY DEF FirstKeys
<1>2. SUFFICES ASSUME ~Before(t, k) PROVE FALSE
  OBVIOUS
<1>3. Smaller(k) \subseteq Smaller(t)
  <2> SUFFICES ASSUME NEW j \in S, Before(j, k) PROVE Before(j, t)
    OBVIOUS
  <2> QED
    BY <1>1, <1>2 DEF Key, Before
<1>4. IsFiniteSet(Smaller(t)) /\ IsFiniteSet(Smaller(k))
  BY FS_Subset
<1>5. Cardinality(Smaller(k)) <= Cardinality(Smaller(t))
  BY <1>3, <1>4, FS_Subset
<1>6. Cardinality(Smaller(k)) \in Nat /\ Cardinality(Smaller(t)) \in Nat
  BY <1>4, FS_CardinalityType
<1> QED
  BY <1>1, <1>5, <1>6

-----------------------------------------------------------------------------
(* Nothing is missed when one page can hold all that match.                *)

\* The request is fixed, and with it which records match; nothing leaves the bucket.
LEMMA FixedRequest ==
  ASSUME TypeOK, [Next]_vars
  PROVE  /\ query' = query /\ status' = status /\ Matching' = Matching
         /\ DOMAIN objects \subseteq DOMAIN objects'
<1>1. query' = query /\ status' = status /\ DOMAIN objects \subseteq DOMAIN objects'
  <2>1. CASE \E r \in Records : Archive(r) \/ RejectRecord(r) \/ PutError(r)
    BY <2>1, PutRecordTypes DEF Archive, RejectRecord, PutError, clientVars
  <2>2. CASE Query \/ ListError \/ DownloadError \/ UNCHANGED vars
    BY <2>2 DEF Query, StartQuery, ListObjects, ScanRecord, NextBatch, Return,
                ListError, DownloadError, vars, archiveVars, clientVars
  <2> QED
    BY <2>1, <2>2 DEF Next
<1> QED
  BY <1>1 DEF Matching, Matches

\* Steps within a call that show the client nothing new keep CallInv.
LEMMA CallInvFrame ==
  ASSUME TypeOK, CallInv, [Next]_vars,
         pc' = pc \/ {pc, pc'} \subseteq {"idle", "list", "scan", "done"},
         Seen' = Seen, token' = token \/ pc # "new",
         before' = before, skipped' = skipped \/ pc # "new"
  PROVE  CallInv'
<1>1. /\ query' = query /\ Matching' = Matching
      /\ DOMAIN objects \subseteq DOMAIN objects'
  BY FixedRequest
<1>2. ParseError(query.clause)' <=> ParseError(query.clause)
  BY <1>1 DEF ParseError
<1> QED
  BY <1>1, <1>2 DEF CallInv

\* A call begins with nothing but what the client has received.
LEMMA CallInvStart ==
  ASSUME TypeOK, ListedInOrder, CallInv, StartQuery
  PROVE  CallInv'
<1>1. /\ query' = query /\ status' = status /\ objects' = objects
      /\ out' = out /\ token' = token /\ skipped' = skipped
      /\ pc \in {"new", "idle"}
  BY DEF StartQuery, archiveVars, clientVars
<1>2. Matching' = Matching /\ (ParseError(query.clause)' <=> ParseError(query.clause))
  BY <1>1 DEF Matching, Matches, ParseError
<1>3. \A r \in before' : VisibilityKey(r) \in DOMAIN objects
  BY DEF StartQuery, CallInv, TypeOK
<1>4. CASE pc' = "invalid" /\ page' = page /\ ParseError(query.clause)
  BY <1>1, <1>2, <1>3, <1>4 DEF CallInv, Seen
<1>5. CASE pc' = "list" /\ page' = << >> /\ ~ParseError(query.clause)
  <2>1. Seen' = out
    BY <1>1, <1>5, OutOfSeen DEF Seen
  <2>2. \A i \in 1..Len(out) : out[i] \in Matching /\ VisibilityKey(out[i]) \in DOMAIN objects
    BY OutOfSeen DEF CallInv
  <2> QED
    BY <1>1, <1>2, <1>3, <1>5, <2>1, <2>2 DEF CallInv
<1> QED
  BY <1>4, <1>5 DEF StartQuery

\* A record that joins the page matches, and is in the bucket.
LEMMA CallInvScan ==
  ASSUME TypeOK, ListedInOrder, CallInv, ScanRecord
  PROVE  CallInv'
<1>1. PICK k \in batch : page' = IF Matches(objects[k]) THEN Append(page, objects[k])
                                  ELSE page
  BY DEF ScanRecord
<1>2. /\ pc' = pc /\ query' = query /\ status' = status /\ objects' = objects
      /\ out' = out /\ token' = token /\ skipped' = skipped /\ before' = before
  BY DEF ScanRecord, archiveVars, clientVars
<1>3. objects[k] \in Records /\ VisibilityKey(objects[k]) = k /\ k \in DOMAIN objects
  BY <1>1 DEF TypeOK
<1>4. Matching' = Matching /\ (ParseError(query.clause)' <=> ParseError(query.clause))
  BY <1>2 DEF Matching, Matches, ParseError
<1>5. CASE page' = page
  BY <1>2, <1>4, <1>5 DEF CallInv, Seen
<1>6. CASE Matches(objects[k]) /\ page' = Append(page, objects[k])
  <2> DEFINE r == objects[k]
  <2>1. /\ Len(Seen) \in Nat /\ Len(Seen') = Len(Seen) + 1 /\ Seen'[Len(Seen) + 1] = r
        /\ \A i \in 1..Len(Seen) : Seen'[i] = Seen[i]
    BY <1>2, <1>3, <1>6, SeenAppend
  <2>2. r \in Matching
    BY <1>3, <1>6 DEF Matching
  <2> HIDE DEF r
  <2>3. VisibilityKey(r) \in DOMAIN objects
    BY <1>3 DEF r
  <2>4. ASSUME NEW i \in 1..Len(Seen')
        PROVE  Seen'[i] \in Matching /\ VisibilityKey(Seen'[i]) \in DOMAIN objects
    <3>1. CASE i \in 1..Len(Seen)
      BY <2>1, <3>1 DEF CallInv
    <3>2. CASE i = Len(Seen) + 1
      BY <2>1, <2>2, <2>3, <3>2
    <3> QED
      BY <2>1, <3>1, <3>2
  <2> QED
    BY <1>2, <1>4, <2>4 DEF CallInv
<1> QED
  BY <1>1, <1>5, <1>6

\* What holds of a call whatever the page size.
LEMMA CallInvStep ==
  ASSUME TypeOK, ListedInOrder, CallInv, [Next]_vars
  PROVE  CallInv'
<1>1. CASE StartQuery
  BY <1>1, CallInvStart
<1>2. CASE ScanRecord
  BY <1>2, CallInvScan
<1>3. CASE Return
  <2>1. /\ pc = "scan" /\ pc' \in {"idle", "done"} /\ before' = before
        /\ out' = Seen /\ page' = << >>
    BY <1>3 DEF Return, BatchOver, Seen
  <2>2. Seen' = Seen
    BY <2>1, OutOfSeen, ConcatEmptySeq DEF Seen
  <2> QED
    BY <2>1, <2>2, CallInvFrame
<1>4. CASE \/ ListObjects \/ NextBatch \/ ListError \/ DownloadError
           \/ \E r \in Records : Archive(r) \/ RejectRecord(r) \/ PutError(r)
           \/ UNCHANGED vars
  <2>1. UNCHANGED <<out, page, token, before>>
    BY <1>4 DEF ListObjects, NextBatch, ListError, DownloadError, Archive,
                RejectRecord, PutError, vars, clientVars, callVars
  <2>2. pc' = pc \/ {pc, pc'} \subseteq {"idle", "list", "scan", "done"}
    BY <1>4 DEF ListObjects, NextBatch, BatchOver, ListError, DownloadError, Archive,
                RejectRecord, PutError, vars, callVars
  <2>3. skipped' = skipped \/ pc # "new"
    BY <1>4 DEF ListObjects, NextBatch, ListError, DownloadError, Archive,
                RejectRecord, PutError, vars
  <2>4. Seen' = Seen
    BY <2>1 DEF Seen
  <2> QED
    BY <2>1, <2>2, <2>3, <2>4, CallInvFrame
<1> QED
  BY <1>1, <1>2, <1>3, <1>4 DEF Next, Query

\* A call resumes at the client's token: what is ahead of the one is ahead of the other.
LEMMA AheadStart ==
  ASSUME TypeOK, ListedInOrder, StartQuery, NEW r, token = None \/ Ahead(r)
  PROVE  Ahead(r)'
<1>1. /\ pc \in {"new", "idle"} /\ pc' \in {"invalid", "list"}
      /\ token' = token /\ out' = out
      /\ pc' = "list" => page' = << >> /\ cont' = token
  BY DEF StartQuery, clientVars
<1>2. Received(r)' <=> Received(r)
  BY <1>1 DEF Received
<1>3. Received(r) \/ ToCome(r, token)
  BY <1>1 DEF Ahead, ToCome
<1>4. pc' = "list" => (Received(r) => InSeen(r)')
  <2> SUFFICES ASSUME pc' = "list"
               PROVE  Received(r) => InSeen(r)'
    OBVIOUS
  <2>1. Seen' = out
    BY <1>1, OutOfSeen DEF Seen
  <2> QED
    BY <2>1 DEF Received, InSeen
<1> QED
  BY <1>1, <1>2, <1>3, <1>4 DEF Ahead, ToCome

\* What a batch leaves out comes after it.
LEMMA AheadList ==
  ASSUME TypeOK, ListObjects, NEW r \in Records, Ahead(r),
         VisibilityKey(r) \in DOMAIN objects
  PROVE  Ahead(r)'
<1> DEFINE k == VisibilityKey(r)
<1>1. /\ pc = "list" /\ pc' = "scan" /\ UNCHANGED <<out, page, token>>
      /\ batch' = FirstKeys(Unlisted, BatchSize)
      /\ last' \in ListResults(batch')
  BY DEF ListObjects, clientVars
<1>2. /\ Received(r)' <=> Received(r)
      /\ InSeen(r)' <=> InSeen(r)
      /\ ToCome(r, token)' <=> ToCome(r, token)
  BY <1>1 DEF Received, InSeen, Seen, ToCome
<1>3. InSeen(r) \/ k \in Unlisted
  BY <1>1 DEF Ahead, ToCome, Unlisted
<1>4. ASSUME k \in Unlisted, k \notin batch'
      PROVE  last'.truncated /\ Before(last'.token, k)
  <2>1. batch' # Unlisted
    BY <1>4
  <2>2. PICK t \in LastKeys(batch') : last' = [truncated |-> TRUE, token |-> t]
    BY <1>1, <2>1 DEF ListResults
  <2>3. t \in batch' /\ last'.token = t /\ last'.truncated
    BY <2>2 DEF LastKeys
  <2>4. BatchSize \in Nat
    BY BatchSizeType
  <2>5. Unlisted \in SUBSET Key /\ Unlisted \in SUBSET DOMAIN objects
    BY DEF Unlisted, TypeOK
  <2>6. IsFiniteSet(Unlisted)
    BY <2>5, FiniteBucket, FS_Subset
  <2> HIDE DEF k
  <2>7. Before(t, k)
    BY <1>1, <1>4, <2>3, <2>4, <2>5, <2>6, BatchIsFirst
  <2> QED
    BY <2>3, <2>7
<1>5. Received(r) \/ ToCome(r, token)
  BY <1>1 DEF Ahead
<1>6. InSeen(r)' \/ k \in batch' \/ (last'.truncated /\ Before(last'.token, k))
  BY <1>2, <1>3, <1>4
<1>7. (pc = "scan")' /\ (pc # "list")' /\ (pc # "done")'
  BY <1>1
<1> QED
  BY <1>2, <1>5, <1>6, <1>7 DEF Ahead

\* The record of the batch that joins the page, or is skipped, is no longer ahead.
LEMMA AheadScan ==
  ASSUME TypeOK, ListedInOrder, NEW r \in Matching, Ahead(r),
         \/ ScanRecord
         \/ DownloadError /\ r \notin skipped'
  PROVE  Ahead(r)'
<1> DEFINE key == VisibilityKey(r)
<1>1. PICK k \in batch :
        /\ batch' = batch \ {k}
        /\ \/ page' = IF Matches(objects[k]) THEN Append(page, objects[k]) ELSE page
           \/ page' = page /\ objects[k] # r
  BY DEF ScanRecord, DownloadError
<1>2. pc = "scan" /\ UNCHANGED <<pc, out, token, cont, last>>
  BY DEF ScanRecord, DownloadError, clientVars
<1>3. r \in Records /\ Matches(r)
  BY DEF Matching
<1>4. k \in DOMAIN objects /\ objects[k] \in Records
  BY <1>1 DEF TypeOK
<1>5. key = k => objects[k] = r
  BY <1>3, <1>4, ObjectOfKey
<1>6. /\ Received(r)' <=> Received(r)
      /\ ToCome(r, token)' <=> ToCome(r, token)
  BY <1>2 DEF Received, ToCome
<1>7. CASE page' = page
  <2>1. InSeen(r)' <=> InSeen(r)
    BY <1>2, <1>7 DEF InSeen, Seen
  <2>2. key # k
    BY <1>1, <1>3, <1>5, <1>7, AppendProperties DEF TypeOK
  <2> QED
    BY <1>1, <1>2, <1>6, <2>1, <2>2 DEF Ahead
<1>8. CASE page' = Append(page, objects[k])
  <2>1. /\ Len(Seen) \in Nat /\ Len(Seen') = Len(Seen) + 1
        /\ Seen'[Len(Seen) + 1] = objects[k]
        /\ \A i \in 1..Len(Seen) : Seen'[i] = Seen[i]
    BY <1>2, <1>4, <1>8, SeenAppend
  <2>2. InSeen(r) \/ key = k => InSeen(r)'
    <3>1. ASSUME NEW i \in 1..Len(Seen), Seen[i] = r PROVE InSeen(r)'
      BY <2>1, <3>1 DEF InSeen
    <3>2. ASSUME key = k PROVE InSeen(r)'
      <4>1. Seen'[Len(Seen) + 1] = r /\ Len(Seen) + 1 \in 1..Len(Seen')
        BY <1>5, <2>1, <3>2
      <4> QED
        BY <4>1 DEF InSeen
    <3> QED
      BY <3>1, <3>2 DEF InSeen
  <2> HIDE DEF key
  <2>3. VisibilityKey(r)' = VisibilityKey(r) /\ key = VisibilityKey(r)
    BY DEF key
  <2> QED
    BY <1>1, <1>2, <1>6, <2>2, <2>3 DEF Ahead
<1> QED
  BY <1>1, <1>7, <1>8

\* The next batch begins where the last one ended, and nothing is left of that one.
LEMMA AheadNextBatch ==
  ASSUME NextBatch, NEW r, Ahead(r)
  PROVE  Ahead(r)'
<1>1. /\ pc = "scan" /\ pc' = "list" /\ batch = {} /\ cont' = last.token
      /\ UNCHANGED <<out, page, token>>
  BY DEF NextBatch, BatchOver, clientVars
<1>2. /\ Received(r)' <=> Received(r)
      /\ InSeen(r)' <=> InSeen(r)
      /\ ToCome(r, token)' <=> ToCome(r, token)
  BY <1>1 DEF Received, InSeen, Seen, ToCome
<1> QED
  BY <1>1, <1>2 DEF Ahead, ToCome

\* A full page that could hold all that match does hold all.
LEMMA FullPage ==
  ASSUME TypeOK, ListedInOrder, CallInv, PageFull,
         Cardinality(Matching) <= query.pageSize, NEW r \in Matching
  PROVE  InSeen(r)
<1>1. /\ Seen \in Seq(Records) /\ Len(Seen) = Len(out) + Len(page)
      /\ Len(out) \in Nat /\ Len(page) \in Nat
  BY ConcatProperties DEF TypeOK, Seen
<1>2. IsFiniteSet(Matching) /\ Cardinality(Matching) \in Nat
  <2>1. Matching \in SUBSET Records
    BY DEF Matching
  <2> QED
    BY <2>1, RecordAssumption, FS_Subset, FS_CardinalityType
<1>3. query.pageSize \in Nat
  BY SizeAssumption DEF TypeOK
<1>4. Seen \in Seq(Matching)
  BY <1>1 DEF CallInv
<1>5. \A i, j \in 1..Len(Seen) : i < j => Seen[i] # Seen[j]
  <2>1. \A i \in 1..Len(Seen) : VisibilityKey(Seen[i]) \in Key
    BY <1>1, KeyType
  <2> QED
    BY <2>1, KeyOrder DEF ListedInOrder
<1>6. Cardinality(Matching) <= Len(Seen)
  BY <1>1, <1>2, <1>3 DEF PageFull
<1> QED
  BY <1>2, <1>4, <1>5, <1>6, DistinctElements DEF InSeen

\* What is not received with a page comes after the token that comes with it.
LEMMA AheadReturn ==
  ASSUME TypeOK, ListedInOrder, CallInv, Return,
         Cardinality(Matching) <= query.pageSize, NEW r \in Matching, Ahead(r)
  PROVE  Ahead(r)'
<1>1. /\ pc = "scan" /\ (PageFull \/ batch = {}) /\ out' = Seen /\ page' = << >>
      /\ token' = IF last.truncated THEN last.token ELSE None
      /\ pc' = IF last.truncated THEN "idle" ELSE "done"
  BY DEF Return, BatchOver, Seen
<1>2. InSeen(r) => Received(r)'
  BY <1>1 DEF InSeen, Received
<1>3. InSeen(r) \/ (last.truncated /\ Before(last.token, VisibilityKey(r)))
  BY <1>1, FullPage DEF Ahead
<1> QED
  BY <1>1, <1>2, <1>3 DEF Ahead, ToCome

\* One step keeps a record ahead of the client until it is received.
LEMMA CompleteInvStep ==
  ASSUME TypeOK, ListedInOrder, CompleteInv, [Next]_vars
  PROVE  CompleteInv'
<1>1. CallInv /\ CallInv'
  BY CallInvStep DEF CompleteInv
<1>2. Matching' = Matching /\ query' = query
  BY FixedRequest
<1>3. SUFFICES ASSUME Cardinality(Matching) <= query.pageSize,
                      NEW r \in (before' \ skipped') \cap Matching
               PROVE  Ahead(r)'
  BY <1>1, <1>2 DEF CompleteInv
<1>4. r \in Records /\ r \in Matching /\ r \notin skipped'
  BY DEF Matching
<1>5. ASSUME before' = before, skipped \subseteq skipped'
      PROVE  Ahead(r) /\ VisibilityKey(r) \in DOMAIN objects
  BY <1>3, <1>5 DEF CompleteInv, CallInv
<1>6. CASE StartQuery
  <2>1. CASE pc = "new"
    BY <1>1, <1>6, <2>1, AheadStart DEF CallInv
  <2>2. CASE pc = "idle"
    BY <1>5, <1>6, <2>2, AheadStart DEF StartQuery
  <2> QED
    BY <1>6, <2>1, <2>2 DEF StartQuery
<1>7. CASE ListObjects
  BY <1>4, <1>5, <1>7, AheadList DEF ListObjects
<1>8. CASE ScanRecord \/ DownloadError
  BY <1>4, <1>5, <1>8, AheadScan DEF ScanRecord, DownloadError
<1>9. CASE NextBatch
  BY <1>5, <1>9, AheadNextBatch DEF NextBatch
<1>10. CASE Return
  BY <1>1, <1>3, <1>4, <1>5, <1>10, AheadReturn DEF Return
<1>11. CASE \/ ListError
            \/ \E s \in Records : Archive(s) \/ RejectRecord(s) \/ PutError(s)
            \/ UNCHANGED vars
  <2>1. /\ UNCHANGED <<out, page, token, cont, batch, last, before, skipped>>
        /\ pc' = pc \/ (pc = "list" /\ pc' = "idle")
    BY <1>11 DEF ListError, Archive, RejectRecord, PutError, vars, clientVars, callVars
  <2>2. /\ Received(r)' <=> Received(r)
        /\ InSeen(r)' <=> InSeen(r)
        /\ ToCome(r, token)' <=> ToCome(r, token)
        /\ ToCome(r, cont)' <=> ToCome(r, cont)
    BY <2>1 DEF Received, InSeen, Seen, ToCome
  <2>3. Ahead(r)
    BY <1>5, <2>1
  <2> QED
    BY <2>1, <2>2, <2>3 DEF Ahead
<1> QED
  BY <1>6, <1>7, <1>8, <1>9, <1>10, <1>11 DEF Next, Query

\* What a client has yet to receive is ahead of it, if one page can hold all.
THEOREM CompleteInvariant == Spec => []CompleteInv
<1>1. Init => CompleteInv
  <2> SUFFICES ASSUME Init PROVE CompleteInv
    OBVIOUS
  <2>1. Seen = << >> /\ Len(Seen) = 0 /\ pc = "new" /\ before = {}
    BY DEF Init, Seen
  <2>2. token = None /\ skipped = {}
    BY DEF Init
  <2> QED
    BY <2>1, <2>2 DEF CompleteInv, CallInv
<1>2. TypeOK /\ ListedInOrder /\ CompleteInv /\ [Next]_vars => CompleteInv'
  BY CompleteInvStep
<1> QED
  BY <1>1, <1>2, VisibilityTypeCorrect, ListsInOrder, PTL DEF Spec

\* A client that is given no token has received every record that matches and was
\* there when it began, except failed downloads, if one page can hold all matches.
THEOREM OnePageIsComplete == Spec => []CompleteIfOnePage
<1>1. TypeOK /\ CompleteInv => CompleteIfOnePage
  <2> SUFFICES ASSUME TypeOK, CompleteInv, pc = "done",
                      Cardinality(Matching) <= query.pageSize,
                      NEW r \in before \ skipped, Matches(r)
               PROVE  Received(r)
    BY DEF CompleteIfOnePage, Matching
  <2>1. r \in Matching
    BY DEF TypeOK, Matching
  <2>2. Ahead(r)
    BY <2>1 DEF CompleteInv
  <2> QED
    BY <2>2 DEF Ahead
<1> QED
  BY <1>1, CompleteInvariant, VisibilityTypeCorrect, PTL

-----------------------------------------------------------------------------
(* The archive keeps the promise of Listing.                               *)

\* A step that shows the client and the archive nothing is a stutter of Listing.
LEMMA ListingStutter ==
  ASSUME TypeOK, [Next]_vars, Archived' = Archived, Phase' = Phase, out' = out,
         before' = before, skipped' = skipped
  PROVE  UNCHANGED Abstract!vars
BY FixedRequest DEF Abstract!vars

\* An upload stores a record of the archive, for the first time or again.
LEMMA ListingStore ==
  ASSUME TypeOK, [Next]_vars, NEW r \in Records, Archive(r) \/ RejectRecord(r) \/ PutError(r)
  PROVE  Abstract!Store(r) \/ UNCHANGED Abstract!vars
<1>1. /\ pc' = pc /\ out' = out /\ before' = before /\ skipped' = skipped
      /\ Phase' = Phase
  BY DEF Archive, RejectRecord, PutError, clientVars, callVars, Phase
<1>2. CASE PutRecord(r)
  <2> DEFINE k == VisibilityKey(r)
  <2>1. /\ DOMAIN objects' = DOMAIN objects \cup {k}
        /\ \A j \in DOMAIN objects' : objects'[j] = IF j = k THEN r ELSE objects[j]
    BY <1>2 DEF PutRecord
  <2>2. k \in DOMAIN objects => objects[k] = r
    BY ObjectOfKey
  <2> HIDE DEF k
  <2>3. Archived' = Archived \cup {r}
    BY <2>1, <2>2 DEF Archived
  <2>4. query' = query /\ Matching' = Matching
    BY FixedRequest
  <2> QED
    BY <1>1, <2>3, <2>4 DEF Abstract!Store
<1>3. CASE UNCHANGED objects
  <2>1. Archived' = Archived
    BY <1>3 DEF Archived
  <2> QED
    BY <1>1, <2>1, ListingStutter
<1> QED
  BY <1>2, <1>3 DEF Archive, RejectRecord, PutError

\* The first call begins the reading; a later one is not seen.
LEMMA ListingBegin ==
  ASSUME TypeOK, CallInv, [Next]_vars, StartQuery
  PROVE  Abstract!Begin \/ UNCHANGED Abstract!vars
<1>1. /\ out' = out /\ skipped' = skipped /\ Archived' = Archived
      /\ query' = query /\ Matching' = Matching
  BY FixedRequest DEF StartQuery, clientVars, archiveVars, Archived
<1>2. CASE pc = "new"
  <2>1. skipped = {} /\ before' = Archived /\ pc' \in {"invalid", "list"}
    BY <1>2 DEF CallInv, StartQuery, Archived
  <2>2. Phase = "new" /\ Phase' \in {"open", "refused"}
    BY <1>2, <2>1 DEF Phase
  <2>3. (before' \ skipped') \cap Matching' = Archived \cap Matching
    BY <1>1, <2>1
  <2> QED
    BY <1>1, <2>2, <2>3 DEF Abstract!Begin
<1>3. CASE pc = "idle"
  <2>1. pc' = "list" /\ before' = before
    BY <1>3 DEF CallInv, StartQuery
  <2>2. Phase' = Phase
    BY <1>3, <2>1 DEF Phase
  <2> QED
    BY <1>1, <2>1, <2>2, ListingStutter
<1> QED
  BY <1>2, <1>3 DEF StartQuery

\* A failed download is a record the store could not give.
LEMMA ListingLose ==
  ASSUME TypeOK, [Next]_vars, DownloadError
  PROVE  \E r \in Records : Abstract!Lose(r)
<1>1. PICK k \in batch : skipped' = skipped \cup {objects[k]}
  BY DEF DownloadError
<1>2. objects[k] \in Records
  BY <1>1 DEF TypeOK
<1>3. /\ pc = "scan" /\ pc' = pc /\ out' = out /\ before' = before /\ Archived' = Archived
      /\ query' = query /\ Matching' = Matching
  BY FixedRequest DEF DownloadError, clientVars, archiveVars, Archived
<1>4. Phase = "open" /\ Phase' = Phase
  BY <1>3 DEF Phase
<1>5. (before' \ skipped') \cap Matching' = ((before \ skipped) \cap Matching) \ {objects[k]}
  BY <1>1, <1>3
<1>6. Abstract!Lose(objects[k])
  BY <1>3, <1>4, <1>5 DEF Abstract!Lose
<1> QED
  BY <1>2, <1>6

\* The page under construction could be a page of Listing.
LEMMA ListingPage ==
  ASSUME TypeOK, ListedInOrder, CallInv
  PROVE  page \in Abstract!Pages
<1>1. /\ Len(Seen) = Len(out) + Len(page) /\ Len(out) \in Nat /\ Len(page) \in Nat
      /\ \A i \in 1..Len(page) :
           Len(out) + i \in 1..Len(Seen) /\ Seen[Len(out) + i] = page[i]
  BY ConcatProperties DEF TypeOK, Seen
<1>2. ASSUME NEW i \in 1..Len(page)
      PROVE  page[i] \in Archived \cap Matching
  <2>1. page[i] \in Matching /\ VisibilityKey(page[i]) \in DOMAIN objects
    BY <1>1 DEF CallInv
  <2>2. objects[VisibilityKey(page[i])] = page[i]
    BY <2>1, ObjectOfKey DEF Matching
  <2> QED
    BY <2>1, <2>2 DEF Archived
<1>3. ASSUME NEW i \in 1..Len(page), NEW j \in 1..Len(page), i < j
      PROVE  page[i] # page[j]
  <2>1. Before(VisibilityKey(page[i]), VisibilityKey(page[j]))
    BY <1>1, <1>3 DEF ListedInOrder
  <2>2. VisibilityKey(page[i]) \in Key
    BY KeyType DEF TypeOK
  <2> QED
    BY <2>1, <2>2, KeyOrder
<1>4. page \in Seq(Archived)
  BY <1>2 DEF TypeOK
<1>5. Len(page) <= Cardinality(Archived) /\ Cardinality(Archived) \in Nat
  BY <1>3, <1>4, FiniteBucket, DistinctElements, FS_CardinalityType
<1>6. page \in [1..Len(page) -> Archived \cap Matching]
  BY <1>2 DEF TypeOK
<1>7. Len(page) \in 0..Cardinality(Archived)
  BY <1>1, <1>5
<1> DEFINE F(n) == [1..n -> Archived \cap Matching]
<1>8. F(Len(page)) \in {F(n) : n \in 0..Cardinality(Archived)}
  <2> HIDE DEF F
  <2> QED
    BY <1>7
<1>9. page \in UNION {F(n) : n \in 0..Cardinality(Archived)}
  <2>1. page \in F(Len(page))
    BY <1>6
  <2> HIDE DEF F
  <2> QED
    BY <1>8, <2>1
<1>10. Abstract!Cardinality(Archived) = Cardinality(Archived)
  BY DEF Abstract!Cardinality, Cardinality
<1> QED
  BY <1>9, <1>10 DEF Abstract!Pages

\* A call that returns delivers its page, and ends the reading only when it may.
LEMMA ListingDeliver ==
  ASSUME TypeOK, ListedInOrder, CompleteInv, CompleteInv', [Next]_vars, Return
  PROVE  \E p \in Abstract!Pages : Abstract!Deliver(p)
<1>1. /\ pc = "scan" /\ pc' \in {"idle", "done"} /\ out' = out \o page
      /\ before' = before /\ skipped' = skipped /\ Archived' = Archived
      /\ query' = query /\ Matching' = Matching
  BY FixedRequest DEF Return, BatchOver, archiveVars, Archived
<1>2. Phase = "open" /\ Phase' \in {"open", "done"} /\ (Phase' = "done" => pc' = "done")
  BY <1>1 DEF Phase
<1>3. Abstract!InOrder(out')
  BY <1>1 DEF Abstract!InOrder, ListedInOrder, Seen, KeyEarlier
<1>4. ASSUME pc' = "done", Cardinality(Matching) <= query.pageSize,
             NEW r \in (before \ skipped) \cap Matching
      PROVE  r \in {out'[i] : i \in 1..Len(out')}
  <2>1. Ahead(r)'
    BY <1>1, <1>4 DEF CompleteInv
  <2> QED
    BY <1>4, <2>1 DEF Ahead, Received
<1>5. Abstract!Deliver(page)
  BY <1>1, <1>2, <1>3, <1>4 DEF Abstract!Deliver
<1> QED
  BY <1>5, ListingPage DEF CompleteInv

\* Every step of the archiver and its client is one of Listing, or is not seen.
LEMMA ListingStep ==
  ASSUME TypeOK, ListedInOrder, CompleteInv, CompleteInv', [Next]_vars
  PROVE  [Abstract!Next]_(Abstract!vars)
<1>1. CASE \E r \in Records : Archive(r) \/ RejectRecord(r) \/ PutError(r)
  BY <1>1, ListingStore DEF Abstract!Next
<1>2. CASE StartQuery
  BY <1>2, ListingBegin DEF CompleteInv, Abstract!Next
<1>3. CASE DownloadError
  BY <1>3, ListingLose DEF Abstract!Next
<1>4. CASE Return
  BY <1>4, ListingDeliver DEF Abstract!Next
<1>5. CASE ListObjects \/ ScanRecord \/ NextBatch \/ ListError \/ UNCHANGED vars
  <2>1. UNCHANGED <<objects, out, before, skipped>>
    BY <1>5 DEF ListObjects, ScanRecord, NextBatch, ListError, vars, archiveVars, clientVars
  <2>2. pc' = pc \/ {pc, pc'} \subseteq {"idle", "list", "scan"}
    BY <1>5 DEF ListObjects, ScanRecord, NextBatch, BatchOver, ListError, vars, callVars
  <2>3. Archived' = Archived /\ Phase' = Phase
    BY <2>1, <2>2 DEF Archived, Phase
  <2> QED
    BY <2>1, <2>3, ListingStutter
<1> QED
  BY <1>1, <1>2, <1>3, <1>4, <1>5 DEF Next, Query

\* Query and Archive together implement Listing, for every set of records, page and
\* batch size: behind batches, tokens and repeated calls the client sees records of
\* the archive that it asked for, in order, each once, and no early end of what one
\* page can hold.
THEOREM ArchiverImplementsListing == Spec => ImplementsListing
<1>1. Init => Abstract!Init
  <2> SUFFICES ASSUME Init PROVE Abstract!Init
    OBVIOUS
  <2>1. Archived = {} /\ Phase = "new" /\ before = {} /\ out = << >>
    BY DEF Init, Archived, Phase
  <2>2. Matching \in SUBSET Records
    BY DEF Matching
  <2> QED
    BY <2>1, <2>2 DEF Abstract!Init
<1>2. TypeOK /\ ListedInOrder /\ CompleteInv /\ CompleteInv' /\ [Next]_vars
        => [Abstract!Next]_(Abstract!vars)
  BY ListingStep
<1> QED
  BY <1>1, <1>2, VisibilityTypeCorrect, ListsInOrder, CompleteInvariant, PTL
     DEF Spec, ImplementsListing, Abstract!Spec
=============================================================================
