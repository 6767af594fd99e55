------------------------ MODULE HistoryArchiverProofs ------------------------
(***************************************************************************)
(* Proofs about HistoryArchiver, for every number of runs, tasks, batches, *)
(* failover versions and faults.                                           *)
(***************************************************************************)
EXTENDS HistoryArchiver, SequenceTheorems, TLAPS

\* The element at the end of a non-empty sequence.
LEMMA LastBatchType ==
  ASSUME NEW h \in History \ {<< >>}
  PROVE  LastBatch(h) \in Batch /\ CloseVersion(h) \in Version
<1>1. LastBatch(h) \in Batch
  BY DEF History, LastBatch
<1> QED
  BY <1>1 DEF CloseVersion, Batch

\* A rewriting of a history is a history.
LEMMA RewritingType ==
  ASSUME NEW h \in History \ {<< >>}, CloseVersion(h) < MaxVersion,
         NEW keep \in 0..(Len(h) - 1), NEW len \in Nat, keep < len,
         NEW s \in EventType
  PROVE  /\ Rewriting(h, keep, len, s) \in History \ {<< >>}
         /\ Len(Rewriting(h, keep, len, s)) = len
<1> DEFINE g == Rewriting(h, keep, len, s)
<1>1. CloseVersion(h) + 1 \in Version
  BY LastBatchType, VersionAssumption DEF Version
<1>2. ASSUME NEW i \in 1..len
      PROVE  g[i] \in Batch
  <2>1. CASE i <= keep
    BY <2>1, <1>2 DEF Rewriting, History
  <2>2. CASE i > keep
    <3>1. g[i] = [id |-> i, version |-> CloseVersion(h) + 1,
                  type |-> IF i = len THEN s ELSE OtherEvent]
      BY <2>2, <1>2 DEF Rewriting
    <3> QED
      BY <1>1, <3>1 DEF Batch, EventType
  <2> QED
    BY <2>1, <2>2
<1>3. g \in [1..len -> Batch]
  BY <1>2 DEF Rewriting
<1> QED
  BY <1>3 DEF History

\* A blob the iterator returns is a non-empty piece of the history.
LEMMA BlobType ==
  ASSUME NEW h \in History, NEW p \in Nat, NEW n \in 1..(Len(h) - p)
  PROVE  /\ SubSeq(h, p + 1, p + n) \in History
         /\ Len(SubSeq(h, p + 1, p + n)) = n
         /\ \A i \in 1..n : SubSeq(h, p + 1, p + n)[i] = h[p + i]
<1>1. p + n <= Len(h) /\ n \in Nat /\ Len(h) \in Nat
  BY DEF History
<1> QED
  BY <1>1 DEF History

\* The initial states are well typed.
LEMMA InitialTypes ==
  ASSUME Init PROVE TypeOK
<1>1. 0 \in Version
  BY VersionAssumption DEF Version
<1>2. InitialHistory \subseteq History \ {<< >>}
  <2> SUFFICES ASSUME NEW len \in 1..MaxLen, NEW s \in EventType
               PROVE  [i \in 1..len |-> [id |-> i, version |-> 0,
                        type |-> IF i = len THEN s ELSE OtherEvent]]
                         \in History \ {<< >>}
    BY DEF InitialHistory
  <2>1. ASSUME NEW i \in 1..len
        PROVE  [id |-> i, version |-> 0,
                type |-> IF i = len THEN s ELSE OtherEvent] \in Batch
    BY <1>1, BoundAssumption DEF Batch, EventType
  <2> QED
    BY <2>1, BoundAssumption DEF History
<1>3. << >> \in History
  BY DEF History
<1> QED
  BY <1>1, <1>2, <1>3 DEF Init, TypeOK, PC, Request, Iterator, FreshIterator

\* Type correctness, whether or not the caller passes a ProgressManager.
THEOREM TypeCorrect == Spec => []TypeOK
<1>1. Init => TypeOK
  BY InitialTypes
<1>2. TypeOK /\ [Next]_vars => TypeOK'
  <2> SUFFICES ASSUME TypeOK, [Next]_vars PROVE TypeOK'
    OBVIOUS
  <2> USE TaskAssumption DEF TypeOK
  <2>1. ASSUME NEW t \in Tasks, Submit(t) PROVE TypeOK'
    <3>1. /\ CloseVersion(history[RunOf[t]]) \in Version
          /\ Len(history[RunOf[t]]) + 1 \in Nat
      BY LastBatchType DEF History
    <3>2. request' \in [Tasks -> Request]
      BY <2>1, <3>1 DEF Submit, Request
    <3> QED
      BY <2>1, <3>2 DEF Submit, bucketVars, attemptVars, PC
  <2>2. ASSUME NEW r \in Runs, RewriteHistory(r) PROVE TypeOK'
    <3>1. PICK keep \in 0..(Len(history[r]) - 1), len \in 1..MaxLen, s \in EventType :
            /\ keep < len
            /\ history' = [history EXCEPT ![r] = Rewriting(@, keep, len, s)]
      BY <2>2 DEF RewriteHistory
    <3>2. Rewriting(history[r], keep, len, s) \in History \ {<< >>}
      BY <2>2, <3>1, RewritingType, BoundAssumption DEF RewriteHistory
    <3> QED
      BY <2>2, <3>1, <3>2 DEF RewriteHistory, requestVars, attemptVars
  <2>3. ASSUME NEW r \in Runs, DeleteHistory(r) PROVE TypeOK'
    BY <2>3 DEF DeleteHistory, requestVars, attemptVars
  <2>4. ASSUME NEW t \in Tasks, StartAttempt(t) PROVE TypeOK'
    <3>1. Iterators(t) \subseteq Iterator /\ << >> \in History
      <4>1. FreshIterator \in Iterator
        BY DEF FreshIterator, Iterator
      <4> QED
        BY <4>1 DEF Iterators, History
    <3>2. iter' \in [Tasks -> Iterator] /\ buf' \in [Tasks -> History]
      <4>1. CASE request[t].valid
        <5>1. PICK i \in Iterators(t) : iter' = [iter EXCEPT ![t] = i]
          BY <2>4, <4>1 DEF StartAttempt
        <5> QED
          BY <2>4, <3>1, <4>1, <5>1 DEF StartAttempt
      <4>2. CASE ~request[t].valid
        BY <2>4, <4>2 DEF StartAttempt, attemptVars
      <4> QED
        BY <4>1, <4>2
    <3> QED
      BY <2>4, <3>2 DEF StartAttempt, bucketVars, requestVars, PC
  <2>5. ASSUME NEW t \in Tasks, ReadBlob(t) PROVE TypeOK'
    <3> DEFINE h == history[RunOf[t]]
               next(n) == [pos |-> iter[t].pos + n, finished |-> IsLast(t, n)]
    <3>1. PICK n \in 1..(Len(h) - iter[t].pos) :
            IF HistoryMutated(t, Blob(t, n), IsLast(t, n))
              THEN pc' = [pc EXCEPT ![t] = "rejected"]
                   /\ UNCHANGED <<attemptVars, progress>>
              ELSE /\ buf' = [buf EXCEPT ![t] = @ \o Blob(t, n)]
                   /\ iter' = [iter EXCEPT ![t] = next(n)]
                   /\ SaveIteratorState(t, next(n))
                   /\ pc' = [pc EXCEPT ![t] =
                        IF IsLast(t, n) THEN Verdict(Blob(t, n)) ELSE "reading"]
      BY <2>5 DEF ReadBlob
    <3>2. /\ h \in History /\ iter[t].pos \in Nat
          /\ Blob(t, n) \in History /\ next(n) \in Iterator
      BY BlobType DEF Blob, IsLast, Iterator, History
    <3>3. pc' \in [Tasks -> PC]
      BY <3>1 DEF PC, Verdict
    <3>4. buf' \in [Tasks -> History] /\ iter' \in [Tasks -> Iterator]
      <4>1. buf[t] \o Blob(t, n) \in History
        BY <3>2 DEF History
      <4> HIDE DEF next
      <4> QED
        BY <3>1, <3>2, <4>1 DEF attemptVars
    <3>5. progress' \in [Tasks -> Iterator]
      BY <3>1, <3>2 DEF SaveIteratorState
    <3> QED
      BY <2>5, <3>3, <3>4, <3>5 DEF ReadBlob, bucketVars, requestVars
  <2>6. ASSUME NEW t \in Tasks, ReadNotFound(t) \/ NothingToRead(t) PROVE TypeOK'
    BY <2>6 DEF ReadNotFound, NothingToRead, bucketVars, requestVars, attemptVars, PC
  <2>7. ASSUME NEW t \in Tasks, PutObject(t) PROVE TypeOK'
    BY <2>7 DEF PutObject, Put, requestVars, attemptVars, PC
  <2>8. ASSUME NEW t \in Tasks, ReturnNil(t) PROVE TypeOK'
    BY <2>8 DEF ReturnNil, bucketVars, requestVars, attemptVars, PC
  <2>9. ASSUME NEW t \in Tasks, Failure(t) PROVE TypeOK'
    <3>1. ASSUME TryAgain(t)
          PROVE  /\ pc' \in [Tasks -> PC] /\ buf' \in [Tasks -> History]
                 /\ iter' \in [Tasks -> Iterator] /\ progress' \in [Tasks -> Iterator]
                 /\ request' \in [Tasks -> Request] /\ asked' \in [Tasks -> History]
      BY <3>1 DEF TryAgain, PC, History, FreshIterator, Iterator, requestVars
    <3>2. faults' \in Nat
      BY <2>9 DEF Failure, ReadError, PutObjectError, EncodeError, Crash, Fault
    <3>3. CASE ReadError(t)
      BY <3>1, <3>2, <3>3 DEF ReadError, bucketVars
    <3>4. CASE PutObjectError(t)
      BY <3>1, <3>2, <3>4 DEF PutObjectError, Put
    <3>5. CASE EncodeError(t)
      <4>1. UNCHANGED <<history, deleted, objects>>
        BY <3>5 DEF EncodeError, bucketVars
      <4>2. CASE TryAgain(t)
        BY <3>1, <3>2, <4>1, <4>2
      <4>3. CASE ~TryAgain(t)
        BY <3>2, <3>5, <4>1, <4>3 DEF EncodeError, requestVars, attemptVars, PC
      <4> QED
        BY <4>2, <4>3
    <3>6. CASE Crash(t)
      BY <3>1, <3>2, <3>6 DEF Crash, bucketVars
    <3> QED
      BY <2>9, <3>3, <3>4, <3>5, <3>6 DEF Failure
  <2>10. CASE UNCHANGED vars
    BY <2>10 DEF vars, bucketVars, requestVars, attemptVars
  <2> QED
    BY <2>1, <2>2, <2>3, <2>4, <2>5, <2>6, <2>7, <2>8, <2>9, <2>10 DEF Next, Archive
<1> QED
  BY <1>1, <1>2, PTL DEF Spec

-----------------------------------------------------------------------------
(* Rewriting and reading, as pure facts about histories.                   *)

\* A rewritten history is well formed, closes with the next version, and agrees
\* with the old one wherever its versions are old.
LEMMA RewritingWellFormed ==
  ASSUME NEW h \in History \ {<< >>}, WellFormed(h), CloseVersion(h) < MaxVersion,
         NEW keep \in 0..(Len(h) - 1), NEW len \in Nat, keep < len,
         NEW s \in EventType
  PROVE  LET g == Rewriting(h, keep, len, s)
         IN  /\ WellFormed(g)
             /\ CloseVersion(g) = CloseVersion(h) + 1
             /\ \A i \in 1..len : g[i].version <= CloseVersion(h) =>
                                     i < Len(h) /\ g[i] = h[i]
<1> DEFINE g == Rewriting(h, keep, len, s)
<1>1. Len(g) = len /\ Len(h) \in Nat /\ Len(h) > 0 /\ CloseVersion(h) \in Nat
  BY RewritingType, LastBatchType, VersionAssumption DEF History, Version
<1>2. ASSUME NEW i \in 1..len, i <= keep
      PROVE  /\ g[i] = h[i] /\ i \in 1..Len(h) /\ g[i].id = i
             /\ g[i].version \in Nat /\ g[i].version <= CloseVersion(h)
  <2>1. g[i] = h[i] /\ i \in 1..Len(h) /\ i < Len(h)
    BY <1>1, <1>2 DEF Rewriting
  <2>2. h[i] \in Batch
    BY <2>1 DEF History
  <2>3. h[i].version \in Nat
    BY <2>2, VersionAssumption DEF Batch, Version
  <2> QED
    BY <1>1, <2>1, <2>3 DEF WellFormed, CloseVersion, LastBatch
<1>3. ASSUME NEW i \in 1..len, i > keep
      PROVE  g[i].version = CloseVersion(h) + 1 /\ g[i].id = i
  BY <1>3 DEF Rewriting
<1>4. WellFormed(g)
  <2>1. ASSUME NEW i \in 1..len, NEW j \in 1..len, i < j
        PROVE  g[i].version <= g[j].version
    <3>1. CASE j <= keep
      BY <1>1, <1>2, <2>1, <3>1 DEF WellFormed
    <3>2. CASE j > keep
      BY <1>1, <1>2, <1>3, <2>1, <3>2
    <3> QED
      BY <3>1, <3>2
  <2>2. ASSUME NEW i \in 1..len PROVE g[i].id = i
    BY <1>2, <1>3
  <2> HIDE DEF g
  <2> QED
    BY <1>1, <2>1, <2>2 DEF WellFormed
<1>5. CloseVersion(g) = CloseVersion(h) + 1
  BY <1>1, <1>3 DEF CloseVersion, LastBatch
<1>6. ASSUME NEW i \in 1..len, g[i].version <= CloseVersion(h)
      PROVE  i < Len(h) /\ g[i] = h[i]
  BY <1>1, <1>2, <1>3, <1>6
<1> QED
  BY <1>4, <1>5, <1>6

\* So a rewriting keeps every task's request related to its run.
LEMMA RewritingRelated ==
  ASSUME NEW h \in History \ {<< >>}, WellFormed(h), CloseVersion(h) < MaxVersion,
         NEW keep \in 0..(Len(h) - 1), NEW len \in Nat, keep < len,
         NEW s \in EventType,
         NEW a \in History \ {<< >>}, SameOrOverwritten(a, h)
  PROVE  LET g == Rewriting(h, keep, len, s)
         IN  SameOrOverwritten(a, g) /\ a # g
<1> DEFINE g == Rewriting(h, keep, len, s)
<1>1. /\ CloseVersion(g) = CloseVersion(h) + 1
      /\ \A i \in 1..len : g[i].version <= CloseVersion(h) => i < Len(h) /\ g[i] = h[i]
  BY RewritingWellFormed
<1>2. /\ CloseVersion(h) \in Nat /\ CloseVersion(a) \in Nat
      /\ CloseVersion(a) <= CloseVersion(h)
  BY LastBatchType, VersionAssumption DEF Version, SameOrOverwritten
<1>3. Len(g) = len /\ g \in History /\ Len(h) \in Nat
  BY RewritingType DEF History
<1>4. ASSUME NEW i \in 1..len, g[i].version <= CloseVersion(a)
      PROVE  i < Len(a) /\ g[i] = a[i]
  <2>1. g[i].version \in Nat
    <3>1. g[i] \in Batch
      BY <1>3 DEF History
    <3> QED
      BY <3>1, VersionAssumption DEF Batch, Version
  <2>2. i < Len(h) /\ g[i] = h[i] /\ i \in 1..Len(h)
    BY <1>1, <1>2, <1>3, <1>4, <2>1
  <2> QED
    BY <1>4, <2>2 DEF SameOrOverwritten
<1> HIDE DEF g
<1>5. CloseVersion(a) < CloseVersion(g)
  BY <1>1, <1>2
<1>6. a # g
  BY <1>5, <1>2
<1>7. SameOrOverwritten(a, g)
  BY <1>3, <1>4, <1>5 DEF SameOrOverwritten
<1> QED
  BY <1>6, <1>7 DEF g

\* A blob whose last event is not newer than the request belongs to the history
\* the request is for, and only that history's own close event ends it.
LEMMA AcceptedBlob ==
  ASSUME NEW a \in History \ {<< >>}, NEW h \in History \ {<< >>},
         WellFormed(h), SameOrOverwritten(a, h),
         NEW p \in Nat, NEW n \in 1..(Len(h) - p), h[p + n].version <= CloseVersion(a)
  PROVE  /\ \A i \in 1..n : h[p + i] = a[p + i]
         /\ p + n # Len(h) => p + n < Len(a)
         /\ p + n = Len(h) => a = h
<1>1. /\ Len(h) \in Nat /\ Len(a) \in Nat /\ p + n \in 1..Len(h)
      /\ CloseVersion(a) \in Nat /\ CloseVersion(h) \in Nat
  BY LastBatchType, VersionAssumption DEF History, Version
<1>2. CASE a = h
  BY <1>1, <1>2
<1>3. CASE /\ CloseVersion(a) < CloseVersion(h)
           /\ \A i \in 1..Len(h) :
                h[i].version <= CloseVersion(a) => i < Len(a) /\ h[i] = a[i]
  <2>1. ASSUME NEW i \in 1..Len(h) PROVE h[i].version \in Nat
    <3>1. h[i] \in Batch
      BY DEF History
    <3> QED
      BY <3>1, VersionAssumption DEF Batch, Version
  <2>2. p + n # Len(h)
    BY <1>1, <1>3, <2>1 DEF CloseVersion, LastBatch
  <2>3. p + n < Len(a)
    BY <1>1, <1>3
  <2>4. ASSUME NEW i \in 1..n PROVE h[p + i] = a[p + i]
    <3>1. p + i \in 1..Len(h) /\ (p + i < p + n \/ p + i = p + n)
      BY <1>1
    <3>2. h[p + i].version <= h[p + n].version
      BY <1>1, <2>1, <3>1 DEF WellFormed
    <3>3. h[p + i].version <= CloseVersion(a)
      BY <1>1, <2>1, <3>1, <3>2
    <3> QED
      BY <1>3, <3>1, <3>3
  <2> QED
    BY <2>2, <2>3, <2>4
<1> QED
  BY <1>2, <1>3 DEF SameOrOverwritten

\* Appending an accepted blob to the beginning of a history gives a longer
\* beginning of it.
LEMMA ExtendPrefix ==
  ASSUME NEW a \in History, NEW b \in History, NEW c \in History,
         \A i \in 1..Len(b) : b[i] = a[i],
         \A i \in 1..Len(c) : c[i] = a[Len(b) + i]
  PROVE  /\ Len(b \o c) = Len(b) + Len(c)
         /\ \A i \in 1..(Len(b) + Len(c)) : (b \o c)[i] = a[i]
<1>1. /\ Len(b \o c) = Len(b) + Len(c)
      /\ \A i \in 1..(Len(b) + Len(c)) :
           (b \o c)[i] = IF i <= Len(b) THEN b[i] ELSE c[i - Len(b)]
  BY ConcatProperties DEF History
<1>2. Len(b) \in Nat /\ Len(c) \in Nat
  BY DEF History
<1>3. ASSUME NEW i \in 1..(Len(b) + Len(c)) PROVE (b \o c)[i] = a[i]
  <2>1. CASE i <= Len(b)
    BY <1>1, <1>2, <2>1
  <2>2. CASE i > Len(b)
    <3>1. i - Len(b) \in 1..Len(c)
      BY <1>2, <2>2
    <3>2. c[i - Len(b)] = a[Len(b) + (i - Len(b))]
      BY <3>1
    <3> QED
      BY <1>1, <1>2, <2>2, <3>1, <3>2
  <2> QED
    BY <1>2, <2>1, <2>2
<1> QED
  BY <1>1, <1>3

\* Histories with the same batches are the same.
LEMMA SameBatches ==
  ASSUME NEW a \in History, NEW b \in History, Len(a) = Len(b),
         \A i \in 1..Len(a) : b[i] = a[i]
  PROVE  b = a
BY DEF History

-----------------------------------------------------------------------------
(* Steps that leave the bucket, the runs and the requests alone.           *)

\* Task t moves on (to a state other than unsubmitted) without touching anything
\* another task sees.
LEMMA LocalStep ==
  ASSUME TypeOK, IInv, NEW t \in Tasks, Submitted(t),
         NEW p \in PC \ {"unsubmitted"}, pc' = [pc EXCEPT ![t] = p],
         UNCHANGED <<bucketVars, requestVars>>,
         \A u \in Tasks \ {t} : buf'[u] = buf[u] /\ iter'[u] = iter[u],
         AttemptInv(t)',
         p = "acked" /\ asked[t] = history[RunOf[t]] => Secured(RunOf[t], asked[t])
  PROVE  IInv'
<1> USE DEF bucketVars, requestVars
<1>1. /\ \A u \in Tasks : Submitted(u)' <=> Submitted(u)
      /\ \A u \in Tasks : ObjectKey(u)' = ObjectKey(u)
      /\ \A u \in Tasks \ {t} : pc'[u] = pc[u]
  BY DEF Submitted, TypeOK, ObjectKey
<1>2. (\A r \in Runs : WellFormed(history[r]))'
  BY DEF IInv
<1>3. ASSUME NEW u \in Tasks PROVE RequestInv(u)'
  BY <1>1 DEF IInv, RequestInv
<1>4. ASSUME NEW u \in Tasks PROVE AttemptInv(u)'
  <2>1. CASE u = t
    BY <2>1
  <2>2. CASE u # t
    BY <1>1, <2>2 DEF IInv, AttemptInv
  <2> QED
    BY <2>1, <2>2
<1>5. OneHistoryPerKey'
  BY <1>1 DEF IInv, OneHistoryPerKey
<1>6. StoredIsWhole'
  BY <1>1 DEF IInv, StoredIsWhole
<1>7. NothingLost'
  BY DEF IInv, NothingLost, Secured
<1>8. AckedIsSecured'
  <2> SUFFICES ASSUME NEW u \in Tasks, pc'[u] = "acked", asked[u] = history[RunOf[u]]
               PROVE  Secured(RunOf[u], asked[u])'
    BY DEF AckedIsSecured
  <2>1. CASE u = t
    BY <2>1 DEF TypeOK, Secured
  <2>2. CASE u # t
    BY <1>1, <2>2 DEF IInv, AckedIsSecured, Secured
  <2> QED
    BY <2>1, <2>2
<1> QED
  BY <1>2, <1>3, <1>4, <1>5, <1>6, <1>7, <1>8 DEF IInv

\* An upload writes what the task was asked to store under the task's key, and no
\* other task has anything else to store there.
LEMMA UploadStep ==
  ASSUME TypeOK, IInv, NEW t \in Tasks, pc[t] = "uploading", Put(t),
         NEW p \in {"stored", "waiting"}, pc' = [pc EXCEPT ![t] = p],
         UNCHANGED <<history, deleted, requestVars>>,
         \A u \in Tasks \ {t} : buf'[u] = buf[u] /\ iter'[u] = iter[u],
         p = "stored" => buf'[t] = buf[t]
  PROVE  IInv'
<1> USE TaskAssumption DEF requestVars
<1>1. /\ \A u \in Tasks : Submitted(u)' <=> Submitted(u)
      /\ \A u \in Tasks : ObjectKey(u)' = ObjectKey(u)
      /\ \A u \in Tasks \ {t} : pc'[u] = pc[u]
      /\ pc'[t] = p /\ Submitted(t)
  BY DEF Submitted, TypeOK, ObjectKey
<1>2. buf[t] = asked[t] /\ ~Filtered(asked[t])
  BY DEF IInv, AttemptInv
<1>3. /\ ObjectKey(t) \in Key
      /\ ObjectKey(t) = HistoryKey(RunOf[t], CloseVersion(asked[t]))
  BY <1>1 DEF ObjectKey, HistoryKey, Key, TypeOK, Request, IInv, RequestInv
<1>4. /\ objects'[ObjectKey(t)] = asked[t]
      /\ \A k \in Key : k # ObjectKey(t) => objects'[k] = objects[k]
  BY <1>2, <1>3 DEF Put, TypeOK
<1>5. ASSUME NEW u \in Tasks, Submitted(u)
      PROVE  /\ ObjectKey(u) \in Key
             /\ ObjectKey(u) = HistoryKey(RunOf[u], CloseVersion(asked[u]))
             /\ objects[ObjectKey(u)] = asked[u] => objects'[ObjectKey(u)] = asked[u]
  <2>1. /\ ObjectKey(u) \in Key
        /\ ObjectKey(u) = HistoryKey(RunOf[u], CloseVersion(asked[u]))
    BY <1>5 DEF ObjectKey, HistoryKey, Key, TypeOK, Request, IInv, RequestInv
  <2>2. ObjectKey(u) = ObjectKey(t) => asked[u] = asked[t]
    BY <1>1, <1>5 DEF IInv, OneHistoryPerKey
  <2> QED
    BY <1>4, <2>1, <2>2
<1>6. (\A r \in Runs : WellFormed(history[r]))'
  BY DEF IInv
<1>7. ASSUME NEW u \in Tasks PROVE RequestInv(u)'
  BY <1>1 DEF IInv, RequestInv
<1>8. ASSUME NEW u \in Tasks PROVE AttemptInv(u)'
  <2>1. CASE u = t
    BY <1>1, <1>2, <1>4, <2>1 DEF AttemptInv
  <2>2. CASE u # t
    <3>1. AttemptInv(u) /\ (pc[u] = "stored" => Submitted(u))
      BY DEF IInv, Submitted
    <3> QED
      BY <1>1, <1>5, <2>2, <3>1 DEF AttemptInv
  <2> QED
    BY <2>1, <2>2
<1>9. OneHistoryPerKey'
  BY <1>1 DEF IInv, OneHistoryPerKey
<1>10. StoredIsWhole'
  <2> SUFFICES ASSUME NEW k \in Key, objects'[k] # << >>
               PROVE  \E u \in Tasks : /\ Submitted(u) /\ ObjectKey(u) = k
                                       /\ objects'[k] = asked[u] /\ ~Filtered(asked[u])
    BY <1>1 DEF StoredIsWhole
  <2>1. CASE k = ObjectKey(t)
    BY <1>1, <1>2, <1>4, <2>1
  <2>2. CASE k # ObjectKey(t)
    BY <1>4, <2>2 DEF IInv, StoredIsWhole
  <2> QED
    BY <2>1, <2>2
<1>11. ASSUME NEW r \in Runs, NEW h \in History \ {<< >>}, Secured(r, h)
       PROVE  Secured(r, h)'
  <2> SUFFICES ASSUME ~Filtered(h)
               PROVE  objects'[HistoryKey(r, CloseVersion(h))] = h
    BY DEF Secured
  <2> DEFINE k == HistoryKey(r, CloseVersion(h))
  <2>1. k \in Key /\ objects[k] = h
    BY <1>11, LastBatchType DEF Secured, HistoryKey, Key
  <2>2. PICK u \in Tasks : Submitted(u) /\ ObjectKey(u) = k /\ objects[k] = asked[u]
    BY <2>1 DEF IInv, StoredIsWhole
  <2> QED
    BY <1>5, <2>1, <2>2
<1>12. NothingLost'
  BY <1>11 DEF IInv, NothingLost, TypeOK
<1>13. AckedIsSecured'
  <2> SUFFICES ASSUME NEW u \in Tasks, pc'[u] = "acked", asked[u] = history[RunOf[u]]
               PROVE  Secured(RunOf[u], asked[u])'
    BY DEF AckedIsSecured
  <2>1. pc[u] = "acked"
    BY <1>1
  <2>2. Secured(RunOf[u], history[RunOf[u]])
    BY <2>1 DEF IInv, AckedIsSecured
  <2>3. RunOf[u] \in Runs /\ history[RunOf[u]] \in History \ {<< >>}
    BY DEF TypeOK
  <2> QED
    BY <1>11, <2>2, <2>3
<1> QED
  BY <1>6, <1>7, <1>8, <1>9, <1>10, <1>12, <1>13 DEF IInv

\* Reading a blob: rejected, or the accumulated history is still the beginning of
\* the one asked for, and all of it after the last blob.
LEMMA ReadBlobStep ==
  ASSUME TypeOK, IInv, NEW t \in Tasks, ReadBlob(t)
  PROVE  IInv'
<1> USE TaskAssumption
<1> DEFINE h == history[RunOf[t]]
           a == asked[t]
           q == iter[t].pos
<1>1. /\ pc[t] = "reading" /\ Submitted(t) /\ ~iter[t].finished
      /\ UNCHANGED <<bucketVars, requestVars, faults>>
  BY DEF ReadBlob, Submitted
<1>2. /\ h \in History \ {<< >>} /\ WellFormed(h) /\ a \in History /\ q \in Nat
      /\ iter[t] \in Iterator /\ buf[t] \in History
  BY DEF TypeOK, IInv, Iterator
<1>3. /\ WellFormed(a) /\ SameOrOverwritten(a, h)
      /\ request[t].closeFailoverVersion = CloseVersion(a)
      /\ request[t].nextEventID = Len(a) + 1
  BY <1>1 DEF IInv, RequestInv
<1>4. a \in History \ {<< >>}
  BY <1>2, <1>3 DEF WellFormed
<1>5. q < Len(a) /\ Len(buf[t]) = q /\ \A i \in 1..q : buf[t][i] = a[i]
  BY <1>1 DEF IInv, AttemptInv
<1>6. PICK n \in 1..(Len(h) - q) :
        IF HistoryMutated(t, Blob(t, n), IsLast(t, n))
          THEN pc' = [pc EXCEPT ![t] = "rejected"] /\ UNCHANGED <<attemptVars, progress>>
          ELSE /\ buf' = [buf EXCEPT ![t] = @ \o Blob(t, n)]
               /\ iter' = [iter EXCEPT ![t] = [pos |-> q + n, finished |-> IsLast(t, n)]]
               /\ pc' = [pc EXCEPT ![t] =
                           IF IsLast(t, n) THEN Verdict(Blob(t, n)) ELSE "reading"]
  BY DEF ReadBlob
<1> DEFINE blob == Blob(t, n)
<1>7. /\ blob \in History /\ Len(blob) = n /\ \A i \in 1..n : blob[i] = h[q + i]
      /\ LastBatch(blob) = h[q + n]
  <2>1. blob \in History /\ Len(blob) = n /\ \A i \in 1..n : blob[i] = h[q + i]
    BY <1>2, BlobType DEF Blob
  <2> QED
    BY <1>2, <2>1 DEF LastBatch, History
<1>8. CASE HistoryMutated(t, blob, IsLast(t, n))
  <2>1. pc' = [pc EXCEPT ![t] = "rejected"] /\ UNCHANGED attemptVars
    BY <1>6, <1>8
  <2>2. pc'[t] = "rejected"
    BY <2>1 DEF TypeOK
  <2>3. AttemptInv(t)'
    BY <2>2 DEF AttemptInv
  <2> QED
    BY <1>1, <2>1, <2>3, LocalStep DEF PC, attemptVars
<1>9. CASE ~HistoryMutated(t, blob, IsLast(t, n))
  <2> DEFINE p == IF IsLast(t, n) THEN Verdict(blob) ELSE "reading"
  <2>1. /\ buf' = [buf EXCEPT ![t] = @ \o blob] /\ pc' = [pc EXCEPT ![t] = p]
        /\ iter' = [iter EXCEPT ![t] = [pos |-> q + n, finished |-> IsLast(t, n)]]
    BY <1>6, <1>9
  <2>2. /\ buf'[t] = buf[t] \o blob /\ pc'[t] = p /\ iter'[t].pos = q + n
        /\ iter'[t].finished = IsLast(t, n)
        /\ \A u \in Tasks \ {t} : buf'[u] = buf[u] /\ iter'[u] = iter[u]
    BY <2>1 DEF TypeOK
  <2>3. h[q + n].version <= CloseVersion(a)
    <3>1. q + n \in 1..Len(h)
      BY <1>2 DEF History
    <3>2. h[q + n] \in Batch
      BY <1>2, <3>1 DEF History
    <3>3. h[q + n].version \in Nat /\ CloseVersion(a) \in Nat
      BY <1>4, <3>2, LastBatchType, VersionAssumption DEF Batch, Version
    <3> QED
      BY <1>3, <1>7, <1>9, <3>3 DEF HistoryMutated
  <2>4. /\ \A i \in 1..n : h[q + i] = a[q + i]
        /\ q + n # Len(h) => q + n < Len(a)
        /\ q + n = Len(h) => a = h
    BY <1>2, <1>3, <1>4, <2>3, AcceptedBlob
  <2>5. n \in Nat /\ Len(a) \in Nat /\ Len(h) \in Nat
    BY <1>2 DEF History
  <2>6. \A i \in 1..n : blob[i] = a[q + i]
    BY <1>7, <2>4
  <2>7. /\ Len(buf[t] \o blob) = q + n
        /\ \A i \in 1..(q + n) : (buf[t] \o blob)[i] = a[i]
    <3>1. /\ a \in History /\ buf[t] \in History /\ blob \in History
          /\ \A i \in 1..Len(buf[t]) : buf[t][i] = a[i]
          /\ \A i \in 1..Len(blob) : blob[i] = a[Len(buf[t]) + i]
      BY <1>2, <1>5, <1>7, <2>5, <2>6
    <3>2. /\ Len(buf[t] \o blob) = Len(buf[t]) + Len(blob)
          /\ \A i \in 1..(Len(buf[t]) + Len(blob)) : (buf[t] \o blob)[i] = a[i]
      <4> HIDE DEF blob, a
      <4> QED
        BY <3>1, ExtendPrefix, Zenon
    <3> QED
      BY <1>5, <1>7, <3>2
  <2>8. IsLast(t, n) <=> q + n = Len(h)
    BY DEF IsLast
  <2>9. IsLast(t, n) => buf[t] \o blob = a /\ (Filtered(blob) <=> Filtered(a)) /\ a = h
    <3> SUFFICES ASSUME q + n = Len(h)
                 PROVE  buf[t] \o blob = a /\ (Filtered(blob) <=> Filtered(a)) /\ a = h
      BY <2>8
    <3>1. a = h /\ LastBatch(blob) = LastBatch(a)
      BY <1>7, <2>4 DEF LastBatch
    <3>2. buf[t] \o blob \in History
      BY <1>2, <1>7, ConcatProperties DEF History
    <3>3. buf[t] \o blob = a
      <4> HIDE DEF blob, a, q, h
      <4> QED
        BY <1>2, <2>7, <3>1, <3>2, SameBatches
    <3>4. Filtered(blob) <=> Filtered(a)
      BY <3>1 DEF Filtered, TerminalStatusKnown
    <3> QED
      BY <3>1, <3>3, <3>4
  <2>10. p \in PC \ {"unsubmitted"}
    BY DEF PC, Verdict
  <2>11. AttemptInv(t)'
    <3>1. UNCHANGED <<objects, asked>>
      BY <1>1 DEF bucketVars, requestVars
    <3>2. CASE ~IsLast(t, n)
      BY <2>2, <2>4, <2>7, <2>8, <3>1, <3>2 DEF AttemptInv
    <3>3. CASE IsLast(t, n)
      <4>1. (pc'[t] = "uploading" /\ ~Filtered(a)) \/ pc'[t] = "acked"
        BY <2>2, <2>9, <3>3 DEF Verdict
      <4> QED
        BY <2>2, <2>9, <3>1, <3>3, <4>1 DEF AttemptInv
    <3> QED
      BY <3>2, <3>3
  <2>12. p = "acked" => Secured(RunOf[t], a)
    BY <2>9 DEF Verdict, Secured
  <2> HIDE DEF p
  <2> QED
    BY <1>1, <2>1, <2>2, <2>10, <2>11, <2>12, LocalStep
<1> QED
  BY <1>8, <1>9

-----------------------------------------------------------------------------
(* The environment's steps.                                                *)

\* A request made now is for the history the run has now.
LEMMA SubmitStep ==
  ASSUME TypeOK, IInv, NEW t \in Tasks, Submit(t)
  PROVE  IInv'
<1> USE TaskAssumption
<1> DEFINE h == history[RunOf[t]]
<1>1. /\ pc[t] = "unsubmitted" /\ ~Submitted(t)
      /\ pc' = [pc EXCEPT ![t] = "waiting"] /\ asked' = [asked EXCEPT ![t] = h]
      /\ UNCHANGED <<history, deleted, objects, buf, iter>>
  BY DEF Submit, Submitted, bucketVars, attemptVars
<1>2. PICK ok \in BOOLEAN :
        request' = [request EXCEPT ![t] =
          [valid |-> ok, closeFailoverVersion |-> CloseVersion(h),
           nextEventID |-> Len(h) + 1]]
  BY DEF Submit
<1>3. /\ pc'[t] = "waiting" /\ Submitted(t)' /\ asked'[t] = h
      /\ request'[t].closeFailoverVersion = CloseVersion(h)
      /\ request'[t].nextEventID = Len(h) + 1
      /\ ObjectKey(t)' = HistoryKey(RunOf[t], CloseVersion(h))
  BY <1>1, <1>2 DEF TypeOK, Submitted, ObjectKey
<1>4. ASSUME NEW u \in Tasks, u # t
      PROVE  /\ pc'[u] = pc[u] /\ asked'[u] = asked[u] /\ request'[u] = request[u]
             /\ (Submitted(u)' <=> Submitted(u)) /\ ObjectKey(u)' = ObjectKey(u)
  BY <1>1, <1>2, <1>4 DEF TypeOK, Submitted, ObjectKey
<1>5. (\A r \in Runs : WellFormed(history[r]))'
  BY <1>1 DEF IInv
<1>6. ASSUME NEW u \in Tasks PROVE RequestInv(u)'
  <2>1. CASE u = t
    <3>1. WellFormed(h)
      BY DEF IInv, TypeOK
    <3> QED
      BY <1>1, <1>3, <2>1, <3>1 DEF RequestInv, SameOrOverwritten
  <2>2. CASE u # t
    BY <1>1, <1>4, <2>2 DEF IInv, RequestInv
  <2> QED
    BY <2>1, <2>2
<1>7. ASSUME NEW u \in Tasks PROVE AttemptInv(u)'
  <2>1. CASE u = t
    BY <1>3, <2>1 DEF AttemptInv
  <2>2. CASE u # t
    BY <1>1, <1>4, <2>2 DEF IInv, AttemptInv
  <2> QED
    BY <2>1, <2>2
<1>8. ASSUME NEW u \in Tasks, u # t, Submitted(u), ObjectKey(u) = ObjectKey(t)'
      PROVE  asked[u] = h
  <2>1. RunOf[u] = RunOf[t] /\ CloseVersion(asked[u]) = CloseVersion(h)
    BY <1>3, <1>8 DEF IInv, RequestInv, ObjectKey, HistoryKey
  <2>2. SameOrOverwritten(asked[u], h)
    BY <1>8, <2>1 DEF IInv, RequestInv
  <2>3. CloseVersion(h) \in Nat
    BY LastBatchType, VersionAssumption DEF TypeOK, Version
  <2> QED
    BY <2>1, <2>2, <2>3 DEF SameOrOverwritten
<1>9. OneHistoryPerKey'
  <2> SUFFICES ASSUME NEW u \in Tasks, NEW v \in Tasks, Submitted(u)', Submitted(v)',
                      ObjectKey(u)' = ObjectKey(v)'
               PROVE  asked'[u] = asked'[v]
    BY DEF OneHistoryPerKey
  <2>1. CASE u = t /\ v # t
    BY <1>3, <1>4, <1>8, <2>1
  <2>2. CASE u # t /\ v = t
    BY <1>3, <1>4, <1>8, <2>2
  <2>3. CASE u # t /\ v # t
    BY <1>4, <2>3 DEF IInv, OneHistoryPerKey
  <2> QED
    BY <2>1, <2>2, <2>3
<1>10. StoredIsWhole'
  <2> SUFFICES ASSUME NEW k \in Key, objects[k] # << >>
               PROVE  \E u \in Tasks : /\ Submitted(u)' /\ ObjectKey(u)' = k
                                       /\ objects[k] = asked'[u] /\ ~Filtered(asked'[u])
    BY <1>1 DEF StoredIsWhole
  <2>1. PICK u \in Tasks : /\ Submitted(u) /\ ObjectKey(u) = k
                           /\ objects[k] = asked[u] /\ ~Filtered(asked[u])
    BY DEF IInv, StoredIsWhole
  <2>2. u # t
    BY <1>1, <2>1
  <2> QED
    BY <1>4, <2>1, <2>2
<1>11. NothingLost'
  BY <1>1 DEF IInv, NothingLost, Secured
<1>12. AckedIsSecured'
  <2> SUFFICES ASSUME NEW u \in Tasks, pc'[u] = "acked", asked'[u] = history[RunOf[u]]
               PROVE  Secured(RunOf[u], asked[u])'
    BY <1>1 DEF AckedIsSecured
  <2>1. u # t
    BY <1>3
  <2> QED
    BY <1>1, <1>4, <2>1 DEF IInv, AckedIsSecured, Secured
<1> QED
  BY <1>5, <1>6, <1>7, <1>9, <1>10, <1>11, <1>12 DEF IInv

\* A rewritten run has outgrown every request made for it before.
LEMMA RewriteStep ==
  ASSUME TypeOK, IInv, NEW r \in Runs, RewriteHistory(r)
  PROVE  IInv'
<1> USE TaskAssumption
<1>1. PICK keep \in 0..(Len(history[r]) - 1), len \in 1..MaxLen, s \in EventType :
        /\ keep < len
        /\ history' = [history EXCEPT ![r] = Rewriting(@, keep, len, s)]
  BY DEF RewriteHistory
<1> DEFINE g == Rewriting(history[r], keep, len, s)
<1>2. /\ r \notin deleted /\ CloseVersion(history[r]) < MaxVersion
      /\ UNCHANGED <<deleted, objects, pc, request, asked, buf, iter>>
  BY DEF RewriteHistory, requestVars, attemptVars
<1>3. history[r] \in History \ {<< >>} /\ WellFormed(history[r]) /\ len \in Nat
  BY BoundAssumption DEF TypeOK, IInv
<1>4. history'[r] = g /\ \A q \in Runs \ {r} : history'[q] = history[q]
  BY <1>1 DEF TypeOK
<1>5. ASSUME NEW u \in Tasks
      PROVE  (Submitted(u)' <=> Submitted(u)) /\ ObjectKey(u)' = ObjectKey(u)
  BY <1>2 DEF Submitted, ObjectKey
<1>6. (\A q \in Runs : WellFormed(history[q]))'
  <2>1. WellFormed(g)
    BY <1>1, <1>2, <1>3, RewritingWellFormed
  <2> QED
    BY <1>4, <2>1 DEF IInv
<1>7. ASSUME NEW u \in Tasks, Submitted(u), RunOf[u] = r
      PROVE  SameOrOverwritten(asked[u], g) /\ asked[u] # g
  <2>1. SameOrOverwritten(asked[u], history[r]) /\ asked[u] \in History \ {<< >>}
    BY <1>7 DEF IInv, RequestInv, WellFormed, TypeOK
  <2> QED
    BY <1>1, <1>2, <1>3, <2>1, RewritingRelated
<1>8. ASSUME NEW u \in Tasks PROVE RequestInv(u)'
  <2>1. CASE RunOf[u] = r
    BY <1>2, <1>4, <1>5, <1>7, <2>1 DEF IInv, RequestInv
  <2>2. CASE RunOf[u] # r
    BY <1>2, <1>4, <1>5, <2>2 DEF IInv, RequestInv
  <2> QED
    BY <2>1, <2>2
<1>9. ASSUME NEW u \in Tasks PROVE AttemptInv(u)'
  BY <1>2, <1>5 DEF IInv, AttemptInv
<1>10. OneHistoryPerKey' /\ StoredIsWhole'
  BY <1>2, <1>5 DEF IInv, OneHistoryPerKey, StoredIsWhole
<1>11. NothingLost'
  BY <1>2, <1>4 DEF IInv, NothingLost, Secured, TypeOK
<1>12. AckedIsSecured'
  <2> SUFFICES ASSUME NEW u \in Tasks, pc[u] = "acked", asked[u] = history'[RunOf[u]]
               PROVE  Secured(RunOf[u], asked[u])'
    BY <1>2 DEF AckedIsSecured
  <2>1. RunOf[u] # r
    BY <1>4, <1>7 DEF Submitted
  <2> QED
    BY <1>2, <1>4, <2>1 DEF IInv, AckedIsSecured, Secured
<1> QED
  BY <1>6, <1>8, <1>9, <1>10, <1>11, <1>12 DEF IInv

\* A history is deleted only after some task for it was acknowledged, and by then
\* it is secured.
LEMMA DeleteStep ==
  ASSUME TypeOK, IInv, NEW r \in Runs, DeleteHistory(r)
  PROVE  IInv'
<1>1. /\ deleted' = deleted \cup {r}
      /\ UNCHANGED <<history, objects, pc, request, asked, buf, iter>>
  BY DEF DeleteHistory, requestVars, attemptVars
<1>2. Secured(r, history[r])
  BY DEF DeleteHistory, IInv, AckedIsSecured
<1>3. NothingLost'
  BY <1>1, <1>2 DEF IInv, NothingLost, Secured
<1>4. ASSUME NEW u \in Tasks
      PROVE  /\ Submitted(u)' <=> Submitted(u)
             /\ ObjectKey(u)' = ObjectKey(u)
  BY <1>1 DEF Submitted, ObjectKey
<1>5. ASSUME NEW u \in Tasks PROVE RequestInv(u)' /\ AttemptInv(u)'
  BY <1>1, <1>4 DEF IInv, RequestInv, AttemptInv
<1>6. OneHistoryPerKey' /\ StoredIsWhole' /\ AckedIsSecured'
  BY <1>1, <1>4 DEF IInv, OneHistoryPerKey, StoredIsWhole, AckedIsSecured, Secured
<1> QED
  BY <1>1, <1>3, <1>5, <1>6 DEF IInv

-----------------------------------------------------------------------------
(* The steps of an attempt.                                                *)

\* Every step of an attempt keeps the invariant.
LEMMA ArchiveStep ==
  ASSUME ~HasProgressManager, TypeOK, IInv, NEW t \in Tasks, Archive(t)
  PROVE  IInv'
<1> USE DEF bucketVars, requestVars
<1>1. CASE StartAttempt(t)
  <2>1. CASE request[t].valid
    <3>1. /\ pc' = [pc EXCEPT ![t] = "reading"] /\ buf' = [buf EXCEPT ![t] = << >>]
          /\ iter' = [iter EXCEPT ![t] = FreshIterator]
      BY <1>1, <2>1 DEF StartAttempt, Iterators
    <3>2. /\ pc'[t] = "reading" /\ buf'[t] = << >> /\ iter'[t] = FreshIterator
          /\ \A u \in Tasks \ {t} : buf'[u] = buf[u] /\ iter'[u] = iter[u]
      BY <3>1 DEF TypeOK
    <3>3. asked'[t] = asked[t] /\ WellFormed(asked[t]) /\ asked[t] \in History
      BY <1>1 DEF StartAttempt, IInv, RequestInv, Submitted, TypeOK
    <3>4. Len(asked[t]) > 0 /\ Len(buf'[t]) = 0 /\ iter'[t].pos = 0 /\ ~iter'[t].finished
      BY <3>2, <3>3 DEF WellFormed, FreshIterator
    <3>5. AttemptInv(t)'
      BY <3>2, <3>3, <3>4 DEF AttemptInv
    <3> QED
      BY <1>1, <3>1, <3>2, <3>5, LocalStep DEF StartAttempt, Submitted, PC
  <2>2. CASE ~request[t].valid
    <3>1. /\ pc' = [pc EXCEPT ![t] = "rejected"]
          /\ UNCHANGED attemptVars
      BY <1>1, <2>2 DEF StartAttempt
    <3>2. AttemptInv(t)'
      BY <3>1 DEF AttemptInv, TypeOK
    <3> QED
      BY <1>1, <3>1, <3>2, LocalStep DEF StartAttempt, Submitted, PC, attemptVars
  <2> QED
    BY <2>1, <2>2
<1>2. CASE ReadBlob(t)
  BY <1>2, ReadBlobStep
<1>3. CASE ReadNotFound(t)
  <2>1. /\ pc[t] = "reading" /\ pc' = [pc EXCEPT ![t] = "acked"] /\ Submitted(t)
        /\ UNCHANGED <<bucketVars, requestVars, attemptVars>>
    BY <1>3 DEF ReadNotFound, Submitted
  <2>2. AttemptInv(t)'
    BY <2>1 DEF AttemptInv, TypeOK
  <2>3. asked[t] = history[RunOf[t]] => Secured(RunOf[t], asked[t])
    <3>1. CASE RunOf[t] \in deleted
      BY <3>1 DEF IInv, NothingLost
    <3>2. CASE iter[t].pos >= Len(history[RunOf[t]])
      <4>1. iter[t].pos < Len(asked[t]) /\ iter[t].pos \in Nat
        BY <2>1 DEF IInv, AttemptInv, TypeOK, Iterator
      <4>2. Len(asked[t]) \in Nat
        BY DEF TypeOK, History
      <4> QED
        BY <3>2, <4>1, <4>2
    <3> QED
      BY <1>3, <3>1, <3>2 DEF ReadNotFound
  <2> QED
    BY <2>1, <2>2, <2>3, LocalStep DEF PC, attemptVars
<1>4. CASE NothingToRead(t)
  BY <1>4 DEF NothingToRead, IInv, AttemptInv
<1>5. CASE PutObject(t)
  BY <1>5, UploadStep DEF PutObject, attemptVars
<1>6. CASE ReturnNil(t)
  <2>1. /\ pc[t] = "stored" /\ pc' = [pc EXCEPT ![t] = "acked"] /\ Submitted(t)
        /\ UNCHANGED <<bucketVars, requestVars, attemptVars>>
    BY <1>6 DEF ReturnNil, Submitted
  <2>2. AttemptInv(t)'
    BY <2>1 DEF AttemptInv, TypeOK
  <2>3. Secured(RunOf[t], asked[t])
    BY <2>1 DEF IInv, AttemptInv, RequestInv, ObjectKey, Secured
  <2> QED
    BY <2>1, <2>2, <2>3, LocalStep DEF PC, attemptVars
<1> QED
  BY <1>1, <1>2, <1>3, <1>4, <1>5, <1>6 DEF Archive

\* So does every failure of a call, of a machine and of the caller's memory.
LEMMA FailureStep ==
  ASSUME TypeOK, IInv, NEW t \in Tasks, Failure(t)
  PROVE  IInv'
<1> USE DEF bucketVars, requestVars
<1>1. ASSUME TryAgain(t)
      PROVE  /\ pc' = [pc EXCEPT ![t] = "waiting"] /\ AttemptInv(t)'
             /\ \A u \in Tasks \ {t} : buf'[u] = buf[u] /\ iter'[u] = iter[u]
  BY <1>1 DEF TryAgain, TypeOK, AttemptInv
<1>2. ASSUME TryAgain(t), pc[t] # "unsubmitted", UNCHANGED bucketVars
      PROVE  IInv'
  BY <1>1, <1>2, LocalStep DEF TryAgain, Submitted, PC
<1>3. CASE ReadError(t)
  BY <1>2, <1>3 DEF ReadError
<1>4. CASE Crash(t)
  BY <1>2, <1>4 DEF Crash, Running
<1>5. CASE PutObjectError(t)
  <2>1. CASE Put(t)
    BY <1>1, <1>5, <2>1, UploadStep DEF PutObjectError, TryAgain
  <2>2. CASE UNCHANGED objects
    BY <1>2, <1>5, <2>2 DEF PutObjectError
  <2> QED
    BY <1>5, <2>1, <2>2 DEF PutObjectError
<1>6. CASE EncodeError(t)
  <2> SUFFICES ASSUME ~TryAgain(t) PROVE IInv'
    BY <1>2, <1>6 DEF EncodeError, bucketVars
  <2>1. /\ pc[t] = "uploading" /\ pc' = [pc EXCEPT ![t] = "rejected"] /\ Submitted(t)
        /\ UNCHANGED <<bucketVars, requestVars, attemptVars>>
    BY <1>6 DEF EncodeError, Submitted
  <2>2. AttemptInv(t)'
    BY <2>1 DEF AttemptInv, TypeOK
  <2> QED
    BY <2>1, <2>2, LocalStep DEF PC, attemptVars
<1> QED
  BY <1>3, <1>4, <1>5, <1>6 DEF Failure

\* The invariant holds before anything has run.
LEMMA InitStep ==
  ASSUME Init PROVE IInv
<1>1. ASSUME NEW r \in Runs PROVE WellFormed(history[r])
  <2>1. PICK len \in 1..MaxLen, s \in EventType :
          history[r] = [i \in 1..len |-> [id |-> i, version |-> 0,
                          type |-> IF i = len THEN s ELSE OtherEvent]]
    BY DEF Init, InitialHistory
  <2>2. Len(history[r]) = len /\ len > 0 /\ len \in Nat
    BY <2>1, BoundAssumption
  <2>3. \A i \in 1..len : history[r][i].id = i /\ history[r][i].version = 0
    BY <2>1
  <2> QED
    BY <2>2, <2>3 DEF WellFormed
<1>2. \A t \in Tasks : pc[t] = "unsubmitted"
  BY DEF Init
<1>3. \A t \in Tasks : RequestInv(t) /\ AttemptInv(t)
  BY <1>2 DEF RequestInv, AttemptInv, Submitted
<1> QED
  BY <1>1, <1>2, <1>3 DEF Init, IInv, OneHistoryPerKey, StoredIsWhole, NothingLost,
                          AckedIsSecured, Submitted

-----------------------------------------------------------------------------

\* The inductive invariant holds when archival runs without a ProgressManager.
THEOREM Inductive ==
  ASSUME ~HasProgressManager
  PROVE  Spec => []IInv
<1>1. Init => IInv
  BY InitStep
<1>2. TypeOK /\ IInv /\ [Next]_vars => IInv'
  <2> SUFFICES ASSUME TypeOK, IInv, [Next]_vars PROVE IInv'
    OBVIOUS
  <2>1. CASE \E t \in Tasks : Submit(t) \/ Archive(t) \/ Failure(t)
    BY <2>1, SubmitStep, ArchiveStep, FailureStep
  <2>2. CASE \E r \in Runs : RewriteHistory(r) \/ DeleteHistory(r)
    BY <2>2, RewriteStep, DeleteStep
  <2>3. CASE UNCHANGED vars
    BY <2>3 DEF vars, bucketVars, requestVars, attemptVars, IInv, RequestInv, AttemptInv,
                OneHistoryPerKey, StoredIsWhole, NothingLost, AckedIsSecured,
                Submitted, ObjectKey, Secured
  <2> QED
    BY <2>1, <2>2, <2>3 DEF Next
<1> QED
  BY <1>1, <1>2, TypeCorrect, PTL DEF Spec

\* Every object in the bucket is whole: however many tasks, duplicates, rewritings,
\* failed calls and crashes there are, a retry never stores a piece of a history.
THEOREM ObjectsAreWhole ==
  ASSUME ~HasProgressManager
  PROVE  Spec => []StoredIsWhole
<1>1. IInv => StoredIsWhole
  BY DEF IInv
<1> QED
  BY <1>1, Inductive, PTL

\* No history is deleted before it is stored or deliberately skipped, and an
\* acknowledgement is a promise no later upload breaks.
THEOREM HistoriesAreSafe ==
  ASSUME ~HasProgressManager
  PROVE  Spec => [](NothingLost /\ AckedIsSecured)
<1>1. IInv => NothingLost /\ AckedIsSecured
  BY DEF IInv
<1> QED
  BY <1>1, Inductive, PTL

\* What an acknowledged task was asked to archive is stored or was left out for a
\* reason, and stays so as long as it is the history of its run (Archive's returns
\* of nil, whatever duplicates of the task do).
THEOREM AcknowledgedIsSecured ==
  ASSUME ~HasProgressManager
  PROVE  Spec => []AckedIsSecured
<1> QED
  BY HistoriesAreSafe, PTL

\* Task t writes what it was asked to store, and nothing else that others see.
Uploads(t) ==
  /\ Submitted(t) /\ ~Filtered(asked[t])
  /\ ObjectKey(t) \in Key
  /\ ObjectKey(t) = HistoryKey(RunOf[t], CloseVersion(asked[t]))
  /\ objects' = [objects EXCEPT ![ObjectKey(t)] = asked[t]]
  /\ UNCHANGED <<history, deleted, asked>>
  /\ \A u \in Tasks : Submitted(u)' <=> Submitted(u)

\* A call of PutObject that stores the object is such a write.
LEMMA PutUploads ==
  ASSUME TypeOK, IInv, NEW t \in Tasks,
         PutObject(t) \/ (PutObjectError(t) /\ Put(t))
  PROVE  Uploads(t)
<1> USE TaskAssumption DEF requestVars
<1>1. /\ pc[t] = "uploading" /\ Put(t) /\ UNCHANGED <<history, deleted, asked>>
      /\ \/ pc' = [pc EXCEPT ![t] = "stored"]
         \/ pc' = [pc EXCEPT ![t] = "waiting"]
  BY DEF PutObject, PutObjectError, TryAgain
<1>2. Submitted(t) /\ buf[t] = asked[t] /\ ~Filtered(asked[t])
  BY <1>1 DEF IInv, AttemptInv, Submitted
<1>3. /\ ObjectKey(t) \in Key
      /\ ObjectKey(t) = HistoryKey(RunOf[t], CloseVersion(asked[t]))
  BY <1>2 DEF ObjectKey, HistoryKey, Key, TypeOK, Request, IInv, RequestInv
<1>4. \A u \in Tasks : Submitted(u)' <=> Submitted(u)
  BY <1>1 DEF Submitted, TypeOK
<1> QED
  BY <1>1, <1>2, <1>3, <1>4 DEF Put, Uploads

\* Nothing but such a write changes the bucket.
LEMMA ObjectsChange ==
  ASSUME TypeOK, IInv, [Next]_vars
  PROVE  UNCHANGED objects \/ \E t \in Tasks : Uploads(t)
<1>1. CASE UNCHANGED vars
  BY <1>1 DEF vars, bucketVars
<1>2. CASE \E r \in Runs : RewriteHistory(r) \/ DeleteHistory(r)
  BY <1>2 DEF RewriteHistory, DeleteHistory
<1>3. ASSUME NEW t \in Tasks, Submit(t) \/ Archive(t) \/ Failure(t)
      PROVE  UNCHANGED objects \/ Uploads(t)
  <2>1. CASE PutObject(t) \/ (PutObjectError(t) /\ Put(t))
    BY <2>1, PutUploads
  <2>2. CASE \/ Submit(t) \/ StartAttempt(t) \/ ReadBlob(t) \/ ReadNotFound(t)
             \/ NothingToRead(t) \/ ReturnNil(t) \/ ReadError(t) \/ EncodeError(t)
             \/ Crash(t) \/ (PutObjectError(t) /\ ~Put(t))
    BY <2>2 DEF Submit, StartAttempt, ReadBlob, ReadNotFound, NothingToRead, ReturnNil,
                ReadError, EncodeError, Crash, PutObjectError, bucketVars
  <2> QED
    BY <1>3, <2>1, <2>2 DEF Archive, Failure
<1> QED
  BY <1>1, <1>2, <1>3 DEF Next

\* What was stored under a key stays as it is: retries and duplicates write the
\* same object.
THEOREM ObjectsAreFinal ==
  ASSUME ~HasProgressManager
  PROVE  Spec => StoredIsFinal
<1>1. ASSUME TypeOK, IInv, [Next]_vars, NEW k \in Key, objects[k] # << >>
      PROVE  objects'[k] = objects[k]
  <2>1. CASE UNCHANGED objects
    BY <2>1
  <2>2. CASE \E t \in Tasks : Uploads(t)
    <3>1. PICK t \in Tasks : /\ Submitted(t) /\ ObjectKey(t) \in Key
                             /\ objects' = [objects EXCEPT ![ObjectKey(t)] = asked[t]]
      BY <2>2 DEF Uploads
    <3>2. PICK u \in Tasks : Submitted(u) /\ ObjectKey(u) = k /\ objects[k] = asked[u]
      BY <1>1 DEF IInv, StoredIsWhole
    <3>3. ObjectKey(t) = k => asked[t] = asked[u]
      BY <1>1, <3>1, <3>2 DEF IInv, OneHistoryPerKey
    <3> QED
      BY <1>1, <3>1, <3>2, <3>3 DEF TypeOK
  <2> QED
    BY <1>1, <2>1, <2>2, ObjectsChange
<1>2. TypeOK /\ IInv /\ [Next]_vars =>
        [\A k \in Key : objects[k] # << >> => objects'[k] = objects[k]]_objects
  BY <1>1
<1> QED
  BY <1>2, Inductive, TypeCorrect, PTL DEF Spec, StoredIsFinal

\* The archiver implements ArchiveStore: each of its steps requests, rewrites,
\* stores or deletes as the store allows, or changes nothing users see.
THEOREM Implements ==
  ASSUME ~HasProgressManager
  PROVE  Spec => ImplementsStore
<1> USE TaskAssumption
<1> DEFINE reqs == {<<RunOf[t], asked[t]>> : t \in {u \in Tasks : Submitted(u)}}
<1>0. /\ Store!History = History /\ Store!Key = Key
      /\ \A h : Store!WellFormed(h) <=> WellFormed(h)
      /\ \A h : Store!Filtered(h) <=> Filtered(h)
      /\ \A h : Store!CloseVersion(h) = CloseVersion(h)
      /\ \A r, v : Store!HistoryKey(r, v) = HistoryKey(r, v)
      /\ \A r, h : Store!Secured(r, h) <=> Secured(r, h)
      /\ \A h, g : Store!IsRewriting(h, g) <=> IsRewriting(h, g)
  BY DEF Store!History, Store!Batch, Store!EventType, Store!Version, Store!Key,
         Store!WellFormed, Store!Filtered, Store!TerminalStatusKnown, Store!LastBatch,
         Store!StatusAllowed, Store!CloseVersion, Store!HistoryKey, Store!Secured,
         Store!IsRewriting, Store!Rewriting,
         History, Batch, EventType, Version, Key, WellFormed, Filtered,
         TerminalStatusKnown, LastBatch, StatusAllowed, CloseVersion, HistoryKey,
         Secured, IsRewriting, Rewriting
<1>1. Init => Store!Init
  <2> SUFFICES ASSUME Init PROVE Store!Init
    OBVIOUS
  <2>1. TypeOK /\ IInv /\ reqs = {}
    BY InitStep, InitialTypes DEF Init, Submitted
  <2>2. history \in [Runs -> History]
    BY <2>1 DEF TypeOK
  <2> QED
    BY <1>0, <2>1, <2>2 DEF Init, IInv, Store!Init
<1>2. TypeOK /\ IInv /\ [Next]_vars => [Store!Next]_(Store!vars)
  <2> SUFFICES ASSUME TypeOK, IInv, [Next]_vars PROVE [Store!Next]_(Store!vars)
    OBVIOUS
  <2> DEFINE Quiet == UNCHANGED <<history, deleted, objects, asked>>
                      /\ \A u \in Tasks : Submitted(u)' <=> Submitted(u)
  <2>1. ASSUME NEW t \in Tasks, Submit(t) PROVE Store!Request(RunOf[t])
    <3>1. /\ pc[t] = "unsubmitted" /\ UNCHANGED <<history, deleted, objects>>
          /\ asked' = [asked EXCEPT ![t] = history[RunOf[t]]]
          /\ pc' = [pc EXCEPT ![t] = "waiting"]
      BY <2>1 DEF Submit, bucketVars
    <3>2. /\ Submitted(t)' /\ ~Submitted(t) /\ asked'[t] = history[RunOf[t]]
          /\ \A u \in Tasks \ {t} : (Submitted(u)' <=> Submitted(u)) /\ asked'[u] = asked[u]
      BY <3>1 DEF TypeOK, Submitted
    <3>3. reqs' = reqs \cup {<<RunOf[t], history[RunOf[t]]>>}
      BY <3>2
    <3> QED
      BY <3>1, <3>3 DEF Store!Request
  <2>2. ASSUME NEW r \in Runs, RewriteHistory(r) PROVE Store!Rewrite(r)
    <3>1. PICK keep \in 0..(Len(history[r]) - 1), len \in 1..MaxLen, s \in EventType :
            /\ keep < len
            /\ history' = [history EXCEPT ![r] = Rewriting(@, keep, len, s)]
      BY <2>2 DEF RewriteHistory
    <3>2. history'[r] = Rewriting(history[r], keep, len, s) /\ Len(history'[r]) = len
      BY <2>2, <3>1, RewritingType, BoundAssumption DEF TypeOK, RewriteHistory
    <3>3. IsRewriting(history[r], history'[r])
      BY <2>2, <3>1, <3>2 DEF IsRewriting, RewriteHistory
    <3>4. history' = [history EXCEPT ![r] = history'[r]]
      BY <3>1, <3>2 DEF TypeOK
    <3>5. r \notin deleted /\ UNCHANGED <<deleted, objects, reqs>>
      BY <2>2 DEF RewriteHistory, requestVars, Submitted
    <3> QED
      BY <1>0, <3>3, <3>4, <3>5 DEF Store!Rewrite
  <2>3. ASSUME NEW r \in Runs, DeleteHistory(r) PROVE Store!Delete(r)
    <3>1. Secured(r, history[r])
      BY <2>3 DEF DeleteHistory, IInv, AckedIsSecured
    <3>2. deleted' = deleted \cup {r} /\ UNCHANGED <<history, objects, reqs>>
      BY <2>3 DEF DeleteHistory, requestVars, Submitted
    <3> QED
      BY <1>0, <3>1, <3>2 DEF Store!Delete
  <2>4. ASSUME NEW t \in Tasks, Uploads(t) PROVE Store!Next
    <3>1. <<RunOf[t], asked[t]>> \in reqs /\ UNCHANGED reqs
      BY <2>4 DEF Uploads
    <3>2. Store!Store(RunOf[t], asked[t])
      BY <1>0, <2>4, <3>1 DEF Uploads, Store!Store
    <3> QED
      BY <3>1, <3>2 DEF Store!Next
  <2>5. ASSUME Quiet PROVE UNCHANGED Store!vars
    BY <2>5 DEF Store!vars
  <2>6. ASSUME NEW t \in Tasks, Archive(t) \/ Failure(t)
        PROVE  Uploads(t) \/ Quiet
    <3>1. CASE PutObject(t) \/ (PutObjectError(t) /\ Put(t))
      BY <3>1, PutUploads
    <3>2. CASE \/ StartAttempt(t) \/ ReadNotFound(t) \/ NothingToRead(t) \/ ReturnNil(t)
               \/ ReadError(t) \/ EncodeError(t) \/ Crash(t)
               \/ (PutObjectError(t) /\ ~Put(t))
      BY <3>2 DEF StartAttempt, ReadNotFound, NothingToRead, ReturnNil, ReadError,
                  EncodeError, Crash, PutObjectError, TryAgain, Running, Submitted,
                  TypeOK, bucketVars, requestVars, attemptVars
    <3>3. CASE ReadBlob(t)
      <4>1. \E p \in PC \ {"unsubmitted"} : pc' = [pc EXCEPT ![t] = p]
        BY <3>3 DEF ReadBlob, PC, Verdict
      <4> QED
        BY <3>3, <4>1 DEF ReadBlob, Submitted, TypeOK, bucketVars, requestVars
    <3> QED
      BY <2>6, <3>1, <3>2, <3>3 DEF Archive, Failure
  <2>7. ASSUME UNCHANGED vars PROVE Quiet
    BY <2>7 DEF vars, bucketVars, requestVars, Submitted
  <2> QED
    <3>1. ASSUME NEW t \in Tasks, Submit(t) PROVE Store!Next
      BY <2>1, <3>1 DEF Store!Next
    <3>2. ASSUME NEW r \in Runs, RewriteHistory(r) \/ DeleteHistory(r) PROVE Store!Next
      BY <2>2, <2>3, <3>2 DEF Store!Next
    <3> HIDE DEF Quiet
    <3> QED
      BY <2>4, <2>5, <2>6, <2>7, <3>1, <3>2 DEF Next
<1> QED
  BY <1>1, <1>2, Inductive, TypeCorrect, PTL DEF Spec, ImplementsStore, Store!Spec

-----------------------------------------------------------------------------
(* Attempts that resume: what is proved with a ProgressManager too.        *)

\* A piece of a history and the batches after it make a longer piece.
LEMMA PieceExtended ==
  ASSUME NEW a \in History, NEW b \in History, NEW c \in History, NEW q \in Nat,
         PieceUpTo(b, a, q), \A i \in 1..Len(c) : c[i] = a[q + i]
  PROVE  PieceUpTo(b \o c, a, q + Len(c)) /\ Len(b \o c) = Len(b) + Len(c)
<1>1. /\ Len(b \o c) = Len(b) + Len(c)
      /\ \A i \in 1..(Len(b) + Len(c)) :
           (b \o c)[i] = IF i <= Len(b) THEN b[i] ELSE c[i - Len(b)]
  BY ConcatProperties DEF History
<1>2. Len(b) \in Nat /\ Len(c) \in Nat /\ Len(b) <= q
  BY DEF History, PieceUpTo
<1>3. ASSUME NEW i \in 1..(Len(b) + Len(c))
      PROVE  (b \o c)[i] = a[q + Len(c) - (Len(b) + Len(c)) + i]
  <2>1. CASE i <= Len(b)
    <3>1. b[i] = a[q - Len(b) + i]
      BY <1>2, <2>1 DEF PieceUpTo
    <3>2. q - Len(b) + i = q + Len(c) - (Len(b) + Len(c)) + i
      BY <1>2
    <3> QED
      BY <1>1, <2>1, <3>1, <3>2
  <2>2. CASE i > Len(b)
    <3>1. i - Len(b) \in 1..Len(c)
      BY <1>2, <2>2
    <3>2. c[i - Len(b)] = a[q + (i - Len(b))]
      BY <3>1
    <3>3. q + (i - Len(b)) = q + Len(c) - (Len(b) + Len(c)) + i
      BY <1>2
    <3>4. (b \o c)[i] = c[i - Len(b)]
      BY <1>1, <1>2, <2>2
    <3> QED
      BY <3>2, <3>3, <3>4
  <2> QED
    BY <1>2, <2>1, <2>2
<1> QED
  BY <1>1, <1>2, <1>3 DEF PieceUpTo

\* A piece that ends where the history ends is a subsequence up to its end.
LEMMA PieceIsEnd ==
  ASSUME NEW a \in History, NEW b \in History, Len(b) > 0, PieceUpTo(b, a, Len(a))
  PROVE  \E from \in 1..Len(a) : b = SubSeq(a, from, Len(a))
<1> DEFINE from == Len(a) - Len(b) + 1
<1>1. Len(a) \in Nat /\ Len(b) \in Nat /\ Len(b) <= Len(a) /\ from \in 1..Len(a)
  BY DEF History, PieceUpTo
<1>2. /\ SubSeq(a, from, Len(a)) \in History
      /\ Len(SubSeq(a, from, Len(a))) = Len(b)
      /\ \A i \in 1..Len(b) : SubSeq(a, from, Len(a))[i] = a[from + i - 1]
  BY <1>1 DEF History
<1>3. ASSUME NEW i \in 1..Len(b) PROVE SubSeq(a, from, Len(a))[i] = b[i]
  <2>1. b[i] = a[Len(a) - Len(b) + i] /\ Len(a) - Len(b) + i = from + i - 1
    BY <1>1 DEF PieceUpTo
  <2> QED
    BY <1>2, <2>1
<1>4. SubSeq(a, from, Len(a)) = b
  BY <1>2, <1>3, SameBatches
<1> QED
  BY <1>1, <1>4

\* Task t moves on without changing runs or requests, and what it uploads, if
\* anything, is as it should be.
LEMMA ResumeLocalStep ==
  ASSUME TypeOK, EndsInv, NEW t \in Tasks, Submitted(t),
         NEW p \in PC \ {"unsubmitted"}, pc' = [pc EXCEPT ![t] = p],
         UNCHANGED <<history, requestVars>>,
         \A u \in Tasks \ {t} :
           buf'[u] = buf[u] /\ iter'[u] = iter[u] /\ progress'[u] = progress[u],
         ResumeInv(t)',
         UNCHANGED objects \/ (pc[t] = "uploading" /\ Put(t))
  PROVE  EndsInv'
<1> USE TaskAssumption DEF requestVars
<1>1. /\ \A u \in Tasks : Submitted(u)' <=> Submitted(u)
      /\ \A u \in Tasks : ObjectKey(u)' = ObjectKey(u)
      /\ \A u \in Tasks \ {t} : pc'[u] = pc[u]
  BY DEF Submitted, TypeOK, ObjectKey
<1>2. (\A r \in Runs : WellFormed(history[r]))'
  BY DEF EndsInv
<1>3. ASSUME NEW u \in Tasks PROVE RequestInv(u)'
  BY <1>1 DEF EndsInv, RequestInv
<1>4. ASSUME NEW u \in Tasks PROVE ResumeInv(u)'
  <2>1. CASE u = t
    BY <2>1
  <2>2. CASE u # t
    BY <1>1, <2>2 DEF EndsInv, ResumeInv
  <2> QED
    BY <2>1, <2>2
<1>5. StoredEndsAsAsked'
  <2>1. CASE UNCHANGED objects
    BY <1>1, <2>1 DEF EndsInv, StoredEndsAsAsked
  <2>2. CASE pc[t] = "uploading" /\ Put(t)
    <3> SUFFICES ASSUME NEW k \in Key, objects'[k] # << >>
                 PROVE  \E u \in Tasks :
                          /\ Submitted(u) /\ ObjectKey(u) = k
                          /\ \E from \in 1..Len(asked[u]) :
                               objects'[k] = SubSeq(asked[u], from, Len(asked[u]))
      BY <1>1 DEF StoredEndsAsAsked
    <3>1. CASE k = ObjectKey(t)
      <4>1. objects'[k] = buf[t]
        BY <2>2, <3>1 DEF Put, TypeOK
      <4>2. /\ Len(buf[t]) > 0 /\ PieceUpTo(buf[t], asked[t], Len(asked[t]))
            /\ buf[t] \in History /\ asked[t] \in History
        BY <2>2 DEF EndsInv, ResumeInv, TypeOK
      <4>3. \E from \in 1..Len(asked[t]) : buf[t] = SubSeq(asked[t], from, Len(asked[t]))
        BY <4>2, PieceIsEnd
      <4> QED
        BY <3>1, <4>1, <4>3
    <3>2. CASE k # ObjectKey(t)
      <4>1. objects'[k] = objects[k]
        BY <2>2, <3>2 DEF Put, TypeOK
      <4> QED
        BY <4>1 DEF EndsInv, StoredEndsAsAsked
    <3> QED
      BY <3>1, <3>2
  <2> QED
    BY <2>1, <2>2
<1> QED
  BY <1>2, <1>3, <1>4, <1>5 DEF EndsInv

\* A blob that is not rejected extends the piece accumulated so far, and the last
\* one completes it to the end of the history asked for.
LEMMA ResumeReadBlob ==
  ASSUME TypeOK, EndsInv, NEW t \in Tasks, ReadBlob(t)
  PROVE  EndsInv'
<1> USE TaskAssumption
<1> DEFINE h == history[RunOf[t]]
           a == asked[t]
           q == iter[t].pos
<1>1. /\ pc[t] = "reading" /\ Submitted(t) /\ ~iter[t].finished
      /\ UNCHANGED <<bucketVars, requestVars>>
  BY DEF ReadBlob, Submitted
<1>2. /\ h \in History \ {<< >>} /\ WellFormed(h) /\ q \in Nat /\ buf[t] \in History
      /\ iter[t] \in Iterator /\ progress[t] \in Iterator
  BY DEF TypeOK, EndsInv, Iterator
<1>3. /\ a \in History \ {<< >>} /\ SameOrOverwritten(a, h)
      /\ request[t].closeFailoverVersion = CloseVersion(a)
  BY <1>1 DEF TypeOK, EndsInv, RequestInv, WellFormed
<1>4. q < Len(a) /\ PieceUpTo(buf[t], a, q) /\ Within(progress[t], a)
  BY <1>1 DEF EndsInv, ResumeInv, Within
<1>5. PICK n \in 1..(Len(h) - q) :
        IF HistoryMutated(t, Blob(t, n), IsLast(t, n))
          THEN pc' = [pc EXCEPT ![t] = "rejected"] /\ UNCHANGED <<attemptVars, progress>>
          ELSE /\ buf' = [buf EXCEPT ![t] = @ \o Blob(t, n)]
               /\ iter' = [iter EXCEPT ![t] = [pos |-> q + n, finished |-> IsLast(t, n)]]
               /\ SaveIteratorState(t, [pos |-> q + n, finished |-> IsLast(t, n)])
               /\ pc' = [pc EXCEPT ![t] =
                           IF IsLast(t, n) THEN Verdict(Blob(t, n)) ELSE "reading"]
  BY DEF ReadBlob
<1> DEFINE blob == Blob(t, n)
           next == [pos |-> q + n, finished |-> IsLast(t, n)]
<1>6. CASE HistoryMutated(t, blob, IsLast(t, n))
  <2>1. pc' = [pc EXCEPT ![t] = "rejected"] /\ UNCHANGED <<attemptVars, progress>>
    BY <1>5, <1>6
  <2>2. pc'[t] = "rejected"
    BY <2>1 DEF TypeOK
  <2>3. ResumeInv(t)'
    BY <1>1, <1>4, <2>1, <2>2 DEF ResumeInv, Submitted, requestVars
  <2> QED
    BY <1>1, <2>1, <2>3, ResumeLocalStep DEF PC, attemptVars, bucketVars
<1>7. CASE ~HistoryMutated(t, blob, IsLast(t, n))
  <2> DEFINE p == IF IsLast(t, n) THEN Verdict(blob) ELSE "reading"
  <2>1. /\ buf' = [buf EXCEPT ![t] = @ \o blob] /\ pc' = [pc EXCEPT ![t] = p]
        /\ iter' = [iter EXCEPT ![t] = next] /\ SaveIteratorState(t, next)
    BY <1>5, <1>7
  <2>2. /\ buf'[t] = buf[t] \o blob /\ pc'[t] = p /\ iter'[t] = next
        /\ \A u \in Tasks \ {t} : buf'[u] = buf[u] /\ iter'[u] = iter[u]
    BY <2>1 DEF TypeOK
  <2>3. /\ progress'[t] \in {progress[t], next}
        /\ \A u \in Tasks \ {t} : progress'[u] = progress[u]
    BY <2>1 DEF SaveIteratorState, TypeOK
  <2>4. /\ blob \in History /\ Len(blob) = n /\ \A i \in 1..n : blob[i] = h[q + i]
        /\ LastBatch(blob) = h[q + n] /\ n \in Nat /\ n > 0
    <3>1. blob \in History /\ Len(blob) = n /\ \A i \in 1..n : blob[i] = h[q + i]
      BY <1>2, BlobType DEF Blob
    <3>2. n \in Nat /\ n > 0
      BY <1>2 DEF History
    <3> QED
      BY <3>1, <3>2 DEF LastBatch
  <2>5. h[q + n].version <= CloseVersion(a)
    <3>1. h[q + n] \in Batch /\ CloseVersion(a) \in Version
      BY <1>2, <1>3, LastBatchType DEF History
    <3>2. h[q + n].version \in Nat /\ CloseVersion(a) \in Nat
      BY <3>1, VersionAssumption DEF Batch, Version
    <3> QED
      BY <1>3, <1>7, <2>4, <3>2 DEF HistoryMutated
  <2>6. /\ \A i \in 1..n : h[q + i] = a[q + i]
        /\ q + n # Len(h) => q + n < Len(a)
        /\ q + n = Len(h) => a = h
    BY <1>2, <1>3, <2>5, AcceptedBlob
  <2>7. \A i \in 1..n : blob[i] = a[q + i]
    BY <2>4, <2>6
  <2>8. /\ PieceUpTo(buf[t] \o blob, a, q + n)
        /\ Len(buf[t] \o blob) = Len(buf[t]) + n
    <3> HIDE DEF blob, a, q
    <3> QED
      BY <1>2, <1>3, <1>4, <2>4, <2>7, PieceExtended
  <2>9. Len(buf[t] \o blob) > 0
    BY <1>2, <2>4, <2>8 DEF History
  <2>10. Within(next, a)
    BY <2>6 DEF Within, IsLast
  <2>11. IsLast(t, n) => q + n = Len(a)
    BY <2>6 DEF IsLast
  <2>12. p \in PC \ {"unsubmitted"} /\ (~IsLast(t, n) => p = "reading")
         /\ (IsLast(t, n) => p # "reading")
    BY DEF PC, Verdict
  <2>13. ResumeInv(t)'
    <3>1. UNCHANGED asked /\ Submitted(t)'
      BY <1>1, <2>2, <2>12 DEF requestVars, Submitted
    <3>2. Within(progress'[t], a)
      BY <1>4, <2>3, <2>10
    <3>3. CASE IsLast(t, n)
      BY <2>2, <2>8, <2>9, <2>11, <2>12, <3>1, <3>2, <3>3 DEF ResumeInv
    <3>4. CASE ~IsLast(t, n)
      BY <2>2, <2>8, <2>10, <2>12, <3>1, <3>2, <3>4 DEF ResumeInv
    <3> QED
      BY <3>3, <3>4
  <2> HIDE DEF p
  <2> QED
    BY <1>1, <2>1, <2>2, <2>3, <2>12, <2>13, ResumeLocalStep DEF bucketVars
<1> QED
  BY <1>6, <1>7

\* So does every other step of an attempt; it may begin where an earlier one got.
LEMMA ResumeArchiveStep ==
  ASSUME TypeOK, EndsInv, NEW t \in Tasks, Archive(t)
  PROVE  EndsInv'
<1> USE DEF bucketVars, requestVars
<1>1. CASE StartAttempt(t)
  <2>1. pc[t] = "waiting" /\ Submitted(t) /\ UNCHANGED <<bucketVars, requestVars, progress>>
    BY <1>1 DEF StartAttempt, Submitted
  <2>2. /\ asked[t] \in History /\ Len(asked[t]) > 0 /\ Within(progress[t], asked[t])
        /\ progress[t] \in Iterator
    BY <2>1 DEF EndsInv, RequestInv, ResumeInv, WellFormed, TypeOK
  <2>3. CASE request[t].valid
    <3>1. PICK i \in Iterators(t) : iter' = [iter EXCEPT ![t] = i]
      BY <1>1, <2>3 DEF StartAttempt
    <3>2. /\ pc' = [pc EXCEPT ![t] = "reading"] /\ buf' = [buf EXCEPT ![t] = << >>]
          /\ pc'[t] = "reading" /\ buf'[t] = << >> /\ iter'[t] = i
          /\ \A u \in Tasks \ {t} : buf'[u] = buf[u] /\ iter'[u] = iter[u]
      BY <1>1, <2>3, <3>1 DEF StartAttempt, TypeOK
    <3>3. i.pos \in Nat /\ Within(i, asked[t])
      BY <2>2 DEF Iterators, FreshIterator, Within, Iterator
    <3>4. PieceUpTo(<< >>, asked[t], i.pos)
      BY <3>3 DEF PieceUpTo
    <3>5. ResumeInv(t)'
      BY <2>1, <2>2, <3>2, <3>3, <3>4 DEF ResumeInv, Submitted
    <3> QED
      BY <2>1, <3>2, <3>5, ResumeLocalStep DEF PC
  <2>4. CASE ~request[t].valid
    <3>1. /\ pc' = [pc EXCEPT ![t] = "rejected"] /\ pc'[t] = "rejected"
          /\ UNCHANGED attemptVars
      BY <1>1, <2>4 DEF StartAttempt, TypeOK
    <3>2. ResumeInv(t)'
      BY <2>1, <2>2, <3>1 DEF ResumeInv, Submitted
    <3> QED
      BY <2>1, <3>1, <3>2, ResumeLocalStep DEF PC, attemptVars
  <2> QED
    BY <2>3, <2>4
<1>2. CASE ReadBlob(t)
  BY <1>2, ResumeReadBlob
<1>3. CASE ReadNotFound(t) \/ NothingToRead(t) \/ PutObject(t) \/ ReturnNil(t)
  <2>1. PICK p \in {"acked", "stored"} : pc' = [pc EXCEPT ![t] = p]
    BY <1>3 DEF ReadNotFound, NothingToRead, PutObject, ReturnNil
  <2>2. /\ Submitted(t) /\ pc'[t] = p /\ UNCHANGED <<history, requestVars, attemptVars, progress>>
        /\ UNCHANGED objects \/ (pc[t] = "uploading" /\ Put(t))
    BY <1>3, <2>1 DEF ReadNotFound, NothingToRead, PutObject, ReturnNil, Submitted, TypeOK
  <2>3. ResumeInv(t)'
    BY <2>2 DEF EndsInv, ResumeInv, Submitted
  <2> QED
    BY <2>1, <2>2, <2>3, ResumeLocalStep DEF PC, attemptVars
<1> QED
  BY <1>1, <1>2, <1>3 DEF Archive

\* A failed attempt leaves the position recorded last.
LEMMA ResumeFailureStep ==
  ASSUME TypeOK, EndsInv, NEW t \in Tasks, Failure(t)
  PROVE  EndsInv'
<1> USE DEF bucketVars, requestVars
<1>1. /\ Submitted(t) /\ UNCHANGED <<history, requestVars, progress>>
      /\ UNCHANGED objects \/ (pc[t] = "uploading" /\ Put(t))
  BY DEF Failure, ReadError, PutObjectError, EncodeError, Crash, TryAgain, Running, Submitted
<1>2. /\ \/ pc' = [pc EXCEPT ![t] = "waiting"]
         \/ pc' = [pc EXCEPT ![t] = "rejected"]
      /\ \A u \in Tasks \ {t} : buf'[u] = buf[u] /\ iter'[u] = iter[u]
  BY DEF Failure, ReadError, PutObjectError, EncodeError, Crash, TryAgain, TypeOK, attemptVars
<1>3. pc'[t] \in {"waiting", "rejected"}
  BY <1>2 DEF TypeOK
<1>4. ResumeInv(t)'
  BY <1>1, <1>3 DEF EndsInv, ResumeInv, Submitted
<1> QED
  BY <1>1, <1>2, <1>4, ResumeLocalStep DEF PC

\* A request made now describes the run as it is; requests made before it describe
\* what it was or has grown out of.
LEMMA ResumeSubmitStep ==
  ASSUME TypeOK, EndsInv, NEW t \in Tasks, Submit(t)
  PROVE  EndsInv'
<1> USE TaskAssumption
<1> DEFINE h == history[RunOf[t]]
<1>1. /\ pc[t] = "unsubmitted" /\ ~Submitted(t)
      /\ pc' = [pc EXCEPT ![t] = "waiting"] /\ asked' = [asked EXCEPT ![t] = h]
      /\ UNCHANGED <<history, objects, buf, iter, progress>>
  BY DEF Submit, Submitted, bucketVars, attemptVars
<1>2. PICK ok \in BOOLEAN :
        request' = [request EXCEPT ![t] =
          [valid |-> ok, closeFailoverVersion |-> CloseVersion(h),
           nextEventID |-> Len(h) + 1]]
  BY DEF Submit
<1>3. /\ pc'[t] = "waiting" /\ Submitted(t)' /\ asked'[t] = h
      /\ request'[t].closeFailoverVersion = CloseVersion(h)
      /\ request'[t].nextEventID = Len(h) + 1
  BY <1>1, <1>2 DEF TypeOK, Submitted
<1>4. ASSUME NEW u \in Tasks, u # t
      PROVE  /\ pc'[u] = pc[u] /\ asked'[u] = asked[u] /\ request'[u] = request[u]
             /\ (Submitted(u)' <=> Submitted(u)) /\ ObjectKey(u)' = ObjectKey(u)
  BY <1>1, <1>2, <1>4 DEF TypeOK, Submitted, ObjectKey
<1>5. (\A r \in Runs : WellFormed(history[r]))'
  BY <1>1 DEF EndsInv
<1>6. WellFormed(h) /\ Len(h) \in Nat /\ Len(h) > 0
  BY DEF EndsInv, TypeOK, WellFormed, History
<1>7. ASSUME NEW u \in Tasks PROVE RequestInv(u)' /\ ResumeInv(u)'
  <2>1. CASE u = t
    <3>1. RequestInv(t)'
      BY <1>1, <1>3, <1>6 DEF RequestInv, SameOrOverwritten
    <3>2. progress'[t] = FreshIterator /\ Within(FreshIterator, h)
      BY <1>1, <1>6 DEF EndsInv, ResumeInv, Within, FreshIterator
    <3>3. ResumeInv(t)'
      BY <1>3, <3>2 DEF ResumeInv
    <3> QED
      BY <2>1, <3>1, <3>3
  <2>2. CASE u # t
    BY <1>1, <1>4, <2>2 DEF EndsInv, RequestInv, ResumeInv
  <2> QED
    BY <2>1, <2>2
<1>8. StoredEndsAsAsked'
  <2> SUFFICES ASSUME NEW k \in Key, objects[k] # << >>
               PROVE  \E u \in Tasks :
                        /\ Submitted(u)' /\ ObjectKey(u)' = k
                        /\ \E from \in 1..Len(asked'[u]) :
                             objects[k] = SubSeq(asked'[u], from, Len(asked'[u]))
    BY <1>1 DEF StoredEndsAsAsked
  <2>1. PICK u \in Tasks : /\ Submitted(u) /\ ObjectKey(u) = k
                           /\ \E from \in 1..Len(asked[u]) :
                                objects[k] = SubSeq(asked[u], from, Len(asked[u]))
    BY DEF EndsInv, StoredEndsAsAsked
  <2>2. u # t
    BY <1>1, <2>1
  <2> QED
    BY <1>4, <2>1, <2>2
<1> QED
  BY <1>5, <1>7, <1>8 DEF EndsInv

\* Rewriting a run takes nothing from what was asked for and recorded before.
LEMMA ResumeRewriteStep ==
  ASSUME TypeOK, EndsInv, NEW r \in Runs, RewriteHistory(r)
  PROVE  EndsInv'
<1> USE TaskAssumption
<1>1. PICK keep \in 0..(Len(history[r]) - 1), len \in 1..MaxLen, s \in EventType :
        /\ keep < len
        /\ history' = [history EXCEPT ![r] = Rewriting(@, keep, len, s)]
  BY DEF RewriteHistory
<1> DEFINE g == Rewriting(history[r], keep, len, s)
<1>2. /\ CloseVersion(history[r]) < MaxVersion
      /\ UNCHANGED <<objects, pc, request, asked, buf, iter, progress>>
  BY DEF RewriteHistory, requestVars, attemptVars
<1>3. history[r] \in History \ {<< >>} /\ WellFormed(history[r]) /\ len \in Nat
  BY BoundAssumption DEF TypeOK, EndsInv
<1>4. history'[r] = g /\ \A q \in Runs \ {r} : history'[q] = history[q]
  BY <1>1 DEF TypeOK
<1>5. ASSUME NEW u \in Tasks
      PROVE  (Submitted(u)' <=> Submitted(u)) /\ ObjectKey(u)' = ObjectKey(u)
  BY <1>2 DEF Submitted, ObjectKey
<1>6. (\A q \in Runs : WellFormed(history[q]))'
  <2>1. WellFormed(g)
    BY <1>1, <1>2, <1>3, RewritingWellFormed
  <2> QED
    BY <1>4, <2>1 DEF EndsInv
<1>7. ASSUME NEW u \in Tasks PROVE RequestInv(u)'
  <2>1. CASE Submitted(u) /\ RunOf[u] = r
    <3>1. SameOrOverwritten(asked[u], history[r]) /\ asked[u] \in History \ {<< >>}
      BY <2>1 DEF EndsInv, RequestInv, WellFormed, TypeOK
    <3>2. SameOrOverwritten(asked[u], g)
      BY <1>1, <1>2, <1>3, <3>1, RewritingRelated
    <3> QED
      BY <1>2, <1>4, <1>5, <2>1, <3>2 DEF EndsInv, RequestInv
  <2>2. CASE ~Submitted(u) \/ RunOf[u] # r
    BY <1>2, <1>4, <1>5, <2>2 DEF EndsInv, RequestInv
  <2> QED
    BY <2>1, <2>2
<1>8. ASSUME NEW u \in Tasks PROVE ResumeInv(u)'
  BY <1>2, <1>5 DEF EndsInv, ResumeInv
<1>9. StoredEndsAsAsked'
  BY <1>2, <1>5 DEF EndsInv, StoredEndsAsAsked
<1> QED
  BY <1>6, <1>7, <1>8, <1>9 DEF EndsInv

\* With a ProgressManager or without: whatever is stored is the end of a history
\* some task was asked for, from wherever the attempt began, without a gap.
THEOREM ObjectsEndAsAsked == Spec => []StoredEndsAsAsked
<1>1. Init => EndsInv
  <2> SUFFICES ASSUME Init PROVE EndsInv
    OBVIOUS
  <2>1. \A r \in Runs : WellFormed(history[r])
    BY InitStep DEF IInv
  <2>2. \A t \in Tasks : RequestInv(t) /\ ResumeInv(t)
    BY DEF Init, RequestInv, ResumeInv, Submitted
  <2>3. StoredEndsAsAsked
    BY DEF Init, StoredEndsAsAsked
  <2> QED
    BY <2>1, <2>2, <2>3 DEF EndsInv
<1>2. TypeOK /\ EndsInv /\ [Next]_vars => EndsInv'
  <2> SUFFICES ASSUME TypeOK, EndsInv, [Next]_vars PROVE EndsInv'
    OBVIOUS
  <2>1. CASE \E t \in Tasks : Submit(t) \/ Archive(t) \/ Failure(t)
    BY <2>1, ResumeSubmitStep, ResumeArchiveStep, ResumeFailureStep
  <2>2. CASE \E r \in Runs : RewriteHistory(r)
    BY <2>2, ResumeRewriteStep
  <2>3. CASE (\E r \in Runs : DeleteHistory(r)) \/ UNCHANGED vars
    <3>1. UNCHANGED <<history, objects, pc, request, asked, buf, iter, progress>>
      BY <2>3 DEF DeleteHistory, vars, bucketVars, requestVars, attemptVars
    <3> QED
      BY <3>1 DEF EndsInv, RequestInv, ResumeInv, StoredEndsAsAsked, Submitted, ObjectKey
  <2> QED
    BY <2>1, <2>2, <2>3 DEF Next
<1>3. EndsInv => StoredEndsAsAsked
  BY DEF EndsInv
<1> QED
  BY <1>1, <1>2, <1>3, TypeCorrect, PTL DEF Spec
=============================================================================
