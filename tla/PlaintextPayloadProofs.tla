------------------------ MODULE PlaintextPayloadProofs ------------------------
(***************************************************************************)
(* Proofs about PlaintextPayload: the scan of a request records each of    *)
(* its unencrypted payloads once, but for those at the parts it passes     *)
(* over, for every request.  The scan appends sequences to one another;    *)
(* what that gives is proved once, by induction on their number, and used  *)
(* for each level of a request.                                            *)
(***************************************************************************)
EXTENDS PlaintextPayload, Integers, SequenceTheorems, FiniteSetTheorems, TLAPS

\* A set of natural numbers has a least element.
LEMMA LeastNumber ==
  ASSUME NEW T \in SUBSET Nat, T # {}
  PROVE  \E m \in T : \A k \in T : m <= k
<1> DEFINE U == {0..n : n \in T}
<1>1. U \subseteq FiniteSubsetsOf(Nat) /\ U # {}
  <2>1. \A n \in Nat : IsFiniteSet(0..n) /\ 0..n \in SUBSET Nat
    BY FS_Interval
  <2>2. ASSUME NEW x \in U PROVE x \in FiniteSubsetsOf(Nat)
    BY <2>1, <2>2 DEF FiniteSubsetsOf
  <2> QED
    BY <2>2
<1>2. PICK x \in U : \A y \in U : <<y, x>> \notin StrictSubsetOrdering(Nat)
  <2> HIDE DEF U
  <2> QED
    BY <1>1, FS_StrictSubsetOrderingWellFounded, WFMin
<1>3. PICK m \in T : x = 0..m
  OBVIOUS
<1>4. ASSUME NEW k \in T, k < m PROVE FALSE
  <2>1. m \notin 0..k /\ m \in 0..m
    BY <1>4
  <2>2. 0..k \subseteq 0..m /\ 0..k \in SUBSET Nat /\ 0..m \in SUBSET Nat
    BY <1>4
  <2>3. <<0..k, 0..m>> \in StrictSubsetOrdering(Nat)
    BY <2>1, <2>2 DEF StrictSubsetOrdering
  <2>4. 0..k \in U
    OBVIOUS
  <2> QED
    BY <1>2, <1>3, <2>3, <2>4
<1> QED
  BY <1>3, <1>4

\* Induction up to n, for the set of numbers that have a property.
LEMMA InductionUpTo ==
  ASSUME NEW n \in Nat, NEW G,
         n > 0 => 1 \in G,
         \A m \in 1..n : m + 1 <= n /\ m \in G => m + 1 \in G
  PROVE  1..n \subseteq G
<1> DEFINE T == {m \in 1..n : m \notin G}
<1>1. SUFFICES ASSUME T # {} PROVE FALSE
  OBVIOUS
<1>2. PICK m \in T : \A k \in T : m <= k
  <2>1. T \in SUBSET Nat
    OBVIOUS
  <2> HIDE DEF T
  <2> QED
    BY <1>1, <2>1, LeastNumber
<1>3. m # 1
  BY <1>2
<1>4. m - 1 \in 1..n /\ m - 1 \notin T
  BY <1>2, <1>3
<1> QED
  BY <1>2, <1>4

-----------------------------------------------------------------------------
(* Flattening.                                                             *)

\* f holds what the first elements of s give, appended to one another.
Flattens(f, s) ==
  f = [i \in 1..Len(s) |-> IF i = 1 THEN s[i] ELSE f[i - 1] \o s[i]]

\* Such a function exists.
LEMMA FlattensExists ==
  ASSUME NEW S, NEW s \in Seq(Seq(S))
  PROVE  \E f \in [1..Len(s) -> Seq(S)] : Flattens(f, s)
<1> DEFINE n == Len(s)
           Prefix(f, m) == \A i \in 1..m : f[i] = IF i = 1 THEN s[i] ELSE f[i - 1] \o s[i]
           G == {m \in 1..n : \E f \in [1..m -> Seq(S)] : Prefix(f, m)}
<1>1. n \in Nat /\ \A i \in 1..n : s[i] \in Seq(S)
  OBVIOUS
<1>2. n > 0 => 1 \in G
  <2> SUFFICES ASSUME n > 0 PROVE 1 \in G
    OBVIOUS
  <2> DEFINE f == [i \in 1..1 |-> s[1]]
  <2>1. f \in [1..1 -> Seq(S)] /\ Prefix(f, 1)
    BY <1>1
  <2>2. 1 \in 1..n
    BY <1>1
  <2> HIDE DEF f, Prefix
  <2> QED
    BY <2>1, <2>2
<1>3. ASSUME NEW m \in 1..n, m + 1 <= n, m \in G PROVE m + 1 \in G
  <2>1. PICK f \in [1..m -> Seq(S)] : Prefix(f, m)
    BY <1>3
  <2> DEFINE g == [i \in 1..(m + 1) |-> IF i = m + 1 THEN f[m] \o s[m + 1] ELSE f[i]]
  <2>2. m \in Nat /\ m + 1 \in 1..n /\ m \in 1..m
    BY <1>1, <1>3
  <2>3. f[m] \o s[m + 1] \in Seq(S)
    <3>1. f[m] \in Seq(S) /\ s[m + 1] \in Seq(S)
      BY <1>1, <2>2
    <3> QED
      BY <3>1, ConcatProperties
  <2>4. g \in [1..(m + 1) -> Seq(S)]
    BY <2>2, <2>3
  <2>5. ASSUME NEW i \in 1..(m + 1)
        PROVE  g[i] = IF i = 1 THEN s[i] ELSE g[i - 1] \o s[i]
    <3>1. CASE i = m + 1
      <4>1. g[i] = f[m] \o s[m + 1] /\ i - 1 = m /\ i # 1 /\ g[m] = f[m]
        BY <2>2, <3>1
      <4> QED
        BY <3>1, <4>1
    <3>2. CASE i # m + 1
      <4>1. i \in 1..m /\ g[i] = f[i] /\ (i # 1 => i - 1 \in 1..m /\ g[i - 1] = f[i - 1])
        BY <2>2, <3>2
      <4> QED
        BY <2>1, <4>1
    <3> QED
      BY <3>1, <3>2
  <2> HIDE DEF g
  <2> QED
    BY <2>2, <2>4, <2>5
<1>4. 1..n \subseteq G
  <2> HIDE DEF G
  <2> QED
    BY <1>1, <1>2, <1>3, InductionUpTo
<1>5. CASE n = 0
  <2> DEFINE f == [i \in 1..Len(s) |-> s[i]]
  <2>1. f \in [1..Len(s) -> Seq(S)] /\ Flattens(f, s)
    BY <1>5 DEF Flattens
  <2> QED
    BY <2>1
<1>6. CASE n # 0
  <2>1. n \in G
    <3>1. n \in 1..n
      BY <1>1, <1>6
    <3> HIDE DEF G
    <3> QED
      BY <1>4, <3>1
  <2>2. PICK f \in [1..n -> Seq(S)] : Prefix(f, n)
    BY <2>1
  <2>3. Flattens(f, s)
    BY <2>2 DEF Flattens
  <2> QED
    BY <2>2, <2>3
<1> QED
  BY <1>5, <1>6

\* FlattenSeq is the last value of such a function, of whose values each extends
\* the one before.
LEMMA FlattenSeqIsLast ==
  ASSUME NEW S, NEW s \in Seq(Seq(S)), Len(s) # 0
  PROVE  \E f \in [1..Len(s) -> Seq(S)] : Flattens(f, s) /\ FlattenSeq(s) = f[Len(s)]
<1> DEFINE f == CHOOSE g : Flattens(g, s)
           G == {m \in 1..Len(s) : f[m] \in Seq(S)}
<1>1. Flattens(f, s)
  BY FlattensExists
<1>2. FlattenSeq(s) = f[Len(s)]
  BY DEF FlattenSeq, Flattens
<1> HIDE DEF f
<1>3. /\ Len(s) \in Nat /\ \A i \in 1..Len(s) : s[i] \in Seq(S)
      /\ \A i \in 1..Len(s) : f[i] = IF i = 1 THEN s[i] ELSE f[i - 1] \o s[i]
  <2>1. Len(s) \in Nat /\ \A i \in 1..Len(s) : s[i] \in Seq(S)
    OBVIOUS
  <2>2. ASSUME NEW i \in 1..Len(s)
        PROVE  f[i] = IF i = 1 THEN s[i] ELSE f[i - 1] \o s[i]
    BY <1>1, Zenon DEF Flattens
  <2> QED
    BY <2>1, <2>2
<1>4. 1 \in G
  BY <1>3
<1>5. ASSUME NEW m \in 1..Len(s), m + 1 <= Len(s), m \in G PROVE m + 1 \in G
  <2>1. m + 1 \in 1..Len(s) /\ m + 1 # 1 /\ (m + 1) - 1 = m
    BY <1>3, <1>5
  <2>2. f[m + 1] = f[m] \o s[m + 1]
    BY <1>3, <2>1
  <2>3. f[m] \o s[m + 1] \in Seq(S)
    BY <1>3, <1>5, <2>1, ConcatProperties
  <2> QED
    BY <2>1, <2>2, <2>3
<1>6. 1..Len(s) \subseteq G
  <2> HIDE DEF G
  <2> QED
    BY <1>3, <1>4, <1>5, InductionUpTo
<1>7. f \in [1..Len(s) -> Seq(S)]
  BY <1>1, <1>6 DEF Flattens
<1> QED
  BY <1>1, <1>2, <1>7

\* The union of the first sets of W.
Whole(W, m) == UNION {W[i] : i \in 1..m}

\* If each of several sequences is as long as a set of its own is large, and these
\* sets are disjoint, then the flattened sequence is as long as their union is large.
LEMMA FlattenCounts ==
  ASSUME NEW S, NEW s \in Seq(Seq(S)), NEW W,
         \A i \in 1..Len(s) : IsFiniteSet(W[i]) /\ Cardinality(W[i]) = Len(s[i]),
         \A i, j \in 1..Len(s) : i # j => W[i] \cap W[j] = {}
  PROVE  /\ FlattenSeq(s) \in Seq(S)
         /\ IsFiniteSet(Whole(W, Len(s)))
         /\ Cardinality(Whole(W, Len(s))) = Len(FlattenSeq(s))
<1> DEFINE n == Len(s)
<1>1. n \in Nat /\ \A i \in 1..n : s[i] \in Seq(S)
  OBVIOUS
<1>2. CASE n = 0
  <2>1. FlattenSeq(s) = s /\ s = << >>
    BY <1>2, EmptySeq DEF FlattenSeq
  <2>2. Whole(W, n) = {}
    BY <1>2 DEF Whole
  <2> QED
    BY <1>2, <2>1, <2>2, FS_EmptySet
<1>3. CASE n # 0
  <2>1. PICK f \in [1..n -> Seq(S)] : Flattens(f, s) /\ FlattenSeq(s) = f[n]
    BY <1>3, FlattenSeqIsLast
  <2> DEFINE G == {m \in 1..n : IsFiniteSet(Whole(W, m)) /\ Cardinality(Whole(W, m)) = Len(f[m])}
  <2>2. \A i \in 1..n : f[i] = IF i = 1 THEN s[i] ELSE f[i - 1] \o s[i]
    BY <2>1 DEF Flattens
  <2>3. 1 \in G
    <3>1. f[1] = s[1] /\ 1 \in 1..n
      <4>1. 1 \in 1..n
        BY <1>1, <1>3
      <4> QED
        BY <2>2, <4>1, Zenon
    <3>2. Whole(W, 1) = W[1]
      <4>1. 1..1 = {1}
        OBVIOUS
      <4> QED
        BY <4>1 DEF Whole
    <3> QED
      BY <3>1, <3>2
  <2>4. ASSUME NEW m \in 1..n, m + 1 <= n, m \in G PROVE m + 1 \in G
    <3>1. m + 1 \in 1..n /\ m + 1 # 1 /\ (m + 1) - 1 = m
      BY <1>1, <2>4
    <3>2. f[m + 1] = f[m] \o s[m + 1] /\ f[m] \in Seq(S) /\ s[m + 1] \in Seq(S)
      BY <1>1, <2>1, <2>2, <3>1
    <3>3. Len(f[m + 1]) = Len(f[m]) + Len(s[m + 1])
      BY <3>2, ConcatProperties
    <3>4. Whole(W, m + 1) = Whole(W, m) \cup W[m + 1]
      <4>1. 1..(m + 1) = 1..m \cup {m + 1}
        BY <3>1
      <4> QED
        BY <4>1 DEF Whole
    <3>5. Whole(W, m) \cap W[m + 1] = {}
      <4>1. \A i \in 1..m : i \in 1..n /\ i # m + 1
        BY <3>1
      <4> QED
        BY <3>1, <4>1 DEF Whole
    <3>6. /\ IsFiniteSet(Whole(W, m)) /\ Cardinality(Whole(W, m)) = Len(f[m])
          /\ IsFiniteSet(W[m + 1]) /\ Cardinality(W[m + 1]) = Len(s[m + 1])
      BY <2>4, <3>1
    <3>7. /\ IsFiniteSet(Whole(W, m) \cup W[m + 1])
          /\ Cardinality(Whole(W, m) \cup W[m + 1]) =
               Cardinality(Whole(W, m)) + Cardinality(W[m + 1]) - Cardinality(Whole(W, m) \cap W[m + 1])
      BY <3>6, FS_Union
    <3>8. Cardinality(Whole(W, m) \cap W[m + 1]) = 0
      BY <3>5, FS_EmptySet
    <3>9. Len(f[m]) \in Nat /\ Len(s[m + 1]) \in Nat
      BY <3>2
    <3>10. Cardinality(Whole(W, m + 1)) = Len(f[m + 1])
      <4>1. Cardinality(Whole(W, m + 1)) = Len(f[m]) + Len(s[m + 1]) - 0
        BY <3>4, <3>6, <3>7, <3>8
      <4>2. \A a, b \in Nat : a + b - 0 = a + b
        OBVIOUS
      <4> QED
        BY <3>3, <3>9, <4>1, <4>2
    <3> QED
      BY <3>1, <3>4, <3>7, <3>10
  <2>5. n \in G
    <3>1. n \in 1..n
      BY <1>1, <1>3
    <3> HIDE DEF G
    <3> QED
      BY <1>1, <2>3, <2>4, <3>1, InductionUpTo
  <2>6. f[n] \in Seq(S)
    BY <1>1, <1>3, <2>1
  <2> QED
    BY <2>1, <2>5, <2>6
<1> QED
  BY <1>2, <1>3

-----------------------------------------------------------------------------
(* Each level of a request.                                                *)

\* The places of unencrypted payloads among those of P that are not passed over.
Plain(P) == {place \in P : place[4] \in UnencryptedEncodings /\ place[2] \notin PassedOver}

\* recordings are the recordings of the unencrypted payloads at the places of P.
Records(recordings, P) ==
  /\ recordings \in Seq(Recording)
  /\ IsFiniteSet(Plain(P)) /\ Cardinality(Plain(P)) = Len(recordings)

\* Nothing is recorded of no payloads.
LEMMA RecordsNothing == Records(<<>>, {})
<1>1. Plain({}) = {}
  BY DEF Plain
<1> QED
  BY <1>1, FS_EmptySet DEF Records

\* What is recorded of two parts of a request, one after the other.
LEMMA RecordsBoth ==
  ASSUME NEW r1, NEW P1, NEW r2, NEW P2, Records(r1, P1), Records(r2, P2), P1 \cap P2 = {}
  PROVE  Records(r1 \o r2, P1 \cup P2)
<1>1. Plain(P1 \cup P2) = Plain(P1) \cup Plain(P2) /\ Plain(P1) \cap Plain(P2) = {}
  BY DEF Plain
<1>2. r1 \o r2 \in Seq(Recording) /\ Len(r1 \o r2) = Len(r1) + Len(r2)
  BY ConcatProperties DEF Records
<1>3. /\ IsFiniteSet(Plain(P1) \cup Plain(P2))
      /\ Cardinality(Plain(P1) \cup Plain(P2)) =
           Cardinality(Plain(P1)) + Cardinality(Plain(P2)) - Cardinality(Plain(P1) \cap Plain(P2))
  BY FS_Union DEF Records
<1>4. Cardinality(Plain(P1) \cap Plain(P2)) = 0
  BY <1>1, FS_EmptySet
<1>5. Len(r1) \in Nat /\ Len(r2) \in Nat
  BY DEF Records
<1>6. Cardinality(Plain(P1 \cup P2)) = Len(r1 \o r2)
  <2>1. \A a, b \in Nat : a + b - 0 = a + b
    OBVIOUS
  <2>2. Cardinality(Plain(P1 \cup P2)) = Len(r1) + Len(r2) - 0
    BY <1>1, <1>3, <1>4 DEF Records
  <2> QED
    BY <1>2, <1>5, <2>1, <2>2
<1> QED
  BY <1>1, <1>2, <1>3, <1>6 DEF Records

\* Places that have nothing to record may be added.
LEMMA RecordsAside ==
  ASSUME NEW r, NEW P, NEW Q, Records(r, P), Plain(Q) = {}
  PROVE  Records(r, P \cup Q)
<1>1. Plain(P \cup Q) = Plain(P)
  BY DEF Plain
<1> QED
  BY <1>1 DEF Records

\* What is recorded of the elements of a sequence, flattened: parts[n] holds the
\* places of its n-th element.
LEMMA RecordsAll ==
  ASSUME NEW n \in Nat, NEW s \in [1..n -> Seq(Recording)], NEW parts,
         \A i \in 1..n : Records(s[i], parts[i]),
         \A i, j \in 1..n : i # j => parts[i] \cap parts[j] = {}
  PROVE  Records(FlattenSeq(s), Whole(parts, n))
<1> DEFINE W == [i \in 1..n |-> Plain(parts[i])]
<1>1. s \in Seq(Seq(Recording)) /\ Len(s) = n
  OBVIOUS
<1>2. \A i \in 1..n : IsFiniteSet(W[i]) /\ Cardinality(W[i]) = Len(s[i])
  BY DEF Records
<1>3. \A i, j \in 1..n : i # j => W[i] \cap W[j] = {}
  BY DEF Plain
<1>4. Whole(W, n) = Plain(Whole(parts, n))
  BY DEF Plain, Whole
<1> HIDE DEF W
<1>5. /\ FlattenSeq(s) \in Seq(Recording)
      /\ IsFiniteSet(Whole(W, n)) /\ Cardinality(Whole(W, n)) = Len(FlattenSeq(s))
  BY <1>1, <1>2, <1>3, FlattenCounts
<1> QED
  BY <1>4, <1>5 DEF Records

\* The loop over the payloads of a field.
LEMMA RecordsPayloads ==
  ASSUME NEW field \in RecordedFields, NEW payloads \in Payloads,
         NEW index, NEW part, part \notin PassedOver
  PROVE  Records(ScanPayloads(field, payloads), Places(index, part, payloads))
<1> DEFINE n == Len(payloads)
           s == [i \in DOMAIN payloads |->
                  IF IsPlain(payloads[i]) THEN <<[field |-> field, encoding |-> payloads[i]]>>
                  ELSE <<>>]
           parts == [i \in 1..n |-> {<<index, part, i, payloads[i]>>}]
<1>1. n \in Nat /\ DOMAIN payloads = 1..n /\ \A i \in 1..n : payloads[i] \in STRING
  BY DEF Payloads
<1>2. ASSUME NEW i \in 1..n
      PROVE  Records(s[i], parts[i])
  <2>1. CASE IsPlain(payloads[i])
    <3> DEFINE r == [field |-> field, encoding |-> payloads[i]]
    <3>1. s[i] = <<r>> /\ r \in Recording
      BY <1>1, <2>1 DEF Recording, IsPlain
    <3>2. s[i] \in Seq(Recording) /\ Len(s[i]) = 1
      <4> HIDE DEF r, s
      <4> QED
        BY <3>1
    <3>3. Plain(parts[i]) = {<<index, part, i, payloads[i]>>}
      BY <2>1 DEF Plain, IsPlain
    <3> QED
      BY <3>2, <3>3, FS_Singleton DEF Records
  <2>2. CASE ~IsPlain(payloads[i])
    <3>1. s[i] \in Seq(Recording) /\ Len(s[i]) = 0
      <4>1. s[i] = <<>>
        BY <1>1, <2>2
      <4> HIDE DEF s
      <4> QED
        BY <4>1
    <3>2. Plain(parts[i]) = {}
      BY <2>2 DEF Plain, IsPlain
    <3> QED
      BY <3>1, <3>2, FS_EmptySet DEF Records
  <2> QED
    BY <2>1, <2>2
<1>3. \A i, j \in 1..n : i # j => parts[i] \cap parts[j] = {}
  OBVIOUS
<1>4. Whole(parts, n) = Places(index, part, payloads)
  BY <1>1 DEF Places, Whole
<1>5. s \in [1..n -> Seq(Recording)]
  BY <1>1, <1>2 DEF Records
<1> HIDE DEF s, parts
<1>6. Records(FlattenSeq(s), Whole(parts, n))
  BY <1>1, <1>2, <1>3, <1>5, RecordsAll
<1> QED
  BY <1>4, <1>6 DEF ScanPayloads, s

\* Places with different indices or parts are different.
LEMMA PlacesApart ==
  ASSUME NEW i1, NEW p1, NEW a, NEW i2, NEW p2, NEW b, i1 # i2 \/ p1 # p2
  PROVE  Places(i1, p1, a) \cap Places(i2, p2, b) = {}
BY DEF Places

\* Where there is nothing to record.
LEMMA NothingPlain ==
  ASSUME NEW index, NEW part, NEW payloads, part \in PassedOver \/ payloads = <<>>
  PROVE  Plain(Places(index, part, payloads)) = {}
BY DEF Plain, Places

\* No part that is recorded is passed over.
LEMMA RecordedNotPassedOver == \A f \in RecordedFields : f \notin PassedOver
<1>1. DOMAIN DetailsField = {"Application", "Canceled", "Timeout"}
  BY DEF DetailsField
<1>2. \A info \in DOMAIN DetailsField : DetailsField[info] \notin PassedOver
  BY <1>1 DEF DetailsField, PassedOver
<1> QED
  BY <1>2 DEF RecordedFields, ScannedCommands, PassedOver

\* The requests that are scanned field by field are none of the others.
LEMMA KindsOfRequest ==
  /\ DOMAIN CoveredFields = DOMAIN ScannedFields
  /\ \A api \in DOMAIN ScannedFields :
       /\ api \notin ScheduleAPIs \cup FailureAPIs
       /\ api \notin {"RespondWorkflowTaskCompleted", "ExecuteMultiOperation"}
  /\ \A api \in ScheduleAPIs :
       /\ api \notin FailureAPIs
       /\ api \notin {"RespondWorkflowTaskCompleted", "ExecuteMultiOperation"}
  /\ \A api \in FailureAPIs :
       api \notin {"RespondWorkflowTaskCompleted", "ExecuteMultiOperation"}
<1>1. DOMAIN CoveredFields = DOMAIN ScannedFields
  BY DEF ScannedFields, CoveredFields
<1>2. DOMAIN ScannedFields =
        {"StartWorkflowExecution", "SignalWithStartWorkflowExecution",
         "SignalWorkflowExecution", "QueryWorkflow", "UpdateWorkflowExecution",
         "RespondActivityTaskCompleted", "RecordActivityTaskHeartbeat"}
  BY DEF ScannedFields
<1> QED
  BY <1>1, <1>2 DEF ScheduleAPIs, FailureAPIs

\* The fields that are scanned are those that are covered, each once.
LEMMA FieldsScanned ==
  ASSUME NEW api \in DOMAIN ScannedFields
  PROVE  LET fields == ScannedFields[api]
         IN  /\ Len(fields) \in Nat /\ DOMAIN fields = 1..Len(fields)
             /\ \A n \in 1..Len(fields) : fields[n] \in RecordedFields
             /\ \A n, m \in 1..Len(fields) : n # m => fields[n] # fields[m]
             /\ {fields[n] : n \in 1..Len(fields)} = CoveredFields[api]
<1> DEFINE fields == ScannedFields[api]
<1>1. \/ \E x \in RecordedFields : fields = <<x>> /\ CoveredFields[api] = {x}
      \/ /\ fields = <<"input", "signal_input">>
         /\ CoveredFields[api] = {"input", "signal_input"}
  BY DEF ScannedFields, CoveredFields, RecordedFields
<1> HIDE DEF fields
<1>2. CASE \E x \in RecordedFields : fields = <<x>> /\ CoveredFields[api] = {x}
  <2>1. PICK x \in RecordedFields : fields = <<x>> /\ CoveredFields[api] = {x}
    BY <1>2
  <2>2. Len(fields) = 1 /\ 1..1 = {1} /\ fields[1] = x /\ DOMAIN fields = {1}
    BY <2>1
  <2> QED
    BY <2>1, <2>2 DEF fields
<1>3. CASE fields = <<"input", "signal_input">> /\ CoveredFields[api] = {"input", "signal_input"}
  <2>1. /\ Len(fields) = 2 /\ 1..2 = {1, 2} /\ DOMAIN fields = {1, 2}
        /\ fields[1] = "input" /\ fields[2] = "signal_input"
    BY <1>3
  <2>2. {"input", "signal_input"} \subseteq RecordedFields
    BY DEF RecordedFields
  <2> QED
    BY <1>3, <2>1, <2>2 DEF fields
<1> QED
  BY <1>1, <1>2, <1>3

\* The places of a request, by its kind.
LEMMA PlacesByKind ==
  ASSUME NEW api, NEW body
  PROVE  /\ api \in DOMAIN ScannedFields =>
              PlacesOfSingle(api, body) =
                UNION {Places(0, f, body[f]) : f \in CoveredFields[api] \cup {"rest"}}
         /\ api = "RespondWorkflowTaskCompleted" =>
              PlacesOfSingle(api, body) =
                CommandPlaces(body.commands) \cup Places(0, "rest", body.rest)
         /\ api \in ScheduleAPIs =>
              PlacesOfSingle(api, body) =
                Places(0, "input", body.input) \cup Places(0, "rest", body.rest)
         /\ api \in FailureAPIs =>
              PlacesOfSingle(api, body) =
                FailurePlaces(body.failure)
                \cup Places(0, "heartbeat", body.last_heartbeat_details)
                \cup Places(0, "rest", body.rest)
         /\ /\ api \notin DOMAIN ScannedFields \cup ScheduleAPIs \cup FailureAPIs
            /\ api # "RespondWorkflowTaskCompleted"
            => PlacesOfSingle(api, body) = {}
<1>1. CASE api \in DOMAIN ScannedFields
  BY <1>1, KindsOfRequest DEF PlacesOfSingle
<1>2. CASE api = "RespondWorkflowTaskCompleted"
  BY <1>2, KindsOfRequest DEF PlacesOfSingle
<1>3. CASE api \in ScheduleAPIs
  BY <1>3, KindsOfRequest DEF PlacesOfSingle
<1>4. CASE api \in FailureAPIs
  BY <1>4, KindsOfRequest DEF PlacesOfSingle
<1>5. CASE /\ api \notin DOMAIN ScannedFields \cup ScheduleAPIs \cup FailureAPIs
           /\ api # "RespondWorkflowTaskCompleted"
  BY <1>5, KindsOfRequest DEF PlacesOfSingle
<1> QED
  BY <1>1, <1>2, <1>3, <1>4, <1>5

\* The requests whose fields are scanned.
LEMMA RecordsFields ==
  ASSUME NEW api \in DOMAIN ScannedFields, NEW body, IsSingleRequest(api, body)
  PROVE  Records(ScanFields(api, body), PlacesOfSingle(api, body))
<1> DEFINE fields == ScannedFields[api]
           n == Len(fields)
           s == [i \in DOMAIN fields |-> ScanPayloads(fields[i], body[fields[i]])]
           parts == [i \in 1..n |-> Places(0, fields[i], body[fields[i]])]
<1>1. /\ n \in Nat /\ DOMAIN fields = 1..n
      /\ \A i \in 1..n : fields[i] \in RecordedFields
      /\ \A i, j \in 1..n : i # j => fields[i] # fields[j]
      /\ {fields[i] : i \in 1..n} = CoveredFields[api]
  BY FieldsScanned
<1> HIDE DEF fields, n
<1>2. \A i \in 1..n : body[fields[i]] \in Payloads
  BY <1>1, KindsOfRequest DEF IsSingleRequest
<1>3. \A i \in 1..n : Records(s[i], parts[i])
  BY <1>1, <1>2, RecordsPayloads, RecordedNotPassedOver
<1>4. \A i, j \in 1..n : i # j => parts[i] \cap parts[j] = {}
  <2> SUFFICES ASSUME NEW i \in 1..n, NEW j \in 1..n, i # j PROVE parts[i] \cap parts[j] = {}
    OBVIOUS
  <2>1. fields[i] # fields[j]
    BY <1>1
  <2> QED
    BY <2>1, PlacesApart
<1>5. PlacesOfSingle(api, body) = Whole(parts, n) \cup Places(0, "rest", body["rest"])
  <2>1. PlacesOfSingle(api, body) =
          UNION {Places(0, f, body[f]) : f \in CoveredFields[api] \cup {"rest"}}
    BY PlacesByKind
  <2> QED
    BY <1>1, <2>1 DEF Whole
<1>6. s \in [1..n -> Seq(Recording)]
  BY <1>1, <1>3 DEF Records
<1>7. ScanFields(api, body) = FlattenSeq(s)
  BY DEF ScanFields, fields
<1> HIDE DEF s, parts
<1>8. Records(FlattenSeq(s), Whole(parts, n))
  BY <1>1, <1>3, <1>4, <1>6, RecordsAll
<1>9. Plain(Places(0, "rest", body["rest"])) = {}
  BY NothingPlain DEF PassedOver
<1>10. Records(FlattenSeq(s), Whole(parts, n) \cup Places(0, "rest", body["rest"]))
  BY <1>8, <1>9, RecordsAside
<1> QED
  BY <1>5, <1>7, <1>10

\* The commands of a completed workflow task.
LEMMA RecordsCommands ==
  ASSUME NEW commands, IsCommands(commands)
  PROVE  Records(ScanCommands(commands), CommandPlaces(commands))
<1> DEFINE n == Len(commands)
           s == [i \in DOMAIN commands |->
                   IF commands[i].type \in ScannedCommands
                     THEN ScanPayloads(commands[i].type, commands[i].payloads) ELSE <<>>]
           parts == [i \in 1..n |-> Places(i, commands[i].type, commands[i].payloads)
                                    \cup Places(i, "rest", commands[i].rest)]
<1>1. /\ n \in Nat /\ DOMAIN commands = 1..n
      /\ \A i \in 1..n : /\ commands[i].payloads \in Payloads
                         /\ \/ commands[i].type \in PayloadCommands
                            \/ commands[i].payloads = <<>>
  <2> DEFINE C == [type : CommandTypes, payloads : Payloads, rest : Payloads]
  <2>1. /\ commands \in Seq(C)
        /\ \A i \in 1..n : \/ commands[i].type \in PayloadCommands
                           \/ commands[i].payloads = <<>>
    BY DEF IsCommands
  <2>2. \A c \in C : c.payloads \in Payloads
    OBVIOUS
  <2> HIDE DEF C
  <2>3. n \in Nat /\ DOMAIN commands = 1..n /\ \A i \in 1..n : commands[i] \in C
    BY <2>1
  <2> QED
    BY <2>1, <2>2, <2>3
<1> HIDE DEF n
<1>2. ASSUME NEW i \in 1..n PROVE Records(s[i], parts[i])
  <2> DEFINE own == Places(i, commands[i].type, commands[i].payloads)
  <2>1. Records(s[i], own)
    <3>1. CASE commands[i].type \in ScannedCommands
      <4>1. commands[i].type \in RecordedFields
        BY <3>1 DEF RecordedFields
      <4>2. s[i] = ScanPayloads(commands[i].type, commands[i].payloads)
        BY <1>1, <3>1
      <4> HIDE DEF s
      <4> QED
        BY <1>1, <4>1, <4>2, RecordsPayloads, RecordedNotPassedOver
    <3>2. CASE commands[i].type \notin ScannedCommands
      <4>1. s[i] = <<>>
        BY <1>1, <3>2
      <4>2. commands[i].type \in PassedOver \/ commands[i].payloads = <<>>
        BY <1>1, <3>2 DEF PayloadCommands, ScannedCommands, PassedOver
      <4>3. Plain(own) = {}
        BY <4>2, NothingPlain
      <4>4. Records(<<>>, {} \cup own)
        BY <4>3, RecordsNothing, RecordsAside
      <4>5. {} \cup own = own
        OBVIOUS
      <4> HIDE DEF own, s
      <4> QED
        BY <4>1, <4>4, <4>5
    <3> QED
      BY <3>1, <3>2
  <2>2. Plain(Places(i, "rest", commands[i].rest)) = {}
    BY NothingPlain DEF PassedOver
  <2>3. parts[i] = own \cup Places(i, "rest", commands[i].rest)
    OBVIOUS
  <2> HIDE DEF own, s, parts
  <2> QED
    BY <2>1, <2>2, <2>3, RecordsAside
<1>3. \A i, j \in 1..n : i # j => parts[i] \cap parts[j] = {}
  BY DEF Places
<1>4. Whole(parts, n) = CommandPlaces(commands)
  BY <1>1 DEF Whole, CommandPlaces
<1>5. s \in [1..n -> Seq(Recording)]
  BY <1>1, <1>2 DEF Records
<1>6. ScanCommands(commands) = FlattenSeq(s)
  BY DEF ScanCommands
<1> HIDE DEF s, parts
<1>7. Records(FlattenSeq(s), Whole(parts, n))
  BY <1>1, <1>2, <1>3, <1>5, RecordsAll
<1> QED
  BY <1>4, <1>6, <1>7

\* The action of a schedule.
LEMMA RecordsSchedule ==
  ASSUME NEW api \in ScheduleAPIs, NEW body, IsSingleRequest(api, body)
  PROVE  Records(ScanScheduleAction(body), PlacesOfSingle(api, body))
<1>1. body.kind = "StartWorkflow" /\ body.input \in Payloads
  <2>1. body \in [kind : {"StartWorkflow"}, input : Payloads, rest : Payloads]
    BY DEF IsSingleRequest
  <2> QED
    BY <2>1
<1>2. "input" \in RecordedFields
  BY DEF RecordedFields
<1>3. Records(ScanPayloads("input", body.input), Places(0, "input", body.input))
  BY <1>1, <1>2, RecordsPayloads, RecordedNotPassedOver
<1>4. Plain(Places(0, "rest", body.rest)) = {}
  BY NothingPlain DEF PassedOver
<1>5. PlacesOfSingle(api, body) = Places(0, "input", body.input) \cup Places(0, "rest", body.rest)
  BY PlacesByKind
<1> QED
  BY <1>1, <1>3, <1>4, <1>5, RecordsAside DEF ScanScheduleAction

\* A failure and its chain of causes.
LEMMA RecordsFailure ==
  ASSUME NEW failure, IsFailure(failure)
  PROVE  Records(ScanFailure(failure), FailurePlaces(failure))
<1> DEFINE n == Len(failure)
           attributes(i) == ScanPayloads("encoded_attributes", failure[i].encoded_attributes)
           details(i) == IF failure[i].info \in DOMAIN DetailsField
                           THEN ScanPayloads(DetailsField[failure[i].info], failure[i].details)
                           ELSE <<>>
           s == [i \in DOMAIN failure |-> attributes(i) \o details(i)]
           parts == [i \in 1..n |->
                       Places(i, "attributes", failure[i].encoded_attributes)
                       \cup Places(i, failure[i].info, failure[i].details)]
<1>1. /\ n \in Nat /\ DOMAIN failure = 1..n
      /\ \A i \in 1..n : /\ failure[i].encoded_attributes \in Payloads
                         /\ failure[i].info \in FailureInfos
                         /\ failure[i].details \in Payloads
                         /\ \/ failure[i].info \in DetailedInfos
                            \/ failure[i].details = <<>>
  <2> DEFINE C == [encoded_attributes : Payloads, info : FailureInfos, details : Payloads]
  <2>1. /\ failure \in Seq(C)
        /\ \A i \in 1..n : failure[i].info \in DetailedInfos \/ failure[i].details = <<>>
    BY DEF IsFailure
  <2>2. \A c \in C : /\ c.encoded_attributes \in Payloads
                     /\ c.info \in FailureInfos /\ c.details \in Payloads
    OBVIOUS
  <2> HIDE DEF C
  <2>3. n \in Nat /\ DOMAIN failure = 1..n /\ \A i \in 1..n : failure[i] \in C
    BY <2>1
  <2> QED
    BY <2>1, <2>2, <2>3
<1> HIDE DEF n
<1>2. ASSUME NEW i \in 1..n PROVE Records(s[i], parts[i])
  <2>1. Records(attributes(i), Places(i, "attributes", failure[i].encoded_attributes))
    <3>1. "encoded_attributes" \in RecordedFields /\ "attributes" \notin PassedOver
      BY DEF RecordedFields, PassedOver
    <3> QED
      BY <1>1, <3>1, RecordsPayloads
  <2>2. DOMAIN DetailsField = {"Application", "Canceled", "Timeout"}
    BY DEF DetailsField
  <2>3. CASE failure[i].info \in DOMAIN DetailsField
    <3>1. DetailsField[failure[i].info] \in RecordedFields
      BY <2>3 DEF RecordedFields
    <3>2. failure[i].info \notin PassedOver /\ failure[i].info # "attributes"
      BY <2>2, <2>3 DEF PassedOver
    <3>3. Records(details(i), Places(i, failure[i].info, failure[i].details))
      BY <1>1, <2>3, <3>1, <3>2, RecordsPayloads
    <3> HIDE DEF attributes, details
    <3>4. Records(attributes(i) \o details(i), parts[i])
      BY <2>1, <3>2, <3>3, PlacesApart, RecordsBoth
    <3> QED
      BY <1>1, <3>4
  <2>4. CASE failure[i].info \notin DOMAIN DetailsField
    <3>1. failure[i].info \in PassedOver \/ failure[i].details = <<>>
      BY <1>1, <2>2, <2>4 DEF DetailedInfos, PassedOver
    <3>2. Plain(Places(i, failure[i].info, failure[i].details)) = {}
      BY <3>1, NothingPlain
    <3>3. Records(attributes(i), parts[i])
      <4> HIDE DEF attributes
      <4> QED
        BY <2>1, <3>2, RecordsAside
    <3>4. attributes(i) \in Seq(Recording) /\ details(i) = <<>>
      BY <2>1, <2>4 DEF Records
    <3>5. s[i] = attributes(i) \o <<>>
      <4> HIDE DEF attributes
      <4> QED
        BY <1>1, <2>4
    <3> HIDE DEF attributes, details, s
    <3>6. s[i] = attributes(i)
      BY <3>4, <3>5
    <3> QED
      BY <3>3, <3>6
  <2> QED
    BY <2>3, <2>4
<1>3. \A i, j \in 1..n : i # j => parts[i] \cap parts[j] = {}
  BY DEF Places
<1>4. Whole(parts, n) = FailurePlaces(failure)
  BY <1>1 DEF Whole, FailurePlaces
<1>5. s \in [1..n -> Seq(Recording)]
  BY <1>1, <1>2 DEF Records
<1>6. ScanFailure(failure) = FlattenSeq(s)
  BY DEF ScanFailure
<1> HIDE DEF s, parts
<1>7. Records(FlattenSeq(s), Whole(parts, n))
  BY <1>1, <1>2, <1>3, <1>5, RecordsAll
<1> QED
  BY <1>4, <1>6, <1>7

\* Any request but an ExecuteMultiOperation.
LEMMA RecordsSingle ==
  ASSUME NEW api, NEW body, IsSingleRequest(api, body)
  PROVE  Records(CheckSingle(api, body), PlacesOfSingle(api, body))
<1>1. CASE api \in DOMAIN ScannedFields
  <2>1. CheckSingle(api, body) = ScanFields(api, body)
    BY <1>1, KindsOfRequest DEF CheckSingle, FailureAPIs
  <2> QED
    BY <1>1, <2>1, RecordsFields
<1>2. CASE api = "RespondWorkflowTaskCompleted"
  <2>1. CheckSingle(api, body) = ScanCommands(body.commands)
    BY <1>2, KindsOfRequest DEF CheckSingle
  <2>2. Records(ScanCommands(body.commands), CommandPlaces(body.commands))
    BY <1>2, RecordsCommands DEF IsSingleRequest
  <2>3. Plain(Places(0, "rest", body.rest)) = {}
    BY NothingPlain DEF PassedOver
  <2>4. PlacesOfSingle(api, body) =
          CommandPlaces(body.commands) \cup Places(0, "rest", body.rest)
    BY <1>2, PlacesByKind
  <2> QED
    BY <2>1, <2>2, <2>3, <2>4, RecordsAside
<1>3. CASE api \in ScheduleAPIs
  <2>1. CheckSingle(api, body) = ScanScheduleAction(body)
    BY <1>3, KindsOfRequest DEF CheckSingle, FailureAPIs
  <2> QED
    BY <1>3, <2>1, RecordsSchedule
<1>4. CASE api \in FailureAPIs
  <2> DEFINE causes == FailurePlaces(body.failure)
             heartbeat == Places(0, "heartbeat", body.last_heartbeat_details)
             rest == Places(0, "rest", body.rest)
  <2>1. /\ IsFailure(body.failure) /\ body.last_heartbeat_details \in Payloads
        /\ api = "RespondActivityTaskFailed" \/ body.last_heartbeat_details = <<>>
    BY <1>4 DEF IsSingleRequest
  <2>2. Records(ScanFailure(body.failure), causes)
    BY <2>1, RecordsFailure
  <2>3. PlacesOfSingle(api, body) = (causes \cup heartbeat) \cup rest
    BY <1>4, PlacesByKind
  <2>4. Plain(rest) = {}
    BY NothingPlain DEF PassedOver
  <2>5. Records(CheckSingle(api, body), causes \cup heartbeat)
    <3>1. CASE api = "RespondActivityTaskFailed"
      <4> DEFINE recorded == ScanPayloads("last_heartbeat_details", body.last_heartbeat_details)
      <4>1. CheckSingle(api, body) = ScanFailure(body.failure) \o recorded
        BY <3>1, KindsOfRequest DEF CheckSingle, FailureAPIs
      <4>2. "last_heartbeat_details" \in RecordedFields /\ "heartbeat" \notin PassedOver
        BY DEF RecordedFields, PassedOver
      <4>3. Records(recorded, heartbeat)
        BY <2>1, <4>2, RecordsPayloads
      <4>4. causes \cap heartbeat = {}
        <5>1. \A i \in DOMAIN body.failure : i # 0
          <6>1. body.failure \in Seq([encoded_attributes : Payloads, info : FailureInfos,
                                      details : Payloads])
            BY <2>1 DEF IsFailure
          <6> QED
            BY <6>1
        <5> QED
          BY <5>1 DEF FailurePlaces, Places
      <4> HIDE DEF recorded, heartbeat, causes
      <4> QED
        BY <2>2, <4>1, <4>3, <4>4, RecordsBoth
    <3>2. CASE api # "RespondActivityTaskFailed"
      <4>1. CheckSingle(api, body) = ScanFailure(body.failure)
        BY <1>4, <3>2, KindsOfRequest DEF CheckSingle, FailureAPIs
      <4>2. Plain(heartbeat) = {}
        BY <2>1, <3>2, NothingPlain
      <4> HIDE DEF heartbeat, causes
      <4> QED
        BY <2>2, <4>1, <4>2, RecordsAside
    <3> QED
      BY <3>1, <3>2
  <2> HIDE DEF causes, heartbeat, rest
  <2> QED
    BY <2>3, <2>4, <2>5, RecordsAside
<1>5. CASE /\ api \notin DOMAIN ScannedFields \cup ScheduleAPIs \cup FailureAPIs
           /\ api # "RespondWorkflowTaskCompleted"
  <2>1. CheckSingle(api, body) = <<>>
    BY <1>5 DEF CheckSingle, FailureAPIs
  <2>2. PlacesOfSingle(api, body) = {}
    BY <1>5, PlacesByKind
  <2> QED
    BY <2>1, <2>2, RecordsNothing
<1> QED
  BY <1>1, <1>2, <1>3, <1>4, <1>5

\* The places of P as those of the n-th part of a request.
Part(n, P) == {<<n, place>> : place \in P}

\* There are as many.
LEMMA PartsAreAsMany ==
  ASSUME NEW n, NEW P, IsFiniteSet(P)
  PROVE  IsFiniteSet(Part(n, P)) /\ Cardinality(Part(n, P)) = Cardinality(P)
<1> DEFINE f == [place \in P |-> <<n, place>>]
<1>1. f \in Bijection(P, Part(n, P))
  BY DEF Part, Bijection, Injection, IsInjective, Surjection
<1>2. ExistsBijection(P, Part(n, P))
  BY <1>1 DEF ExistsBijection
<1> QED
  BY <1>2, FS_Bijection

\* The ones of a part that are to be recorded.
LEMMA PlainPart ==
  ASSUME NEW n, NEW P
  PROVE  {p \in Part(n, P) : p[2][4] \in UnencryptedEncodings /\ p[2][2] \notin PassedOver}
           = Part(n, Plain(P))
BY DEF Part, Plain

\* What PlainPayloads counts.
LEMMA PlainOf ==
  ASSUME NEW api, NEW body
  PROVE  PlainPayloads(api, body) =
           Cardinality({p \in PlacesOf(api, body) :
                          p[2][4] \in UnencryptedEncodings /\ p[2][2] \notin PassedOver})
<1>1. {p \in UnencryptedPlaces(api, body) : p[2][2] \notin PassedOver} =
        {p \in PlacesOf(api, body) :
           p[2][4] \in UnencryptedEncodings /\ p[2][2] \notin PassedOver}
  BY DEF UnencryptedPlaces
<1> QED
  BY <1>1 DEF PlainPayloads

\* Of every request of the server's API check records each unencrypted payload once,
\* whatever the number and nesting of fields, commands, causes and operations, except
\* those at PassedOver, of which it records none: headers, memos and the like, the
\* commands with no case and the details of a ResetWorkflow failure
\* (plaintext_payload.go, check, lines 71-197).
THEOREM EachPayloadOnce ==
  ASSUME NEW api, NEW body, IsRequest(api, body)
  PROVE  /\ Check(api, body) \in Seq(Recording)
         /\ Len(Check(api, body)) = PlainPayloads(api, body)
<1>1. CASE api # "ExecuteMultiOperation"
  <2> DEFINE P == PlacesOfSingle(api, body)
  <2>1. Check(api, body) = CheckSingle(api, body) /\ IsSingleRequest(api, body)
    BY <1>1 DEF Check, IsRequest
  <2>2. Records(CheckSingle(api, body), P)
    BY <2>1, RecordsSingle
  <2>3. PlacesOf(api, body) = Part(0, P)
    BY <1>1 DEF PlacesOf, Part
  <2> HIDE DEF P
  <2>4. PlainPayloads(api, body) = Cardinality(Part(0, Plain(P)))
    BY <2>3, PlainPart, PlainOf
  <2> QED
    BY <2>1, <2>2, <2>4, PartsAreAsMany DEF Records
<1>2. CASE api = "ExecuteMultiOperation"
  <2> DEFINE n == Len(body)
             s == [i \in DOMAIN body |-> CheckSingle(body[i].api, body[i].body)]
             P(i) == PlacesOfSingle(body[i].api, body[i].body)
             W == [i \in 1..n |-> Part(i, Plain(P(i)))]
  <2>1. /\ n \in Nat /\ DOMAIN body = 1..n
        /\ \A i \in 1..n : IsSingleRequest(body[i].api, body[i].body)
    BY <1>2 DEF IsRequest
  <2> HIDE DEF n
  <2>2. \A i \in 1..n : Records(s[i], P(i))
    BY <2>1, RecordsSingle
  <2>3. s \in Seq(Seq(Recording)) /\ Len(s) = n
    BY <2>1, <2>2 DEF Records
  <2>4. \A i \in 1..n : IsFiniteSet(W[i]) /\ Cardinality(W[i]) = Len(s[i])
    <3> SUFFICES ASSUME NEW i \in 1..n PROVE IsFiniteSet(W[i]) /\ Cardinality(W[i]) = Len(s[i])
      OBVIOUS
    <3> HIDE DEF P, s
    <3> QED
      BY <2>2, PartsAreAsMany DEF Records
  <2>5. \A i, j \in 1..n : i # j => W[i] \cap W[j] = {}
    BY DEF Part
  <2>6. PlacesOf(api, body) = UNION {Part(i, P(i)) : i \in 1..n}
    BY <1>2, <2>1 DEF PlacesOf, Part
  <2>7. Check(api, body) = FlattenSeq(s)
    BY <1>2 DEF Check
  <2> HIDE DEF P
  <2> DEFINE Counted(p) == p[2][4] \in UnencryptedEncodings /\ p[2][2] \notin PassedOver
  <2>8. {p \in PlacesOf(api, body) : Counted(p)} = Whole(W, n)
    <3>1. \A i \in 1..n : {p \in Part(i, P(i)) : Counted(p)} = W[i]
      BY PlainPart
    <3> HIDE DEF W, Counted
    <3>2. {p \in PlacesOf(api, body) : Counted(p)} =
            UNION {{p \in Part(i, P(i)) : Counted(p)} : i \in 1..n}
      BY <2>6
    <3> QED
      BY <3>1, <3>2 DEF Whole
  <2> HIDE DEF s, W
  <2>9. /\ FlattenSeq(s) \in Seq(Recording)
        /\ Cardinality(Whole(W, n)) = Len(FlattenSeq(s))
    BY <2>3, <2>4, <2>5, FlattenCounts
  <2> QED
    BY <2>7, <2>8, <2>9, PlainOf
<1> QED
  BY <1>1, <1>2
=============================================================================
