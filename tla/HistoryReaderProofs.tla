------------------------- MODULE HistoryReaderProofs -------------------------
(***************************************************************************)
(* Proofs about HistoryReader: for every page size, every number of close  *)
(* versions, uploads, lost buckets and failed calls, a history of up to    *)
(* 256 batches is read in order and to the end.                            *)
(***************************************************************************)
EXTENDS HistoryReader, SequenceTheorems, TLAPS

\* The archived histories have at most as many batches as a byte can index.
ShortHistories == \A n \in Lengths : n <= 256

\* Prefixes, batch by batch.
LEMMA PrefixPointwise ==
  ASSUME NEW S, NEW s \in Seq(S), NEW t \in Seq(S), Len(s) <= Len(t)
  PROVE  IsPrefix(s, t) <=> \A i \in 1..Len(s) : s[i] = t[i]
<1>1. /\ SubSeq(s, 1, Len(s)) \in Seq(S) /\ SubSeq(t, 1, Len(s)) \in Seq(S)
      /\ Len(SubSeq(s, 1, Len(s))) = Len(s) /\ Len(SubSeq(t, 1, Len(s))) = Len(s)
      /\ \A i \in 1..Len(s) : SubSeq(s, 1, Len(s))[i] = s[i]
      /\ \A i \in 1..Len(s) : SubSeq(t, 1, Len(s))[i] = t[i]
  OBVIOUS
<1>2. ASSUME \A i \in 1..Len(s) : s[i] = t[i]
      PROVE  SubSeq(s, 1, Len(s)) = SubSeq(t, 1, Len(s))
  BY <1>1, <1>2
<1> QED
  BY <1>1, <1>2 DEF IsPrefix

\* Sequences with the same elements are the same.
LEMMA SameElements ==
  ASSUME NEW S, NEW s \in Seq(S), NEW t \in Seq(S), Len(s) = Len(t),
         \A i \in 1..Len(t) : s[i] = t[i]
  PROVE  s = t
OBVIOUS

\* A byte holds the numbers below 256.
LEMMA SmallByte ==
  ASSUME NEW k \in Nat, k < 256
  PROVE  Byte(k) = k /\ <<k>> \in [{1} -> 0..255] /\ <<k>> # << >> /\ StartIdx(<<k>>) = k
BY DEF Byte, StartIdx

\* A function on an initial interval is a sequence.
LEMMA FunctionIsSequence ==
  ASSUME NEW S, NEW k \in Nat, NEW f \in [1..k -> S]
  PROVE  f \in Seq(S) /\ Len(f) = k
OBVIOUS

\* The content of a key is a non-empty sequence of short batches.
LEMMA WantedType ==
  ASSUME ShortHistories, TypeOK
  PROVE  /\ VersionAsked \in Version
         /\ Wanted \in Seq(Version \X Nat)
         /\ Len(Wanted) \in Nat \ {0} /\ Len(Wanted) <= 256
         /\ \A i \in 1..Len(Wanted) : Wanted[i] = <<VersionAsked, i>>
<1>1. VersionAsked \in Version
  BY ReaderBoundAssumption DEF TypeOK, VersionAsked, Version
<1>2. batches[VersionAsked] \in Lengths
  BY <1>1 DEF TypeOK
<1>3. batches[VersionAsked] \in Nat \ {0} /\ batches[VersionAsked] <= 256
  BY <1>2, LengthAssumption DEF ShortHistories
<1>4. Wanted = [i \in 1..batches[VersionAsked] |-> <<VersionAsked, i>>]
  BY DEF Wanted, Content
<1>5. Wanted \in [1..batches[VersionAsked] -> Version \X Nat]
  BY <1>1, <1>3, <1>4
<1>6. Wanted \in Seq(Version \X Nat) /\ Len(Wanted) = batches[VersionAsked]
  BY <1>3, <1>5, FunctionIsSequence
<1>7. \A i \in 1..Len(Wanted) : Wanted[i] = <<VersionAsked, i>>
  BY <1>4, <1>6
<1> QED
  BY <1>1, <1>3, <1>6, <1>7

\* The initial states are well typed.
LEMMA InitialTypes ==
  ASSUME Init PROVE TypeOK
BY DEF Init, TypeOK

\* One page: the client gets the batches that follow those it has.
LEMMA PageStep ==
  ASSUME ShortHistories, TypeOK, ReaderInv, GetPage
  PROVE  TypeOK' /\ ReaderInv'
<1> DEFINE n == Len(Wanted)
           start == StartIdx(token)
           size == request.pageSize
           end == EndIdx(start, size, n)
           page == SubSeq(Wanted, start + 1, end)
<1>1. /\ status = "reading" /\ start = Len(out) /\ start < n /\ IsPrefix(out, Wanted)
      /\ UNCHANGED <<batches, stored, request, faults>>
  BY DEF GetPage, ReaderInv
<1>2. /\ start \in Nat /\ n \in Nat \ {0} /\ n <= 256 /\ size \in Nat \ {0}
      /\ out \in Seq(Version \X Nat) /\ Wanted \in Seq(Version \X Nat)
  <2>1. request.pageSize \in PageSizes
    BY DEF TypeOK
  <2>2. out \in Seq(Version \X Nat)
    BY DEF TypeOK
  <2>3. Len(out) \in Nat
    BY <2>2
  <2>4. size \in Nat \ {0}
    BY <2>1, PageSizeAssumption
  <2> QED
    BY <1>1, <2>2, <2>3, <2>4, WantedType
<1>3. /\ token' = NextToken(start, size, n) /\ out' = out \o page
      /\ status' = IF token' = << >> THEN "done" ELSE "reading"
  <2>1. ~(start >= n)
    BY <1>1, <1>2
  <2> QED
    BY <2>1 DEF GetPage
<1>4. end \in (start + 1)..n /\ (end = n \/ end = start + size)
  BY <1>1, <1>2 DEF EndIdx
<1>5. /\ page \in Seq(Version \X Nat) /\ Len(page) = end - start
      /\ \A i \in 1..(end - start) : page[i] = Wanted[start + i]
  <2>1. start + 1 \in 1..n /\ end \in 1..n /\ end \in Nat
    BY <1>1, <1>2, <1>4
  <2> HIDE DEF start, end
  <2> QED
    BY <1>2, <1>4, <2>1
<1>6. /\ out' \in Seq(Version \X Nat) /\ Len(out') = end
      /\ \A i \in 1..end : out'[i] = Wanted[i]
  <2>1. \A i \in 1..start : out[i] = Wanted[i]
    <3>1. Len(out) <= Len(Wanted)
      BY <1>1, <1>2
    <3>2. \A i \in 1..Len(out) : out[i] = Wanted[i]
      BY <1>1, <1>2, <3>1, PrefixPointwise
    <3> QED
      BY <1>1, <3>2
  <2> HIDE DEF page, end, start, n, size
  <2>2. /\ out \o page \in Seq(Version \X Nat)
        /\ Len(out \o page) = Len(out) + Len(page)
        /\ \A i \in 1..(Len(out) + Len(page)) :
             (out \o page)[i] = IF i <= Len(out) THEN out[i] ELSE page[i - Len(out)]
    BY <1>2, <1>5, ConcatProperties
  <2>3. Len(out) = start /\ Len(page) = end - start /\ end \in Nat /\ start \in Nat
    BY <1>1, <1>2, <1>4, <1>5 DEF n
  <2>4. ASSUME NEW i \in 1..end PROVE (out \o page)[i] = Wanted[i]
    <3>1. CASE i <= start
      BY <2>1, <2>2, <2>3, <3>1
    <3>2. CASE i > start
      <4>1. i - start \in 1..(end - start)
        BY <2>3, <3>2
      <4>2. page[i - start] = Wanted[start + (i - start)]
        BY <1>5, <4>1
      <4> QED
        BY <2>2, <2>3, <3>2, <4>1, <4>2
    <3> QED
      BY <2>3, <3>1, <3>2
  <2> QED
    BY <1>3, <2>2, <2>3, <2>4
<1>7. Wanted' = Wanted
  BY <1>1 DEF Wanted, Content, VersionAsked
<1>8. IsPrefix(out', Wanted)
  <2>1. Len(out') <= Len(Wanted) /\ \A i \in 1..Len(out') : out'[i] = Wanted[i]
    BY <1>2, <1>4, <1>6
  <2> QED
    BY <1>2, <1>6, <2>1, PrefixPointwise
<1>9. CASE start + size < n
  <2>1. start + size \in Nat /\ start + size < 256 /\ end = start + size
    BY <1>2, <1>9 DEF EndIdx
  <2>2. token' = <<end>> /\ token' \in [{1} -> 0..255] /\ token' # << >>
        /\ StartIdx(token') = end
    BY <1>3, <1>9, <2>1, SmallByte DEF NextToken
  <2>3. status' = "reading"
    BY <1>3, <2>2
  <2>4. ReaderInv'
    BY <1>2, <1>6, <1>7, <1>8, <1>9, <2>1, <2>2, <2>3 DEF ReaderInv, StartIdx
  <2> QED
    BY <1>1, <1>6, <2>2, <2>3, <2>4 DEF TypeOK
<1>10. CASE ~(start + size < n)
  <2>1. token' = << >> /\ status' = "done" /\ end = n
    BY <1>3, <1>10 DEF NextToken, EndIdx
  <2>2. out' = Wanted
    BY <1>2, <1>6, <2>1, SameElements
  <2>3. ReaderInv'
    BY <1>7, <1>8, <2>1, <2>2 DEF ReaderInv
  <2> QED
    BY <1>1, <1>6, <2>1, <2>3 DEF TypeOK
<1> QED
  BY <1>9, <1>10

\* For histories of at most 256 batches the reader keeps its types and its place.
THEOREM ReaderInductive ==
  ASSUME ShortHistories
  PROVE  Spec => [](TypeOK /\ ReaderInv)
<1>1. Init => TypeOK /\ ReaderInv
  <2> SUFFICES ASSUME Init PROVE TypeOK /\ ReaderInv
    OBVIOUS
  <2>1. TypeOK
    BY InitialTypes
  <2>2. out = << >> /\ token = << >> /\ status = "reading" /\ Len(Wanted) \in Nat \ {0} /\ Len(Wanted) <= 256
    BY <2>1, WantedType DEF Init
  <2>3. IsPrefix(out, Wanted)
    BY <2>2 DEF IsPrefix
  <2> QED
    BY <2>1, <2>2, <2>3 DEF ReaderInv, StartIdx
<1>2. TypeOK /\ ReaderInv /\ [Next]_vars => (TypeOK /\ ReaderInv)'
  <2> SUFFICES ASSUME TypeOK, ReaderInv, [Next]_vars PROVE (TypeOK /\ ReaderInv)'
    OBVIOUS
  <2>1. CASE GetPage
    BY <2>1, PageStep
  <2>2. CASE GetNotFound
    BY <2>2 DEF GetNotFound, TypeOK, ReaderInv, Wanted, Content, VersionAsked
  <2>3. ASSUME UNCHANGED <<batches, request, token, out, status>>,
               stored' \in SUBSET Version, faults' \in Nat
        PROVE  (TypeOK /\ ReaderInv)'
    <3>1. Wanted' = Wanted /\ StartIdx(token)' = StartIdx(token)
      BY <2>3 DEF Wanted, Content, VersionAsked, StartIdx
    <3>2. ReaderInv'
      BY <2>3, <3>1 DEF ReaderInv
    <3> QED
      BY <2>3, <3>2 DEF TypeOK
  <2>5. CASE GetUnavailable \/ LoseBucket
    <3>1. faults' = faults + 1 /\ faults \in Nat /\ stored' \in SUBSET Version
          /\ UNCHANGED <<batches, request, token, out, status>>
      BY <2>5 DEF GetUnavailable, LoseBucket, TypeOK
    <3> QED
      BY <2>3, <3>1
  <2>6. CASE \E v \in Version : Upload(v)
    <3>1. stored' \in SUBSET Version /\ faults' = faults
          /\ UNCHANGED <<batches, request, token, out, status>> /\ faults \in Nat
      BY <2>6 DEF Upload, TypeOK
    <3> QED
      BY <2>3, <3>1
  <2>4. CASE UNCHANGED vars
    BY <2>4 DEF vars, TypeOK, ReaderInv, Wanted, Content, VersionAsked, StartIdx
  <2> QED
    BY <2>1, <2>2, <2>4, <2>5, <2>6 DEF Next, Get
<1> QED
  BY <1>1, <1>2, PTL DEF Spec

\* A client never receives a batch twice, out of order or from another history,
\* and stops only when it has them all.
THEOREM ReadsWholeHistory ==
  ASSUME ShortHistories
  PROVE  Spec => []ReadsWhole
<1>1. ReaderInv => ReadsWhole
  BY DEF ReaderInv, ReadsWhole, ReadsInOrder, DoneIsWhole
<1> QED
  BY <1>1, ReaderInductive, PTL

\* A client that gets no further token has the whole history, whatever the page
\* size and whatever was lost or uploaded between its pages (paginateHistories).
THEOREM EndsWithWholeHistory ==
  ASSUME ShortHistories
  PROVE  Spec => []DoneIsWhole
<1>1. ReadsWhole => DoneIsWhole
  BY DEF ReadsWhole
<1> QED
  BY <1>1, ReadsWholeHistory, PTL

\* Type correctness of the reader: in particular a token is one byte, and reading
\* goes on from the batch after the last one received (paginateHistories).
THEOREM ReaderTypeCorrect ==
  ASSUME ShortHistories
  PROVE  Spec => []TypeOK
<1> QED
  BY ReaderInductive, PTL
=============================================================================
