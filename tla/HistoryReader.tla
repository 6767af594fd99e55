--------------------------- MODULE HistoryReader ---------------------------
(***************************************************************************)
(* MinioHistoryArchiver.Get and paginateHistories of images/server/        *)
(* archiver/history_archiver.go, called by a client that reads an archived *)
(* history page by page until it gets no token back.                       *)
(*                                                                         *)
(* Get keeps nothing between calls: each page downloads the object again   *)
(* and all that ties two calls together is the token, one byte.  Between   *)
(* calls the object may be uploaded (again), and the bucket may be lost:   *)
(* the chart gives MinIO an emptyDir.  What is stored under a key never    *)
(* changes (StoredIsFinal of HistoryArchiver).                             *)
(***************************************************************************)
EXTENDS Integers, Sequences, SequencesExt

CONSTANTS
  Lengths,    \* possible numbers of batches of an archived history
  PageSizes,  \* possible request.PageSize
  MaxVersion, \* bound: close failover versions
  NoVersion,  \* a request whose CloseFailoverVersion is nil
  MaxFaults   \* bound: failed calls and lost buckets

ASSUME LengthAssumption == Lengths \subseteq Nat \ {0}
\* ValidateGetRequest refuses a page size that is not positive.
ASSUME PageSizeAssumption == PageSizes \subseteq Nat \ {0}
ASSUME ReaderBoundAssumption == MaxVersion \in Nat /\ MaxFaults \in Nat
ASSUME NoVersionAssumption == NoVersion \notin 0..MaxVersion

Version == 0..MaxVersion

VARIABLES
  batches,   \* the number of batches of the run's history per close version
  stored,   \* close versions whose object is in the bucket
  request,  \* the client's GetHistoryRequest, less its token
  token,    \* NextPageToken: << >> or one byte
  out,      \* the batches the client has received
  status,   \* of the client: "reading", "done" or "notfound"
  faults

vars == <<batches, stored, request, token, out, status, faults>>

\* The batches of the history archived under version v.
Content(v) == [i \in 1..batches[v] |-> <<v, i>>]

\* A nil CloseFailoverVersion reads the object of version 0.
VersionAsked ==
  IF request.version = NoVersion THEN 0 ELSE request.version

Wanted == Content(VersionAsked)

Init ==
  /\ batches \in [Version -> Lengths]
  /\ stored \in SUBSET Version
  /\ request \in [version : Version \cup {NoVersion}, pageSize : PageSizes]
  /\ token = << >>
  /\ out = << >>
  /\ status = "reading"
  /\ faults = 0

\* Archive uploads the object, or a retry or duplicate uploads it again.
Upload(v) ==
  /\ stored' = stored \cup {v}
  /\ UNCHANGED <<batches, request, token, out, status, faults>>

\* The MinIO pod is replaced and its emptyDir with it.
LoseBucket ==
  /\ faults < MaxFaults
  /\ faults' = faults + 1
  /\ stored' = {}
  /\ UNCHANGED <<batches, request, token, out, status>>

-----------------------------------------------------------------------------
(* paginateHistories.                                                      *)

\* Seeded fault: a token is read back as a signed byte.
MutByte(n) == IF n % 256 < 128 THEN n % 256 ELSE (n % 256) - 256

\* Conversion of an int to a Go byte.
Byte(n) == n % 256

StartIdx(tok) == IF Len(tok) = 1 THEN tok[1] ELSE 0

\* Seeded fault: the last page is one batch short of a full one.
MutEndIdx(start, size, n) == IF start + size < n THEN start + size ELSE n - 1

EndIdx(start, size, n) == IF start + size < n THEN start + size ELSE n

\* Seeded fault: the token is the index of the last batch returned.
MutNextToken(start, size, n) ==
  IF start + size < n THEN <<Byte(start + size - 1)>> ELSE << >>

NextToken(start, size, n) ==
  IF start + size < n THEN <<Byte(start + size)>> ELSE << >>

\* Get, with the token the client got last.  An empty token ends the reading, and
\* so does a start index beyond the history, which gives an empty page.
GetPage ==
  LET n == Len(Wanted)
      start == StartIdx(token)
  IN
  /\ status = "reading"
  /\ VersionAsked \in stored
  /\ IF start >= n
       THEN /\ token' = << >>
            /\ UNCHANGED out
       ELSE /\ token' = NextToken(start, request.pageSize, n)
            /\ out' = out \o SubSeq(Wanted, start + 1,
                                    EndIdx(start, request.pageSize, n))
  /\ status' = IF token' = << >> THEN "done" ELSE "reading"
  /\ UNCHANGED <<batches, stored, request, faults>>

\* Seeded fault: a missing object is taken for an unavailable one, and the client
\* asks again.
MutGetNotFound ==
  /\ status = "reading"
  /\ VersionAsked \notin stored
  /\ UNCHANGED vars

\* NoSuchKey: the client is told the history does not exist.
GetNotFound ==
  /\ status = "reading"
  /\ VersionAsked \notin stored
  /\ status' = "notfound"
  /\ UNCHANGED <<batches, stored, request, token, out, faults>>

\* Any other error of the store (Unavailable), or an object that does not decompress
\* or decode (Internal), as after a damaged download: the client asks again.
GetUnavailable ==
  /\ status = "reading"
  /\ faults < MaxFaults
  /\ faults' = faults + 1
  /\ UNCHANGED <<batches, stored, request, token, out, status>>

Get == GetPage \/ GetNotFound

Next ==
  \/ \E v \in Version : Upload(v)
  \/ LoseBucket \/ Get \/ GetUnavailable

Spec == Init /\ [][Next]_vars

\* The client goes on until it gets no token back, and Get returns.
FairSpec == Spec /\ WF_vars(Get)

-----------------------------------------------------------------------------

\* Type invariant: a token holds one byte.
TypeOK ==
  /\ batches \in [Version -> Lengths]
  /\ stored \in SUBSET Version
  /\ request \in [version : Version \cup {NoVersion}, pageSize : PageSizes]
  /\ token = << >> \/ token \in [{1} -> 0..255]
  /\ out \in Seq(Version \X Nat)
  /\ status \in {"reading", "done", "notfound"}
  /\ faults \in Nat

\* However many pages it takes, what a client has read so far is the beginning of
\* the archived history: no batch twice, none left out, none of another version.
ReadsInOrder == IsPrefix(out, Wanted)

\* A client that gets no further token has read the whole history.
DoneIsWhole == status = "done" => out = Wanted

\* Both: reading page by page gives the history that was archived.
ReadsWhole == ReadsInOrder /\ DoneIsWhole

\* Reading ends: the tokens never lead a client round in a circle.
ReadingEnds == <>(status # "reading")

\* Pages a reader has to turn to read n batches, size at a time.
PageTurns(n, size) == (n + size - 1) \div size - 1

\* archiver/README.md:436-438: the token "limits pagination to 255 page turns", so a
\* history that takes no more than those is read in order.
WithinLimitReadsInOrder ==
  PageTurns(Len(Wanted), request.pageSize) <= 255 => IsPrefix(out, Wanted)

\* The inductive invariant behind ReadsInOrder and DoneIsWhole: the token, read
\* back, is the number of batches received.
ReaderInv ==
  /\ IsPrefix(out, Wanted)
  /\ status = "reading" => StartIdx(token) = Len(out) /\ Len(out) < Len(Wanted)
  /\ status = "done" => out = Wanted
=============================================================================
