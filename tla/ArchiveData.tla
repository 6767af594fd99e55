---------------------------- MODULE ArchiveData ----------------------------
(***************************************************************************)
(* The data the archivers of images/server/archiver work on: closed        *)
(* workflow histories and the object key of keys.go.  A history is a       *)
(* sequence of event batches; a batch is reduced to its last event, the    *)
(* only one the archiver looks at: its id (the batch's position), its      *)
(* failover version, and the status that event type stands for (OtherEvent *)
(* when it is not a terminal event type).                                  *)
(***************************************************************************)
EXTENDS Integers, Sequences, ArchiverConfig

CONSTANTS
  Runs,             \* workflow executions (namespace, workflow id, run id)
  OtherEvent,       \* any event type eventTypeToStatus does not map
  MaxVersion        \* bound: the highest failover version a run reaches

\* The values of eventTypeToStatus are the statuses of config.go.
ASSUME OtherEventAssumption == OtherEvent \notin Statuses
ASSUME VersionAssumption == MaxVersion \in Nat

Version == 0..MaxVersion

EventType == Statuses \cup {OtherEvent}

Batch == [id : Nat \ {0}, version : Version, type : EventType]

History == Seq(Batch)

\* A history as the server's persistence keeps it: event ids count up from 1
\* and failover versions never decrease.
WellFormed(h) ==
  /\ Len(h) > 0
  /\ \A i \in 1..Len(h) : h[i].id = i
  /\ \A i, j \in 1..Len(h) : i < j => h[i].version <= h[j].version

LastBatch(h) == h[Len(h)]

\* The failover version a closed history ends with: the CloseFailoverVersion of
\* a request made for it.
CloseVersion(h) == LastBatch(h).version

Key == Runs \X Version

\* Seeded fault: the key leaves the close failover version out.
MutHistoryKey(r, version) == <<r, 0>>

\* keys.go: namespace, workflow and run identify the run; the close failover
\* version is the only other field of the key.
HistoryKey(r, version) == <<r, version>>

\* terminalStatus reports ok = FALSE for an event type it does not know.
TerminalStatusKnown(h) == LastBatch(h).type \in Statuses

\* Archive skips a history exactly when its status is known and not allowed.
Filtered(h) == TerminalStatusKnown(h) /\ ~StatusAllowed(LastBatch(h).type)

(***************************************************************************)
(* A closed run can still be replaced by conflict resolution after a       *)
(* failover: a prefix of its batches survives and the rest is rewritten    *)
(* under a higher failover version.  This is the mutation historyMutated   *)
(* guards against; the rewriting itself is the Temporal server's.          *)
(***************************************************************************)
Rewriting(h, keep, len, s) ==
  [i \in 1..len |->
     IF i <= keep THEN h[i]
     ELSE [id |-> i, version |-> CloseVersion(h) + 1,
           type |-> IF i = len THEN s ELSE OtherEvent]]

IsRewriting(h, g) ==
  /\ Len(g) > 0 /\ CloseVersion(h) < MaxVersion
  /\ \E keep \in 0..(Len(h) - 1), s \in EventType :
       keep < Len(g) /\ g = Rewriting(h, keep, Len(g), s)
=============================================================================
