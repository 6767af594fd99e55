---------------------------- MODULE ArchiveStore ----------------------------
(***************************************************************************)
(* What the history archive promises its users, without iterators, blobs,  *)
(* retries or crashes.  An object appears whole, in one step, and only for *)
(* a history somebody asked to archive and whose status is not filtered    *)
(* out; a history is deleted only when it is secured.                      *)
(***************************************************************************)
EXTENDS ArchiveData

VARIABLES
  history,   \* the current history of each run
  deleted,   \* runs whose history the server has deleted
  requests,  \* the pairs <<run, history>> archival was requested for
  objects    \* the bucket: the history stored under each key, << >> if none

vars == <<history, deleted, requests, objects>>

\* Nothing is lost when h is deleted: it is stored, or meant not to be.
Secured(r, h) ==
  Filtered(h) \/ objects[HistoryKey(r, CloseVersion(h))] = h

Init ==
  /\ history \in [Runs -> History]
  /\ \A r \in Runs : WellFormed(history[r])
  /\ deleted = {}
  /\ requests = {}
  /\ objects = [k \in Key |-> << >>]

Request(r) ==
  /\ requests' = requests \cup {<<r, history[r]>>}
  /\ UNCHANGED <<history, deleted, objects>>

Rewrite(r) ==
  /\ r \notin deleted
  /\ IsRewriting(history[r], history'[r])
  /\ history' = [history EXCEPT ![r] = history'[r]]
  /\ UNCHANGED <<deleted, requests, objects>>

Store(r, h) ==
  /\ <<r, h>> \in requests
  /\ ~Filtered(h)
  /\ objects' = [objects EXCEPT ![HistoryKey(r, CloseVersion(h))] = h]
  /\ UNCHANGED <<history, deleted, requests>>

Delete(r) ==
  /\ Secured(r, history[r])
  /\ deleted' = deleted \cup {r}
  /\ UNCHANGED <<history, requests, objects>>

Next ==
  \/ \E r \in Runs : Request(r) \/ Rewrite(r) \/ Delete(r)
  \/ \E rh \in requests : Store(rh[1], rh[2])

Spec == Init /\ [][Next]_vars
=============================================================================
