------------------------------ MODULE Listing ------------------------------
(***************************************************************************)
(* What the visibility archive promises a client that reads it page by     *)
(* page, without keys, tokens, batches or failed calls.  Records only join *)
(* the archive.  A page holds records of the archive that the client asked *)
(* for, in order and later than all it has received.  If everything it     *)
(* asked for fits in one page, it is told that there is no more only when  *)
(* nothing that was there at the beginning is missing, except for records  *)
(* the store could not give.                                               *)
(***************************************************************************)
EXTENDS Integers, Sequences, FiniteSets

CONSTANTS
  Records,
  Earlier(_, _)  \* the order of records

VARIABLES
  archived,  \* the records in the archive
  wanted,    \* the records the client asks for
  fits,      \* one page can hold all that is wanted
  phase,     \* of the reading: "new", "open", "done" or "refused"
  owed,      \* wanted records that were there when the reading began
  received   \* the records received, in the order they came

vars == <<archived, wanted, fits, phase, owed, received>>

InOrder(s) == \A i, j \in 1..Len(s) : i < j => Earlier(s[i], s[j])

\* The records of one page, in any order.
Pages ==
  UNION {[1..n -> archived \cap wanted] : n \in 0..Cardinality(archived)}

Init ==
  /\ archived = {} /\ owed = {}
  /\ wanted \in SUBSET Records /\ fits \in BOOLEAN
  /\ phase = "new" /\ received = << >>

Store(r) ==
  /\ archived' = archived \cup {r}
  /\ UNCHANGED <<wanted, fits, phase, owed, received>>

Begin ==
  /\ phase = "new" /\ phase' \in {"open", "refused"}
  /\ owed' = archived \cap wanted
  /\ UNCHANGED <<archived, wanted, fits, received>>

\* The store cannot give r.
Lose(r) ==
  /\ phase = "open"
  /\ owed' = owed \ {r}
  /\ UNCHANGED <<archived, wanted, fits, phase, received>>

Deliver(page) ==
  /\ phase = "open" /\ phase' \in {"open", "done"}
  /\ received' = received \o page
  /\ InOrder(received')
  /\ phase' = "done" /\ fits => owed \subseteq {received'[i] : i \in 1..Len(received')}
  /\ UNCHANGED <<archived, wanted, fits, owed>>

Next ==
  \/ \E r \in Records : Store(r) \/ Lose(r)
  \/ Begin
  \/ \E page \in Pages : Deliver(page)

Spec == Init /\ [][Next]_vars
=============================================================================
