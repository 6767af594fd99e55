------------------------- MODULE MCHistoryArchiver -------------------------
(***************************************************************************)
(* Instances of HistoryArchiver for TLC: tasks and runs are model values,  *)
(* the statuses two of the six, one of which the filter allows.            *)
(***************************************************************************)
EXTENDS HistoryArchiver, TLC

CONSTANTS t1, t2, r1, r2

\* Two tasks for one run: a duplicate archival signal.
MCDuplicate == t1 :> r1 @@ t2 :> r1

\* Two tasks for two runs.
MCSeparate == t1 :> r1 @@ t2 :> r2

MCSymmetry == Permutations({t1, t2})
=============================================================================
