------------------------ MODULE MCVisibilityArchiver ------------------------
(***************************************************************************)
(* Instances of VisibilityArchiver for TLC: three closed runs, two of them *)
(* closed in the same nanosecond.  The factors and the least size of a     *)
(* batch are cut down so that three records take several batches.          *)
(***************************************************************************)
EXTENDS VisibilityArchiver, TLC

CONSTANTS a, b, c

MCCloseTime == a :> 1 @@ b :> 1 @@ c :> 2
MCShortRunID == a :> 1 @@ b :> 2 @@ c :> 1
=============================================================================
