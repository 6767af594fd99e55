------------------------------- MODULE MCTools -------------------------------
(***************************************************************************)
(* The two programs beside the server, which share nothing: an instance of *)
(* DexLogin and one of HealthPoller, side by side.                         *)
(***************************************************************************)
EXTENDS DexLogin, HealthPoller

MCKindOf ==
  [c \in Callbacks |-> CASE c \in {"login", "reload"} -> "good"
                         [] c = "other" -> "forged"
                         [] OTHER -> "empty"]

LoginRuns == LoginNext /\ UNCHANGED pollerVars
PollerRuns == PollerNext /\ UNCHANGED loginVars

ToolsInit == LoginInit /\ PollerInit
ToolsNext == LoginRuns \/ PollerRuns

ToolsSpec ==
  /\ ToolsInit /\ [][ToolsNext]_<<loginVars, pollerVars>>
  /\ LoginFairness /\ PollerFairness
=============================================================================
