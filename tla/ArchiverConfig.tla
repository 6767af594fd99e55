--------------------------- MODULE ArchiverConfig ---------------------------
(***************************************************************************)
(* The status filter of images/server/archiver/config.go, which the        *)
(* history and the visibility archiver share.                              *)
(***************************************************************************)

CONSTANTS
  Statuses,        \* values of statusNameToEnum, the terminal statuses
  AllowedStatuses  \* Config.AllowedStatuses; {} when none is configured

\* ParseConfig refuses a status it does not know.
ASSUME StatusAssumption == AllowedStatuses \subseteq Statuses

\* An empty filter allows every status.
StatusAllowed(s) == AllowedStatuses = {} \/ s \in AllowedStatuses
=============================================================================
