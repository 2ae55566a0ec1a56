------------------------- MODULE MCBackupController -------------------------
(***************************************************************************)
(* Model values for the backup controller: one instance (the supported    *)
(* deployment) or two instances of the server sharing the API server.     *)
(***************************************************************************)
EXTENDS BackupController

CONSTANTS c1, c2

OneController == {c1}
TwoControllers == {c1, c2}

\* every failure of a call, restarts of the server process, and a deletion
\* of the Backup
AllFaults == {"patch", "patchlost", "finalpatch", "backup", "upload", "crash", "delete"}
\* failures after which processBackup reports an error or a failed phase
ReportedFaults == {"patch", "backup", "upload"}
\* a first patch applied by the server whose response is lost
LostResponse == {"patchlost"}
NoFaults == {}

=============================================================================
