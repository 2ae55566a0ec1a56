--------------------------- MODULE BackupController ---------------------------
(***************************************************************************)
(* backupController (pkg/controller/backup_controller.go) for one Backup:  *)
(* controller instances, each with its own informer cache and work queue,  *)
(* running processBackup: read the Backup from the cache, validate, patch  *)
(* the phase to InProgress or FailedValidation, run the backup, patch the  *)
(* final phase.  patchBackup sends a JSON merge patch computed from two    *)
(* copies of the object, so it carries no resourceVersion precondition.   *)
(* processBackup is split at its API calls, where other instances may act. *)
(***************************************************************************)
EXTENDS Naturals, Sequences

CONSTANTS
    Controllers,      \* controller instances sharing the API server
    Faults,           \* subset of {"patch", "patchlost", "finalpatch", "backup",
                      \*            "upload", "crash", "delete"}
    MaxFaults         \* bound on injected failures and crashes

New == "New"
InProgress == "InProgress"
Terminal == {"Completed", "Failed", "FailedValidation"}

VARIABLES
    history,   \* every version of the Backup the API server has stored
    seen,      \* c -> index into history of the version in c's informer cache (0: none)
    queued,    \* c -> the Backup's key is in c's work queue
    pc,        \* c -> "idle", "patch", "run", "final"
    orig,      \* c -> the `original` processBackup holds
    req,       \* c -> the `request.Backup` processBackup holds
    tracker,   \* c -> the key is in c's backupTracker
    runs,      \* sequence of the controllers that ran runBackup, in order
    faults     \* injected failures so far

vars == <<history, seen, queued, pc, orig, req, tracker, runs, faults>>

Server == history[Len(history)]
Cached(c) == history[seen[c]]
\* valid: getLocationAndValidate and defaultAndValidateSnapshotLocations find
\* no error in the Backup's spec and the locations it names
Backup(phase, rv, valid) == [phase |-> phase, rv |-> rv, valid |-> valid, deleted |-> FALSE]
NoBackup == Backup("", 0, FALSE)
\* the Backup is gone from the server, or from c's cache after the delete
\* event: lister Get and patch calls answer NotFound
Exists(b) == ~b.deleted
Fault(f) == f \in Faults /\ faults < MaxFaults

\* jsonpatch.CreateMergePatch(original, updated) applied by the server: the
\* fields that differ between the two copies overwrite the stored ones; the
\* server then bumps resourceVersion.  resourceVersion is equal in both copies
\* so it is not in the patch and the server checks nothing.
MergePatch(stored, original, updated) ==
    [stored EXCEPT !.phase = IF original.phase # updated.phase THEN updated.phase ELSE @,
                   !.rv = @ + 1]

Init ==
    /\ history \in {<<Backup(New, 1, v)>> : v \in BOOLEAN}
    /\ seen = [c \in Controllers |-> 0]
    /\ queued = [c \in Controllers |-> FALSE]
    /\ pc = [c \in Controllers |-> "idle"]
    /\ orig = [c \in Controllers |-> NoBackup]
    /\ req = [c \in Controllers |-> NoBackup]
    /\ tracker = [c \in Controllers |-> FALSE]
    /\ runs = <<>>
    /\ faults = 0

\* the informer lists the current version (an Add event: the AddFunc handler
\* enqueues a Backup in phase New) or delivers the next watch event (an
\* update, which no handler enqueues)
Informer(c) ==
    /\ seen[c] < Len(history)
    /\ \/ /\ seen[c] = 0
          /\ seen' = [seen EXCEPT ![c] = Len(history)]
          /\ queued' = [queued EXCEPT ![c] = @ \/ (Exists(Server) /\ Server.phase \in {"", New})]
       \/ /\ seen[c] > 0
          /\ seen' = [seen EXCEPT ![c] = @ + 1]
          /\ UNCHANGED queued
    /\ UNCHANGED <<history, pc, orig, req, tracker, runs, faults>>

\* genericController re-adds the key after processBackup returned an error
Requeue(c) == queued' = [queued EXCEPT ![c] = TRUE]
Finish(c) == pc' = [pc EXCEPT ![c] = "idle"]

\* processBackup up to the first patch: lister Get, the phase check,
\* validation, and the phase of the request.  A lister error is returned, and
\* genericController requeues the key.
ProcessBackup(c) ==
    /\ pc[c] = "idle" /\ queued[c]
    /\ \/ /\ ~Exists(Cached(c))
          /\ UNCHANGED <<queued, pc, orig, req>>
       \/ /\ Exists(Cached(c)) /\ Cached(c).phase \notin {"", New}
          /\ queued' = [queued EXCEPT ![c] = FALSE]
          /\ UNCHANGED <<pc, orig, req>>
       \/ /\ Exists(Cached(c)) /\ Cached(c).phase \in {"", New}
          /\ queued' = [queued EXCEPT ![c] = FALSE]
          /\ orig' = [orig EXCEPT ![c] = Cached(c)]
          /\ req' = [req EXCEPT ![c] =
                       [Cached(c) EXCEPT !.phase = IF Cached(c).valid THEN InProgress
                                                   ELSE "FailedValidation"]]
          /\ pc' = [pc EXCEPT ![c] = "patch"]
    /\ UNCHANGED <<history, seen, tracker, runs, faults>>

\* patchBackup to InProgress / FailedValidation; an error is returned to
\* genericController, which requeues the key.  The server may have rejected
\* the patch, or applied it and the response been lost.  On success the
\* returned object becomes both original and request; a FailedValidation
\* backup is done.
PatchPhase(c) ==
    /\ pc[c] = "patch"
    /\ \/ /\ ~Exists(Server)
          /\ Requeue(c) /\ Finish(c)
          /\ UNCHANGED <<history, orig, req, tracker, faults>>
       \/ /\ Exists(Server) /\ Fault("patch")
          /\ faults' = faults + 1
          /\ Requeue(c) /\ Finish(c)
          /\ UNCHANGED <<history, orig, req, tracker>>
       \/ /\ Exists(Server) /\ Fault("patchlost")
          /\ faults' = faults + 1
          /\ history' = Append(history, MergePatch(Server, orig[c], req[c]))
          /\ Requeue(c) /\ Finish(c)
          /\ UNCHANGED <<orig, req, tracker>>
       \/ /\ Exists(Server)
          /\ LET updated == MergePatch(Server, orig[c], req[c]) IN
             /\ history' = Append(history, updated)
             /\ orig' = [orig EXCEPT ![c] = updated]
             /\ req' = [req EXCEPT ![c] = updated]
             /\ IF updated.phase = "FailedValidation"
                THEN Finish(c) /\ UNCHANGED tracker
                ELSE /\ pc' = [pc EXCEPT ![c] = "run"]
                     /\ tracker' = [tracker EXCEPT ![c] = TRUE]
          /\ UNCHANGED <<queued, faults>>
    /\ UNCHANGED <<seen, runs>>

\* runBackup: Backup, then PutBackup; either error fails the backup
\* mutant: a PutBackup error is returned but does not fail the backup
RunBackupKeepsPhase(c) ==
    /\ pc[c] = "run"
    /\ runs' = Append(runs, c)
    /\ \E failed \in {FALSE} \cup (IF Fault("backup") \/ Fault("upload") THEN {TRUE} ELSE {}) :
          /\ req' = [req EXCEPT ![c].phase = IF failed THEN @ ELSE "Completed"]
          /\ faults' = IF failed THEN faults + 1 ELSE faults
    /\ pc' = [pc EXCEPT ![c] = "final"]
    /\ UNCHANGED <<history, seen, queued, orig, tracker>>

RunBackup(c) ==
    /\ pc[c] = "run"
    /\ runs' = Append(runs, c)
    /\ \E failed \in {FALSE} \cup (IF Fault("backup") \/ Fault("upload") THEN {TRUE} ELSE {}) :
          /\ req' = [req EXCEPT ![c].phase = IF failed THEN "Failed" ELSE "Completed"]
          /\ faults' = IF failed THEN faults + 1 ELSE faults
    /\ pc' = [pc EXCEPT ![c] = "final"]
    /\ UNCHANGED <<history, seen, queued, orig, tracker>>

\* the final patchBackup; an error is only logged.  The deferred
\* backupTracker.Delete runs as processBackup returns nil.
\* mutant: a failed final patch is returned to genericController and retried
PatchFinalRetry(c) ==
    /\ pc[c] = "final"
    /\ \/ /\ ~Exists(Server)
          /\ Requeue(c)
          /\ UNCHANGED <<faults, history>>
       \/ /\ Exists(Server) /\ Fault("finalpatch")
          /\ faults' = faults + 1
          /\ Requeue(c)
          /\ UNCHANGED history
       \/ /\ Exists(Server)
          /\ history' = Append(history, MergePatch(Server, orig[c], req[c]))
          /\ UNCHANGED <<faults, queued>>
    /\ tracker' = [tracker EXCEPT ![c] = FALSE]
    /\ Finish(c)
    /\ UNCHANGED <<seen, orig, req, runs>>

PatchFinal(c) ==
    /\ pc[c] = "final"
    /\ \/ /\ ~Exists(Server)
          /\ UNCHANGED <<faults, history>>
       \/ /\ Exists(Server) /\ Fault("finalpatch")
          /\ faults' = faults + 1
          /\ UNCHANGED history
       \/ /\ Exists(Server)
          /\ history' = Append(history, MergePatch(Server, orig[c], req[c]))
          /\ UNCHANGED faults
    /\ tracker' = [tracker EXCEPT ![c] = FALSE]
    /\ Finish(c)
    /\ UNCHANGED <<seen, queued, orig, req, runs>>

\* the ark server process of controller c stops and is started again: the
\* informer cache, the work queue, the backupTracker and the running
\* processBackup are gone
Crash(c) ==
    /\ Fault("crash")
    /\ faults' = faults + 1
    /\ seen' = [seen EXCEPT ![c] = 0]
    /\ queued' = [queued EXCEPT ![c] = FALSE]
    /\ pc' = [pc EXCEPT ![c] = "idle"]
    /\ orig' = [orig EXCEPT ![c] = NoBackup]
    /\ req' = [req EXCEPT ![c] = NoBackup]
    /\ tracker' = [tracker EXCEPT ![c] = FALSE]
    /\ UNCHANGED <<history, runs>>

\* the Backup is deleted through the API server (kubectl, or the backup
\* deletion controller, which is not under src/)
Delete ==
    /\ Exists(Server) /\ Fault("delete")
    /\ faults' = faults + 1
    /\ history' = Append(history, [Server EXCEPT !.deleted = TRUE, !.rv = @ + 1])
    /\ UNCHANGED <<seen, queued, pc, orig, req, tracker, runs>>

Worker(c) == ProcessBackup(c) \/ PatchPhase(c) \/ RunBackup(c) \/ PatchFinal(c)

\* every instance waits on an empty queue with an up-to-date cache
Quiescent ==
    /\ \A c \in Controllers : pc[c] = "idle" /\ ~queued[c] /\ seen[c] = Len(history)
    /\ UNCHANGED vars

Next ==
    \/ \E c \in Controllers : Informer(c) \/ Worker(c) \/ Crash(c)
    \/ Delete
    \/ Quiescent

\* every worker keeps taking keys off its queue and every informer keeps
\* delivering events; crashes and failures owe nothing
Fairness == \A c \in Controllers : WF_vars(Worker(c)) /\ WF_vars(Informer(c))

Spec == Init /\ [][Next]_vars /\ Fairness

(***************************************************************************)
(* Properties                                                              *)
(***************************************************************************)

Phases == {"", New, InProgress} \cup Terminal
TypeOK ==
    /\ history \in Seq([phase : Phases, rv : Nat, valid : BOOLEAN, deleted : BOOLEAN])
    /\ history # <<>>
    /\ seen \in [Controllers -> 0..Len(history)]
    /\ queued \in [Controllers -> BOOLEAN] /\ tracker \in [Controllers -> BOOLEAN]
    /\ pc \in [Controllers -> {"idle", "patch", "run", "final"}]
    /\ runs \in Seq(Controllers) /\ faults \in 0..MaxFaults

\* the comment in processBackup (lines 156-163): when several controller
\* instances process the same new Backup, only the one whose InProgress patch
\* succeeds runs it; the backup is run at most once
AtMostOneRun == Len(runs) <= 1

\* a new Backup eventually reaches a terminal phase and stays there
EventuallyTerminal == <>[](Server.phase \in Terminal)

=============================================================================
