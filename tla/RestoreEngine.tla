---------------------------- MODULE RestoreEngine ----------------------------
(***************************************************************************)
(* The restore engine of pkg/restore/restore.go: context.restoreFromArchive *)
(* walking the prioritized resource types and namespaces, restoreResource  *)
(* handling each item (PV provisioning, PV restore from snapshot, PVC      *)
(* rebinding, item actions, create and conflict resolution), the readiness *)
(* goroutines joined by resourceWaitGroup and the restic goroutines joined *)
(* by globalWaitGroup.  The cluster is the environment: a PV may become    *)
(* Available, another client may delete an object.  Passes > 1 runs the   *)
(* same restore again against the cluster the first one left.             *)
(***************************************************************************)
EXTENDS Naturals, Sequences, FiniteSets, TLC

CONSTANTS
    Order,          \* prioritizedResources: a sequence of GroupResources
    ClusterScoped,  \* GroupResources whose archive directory is cluster-scoped
    Archive,        \* item id -> [res, ns, name, ok, match, completed, mirror,
                    \*             snap, reclaim, vn, podvol, secrets]
    ItemOrder,      \* all item ids, in ReadDir order
    NsOrder,        \* all archive namespaces, in ReadDir order
    NamespaceFilter,           \* [includes, excludes] of the restore spec
    NamespaceMapping,          \* restore.Spec.NamespaceMapping
    IncludeClusterResources,   \* "true", "false" or "nil" (a *bool)
    Actions,        \* action id -> [resources, namespaces, selects]
    ActionOutcomes, \* subset of {"none", "mutate", "warn", "error", "warnerr"}
    SnapshotVolumes, RestorePVs,   \* "true", "false" or "nil" (*bool)
    BlockStoreConfigured, ResticConfigured,
    InitialCluster, \* key -> object already live before the restore
    Faults,         \* collaborator calls that may fail: subset of
                    \* {"selector", "priorities", "actions", "resticfactory",
                    \*  "archive", "namespace", "list", "client", "watch",
                    \*  "blockstore", "create", "sapatch", "restic"}
    MaxExternalDeletes,
    Passes

Items == DOMAIN Archive
PV == "persistentvolumes"
PVC == "persistentvolumeclaims"
SA == "serviceaccounts"

\* collections.IncludesExcludes.ShouldInclude (not under src/)
ShouldInclude(ie, x) ==
    /\ x \notin ie.excludes
    /\ ie.includes = {} \/ "*" \in ie.includes \/ x \in ie.includes

IsSetToFalse(b) == b = "false"

MappedNs(ns) == IF ns \in DOMAIN NamespaceMapping THEN NamespaceMapping[ns] ELSE ns
KeyOf(res, ns, name) == [res |-> res, ns |-> ns, name |-> name]
Scope(ns) == IF ns = "" THEN "cluster" ELSE ns

\* the archive's resource directories, and ListContents(res, ns)
InArchive(res) == \E i \in Items : Archive[i].res = res
ListContents(res, ns) == SelectSeq(ItemOrder,
                           LAMBDA i : Archive[i].res = res /\ Archive[i].ns = ns)
ListNamespaces(res) == SelectSeq(NsOrder,
                           LAMBDA n : \E i \in Items : Archive[i].res = res /\ Archive[i].ns = n)

\* isCompleted: a Pod in phase Failed/Succeeded, a Job with a completionTime
IsCompleted(i) == Archive[i].res \in {"pods", "jobs"} /\ Archive[i].completed

VARIABLES
    \* the main goroutine
    pc, pass, ri, nsq, call, queue, client, watch, cur,
    \* per-restore sets of the context
    existingNamespaces, pvsToProvision,
    \* the cluster and the block store
    live, nsLive, available, nextVol, deletes,
    \* restoreResource's local results, and Restore's
    callWarn, callErr, warnings, errs,
    \* goroutines and watches
    pvTasks, resticTasks, watches,
    \* history, for the properties
    restored, pvOutcome, timedOut, volumes

loopVars == <<pc, pass, ri, nsq, call, queue, client, watch, cur>>
ctxVars == <<existingNamespaces, pvsToProvision>>
clusterVars == <<live, nsLive, available, nextVol, deletes>>
resultVars == <<callWarn, callErr, warnings, errs>>
taskVars == <<pvTasks, resticTasks, watches>>
histVars == <<restored, pvOutcome, timedOut, volumes>>
vars == <<loopVars, ctxVars, clusterVars, resultVars, taskVars, histVars>>

Entry(scope, kind, i) ==
    [scope |-> scope, kind |-> kind, item |-> i, res |-> call.res, ns |-> call.ns, pass |-> pass]
\* addToResult(&r, namespace, err) for the current call
ItemEntry(kind, i) == Entry(Scope(call.ns), kind, i)
\* addArkError
ArkEntry(kind, i) == Entry("ark", kind, i)

Init ==
    /\ pc = "start" /\ pass = 1 /\ ri = 1 /\ nsq = <<>>
    /\ call = [res |-> "", ns |-> "", no |-> 0]
    /\ queue = <<>> /\ client = FALSE /\ watch = FALSE /\ cur = "none"
    /\ existingNamespaces = {} /\ pvsToProvision = {}
    /\ live = InitialCluster
    /\ nsLive = {k.ns : k \in DOMAIN InitialCluster} \ {""}
    /\ available = {} /\ nextVol = 1 /\ deletes = 0
    /\ callWarn = {} /\ callErr = {} /\ warnings = {} /\ errs = {}
    /\ pvTasks = {} /\ resticTasks = {} /\ watches = 0
    /\ restored = {} /\ pvOutcome = {} /\ timedOut = {} /\ volumes = {}

(***************************************************************************)
(* kubernetesRestorer.Restore, up to restoreCtx.execute()                  *)
(***************************************************************************)

\* the calls of Restore that may fail, in order: LabelSelectorAsSelector,
\* prioritizeResources, resolveActions, and NewRestorer when a restic
\* restorer factory is configured
PreambleSteps ==
    <<"selector", "priorities", "actions">> \o
        (IF ResticConfigured THEN <<"resticfactory">> ELSE <<>>)

\* each failure returns one Ark error before anything has been changed; the
\* pod volume timeout annotation only falls back to the server's value
Restore ==
    /\ pc = "start"
    /\ \/ \E n \in 1..Len(PreambleSteps) :
            /\ PreambleSteps[n] \in Faults
            /\ errs' = errs \cup {[ArkEntry(PreambleSteps[n], "none") EXCEPT !.res = "", !.ns = ""]}
            /\ pc' = "done"
       \/ pc' = "resource" /\ UNCHANGED errs
    /\ UNCHANGED <<pass, ri, nsq, call, queue, client, watch, cur, ctxVars, clusterVars,
                   callWarn, callErr, warnings, taskVars, histVars>>

(***************************************************************************)
(* restoreFromArchive: the loop over resource types and namespaces         *)
(***************************************************************************)

\* enter restoreResource(res, ns)
StartCall(res, ns) ==
    /\ pc' = "call"
    /\ call' = [res |-> res, ns |-> ns, no |-> call.no + 1]

\* an archive read error returns from restoreFromArchive at once: the
\* deferred watch.Stop runs, globalWaitGroup is never waited on
\* mutant: the archive error is not recorded
ArchiveFailureSilent ==
    /\ "archive" \in Faults
    /\ errs' = errs
    /\ pc' = "done" /\ watches' = 0

ArchiveFailure ==
    /\ "archive" \in Faults
    /\ errs' = errs \cup {ArkEntry("archive", "none")}
    /\ pc' = "done" /\ watches' = 0

NextResource ==
    /\ pc = "resource"
    /\ ri <= Len(Order)
    /\ LET res == Order[ri] IN
       \/ /\ res = "namespaces" \/ ~InArchive(res)
          /\ ri' = ri + 1
          /\ UNCHANGED <<pc, call, nsq, errs, watches>>
       \/ /\ res # "namespaces"
          /\ ArchiveFailure
          /\ UNCHANGED <<ri, call, nsq>>
       \/ /\ res # "namespaces" /\ InArchive(res) /\ res \in ClusterScoped
          /\ StartCall(res, "")
          /\ UNCHANGED <<ri, nsq, errs, watches>>
       \/ /\ res # "namespaces" /\ InArchive(res) /\ res \notin ClusterScoped
          /\ nsq' = ListNamespaces(res)
          /\ pc' = "namespaces"
          /\ UNCHANGED <<ri, call, errs, watches>>
    /\ UNCHANGED <<pass, queue, client, watch, cur, ctxVars, clusterVars,
                   callWarn, callErr, warnings, pvTasks, resticTasks, histVars>>

\* getNamespace + kube.EnsureNamespaceExists (get-or-create), then the
\* namespace is known to exist; on an error the namespace is skipped
\* mutant: a failed EnsureNamespaceExists does not skip the namespace
EnsureNamespaceExistsNoSkip(mapped) ==
    \/ /\ nsLive' = nsLive \cup {mapped}
       /\ existingNamespaces' = existingNamespaces \cup {mapped}
       /\ StartCall(Order[ri], mapped)
       /\ UNCHANGED errs
    \/ /\ "namespace" \in Faults
       /\ errs' = errs \cup {[scope |-> "ark", kind |-> "namespace", item |-> "none",
                              res |-> Order[ri], ns |-> mapped, pass |-> pass]}
       /\ StartCall(Order[ri], mapped)
       /\ UNCHANGED <<existingNamespaces, nsLive>>

\* mutant: a failed EnsureNamespaceExists still records the namespace as existing
EnsureNamespaceExistsRecordsFailed(mapped) ==
    \/ /\ nsLive' = nsLive \cup {mapped}
       /\ existingNamespaces' = existingNamespaces \cup {mapped}
       /\ StartCall(Order[ri], mapped)
       /\ UNCHANGED errs
    \/ /\ "namespace" \in Faults
       /\ errs' = errs \cup {[scope |-> "ark", kind |-> "namespace", item |-> "none",
                              res |-> Order[ri], ns |-> mapped, pass |-> pass]}
       /\ existingNamespaces' = existingNamespaces \cup {mapped}
       /\ UNCHANGED <<pc, call, nsLive>>

EnsureNamespaceExists(mapped) ==
    \/ /\ nsLive' = nsLive \cup {mapped}
       /\ existingNamespaces' = existingNamespaces \cup {mapped}
       /\ StartCall(Order[ri], mapped)
       /\ UNCHANGED errs
    \/ /\ "namespace" \in Faults
       /\ errs' = errs \cup {[scope |-> "ark", kind |-> "namespace", item |-> "none",
                              res |-> Order[ri], ns |-> mapped, pass |-> pass]}
       /\ UNCHANGED <<pc, call, existingNamespaces, nsLive>>

\* one namespace of a namespace-scoped type: filter, map, ensure it exists
NextNamespace ==
    /\ pc = "namespaces"
    /\ nsq # <<>>
    /\ LET nsName == Head(nsq)
           mapped == MappedNs(nsName)
       IN
       \/ /\ ~ShouldInclude(NamespaceFilter, nsName)
          /\ UNCHANGED <<pc, call, existingNamespaces, nsLive, errs>>
       \/ /\ ShouldInclude(NamespaceFilter, nsName)
          /\ mapped \in existingNamespaces
          /\ StartCall(Order[ri], mapped)
          /\ UNCHANGED <<existingNamespaces, nsLive, errs>>
       \/ /\ ShouldInclude(NamespaceFilter, nsName)
          /\ mapped \notin existingNamespaces
          /\ EnsureNamespaceExists(mapped)
    /\ nsq' = Tail(nsq)
    /\ UNCHANGED <<pass, ri, queue, client, watch, cur, pvsToProvision, live,
                   available, nextVol, deletes, callWarn, callErr, warnings,
                   taskVars, histVars>>

\* after the last namespace: resourceWaitGroup.Wait()
WaitResource ==
    /\ pc = "namespaces" /\ nsq = <<>>
    /\ pvTasks = {}
    /\ pc' = "resource" /\ ri' = ri + 1
    /\ UNCHANGED <<pass, nsq, call, queue, client, watch, cur, ctxVars,
                   clusterVars, resultVars, taskVars, histVars>>

\* every restic goroutine of this restore has returned
GlobalWaitDone(p) == \A t \in resticTasks : t.pass = p => t.state # "running"

\* after the last type: globalWaitGroup.Wait(), fold its errors into Ark
\* errors, then the deferred watch.Stop()
WaitGlobal ==
    /\ pc = "resource" /\ ri > Len(Order)
    /\ GlobalWaitDone(pass)
    /\ errs' = errs \cup {[scope |-> "ark", kind |-> "restic", item |-> t.item,
                           res |-> "pods", ns |-> t.ns, pass |-> pass] :
                          t \in {u \in resticTasks : u.pass = pass /\ u.state = "failed"}}
    /\ watches' = 0
    /\ pc' = "done"
    /\ UNCHANGED <<pass, ri, nsq, call, queue, client, watch, cur, ctxVars,
                   clusterVars, callWarn, callErr, warnings, pvTasks, resticTasks,
                   histVars>>

(***************************************************************************)
(* restoreResource                                                         *)
(***************************************************************************)

\* return from restoreResource: its local results are merged into Restore's
\* (merge); a cluster-scoped call goes on to the next type without waiting
\* on resourceWaitGroup, a namespace-scoped one to the next namespace
\* mutant: restoreResource's warnings are dropped by the merge
ReturnFromCallNoWarnings ==
    /\ warnings' = warnings
    /\ errs' = errs \cup callErr
    /\ callWarn' = {} /\ callErr' = {}
    /\ IF call.ns = ""
       THEN pc' = "resource" /\ ri' = ri + 1
       ELSE pc' = "namespaces" /\ UNCHANGED ri

\* mutant: every return moves on to the next resource type
ReturnFromCallNextType ==
    /\ warnings' = warnings \cup callWarn
    /\ errs' = errs \cup callErr
    /\ callWarn' = {} /\ callErr' = {}
    /\ pc' = IF call.ns = "" THEN "resource" ELSE "namespaces"
    /\ ri' = ri + 1

ReturnFromCall ==
    /\ warnings' = warnings \cup callWarn
    /\ errs' = errs \cup callErr
    /\ callWarn' = {} /\ callErr' = {}
    /\ IF call.ns = ""
       THEN pc' = "resource" /\ ri' = ri + 1
       ELSE pc' = "namespaces" /\ UNCHANGED ri

\* the checks at the top of restoreResource, then ListContents
RestoreResourceStart ==
    /\ pc = "call"
    /\ \/ /\ IsSetToFalse(IncludeClusterResources) /\ call.ns = ""
          /\ ReturnFromCall /\ UNCHANGED <<queue, client, watch>>
       \/ /\ ~(IsSetToFalse(IncludeClusterResources) /\ call.ns = "")
          \* the directory of (res, ns) is missing, or ReadDir fails
          /\ ListContents(call.res, call.ns) = <<>> \/ "list" \in Faults
          /\ callWarn' = {} /\ callErr' = {}
          /\ errs' = errs \cup {ItemEntry("list", "none")}
          /\ warnings' = warnings
          /\ IF call.ns = "" THEN pc' = "resource" /\ ri' = ri + 1
                             ELSE pc' = "namespaces" /\ UNCHANGED ri
          /\ UNCHANGED <<queue, client, watch>>
       \/ /\ ~(IsSetToFalse(IncludeClusterResources) /\ call.ns = "")
          /\ ListContents(call.res, call.ns) # <<>>
          /\ queue' = ListContents(call.res, call.ns)
          /\ client' = FALSE /\ watch' = FALSE
          /\ pc' = "items"
          /\ UNCHANGED <<ri, resultVars>>
    /\ UNCHANGED <<pass, nsq, call, cur, ctxVars, clusterVars, taskVars, histVars>>

\* the actions whose resource and namespace filters admit this call
ApplicableActions ==
    {a \in DOMAIN Actions :
        /\ ShouldInclude(Actions[a].resources, call.res)
        /\ call.ns = "" \/ ShouldInclude(Actions[a].namespaces, call.ns)}

\* the object restoreResource sends to Create, with what the properties tell apart
ObjectOf(i, vol, vn, mutated) ==
    [item |-> i, vol |-> vol, vn |-> vn, secrets |-> Archive[i].secrets, mutated |-> mutated]

\* mutant: the error of SetVolumeID is dropped and the PV keeps its old volume
ExecutePVActionSetVolumeIDIgnored(i) ==
    IF \/ IsSetToFalse(SnapshotVolumes) \/ IsSetToFalse(RestorePVs)
       \/ ~Archive[i].snap
    THEN {[ok |-> TRUE, vol |-> 0, created |-> FALSE]}
    ELSE IF ~BlockStoreConfigured THEN {[ok |-> FALSE, vol |-> 0, created |-> FALSE]}
    ELSE {[ok |-> TRUE, vol |-> nextVol, created |-> TRUE]} \cup
         (IF "blockstore" \in Faults
          THEN {[ok |-> FALSE, vol |-> 0, created |-> FALSE],
                [ok |-> TRUE, vol |-> 0, created |-> TRUE]}
          ELSE {})

\* pvRestorer.executePVAction: the set of its possible results; vol 0 is the
\* item unchanged (claimRef and storageClassName stripped), vol > 0 a volume
\* created from the snapshot through the block store.  created: the block
\* store made a volume, which SetVolumeID may still fail to put in the PV.
ExecutePVAction(i) ==
    IF \/ IsSetToFalse(SnapshotVolumes) \/ IsSetToFalse(RestorePVs)
       \/ ~Archive[i].snap
    THEN {[ok |-> TRUE, vol |-> 0, created |-> FALSE]}
    ELSE IF ~BlockStoreConfigured THEN {[ok |-> FALSE, vol |-> 0, created |-> FALSE]}
    ELSE {[ok |-> TRUE, vol |-> nextVol, created |-> TRUE]} \cup
         (IF "blockstore" \in Faults
          THEN {[ok |-> FALSE, vol |-> 0, created |-> FALSE],   \* CreateVolumeFromSnapshot
                [ok |-> FALSE, vol |-> 0, created |-> TRUE]}    \* SetVolumeID
          ELSE {})

\* the block store's new volume, numbered nextVol, made for item i
CreatedVolume(i, r) ==
    /\ nextVol' = IF r.created THEN nextVol + 1 ELSE nextVol
    /\ volumes' = IF r.created
                  THEN volumes \cup {[vol |-> nextVol, item |-> i, pass |-> pass]}
                  ELSE volumes

\* mutant: the item loop does not move on
AdvanceStuck == queue' = queue
Advance == queue' = Tail(queue)

\* a PVC bound to a PV left to dynamic provisioning loses spec.volumeName
\* (and its two bind annotations)
\* mutant: the claim keeps its volumeName
ClaimVolumeNameKept(i) == Archive[i].vn

ClaimVolumeName(i) ==
    IF Archive[i].res = PVC /\ Archive[i].vn \in pvsToProvision
    THEN "" ELSE Archive[i].vn

\* resourceClient.Create: AlreadyExists, another error, or created
CreateResult(k) ==
    IF k \in DOMAIN live THEN {"exists"}
    ELSE {"created"} \cup (IF "create" \in Faults THEN {"failed"} ELSE {})
Abandon == queue' = <<>>

\* the items of a call that restoreResource acts on after reading them
Admitted(i) == Archive[i].ok /\ Archive[i].match /\ ~IsCompleted(i)
\* no snapshot record and reclaim policy Delete: left to dynamic provisioning
ToProvision(i) ==
    Archive[i].res = PV /\ ~Archive[i].snap /\ Archive[i].reclaim = "Delete"

\* The tail of restoreResource's item loop for an object o ready to create:
\* the item actions, resetMetadataAndStatus, the namespace and restore labels
\* (which the model's objects do not tell apart), then Create.
ActionsAndCreate(i, o) ==
    LET matching == {a \in ApplicableActions : i \in Actions[a].selects}
    IN \E out \in [matching -> ActionOutcomes] :
       LET outs   == {out[a] : a \in matching}
           failed == outs \cap {"error", "warnerr"} # {}
           obj    == [o EXCEPT !.mutated = "mutate" \in outs]
           k      == KeyOf(call.res, call.ns, Archive[i].name)
       IN
       \* a warning with a nil error: errors.Wrapf(nil, ...) is nil, and
       \* addToResult calls Error() on it
       \/ /\ "warn" \in outs
          /\ pc' = "panicked"
          /\ UNCHANGED <<queue, cur, live, restored, callWarn, callErr,
                         resticTasks>>
       \/ /\ "warn" \notin outs
          /\ callWarn' = callWarn \cup (IF "warnerr" \in outs
                                        THEN {ItemEntry("action", i)} ELSE {})
          \* an action error `continue`s the action loop only: the item goes on
          /\ LET errs1 == callErr \cup (IF failed THEN {ItemEntry("action", i)} ELSE {})
             IN
             \E cr \in CreateResult(k) :
             \/ /\ cr # "exists"
                /\ \/ /\ cr = "failed"
                      /\ callErr' = errs1 \cup {ItemEntry("create", i)}
                      /\ UNCHANGED <<live, restored, resticTasks>>
                   \/ /\ cr = "created"
                      /\ callErr' = errs1
                      /\ live' = (k :> obj) @@ live
                      /\ restored' = restored \cup {<<pass, i, k>>}
                      \* restic restore of the created pod's volumes
                      /\ resticTasks' =
                           IF Archive[i].res = "pods" /\ Archive[i].podvol /\ ResticConfigured
                           THEN resticTasks \cup {[item |-> i, ns |-> call.ns, pass |-> pass,
                                                   state |-> "running"]}
                           ELSE resticTasks
                /\ Advance /\ UNCHANGED <<pc, cur>>
             \/ /\ cr = "exists"
                /\ callErr' = errs1
                /\ pc' = "conflict" /\ cur' = [item |-> i, key |-> k, obj |-> obj]
                /\ UNCHANGED <<queue, live, restored, resticTasks>>

\* one iteration of restoreResource's loop over the files of the call
RestoreItem ==
    /\ pc = "items" /\ queue # <<>>
    /\ LET i == Head(queue) IN
       \/ /\ ~Archive[i].ok   \* Get, decode or isCompleted failed
          /\ callErr' = callErr \cup {ItemEntry("read", i)}
          /\ Advance
          /\ UNCHANGED <<pc, cur, client, watch, ctxVars, nextVol, volumes, live, callWarn,
                         pvTasks, resticTasks, watches, restored, pvOutcome>>
       \/ /\ Archive[i].ok /\ ~Admitted(i)
          /\ Advance
          /\ UNCHANGED <<pc, cur, client, watch, ctxVars, nextVol, volumes, live, callWarn,
                         callErr, pvTasks, resticTasks, watches, restored, pvOutcome>>
       \/ /\ Admitted(i) /\ ~client /\ "client" \in Faults
          /\ callErr' = callErr \cup {ArkEntry("client", "none")}
          /\ Abandon
          /\ UNCHANGED <<pc, cur, client, watch, ctxVars, nextVol, volumes, live, callWarn,
                         pvTasks, resticTasks, watches, restored, pvOutcome>>
       \/ /\ Admitted(i)
          /\ client' = TRUE
          /\ \/ /\ Archive[i].res = "pods" /\ Archive[i].mirror
                /\ Advance
                /\ UNCHANGED <<pc, cur, watch, ctxVars, nextVol, volumes, live, callWarn,
                               callErr, pvTasks, resticTasks, watches, restored,
                               pvOutcome>>
             \/ /\ ToProvision(i)
                /\ pvsToProvision' = pvsToProvision \cup {Archive[i].name}
                /\ pvOutcome' = pvOutcome \cup {<<pass, Archive[i].name, "provision">>}
                /\ Advance
                /\ UNCHANGED <<pc, cur, watch, existingNamespaces, nextVol, volumes, live,
                               callWarn, callErr, pvTasks, resticTasks, watches,
                               restored>>
             \/ /\ Archive[i].res = PV /\ ~ToProvision(i)
                /\ \E r \in ExecutePVAction(i) :
                   \/ /\ ~r.ok
                      /\ callErr' = callErr \cup {ItemEntry("pvaction", i)}
                      /\ Advance
                      /\ CreatedVolume(i, r)
                      /\ UNCHANGED <<pc, cur, watch, callWarn, pvTasks,
                                     resticTasks, watches, live, restored, pvOutcome>>
                   \/ /\ r.ok /\ ~watch /\ "watch" \in Faults
                      /\ callErr' = callErr \cup {ItemEntry("watch", "none")}
                      /\ Abandon
                      /\ CreatedVolume(i, r)
                      /\ pvOutcome' = pvOutcome \cup
                           {<<pass, Archive[i].name, IF r.vol > 0 THEN "snapshot" ELSE "unchanged">>}
                      /\ UNCHANGED <<pc, cur, watch, callWarn, pvTasks, resticTasks,
                                     watches, live, restored>>
                   \/ /\ r.ok
                      /\ CreatedVolume(i, r)
                      /\ pvOutcome' = pvOutcome \cup
                           {<<pass, Archive[i].name, IF r.vol > 0 THEN "snapshot" ELSE "unchanged">>}
                      \* the first PV of the call opens the watch and starts the
                      \* one readiness goroutine, waiting for this PV's name only
                      /\ watch' = TRUE
                      /\ IF watch THEN UNCHANGED <<pvTasks, watches>>
                         ELSE /\ watches' = watches + 1
                              /\ pvTasks' = pvTasks \cup
                                   {[pv |-> Archive[i].name, call |-> call.no, ri |-> ri,
                                     pass |-> pass]}
                      /\ ActionsAndCreate(i, ObjectOf(i, r.vol, "", FALSE))
                /\ UNCHANGED ctxVars
             \/ /\ Archive[i].res # PV /\ ~(Archive[i].res = "pods" /\ Archive[i].mirror)
                /\ ActionsAndCreate(i, ObjectOf(i, 0, ClaimVolumeName(i), FALSE))
                /\ UNCHANGED <<watch, ctxVars, nextVol, volumes, pvTasks, watches, pvOutcome>>
    /\ UNCHANGED <<pass, ri, nsq, call, nsLive, available, deletes, warnings, errs, timedOut>>

\* mergeServiceAccounts (not under src/): the live account with the backed-up
\* secrets added
MergeServiceAccounts(fromCluster, obj) ==
    [fromCluster EXCEPT !.secrets = @ \cup obj.secrets]

\* what Conflict and ConflictPatch leave unchanged
ConflictUnchanged ==
    UNCHANGED <<pass, ri, nsq, call, client, watch, ctxVars, nsLive, available,
                nextVol, volumes, deletes, callErr, warnings, errs, taskVars,
                pvOutcome, timedOut>>

\* the item is done: back to the loop, on to the next file
NextItem == pc' = "items" /\ cur' = "none" /\ Advance

\* Create returned AlreadyExists: Get the live object, reset it, copy the
\* restore labels, compare.  Equal: nothing to do.  A ServiceAccount:
\* mergeServiceAccounts and generatePatch (either may fail), no Patch when the
\* merge changes nothing, else the Patch is the next step.  Any other type:
\* the "differs" warning.
Conflict ==
    /\ pc = "conflict"
    /\ LET k == cur.key
           i == cur.item
       IN
       \/ /\ k \notin DOMAIN live     \* Get fails: deleted since Create
          /\ callWarn' = callWarn \cup {ItemEntry("get", i)}
          /\ NextItem /\ UNCHANGED restored
       \/ /\ k \in DOMAIN live
          /\ live[k] = cur.obj
          /\ restored' = restored \cup {<<pass, i, k>>}
          /\ NextItem /\ UNCHANGED callWarn
       \/ /\ k \in DOMAIN live /\ live[k] # cur.obj /\ k.res # SA
          /\ callWarn' = callWarn \cup {ItemEntry("differs", i)}
          /\ NextItem /\ UNCHANGED restored
       \/ /\ k \in DOMAIN live /\ live[k] # cur.obj /\ k.res = SA
          /\ "sapatch" \in Faults      \* mergeServiceAccounts or generatePatch fails
          /\ callWarn' = callWarn \cup {ItemEntry("merge", i)}
          /\ NextItem /\ UNCHANGED restored
       \/ /\ k \in DOMAIN live /\ live[k] # cur.obj /\ k.res = SA
          /\ MergeServiceAccounts(live[k], cur.obj) = live[k]   \* patchBytes == nil
          /\ restored' = restored \cup {<<pass, i, k>>}
          /\ NextItem /\ UNCHANGED callWarn
       \/ /\ k \in DOMAIN live /\ live[k] # cur.obj /\ k.res = SA
          /\ MergeServiceAccounts(live[k], cur.obj) # live[k]
          /\ pc' = "patch"
          /\ cur' = [item |-> i, key |-> k, obj |-> MergeServiceAccounts(live[k], cur.obj)]
          /\ UNCHANGED <<queue, restored, callWarn>>
    /\ UNCHANGED live
    /\ ConflictUnchanged

\* resourceClient.Patch of the ServiceAccount, a separate call: the account
\* may have been deleted since the Get (NotFound), or the call fails; either
\* error is a warning.  Otherwise the account becomes the merged one.
ConflictPatch ==
    /\ pc = "patch"
    /\ LET k == cur.key
           i == cur.item
       IN
       \/ /\ k \notin DOMAIN live \/ "sapatch" \in Faults
          /\ callWarn' = callWarn \cup {ItemEntry("patch", i)}
          /\ UNCHANGED <<live, restored>>
       \/ /\ k \in DOMAIN live
          /\ live' = [live EXCEPT ![k] = cur.obj]
          /\ restored' = restored \cup {<<pass, i, k>>}
          /\ UNCHANGED callWarn
    /\ NextItem
    /\ ConflictUnchanged

\* the item loop is over, or was abandoned
EndCall ==
    /\ pc = "items" /\ queue = <<>>
    /\ ReturnFromCall
    /\ UNCHANGED <<pass, nsq, call, queue, client, watch, cur, ctxVars,
                   clusterVars, taskVars, histVars>>

(***************************************************************************)
(* Goroutines                                                              *)
(***************************************************************************)

\* isPVReady: the PV's status.phase is Available
IsPVReady(name) == name \in available

\* waitForReady sees an Added/Modified event of its PV with phase Available
ObserveReady(t) ==
    /\ IsPVReady(t.pv)
    /\ t.pass = pass /\ pc # "done"    \* the watch is not stopped yet
    /\ pvTasks' = pvTasks \ {t}
    /\ UNCHANGED <<loopVars, ctxVars, clusterVars, resultVars, resticTasks,
                   watches, histVars>>

\* time.After(time.Minute) fires first: the goroutine adds the warning to the
\* `warnings` of the restoreResource call that started it.  After that call
\* has returned its result by value the warning reaches nobody; while it is
\* still running the append races with the main goroutine's.
ReadinessTimeout(t) ==
    /\ pvTasks' = pvTasks \ {t}
    /\ timedOut' = timedOut \cup {<<t.pass, t.pv>>}
    /\ \/ /\ t.call = call.no /\ pc \in {"items", "conflict", "patch"}
          /\ callWarn' = callWarn \cup
               {[scope |-> "ark", kind |-> "timeout", item |-> t.pv, res |-> PV,
                 ns |-> "", pass |-> t.pass]}
       \/ UNCHANGED callWarn
    /\ UNCHANGED <<loopVars, ctxVars, clusterVars, callErr, warnings, errs,
                   resticTasks, watches, restored, pvOutcome, volumes>>

\* resticRestorer.RestorePodVolumes returns, bounded by the pod volume timeout
ResticDone(t) ==
    /\ t.state = "running"
    /\ \E st \in IF "restic" \in Faults THEN {"ok", "failed"} ELSE {"ok"} :
          resticTasks' = (resticTasks \ {t}) \cup {[t EXCEPT !.state = st]}
    /\ UNCHANGED <<loopVars, ctxVars, clusterVars, resultVars, pvTasks, watches,
                   histVars>>

(***************************************************************************)
(* The cluster                                                             *)
(***************************************************************************)

\* the PV controller moves a restored PV to phase Available
PVAvailable(name) ==
    /\ KeyOf(PV, "", name) \in DOMAIN live
    /\ name \notin available
    /\ available' = available \cup {name}
    /\ UNCHANGED <<loopVars, ctxVars, live, nsLive, nextVol, deletes, resultVars,
                   taskVars, histVars>>

\* another client deletes a live object
ExternalDelete(k) ==
    /\ deletes < MaxExternalDeletes
    /\ live' = [x \in DOMAIN live \ {k} |-> live[x]]
    /\ deletes' = deletes + 1
    /\ UNCHANGED <<loopVars, ctxVars, nsLive, available, nextVol, resultVars,
                   taskVars, histVars>>

\* the same restore is created again once the previous one has finished
RestoreAgain ==
    /\ pc = "done" /\ pass < Passes
    /\ pc' = "start" /\ pass' = pass + 1 /\ ri' = 1 /\ nsq' = <<>>
    /\ existingNamespaces' = {} /\ pvsToProvision' = {}
    /\ UNCHANGED <<call, queue, client, watch, cur, clusterVars, resultVars,
                   taskVars, histVars>>

Engine ==
    \/ Restore \/ NextResource \/ NextNamespace \/ WaitResource \/ WaitGlobal
    \/ RestoreResourceStart \/ RestoreItem \/ Conflict \/ ConflictPatch \/ EndCall

Terminated ==
    /\ pc = "panicked" \/ (pc = "done" /\ pass = Passes)
    /\ pvTasks = {} /\ \A t \in resticTasks : t.state # "running"
    /\ UNCHANGED vars

Next ==
    \/ Engine
    \/ RestoreAgain
    \/ \E t \in pvTasks : ObserveReady(t) \/ ReadinessTimeout(t)
    \/ \E t \in resticTasks : ResticDone(t)
    \/ \E name \in {Archive[i].name : i \in {j \in Items : Archive[j].res = PV}} :
          PVAvailable(name)
    \/ \E k \in DOMAIN live : ExternalDelete(k)
    \/ Terminated

\* The main goroutine runs until it blocks; a readiness goroutine's timer
\* always fires; a restic restore returns once the pod volume timeout has
\* expired at the latest.  The cluster and other clients owe nothing.
Fairness ==
    /\ WF_vars(Engine)
    /\ WF_vars(RestoreAgain)
    /\ WF_vars(\E t \in pvTasks : ReadinessTimeout(t))
    /\ WF_vars(\E t \in resticTasks : ResticDone(t))

Spec == Init /\ [][Next]_vars /\ Fairness

(***************************************************************************)
(* Properties                                                              *)
(***************************************************************************)

Keys == {KeyOf(Archive[i].res, MappedNs(Archive[i].ns), Archive[i].name) : i \in Items}
        \cup DOMAIN InitialCluster
Obj == [item : Items, vol : Nat, vn : STRING, secrets : SUBSET STRING, mutated : BOOLEAN]
ResultEntry == [scope : STRING, kind : STRING, item : Items \cup {"none"} \cup STRING,
                res : STRING, ns : STRING, pass : 1..Passes]

TypeOK ==
    /\ pc \in {"start", "resource", "namespaces", "call", "items", "conflict", "patch", "done", "panicked"}
    /\ pass \in 1..Passes /\ ri \in 1..Len(Order) + 1
    /\ DOMAIN live \subseteq Keys /\ \A k \in DOMAIN live : live[k] \in Obj
    /\ existingNamespaces \subseteq nsLive
    /\ warnings \cup errs \cup callWarn \cup callErr \subseteq ResultEntry
    /\ watches \in Nat /\ deletes \in 0..MaxExternalDeletes
    /\ volumes \subseteq [vol : 1..nextVol - 1, item : Items, pass : 1..Passes]

\* spec 3: a namespace-scoped item is only created (or found already there)
\* once its target namespace has been made to exist by EnsureNamespaceExists
NamespaceFirst ==
    \A r \in restored : r[3].ns # "" => r[3].ns \in nsLive

\* spec 8: a PVC bound to a PV that the restore left to dynamic provisioning
\* is never live with that binding
ProvisionedClaimsUnbound ==
    \A k \in DOMAIN live : k.res = PVC => live[k].vn \notin pvsToProvision

\* the items restoreResource must act on: admitted by the namespace filter
\* and the cluster-resources flag, readable, selected, not completed, not a
\* mirror pod, not a PV left to provisioning
Expected(i) ==
    /\ Archive[i].res \in {Order[n] : n \in DOMAIN Order} \ {"namespaces"}
    /\ Archive[i].ns = "" \/ ShouldInclude(NamespaceFilter, Archive[i].ns)
    /\ ~(Archive[i].ns = "" /\ IsSetToFalse(IncludeClusterResources))
    /\ Admitted(i)
    /\ ~(Archive[i].res = "pods" /\ Archive[i].mirror)
    /\ ~ToProvision(i)

\* the Ark errors that end a restore before or during the type loop
RestoreAborted == {"archive"} \cup {PreambleSteps[n] : n \in DOMAIN PreambleSteps}

\* an entry of pass p's returned results names item i, its resource type and
\* namespace, or the abort of the whole restore
Reported(i, p) ==
    \E e \in warnings \cup errs :
          /\ e.pass = p
          /\ \/ e.item = i
             \/ e.kind \in RestoreAborted
             \/ e.item = "none" /\ e.res = Archive[i].res /\ e.ns = MappedNs(Archive[i].ns)

Accounted(i, p) == (\E r \in restored : r[1] = p /\ r[2] = i) \/ Reported(i, p)

\* when Restore returns, every item it had to restore is in the cluster or
\* named, itself or through its resource type and namespace, by a warning or
\* an error of the returned results
EveryItemAccounted ==
    pc = "done" => \A i \in Items : Expected(i) => Accounted(i, pass)

\* spec 4.4: when Restore returns, every volume the block store created from a
\* snapshot during it is the volume of a live PV, or the PV it was made for is
\* named in the returned results: CreateVolumeFromSnapshot followed by a
\* failing SetVolumeID, a failing watch or a failing Create never leaves an
\* unreferenced volume that nobody is told about
VolumesAccounted ==
    pc = "done" =>
        \A v \in volumes : v.pass = pass =>
            \/ \E k \in DOMAIN live : k.res = PV /\ live[k].vol = v.vol
            \/ Reported(v.item, pass)

\* every restore eventually returns (or the process has died)
Termination == <>(pc = "panicked" \/ (pc = "done" /\ pass = Passes))

\* spec 4.3: a readiness timeout yields a warning in the returned results
ReadinessTimeoutReported ==
    pc = "done" =>
        \A tp \in timedOut : tp[1] = pass =>
            \E e \in warnings : e.kind = "timeout" /\ e.item = tp[2] /\ e.pass = pass

\* spec 6 (Item action): an action may return a warning; the restore goes on
NoPanic == pc # "panicked"

\* spec 8: an item of a remapped namespace is restored into the target
\* namespace (when nothing fails)
RemappedItemsRestored ==
    pc = "done" =>
        \A i \in Items :
            (Expected(i) /\ Archive[i].ns \in DOMAIN NamespaceMapping) =>
                \E r \in restored : r[1] = pass /\ r[2] = i
                                    /\ r[3].ns = NamespaceMapping[Archive[i].ns]

=============================================================================
