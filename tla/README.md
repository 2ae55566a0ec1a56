# TLA+ models of the Ark restore engine and backup controller

This directory holds TLA+ models of the restore path of the repository under
`src/`, and the TLC configurations that check them. Each definition is
translated from the Go source. `PROJECT.json` maps every modelled definition to
the source lines it stands for.

## The system

| Part | Source | What it does |
|---|---|---|
| Resource prioritizer | `pkg/restore/restore.go` `prioritizeResources` (84-138) | resolves the configured priority list through discovery, drops what the resource filter excludes, and appends every other discovered resource sorted by `group/resource` name |
| Action resolver | `restore.go` `resolveActions`, `getResourceIncludesExcludes` (249-325) | precomputes each item action's resource filter, namespace filter and label selector |
| Restore engine | `restore.go` `Restore`, `execute`, `restoreFromArchive`, `restoreResource` (170-247, 327-442, 515-798) | walks the prioritized types; for namespace-scoped types walks the archive's namespaces, maps them and ensures the target namespace exists; restores each item |
| PV restorer | `restore.go` `executePVAction`, `waitForReady` (801-915) | recreates a PV from its snapshot via the block store; a goroutine waits for the restored PV to become Available |
| Result aggregation | `restore.go` `merge`, `addArkError`, `addToResult` (483-512) | two `RestoreResult`s (warnings, errors), each split into Ark, cluster and per-namespace lists |
| Archive reader | `unnamed/part_000` (`gzipTarReader`) | extracts the backup tarball to a temp dir and answers `GetResourceScope`, `ListNamespaces`, `ListContents` and `Get` |
| Archive writer | `pkg/archive/gzip_tar_writer.go` | writes a backup tarball (used when a backup is created) |
| Backup controller | `pkg/controller/backup_controller.go` | moves a Backup through New → InProgress/FailedValidation → Completed/Failed, patching its status with a JSON merge patch |
| Release script | `hack/set-example-tags.sh` | rewrites image tags in examples |

### How they interact

`Restore` computes the type order (prioritizer) and the resolved actions, then
calls `execute`. `execute` extracts the archive and runs `restoreFromArchive`.
For each type, `restoreFromArchive` either:

- calls `restoreResource(res, "")` once, for a cluster-scoped type; or
- calls `restoreResource(res, mapped)` for each admitted namespace, then waits
  on `resourceWaitGroup`.

`restoreResource` lists the items of `(res, ns)` and handles each in turn:

1. Read and decode it.
2. Apply the label selector and the completed check.
3. Get the resource client.
4. Skip mirror pods.
5. For a PV: put it in the provisioning set, or run `executePVAction` and start
   the readiness goroutine.
6. For a PVC: unbind it when its PV is in the provisioning set.
7. Run the item actions.
8. Reset metadata and call `Create`.
9. On `AlreadyExists`, compare with the live object. A ServiceAccount is merged;
   any other type gets a warning.
10. For a pod with restic annotations, start a restic goroutine.

The restic goroutines join `globalWaitGroup`, which `restoreFromArchive` waits
on last.

The concurrency is:

- the main goroutine;
- one readiness goroutine per `restoreResource` call that restores a PV;
- one restic goroutine per pod with annotated volumes;
- the cluster, where the PV controller makes a PV Available and other clients
  delete objects.

## Modules

| Module | Models | State and actions |
|---|---|---|
| `Prioritize` | `prioritizeResources` | a pure operator `Prioritize(priorities, ie)`. `ResolvePriorities` (RECURSIVE) is the first loop, with `ret` and `set`. The second loop is a `SelectSeq` over the discovered resources. The sort is `SortSeq` with `NameLess`. `ShouldInclude` is `IncludesExcludes.ShouldInclude`, which lives in `pkg/util/collections`, outside `src/`, and is modelled from the spec. `ResolveActions` is `resolveActions`: each action's resources go through `GetResourceIncludesExcludes`, which maps names through discovery (`ResourceFor`) and drops those it cannot resolve, as `collections.GenerateIncludesExcludes` (outside `src/`) does; `*` is kept. `MCRestoreEngine` computes its action and its resource filter with them. |
| `MCPrioritize` | the reference check | the variables are the inputs (every priority list of up to 3 entries over 6 names, including an unresolvable one and two aliases, with 24 filters); they never change. `PrioritizeMatchesReference` states the order independently of the recursion. |
| `RestoreEngine` | restore engine, PV restorer, result aggregation, archive reads | see below |
| `MCRestoreEngine` | the model values | a ten-item archive, the initial cluster, the two type orders computed by `INSTANCE Prioritize`, filters, the mapping, the action, and the fault sets |
| `BackupController` | `backupController` for one Backup | see below |
| `MCBackupController` | the model values | one or two controller instances (model values `c1`, `c2`) and the fault sets |
| `ArchiveStore` | what the `Writer` and `Reader` interfaces promise | the abstract specification: `Put` an item (replacing an earlier one with the same key), `Seal`, and `Open` once, which fails or shows exactly the stored items |
| `Archive` | `gzipTarWriter`, `gzipTarReader`, `context.execute` | see below |
| `MCArchive` | the model values | four items and the fault sets |

### RestoreEngine

**State: the main goroutine.** `pc` names the loop the main goroutine is in
(`resource`, `namespaces`, `call`, `items`, `conflict`, `done`, `panicked`).
Alongside it:

- `ri`: the index into `prioritizedResources`;
- `nsq`: the namespaces still to visit;
- `call`: the current `restoreResource(res, ns)` and its number;
- `queue`: the files not yet handled;
- `client`, `watch`: whether `resourceClient` and `resourceWatch` are set;
- `cur`: the item in the AlreadyExists path.

**State: the restore context.** `existingNamespaces` and `pvsToProvision`.

**State: the cluster.**

- `live`: key ↦ object. An object records which item it came from, its volume,
  `volumeName`, its secrets and whether an action mutated it.
- `nsLive`: the namespaces that exist.
- `available`: the PVs that are in phase Available.

**State: the results.**

- `callWarn`, `callErr`: the local results of the running `restoreResource`
  call.
- `warnings`, `errs`: those of `restoreFromArchive`.
- Each entry records scope, kind, item, resource, namespace and restore pass.

**State: the goroutines.** `pvTasks` and `resticTasks`.

**State: history, for the properties.** `restored`, `pvOutcome`, `timedOut`,
`actionFailed`.

**Actions of the main goroutine.** Each is a whole step of the code, with every
early return as its own disjunct:

- `NextResource` covers the namespaces type, a missing directory, an archive
  error, and the cluster-scoped and namespace-scoped cases.
- `NextNamespace` covers a filtered namespace, a known namespace, and
  `EnsureNamespaceExists` succeeding or failing.
- `WaitResource` is `resourceWaitGroup.Wait()`.
- `WaitGlobal` is `globalWaitGroup.Wait()`, the Ark errors and `watch.Stop`.
- `RestoreResourceStart` covers the cluster-resources skip, a list error, and a
  start.
- `RestoreItem` covers a read or decode error, an item not selected or
  completed, a client error, a mirror pod, the provisioning set, a PV action
  error, a watch error, and PV or other restore.
- `ActionsAndCreate` is the action loop, then `Create`.
- `Conflict` is the AlreadyExists path up to the Patch: the Get, the compare,
  the "differs" warning, and for a ServiceAccount `mergeServiceAccounts` and
  `generatePatch` (either may fail, the `sapatch` fault), with no Patch when
  the merge changes nothing.
- `ConflictPatch` is the ServiceAccount's `Patch`, a separate API call. Another
  client may have deleted the account since the Get (NotFound), or the call
  may fail. Either error is a warning.
- `EndCall` is the return and merge.

**Actions of the goroutines and the cluster:**

- `ObserveReady` and `ReadinessTimeout`: the readiness goroutine's `select`.
- `ResticDone`: the restic goroutine returns.
- `PVAvailable`: the PV controller makes a PV Available.
- `ExternalDelete`: another client deletes an object.
- `RestoreAgain`: the same Restore is created again after the previous one has
  finished.

**Abstractions.**

- An object keeps only what the properties tell apart.
- The label selector and decode errors are per-item flags of the archive
  (`match`, `ok`).
- Message texts are replaced by a `kind`.
- The block store's volume ids are a counter, `nextVol`. `volumes` records
  each volume `CreateVolumeFromSnapshot` made, with its item and pass. A
  `blockstore` fault is either call of the block store failing. If
  `SetVolumeID` fails, the volume has already been created (`CreatedVolume`).
- The `*bool` flags are the strings `"true"`, `"false"` and `"nil"`.
- `Faults` names the collaborator calls that may fail in a run. Each one is a
  nondeterministic choice at its call site.
- `Restore` is `kubernetesRestorer.Restore` up to `execute`: the selector
  parse, `prioritizeResources`, `resolveActions` and the restic restorer
  factory each may fail (`selector`, `priorities`, `actions`,
  `resticfactory`), returning one Ark error before anything changes.
  `EveryItemAccounted` counts such an error, like an archive error, as naming
  every item.

### Archive

The writer, the bytes between them and the reader, in one module, because the
question is whether what the restore reads is what the backup wrote.

**The stream.** The tar-in-gzip byte stream is a sequence of tokens: the gzip
header, an entry header carrying its path, an entry body carrying the
marshalled document, the tar trailer, the final block and the gzip footer.
`FilePath` is the `filepath.Join` of `Write` as a sequence of path elements;
`Marshal` is `json.Marshal` of a string document (it adds quotes, and a
document in `Unencodable` makes it fail, as a channel does).

**Writer state.** `pending` is what gzip's compressor holds; `base` is what
reached the base writer; `failed` is the sticky tar/gzip error; `acked` is
every item whose `Write` returned nil.

`Init` is `NewGzipTarWriter` (an empty stream, no error) with
`NewGzipTarReader` (nothing extracted, no temp dir).

- `Write(it)`: the marshal error; the sticky error; or the entry appended to
  `pending`, of which any prefix is flushed (`BaseWrites`). The base writer may
  fail after any prefix of any of those writes (the `base` fault); gzip then
  keeps the error and `Write` returns it.
- `Close`: flushes the trailer, the final block and the footer. Its errors are
  ignored, as at `gzip_tar_writer.go:90`.

**Reader state.** `rpc` is where `execute` is; `pos` is the tar reader's
position in `base`; `dirExists` and `tempDir` are the temp dir on disk and
`r.tempDir`; `tree` is the extracted files; `open` counts the descriptors the
deferred `file.Close()` calls hold.

- `ExtractStart`: `gzip.NewReader` (fails on an empty stream) and `TempDir`.
- `ExtractNext`: one turn of the loop. The end of the stream is
  `ErrUnexpectedEOF`; the trailer is `io.EOF`, after which `r.tempDir` is set;
  an entry is `MkdirAll`, `Create` (EMFILE once `open = FdLimit`) and
  `io.Copy` (a missing body is a truncated copy).
- `ExtractFails`: the error return; `execute` returns it without `Close`.
- `ReadArchive`: `restoreFromArchive`'s reads through `GetResourceScope`,
  `ListNamespaces`, `ListContents` and `Get` over `tree`.
- `ReaderClose`: the deferred `Close`; `RemoveAll` may fail, and its error is
  dropped.

**Refinement.** `Store == INSTANCE ArchiveStore WITH` maps `acked` to `stored`,
`wpc = "closed"` to `sealed`, and the reader's outcome to `result`: an error
when `Extract` failed, otherwise the items read, keyed back by resource,
namespace and name.

### BackupController

**State.**

- `history`: every version of the Backup the API server has stored. Each
  version holds the phase, the resourceVersion, and whether validation passes
  for its spec.
- `seen[c]`: the version in instance `c`'s informer cache (0 is none).
- `queued[c]`: whether the key is in `c`'s work queue.
- `pc[c]`, `orig[c]`, `req[c]`: where `c`'s `processBackup` is, and its
  `original` and `request.Backup`.
- `tracker[c]`: whether the key is in `c`'s `backupTracker`.
- `runs`: every `runBackup` that started.

**Actions.** `processBackup` is split at its API calls, because another
instance may act between them:

- `ProcessBackup`: the lister read, the phase check, validation, and the
  request's phase.
- `PatchPhase`: the first `patchBackup`. It may be rejected. It may also be
  applied with its response lost; either way the error is returned and the key
  requeued.
- `RunBackup`: `runBackup`. A backup or upload error fails it.
- `PatchFinal`: the final `patchBackup`. An error is only logged.

The other actions are:

- `Informer`: a relist, which is an Add event, enqueued when the phase is New;
  or the next watch event, an update, which no handler enqueues.
- `Crash`: a server restart, which loses the cache, the queue, the tracker and
  the running `processBackup`.

`MergePatch` is `jsonpatch.CreateMergePatch` as the server applies it: only
fields that differ between the two copies are sent. resourceVersion is equal in
both copies, so the server checks nothing.

**Deletion.** `Delete` is another client deleting the Backup, bounded by
`MaxFaults`. A deleted version stays in `history` with `deleted` set, and
`Exists` tells it apart. Then:

- `ProcessBackup` on a deleted key is the lister's not-found error. It is
  returned, so the key stays queued.
- `PatchPhase` and `PatchFinal` on a deleted Backup get NotFound. The first
  requeues the key; the second only logs it.
- The informer enqueues nothing for a deleted Backup.

`genericController` (outside `src/`) is modelled from its use: an error
requeues the key.

## Properties

**RestoreEngine**

| Property | Kind | Says |
|---|---|---|
| `TypeOK` | invariant | types, and `existingNamespaces ⊆ nsLive` |
| `NamespaceFirst` | invariant | every restored namespaced item lives in a namespace that exists |
| `ProvisionedClaimsUnbound` | invariant | no live PVC is bound to a PV the restore left to provisioning |
| `EveryItemAccounted` | invariant | when Restore returns, every item it had to restore is either live from this restore or named, by item or by its (type, namespace), in a returned warning or error |
| `VolumesAccounted` | invariant | when Restore returns, every volume the block store created in it belongs to a live PV, or its PV is named in a returned warning or error (restore.go:905: `SetVolumeID` failing after `CreateVolumeFromSnapshot`) |
| `Termination` | liveness | Restore returns (or the process has died) |
| `ReadinessTimeoutReported` | invariant (violation run) | a readiness timeout is a returned warning |
| `NoPanic` | invariant (violation run) | an action's warning does not crash the restore |
| `RemappedItemsRestored` | invariant (violation run) | a remapped namespace's items are restored into the target |

**MCPrioritize**

| Property | Kind | Says |
|---|---|---|
| `PrioritizeMatchesReference` | invariant | the call fails exactly when an entry is unresolvable. Otherwise the result is the admitted priorities in order, then every other admitted resource exactly once, in name order. |

**Archive**

| Property | Kind | Says |
|---|---|---|
| `TypeOK` | invariant | types, and every extracted path is one `Write` can produce |
| `ArchiveRefinesStore` | temporal (refinement) | writer plus reader implement `ArchiveStore`: a restore that does not fail reads exactly the items whose `Write` returned nil, each with its last document |
| `NoTempDirLeft` | invariant (violation run) | when `execute` returns, the temp dir is gone |

**BackupController**

| Property | Kind | Says |
|---|---|---|
| `AtMostOneRun` | invariant | a Backup is run at most once, as the comment at lines 156-163 claims |
| `EventuallyTerminal` | liveness | a new Backup eventually reaches Completed, Failed or FailedValidation for good |

## Runs

| Run | Config | Expect | Shows |
|---|---|---|---|
| prioritize | `MCPrioritize.cfg` | pass (3108 states) | the prioritizer against its reference for all inputs |
| restore | `MCRestoreEngine.cfg` | pass (about 196k states, 2 min) | one restore with every item-action outcome (`none`, `mutate`, `warn`, `error`, `warnerr`), every collaborator fault (`selector`, `priorities`, `actions`, `resticfactory`, `archive`, `namespace`, `list`, `client`, `blockstore`, `watch`, `create`, `restic`), and PVs becoming Available at any time |
| restore_twice | `RestoreTwice.cfg` | pass (967 states) | two restores of the same archive, the second into what the first left. `ns-2` is filtered out, cluster resources are excluded, the ServiceAccount merge and Patch may fail (`sapatch`), and another client deletes one object at any time, for example between the Get and the Patch of the ServiceAccount. Every item of both restores is accounted for. |
| readiness_timeout | `ReadinessTimeout.cfg` | violation | a readiness timeout is never reported |
| action_warning | `ActionWarning.cfg` | violation | a warning with a nil error panics |
| namespace_mapping | `NamespaceMapping.cfg` | violation | remapped items are read from the wrong archive directory |
| backup_one | `MCBackupController.cfg` | pass (649 states) | one instance, with every fault (rejected, lost and failed patches, failed backup and upload, restarts, deletion; at most 3), runs the Backup at most once |
| backup_progress | `BackupProgress.cfg` | pass (4708 states) | two instances, with rejected patches and failed backups or uploads, always bring the Backup to a terminal phase |
| backup_two_controllers | `BackupTwoControllers.cfg` | violation | two instances both run the Backup |
| backup_lost_response | `BackupLostResponse.cfg` | violation | a lost response to the InProgress patch leaves the Backup InProgress forever |
| archive | `MCArchive.cfg` | pass (25492 states) | four writes, extract and read with every fault (base writer at any byte, temp dir, mkdir, create, copy, remove; at most 2) and a descriptor limit of 2: the pair refines `ArchiveStore` |
| archive_tempdir | `ArchiveTempDir.cfg` | violation | an `Extract` that fails at the descriptor limit leaves its temp dir |

About the `restore` run:

- The `warn` outcome (a warning with a nil error) ends the process
  (`pc = "panicked"`). The properties of `restore` hold in those behaviours
  too; `action_warning` checks that the outcome is reachable.
- The violation runs use the quiet setting, so that their counterexamples are
  short: no faults, no deletes, and action outcomes `none`/`mutate` unless the
  run is about actions.

### Findings

1. **restore.go:645.** The readiness goroutine writes to the local `warnings`
   of a call that has already returned it by value. The timeout warning is
   lost. While the call is still running, the write is a data race.
2. **restore.go:679.** `errors.Wrapf(nil, …)` is nil, and `addToResult` calls
   `Error()` on it. The process panics.
3. **restore.go:419.** `restoreResource` reads the archive with the mapped
   namespace.
4. **backup_controller.go:241.** Two instances both patch a New Backup to
   InProgress, and both run it. The merge patch has no resourceVersion, so
   neither patch fails. The comment at lines 156-163 says one would.
5. **backup_controller.go:166.** Suppose the InProgress patch is applied but
   its response is lost. The key is retried, the retry sees InProgress and
   returns nil, and nobody runs the Backup. A restart during `runBackup`, or a
   lost final patch, leaves it InProgress in the same way.
6. **part_000:217.** `Extract` defers `file.Close()` inside its loop, so every
   file stays open until it returns. An archive with more files than the
   descriptor limit fails at `Create`. `r.tempDir` is set only after the loop
   (line 225), and `execute` returns on the error without `Close`
   (restore.go:333), so the temp dir is left on disk.

Two divergences from spec.md that the model keeps, without a run of their own:
`restore.go:381`, where a cluster-scoped type `continue`s past
`resourceWaitGroup.Wait()` so a PV's readiness wait runs on into later types
(it is still joined before Restore returns, which `Termination` covers); and
`restore.go:683`, where the `continue` after an action error continues the
action loop, so the item is still created.

One hazard is not a finding. The by-name order puts `persistentvolumeclaims`
before `persistentvolumes`, at restore.go:130. The server's default priorities
name both, so `ProvisionedClaimsUnbound` holds under them. With the order
`ByNameOrder` (a priority list that names neither), TLC restores a claim still
bound to a PV that is left to provisioning.

## Bounds, and why they are enough

- **The archive.** It has every item kind the item loop tells apart:
  - a PV with a snapshot;
  - a PV without a snapshot whose reclaim policy is Delete, which goes to
    provisioning;
  - a retained PV;
  - a PVC bound to the provisioned PV, in the namespace the namespace fault
    hits;
  - a ServiceAccount that is already live with other secrets;
  - a pod with restic volumes and a selecting action;
  - a completed pod;
  - a pod that is live and different;
  - an unreadable pod;
  - a mirror pod.

  So every disjunct of `RestoreItem`, `Conflict` and `ActionsAndCreate` is
  reachable. The `sapatch` fault is only in `restore_twice`, where the
  ServiceAccount conflict happens in the first pass; in `restore` it would
  double the state space and reach nothing new.
- **Namespaces.** Two namespaces: one that already exists and one that must be
  created. This is enough for the filter, the existing-namespace cache, the
  mapping and namespace failure.
- **The action.** One action selecting one pod. Its outcomes are enumerated as
  a function from the matching actions to `ActionOutcomes`.
- **Deletes.** In `restore_twice`, `MaxExternalDeletes = 1` lets another client
  delete any live object once, at any point. That covers the Create/Get race
  and deletes between the two restores. The `restore` run has no deletes; it
  already has every fault.
- **Passes.** `Passes = 2` only in `restore_twice`.
- **Archive.** Four items: one written twice with different documents (the
  replacement), a cluster-scoped one, and an unencodable one. `MaxWrites = 4`
  writes, so an archive holds more files than `FdLimit = 2`, which is what
  EMFILE needs, and the replacement can follow another write. Two faults,
  anywhere, in the `archive` run, so a failed write can be followed by a
  failed extract.
- **Backup controller.** Two instances are enough for the double run. At most
  3 faults lets a deletion follow a fault and a restart, or a fault combine
  with two others.
- **Priority lists.** `MaxPriorities = 3` with six entry names, so lists with
  duplicates, aliases, unresolvable entries and excluded entries all occur.

## Fairness

`Spec` has weak fairness on:

- the main goroutine (`Engine`), which never waits on anything but the two wait
  groups;
- `RestoreAgain`, in `restore_twice` only;
- `ReadinessTimeout`, because `time.After(time.Minute)` always fires;
- `ResticDone`, because the restic restorer is bounded by the pod-volume
  timeout context created in `Restore`.

The cluster gets no fairness: `PVAvailable` and `ExternalDelete`. A PV may
never become Available, and `Termination` must hold anyway.

`Archive` has no fairness and no liveness property: its properties are safety
and refinement of a safety specification.

`BackupController` has weak fairness on each instance's worker (the
`genericController` workers loop forever) and on its informer (watch events are
delivered). Faults and restarts get no fairness, and each is bounded by
`MaxFaults`.

## Not modelled, and why

- **The timeout annotation parse in `Restore`.** A bad value is only logged;
  the restic timeout it sets is what justifies the fairness of `ResticDone`.
- **Label selectors.** `resolveActions` parses each action's selector; the
  model keeps only which items it selects (`selects`).
- **`getNamespace`.** Labels and annotations of the archived namespace are
  data no property tells apart; the model only records that the namespace is
  created.
- **`resetMetadataAndStatus` errors.** They only occur for an object with
  no `metadata` map, which is data the model does not build.
- **No property about the ServiceAccount merge.** `mergeServiceAccounts` and
  `generatePatch` are not under `src/`. The model takes the spec's union of
  secrets, so a property about the merged object would check the model's own
  definition, not this repository. An earlier `LiveNotOverwritten` was
  removed for that reason.
- **No property about restic errors reaching the results.** In the model that
  follows from `WaitGlobal`'s own assignment. The one path that skips the join,
  the archive error at restore.go:370, cannot meet a running restic restore in
  this archive, because pods are the last type. `AsyncResultsJoined` was
  removed for that reason.
- **No property comparing two restores.** `restore_twice` excludes PVs and every
  fault but `sapatch`, so a second pass can only repeat the first one's outcomes or meet
  AlreadyExists. `RerunNoNewErrors` restated that branch and was removed. The
  real rerun hazard, a new volume per PV (restore.go:898), needs PVs in the
  second pass and a violation run.
- **Time and the tar header fields.** `ModTime`, `Mode` and `Size` are not
  read by the restore; the stream tokens carry only path and body.
- **`RestoreEngine` reads a constant archive.** The composition of `Archive`
  with the restore engine is by its outcome: `Archive` shows that the reads
  are the acknowledged items or an error.
- **`hack/set-example-tags.sh`.** It is text processing.

## Plan

1. A liveness property for a deleted Backup. The key is requeued forever
   (backup_controller.go:152), because the lister's not-found error is returned
   to `genericController`; a property that the key eventually leaves the queue
   would be violated, and needs a violation run.
2. An abstract restore specification: per item, one of restored, warned or
   errored. `RestoreEngine` would be shown to refine it under a mapping from
   `restored`, `warnings` and `errs`. As long as results only grow, it says
   no more than `EveryItemAccounted`. It is worth having only together with a
   per-item outcome that can be withdrawn, for example a ServiceAccount patch
   that fails after the item was counted.
3. The open hazards in `PROJECT.json` are each a disagreement with spec.md
   that TLC shows in a few steps:
   - one readiness wait per restored PV (restore.go:632);
   - one volume per PV across restores (restore.go:898);
   - the pod-volume outcome of a pod with no restic restorer (restore.go:777);
   - an item whose action failed is still created (restore.go:683), where
     spec.md section 7 says processing continues with the next item;
   - an include list of only unresolvable names admits every resource
     (restore.go:255), where spec.md 4.2 says resolution fails;
   - a Backup deleted after its InProgress patch is still run and uploaded
     (backup_controller.go:214).

   Every one of them, like the two under Findings that have no run, needs a
   violation run of its own. Each would replace one of the current runs.
