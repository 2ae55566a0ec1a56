--------------------------- MODULE MCRestoreEngine ---------------------------
(***************************************************************************)
(* A small archive for the restore engine: three PVs (restored from a      *)
(* snapshot, left to provisioning, restored unchanged), a PVC bound to the *)
(* provisioned PV, a ServiceAccount that is already live with other        *)
(* secrets, and pods in two namespaces: one with restic volumes, one       *)
(* completed, one already live and different, one unreadable, one mirror   *)
(* pod.  The resource order is computed by Prioritize from a priority      *)
(* list, as Restore does.                                                  *)
(***************************************************************************)
EXTENDS RestoreEngine

Item(res, ns, name) ==
    [res |-> res, ns |-> ns, name |-> name, ok |-> TRUE, match |-> TRUE,
     completed |-> FALSE, mirror |-> FALSE, snap |-> FALSE, reclaim |-> "Retain",
     vn |-> "", podvol |-> FALSE, secrets |-> {}]

MCArchive ==
    [pv1  |-> [Item(PV, "", "pv-1") EXCEPT !.snap = TRUE, !.reclaim = "Delete"],
     pv2  |-> [Item(PV, "", "pv-2") EXCEPT !.reclaim = "Delete"],
     pv3  |-> Item(PV, "", "pv-3"),
     pvc1 |-> [Item(PVC, "ns-2", "claim") EXCEPT !.vn = "pv-2"],
     sa1  |-> [Item(SA, "ns-1", "default") EXCEPT !.secrets = {"s1"}],
     pod1 |-> [Item("pods", "ns-1", "web") EXCEPT !.podvol = TRUE],
     pod2 |-> [Item("pods", "ns-2", "job-pod") EXCEPT !.completed = TRUE],
     pod3 |-> Item("pods", "ns-1", "db"),
     pod4 |-> [Item("pods", "ns-2", "bad") EXCEPT !.ok = FALSE],
     pod5 |-> [Item("pods", "ns-2", "static") EXCEPT !.mirror = TRUE]]
MCItemOrder == <<"pv1", "pv2", "pv3", "pvc1", "sa1", "pod1", "pod2", "pod3", "pod4", "pod5">>
MCNsOrder == <<"ns-1", "ns-2">>

\* ns-1 exists with a ServiceAccount "default" that has another secret and
\* another annotation, and a different pod "db"
MCInitialCluster ==
    [k \in {KeyOf(SA, "ns-1", "default"), KeyOf("pods", "ns-1", "db")} |->
        IF k.res = SA
        THEN [item |-> "sa1", vol |-> 0, vn |-> "", secrets |-> {"s2"}, mutated |-> TRUE]
        ELSE [item |-> "pod3", vol |-> 0, vn |-> "", secrets |-> {}, mutated |-> TRUE]]

\* prioritizedResources from the server's default priority list, and from a
\* list that leaves PVs and PVCs to the by-name sort
Discovered == << <<"namespaces", "pods", PV, PVC, SA>> >>
P == INSTANCE Prioritize WITH
        Resolve <- [ns |-> "namespaces", pv |-> PV, pvc |-> PVC, sa |-> SA, po |-> "pods"],
        Discovery <- Discovered,
        NameOrder <- <<"namespaces", PVC, PV, "pods", SA>>
\* the restore spec names no included or excluded resources
AllResources == P!GetResourceIncludesExcludes({}, {})
DefaultOrder == P!Prioritize(<<"ns", "pv", "pvc", "sa", "po">>, AllResources).result
ByNameOrder == P!Prioritize(<<"ns">>, AllResources).result

MCClusterScoped == {"namespaces", PV}
AllNamespaces == [includes |-> {}, excludes |-> {}]
NotNs2 == [includes |-> {}, excludes |-> {"ns-2"}]
NoMapping == [n \in {} |-> ""]
Ns1ToNs3 == [n \in {"ns-1"} |-> "ns-3"]

\* one item action for pods in every namespace, selecting pod "web"
MCActions == P!ResolveActions(
    [podAction |-> [includedResources |-> {"po"}, excludedResources |-> {},
                    includedNamespaces |-> {}, excludedNamespaces |-> {},
                    selects |-> {"pod1"}]])
AllOutcomes == {"none", "mutate", "warn", "error", "warnerr"}
QuietOutcomes == {"none", "mutate"}

RunFaults == {"namespace", "blockstore", "watch", "create", "restic"}
EarlyFaults == {"selector", "priorities", "actions", "resticfactory", "archive", "list", "client"}
AllFaults == RunFaults \cup EarlyFaults
NoFaults == {}
\* the restore run twice: only the ServiceAccount merge and Patch may fail
PatchFaults == {"sapatch"}

=============================================================================
