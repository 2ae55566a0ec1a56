------------------------------ MODULE MCArchive ------------------------------
(***************************************************************************)
(* A backup of up to three items: a pod written twice with two contents,  *)
(* a cluster-scoped PV, and a pod json.Marshal rejects.  Two open files   *)
(* are allowed, so a three-file archive hits the limit.                   *)
(***************************************************************************)
EXTENDS Archive

MCItems ==
    {[res |-> "pods", ns |-> "ns-1", name |-> "web", doc |-> "v1"],
     [res |-> "pods", ns |-> "ns-1", name |-> "web", doc |-> "v2"],
     [res |-> "persistentvolumes", ns |-> "", name |-> "pv-1", doc |-> "v1"],
     [res |-> "pods", ns |-> "ns-2", name |-> "job", doc |-> "chan"]}
MCUnencodable == {"chan"}
AllFaults == {"base", "tempdir", "mkdir", "create", "copy", "removeall"}
NoFaults == {}

=============================================================================
