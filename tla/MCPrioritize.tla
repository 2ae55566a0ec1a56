---------------------------- MODULE MCPrioritize ----------------------------
(***************************************************************************)
(* Checks prioritizeResources against the order spec.md section 4.1        *)
(* promises, for every priority list of up to MaxPriorities entries and    *)
(* every resource filter built from the sets below.                        *)
(***************************************************************************)
EXTENDS Naturals, Sequences, SequencesExt

MCResolve == [ns |-> "namespaces", pv |-> "persistentvolumes",
              pvc |-> "persistentvolumeclaims", po |-> "pods", pods |-> "pods"]
MCDiscovery == << <<"namespaces", "pods", "persistentvolumes",
                    "persistentvolumeclaims", "serviceaccounts">>,
                  <<"deployments.apps">> >>
MCNameOrder == <<"deployments.apps", "namespaces", "persistentvolumeclaims",
                 "persistentvolumes", "pods", "serviceaccounts">>

INSTANCE Prioritize WITH Resolve <- MCResolve, Discovery <- MCDiscovery,
                         NameOrder <- MCNameOrder

\* "bogus" is an entry discovery cannot resolve; "po" and "pods" resolve alike
Entries == {"ns", "pv", "pvc", "po", "pods", "bogus"}
MaxPriorities == 3

VARIABLES priorities, filter
vars == <<priorities, filter>>

Init ==
    /\ priorities \in BoundedSeq(Entries, MaxPriorities)
    /\ filter \in [includes : {{}, {"*"}, {"pods", "persistentvolumes"}},
                   excludes : SUBSET {"pods", "persistentvolumeclaims"}]

Next == UNCHANGED vars

Spec == Init /\ [][Next]_vars

(***************************************************************************)
(* Reference (spec.md 4.1, 8): the call fails exactly when some configured *)
(* entry cannot be resolved; otherwise the result is the admitted resolved *)
(* priorities in configured order, then every other admitted discovered    *)
(* resource exactly once in ascending name order, and nothing else.        *)
(***************************************************************************)
PrioritizeMatchesReference ==
    LET out  == Prioritize(priorities, filter)
        conf == SelectSeq([i \in 1..Len(priorities) |-> MCResolve[priorities[i]]],
                          LAMBDA g : ShouldInclude(filter, g))
        rest == SubSeq(out.result, Len(conf) + 1, Len(out.result))
        admitted == {g \in ToSet(FlattenSeq(MCDiscovery)) : ShouldInclude(filter, g)}
    IN  /\ out.ok <=> ToSet(priorities) \subseteq DOMAIN MCResolve
        /\ out.ok =>
             /\ SubSeq(out.result, 1, Len(conf)) = conf
             /\ ToSet(rest) = admitted \ ToSet(conf)
             /\ \A i, j \in 1..Len(rest) : i < j => NameLess(rest[i], rest[j])

=============================================================================
