----------------------------- MODULE Prioritize -----------------------------
(***************************************************************************)
(* prioritizeResources (pkg/restore/restore.go): the configured priority   *)
(* list, resolved through discovery and filtered, followed by every other  *)
(* admitted discovered resource sorted by its "resource.group" name.       *)
(* Together with IncludesExcludes.ShouldInclude (pkg/util/collections,     *)
(* not under src/ and modelled from the spec).                             *)
(***************************************************************************)
EXTENDS Naturals, Sequences, SequencesExt

CONSTANTS
    Resolve,    \* discovery helper's ResourceFor: configured entry -> GroupResource;
                \* an entry outside DOMAIN Resolve fails to resolve
    Discovery,  \* helper.Resources(): one sequence of GroupResources per API group version
    NameOrder   \* every GroupResource, in ascending order of gr.String()

\* gr.String() < gr'.String(), abstracted to the rank in NameOrder
Rank(gr) == CHOOSE i \in DOMAIN NameOrder : NameOrder[i] = gr
NameLess(a, b) == Rank(a) < Rank(b)

\* collections.IncludesExcludes.ShouldInclude: an exclusion wins; an empty
\* include list or "*" includes everything.
ShouldInclude(ie, gr) ==
    /\ gr \notin ie.excludes
    /\ ie.includes = {} \/ "*" \in ie.includes \/ gr \in ie.includes

\* the mapping function of getResourceIncludesExcludes: ResourceFor of the
\* parsed name, or "" when discovery cannot resolve it
ResourceFor(name) == IF name \in DOMAIN Resolve THEN Resolve[name] ELSE ""

\* collections.GenerateIncludesExcludes (pkg/util/collections, not under
\* src/): "*" is kept as an include, every other name is mapped, and a name
\* mapped to "" is left out of the filter; mapping is the function it is given
GenerateIncludesExcludes(includes, excludes, mapping) ==
    [includes |-> {IF x = "*" THEN "*" ELSE mapping[x] : x \in includes} \ {""},
     excludes |-> {mapping[x] : x \in excludes \ {"*"}} \ {""}]

\* getResourceIncludesExcludes: no name that fails to resolve is an error
GetResourceIncludesExcludes(includes, excludes) ==
    GenerateIncludesExcludes(includes, excludes,
                             [x \in includes \cup excludes |-> ResourceFor(x)])

\* resolveActions: each action's AppliesTo selector turned into a resource
\* filter through discovery and a namespace filter as given; the label
\* selector is kept as the set of items it matches
ResolveActions(actions) ==
    [a \in DOMAIN actions |->
        [resources  |-> GetResourceIncludesExcludes(actions[a].includedResources,
                                                   actions[a].excludedResources),
         namespaces |-> [includes |-> actions[a].includedNamespaces,
                         excludes |-> actions[a].excludedNamespaces],
         selects    |-> actions[a].selects]]

\* The first loop: resolve each priority, drop the ones the filter excludes,
\* remember the rest in ret and in set; any unresolvable entry fails the call.
\* mutant: resolved priorities are not remembered in set
RECURSIVE ResolvePrioritiesNoSet(_, _, _, _)
ResolvePrioritiesNoSet(ps, ie, ret, set) ==
    IF ps = <<>> THEN [ok |-> TRUE, ret |-> ret, set |-> set]
    ELSE IF Head(ps) \notin DOMAIN Resolve
         THEN [ok |-> FALSE, ret |-> <<>>, set |-> {}]
         ELSE LET gr == Resolve[Head(ps)] IN
              IF ShouldInclude(ie, gr)
              THEN ResolvePrioritiesNoSet(Tail(ps), ie, Append(ret, gr), set)
              ELSE ResolvePrioritiesNoSet(Tail(ps), ie, ret, set)

RECURSIVE ResolvePriorities(_, _, _, _)
ResolvePriorities(ps, ie, ret, set) ==
    IF ps = <<>> THEN [ok |-> TRUE, ret |-> ret, set |-> set]
    ELSE IF Head(ps) \notin DOMAIN Resolve
         THEN [ok |-> FALSE, ret |-> <<>>, set |-> {}]
         ELSE LET gr == Resolve[Head(ps)] IN
              IF ShouldInclude(ie, gr)
              THEN ResolvePriorities(Tail(ps), ie, Append(ret, gr), set \cup {gr})
              ELSE ResolvePriorities(Tail(ps), ie, ret, set)

\* prioritizeResources: [ok, result]
Prioritize(priorities, ie) ==
    LET first  == ResolvePriorities(priorities, ie, <<>>, {})
        byName == SelectSeq(FlattenSeq(Discovery),
                            LAMBDA gr : ShouldInclude(ie, gr) /\ gr \notin first.set)
    IN  IF first.ok
        THEN [ok |-> TRUE, result |-> first.ret \o SortSeq(byName, NameLess)]
        ELSE [ok |-> FALSE, result |-> <<>>]

=============================================================================
