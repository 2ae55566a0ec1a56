SPECIFICATION Spec
INVARIANT PrioritizeMatchesReference
