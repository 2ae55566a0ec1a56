----------------------------- MODULE ArchiveStore -----------------------------
(***************************************************************************)
(* What a backup archive promises (spec.md section 6, the Reader and       *)
(* Writer interfaces of pkg/archive): every item whose Write returned nil  *)
(* is stored, a later Write of the same item replaces the earlier one, and *)
(* once the archive is closed, opening it either fails or shows exactly    *)
(* the stored items.                                                       *)
(***************************************************************************)
EXTENDS Naturals, TLC

CONSTANTS
    Keys,      \* item identities: resource, namespace, name
    Contents   \* the documents an item may hold

VARIABLES
    stored,    \* key -> content of every item stored so far
    sealed,    \* the archive has been closed for writing
    result     \* what opening the archive gave: [status, view]

vars == <<stored, sealed, result>>

NoItems == [k \in {} |-> CHOOSE c \in Contents : TRUE]
NotOpened == [status |-> "none", view |-> NoItems]

Init ==
    /\ stored = NoItems
    /\ sealed = FALSE
    /\ result = NotOpened

Put(k, c) ==
    /\ ~sealed
    /\ stored' = (k :> c) @@ stored
    /\ UNCHANGED <<sealed, result>>

Seal ==
    /\ ~sealed
    /\ sealed' = TRUE
    /\ UNCHANGED <<stored, result>>

Open ==
    /\ sealed /\ result = NotOpened
    /\ result' \in {[status |-> "error", view |-> NoItems],
                    [status |-> "ok", view |-> stored]}
    /\ UNCHANGED <<stored, sealed>>

Next ==
    \/ \E k \in Keys, c \in Contents : Put(k, c)
    \/ Seal
    \/ Open

Spec == Init /\ [][Next]_vars

=============================================================================
