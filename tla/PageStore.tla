------------------------------ MODULE PageStore ------------------------------
(***************************************************************************)
(* What an IStorageManager of the spatial index library promises to its    *)
(* callers: byte arrays under unique ids, and what is left of them after a *)
(* failure.                                                                *)
(***************************************************************************)
CONSTANT Id

VARIABLES
    state,          \* "up", "broken" after a write that failed, or "down"
    stored,         \* the arrays, by id
    failed,         \* those that are only in memory, for their store failed
    safe,           \* those that a failure leaves alone
    touched         \* ids that may have anything, or nothing, after a failure

vars == <<state, stored, failed, safe, touched>>

Init == state = "up" /\ stored = <<>> /\ failed = {} /\ safe = <<>> /\ touched = {}

Restricted(f, S) == [x \in DOMAIN f \ S |-> f[x]]

\* Beside that of an operation, ids of arrays that a buffer writes at some time; such
\* a write may fail.
Touch(S) ==
    /\ state # "down" /\ state' \in {state, "broken"}
    /\ touched \cup S \subseteq touched'
    /\ touched' \subseteq touched \cup S \cup DOMAIN stored
    /\ safe' = Restricted(safe, touched')
    /\ failed' \subseteq failed \cup (IF state' = "broken" THEN touched' ELSE {})

\* storeByteArray under NewPage gives an id that is not in use, and under an id in
\* use replaces its array; deleteByteArray, or a store that failed, removes it.  No
\* other array changes.
Store(id)  == Restricted(stored', {id}) = Restricted(stored, {id}) /\ Touch({id})

\* A load or a clear may change the disk.
Load == UNCHANGED stored /\ Touch({})

\* A clear empties the memory.
Forget ==
    /\ state = "broken" /\ stored' = Restricted(stored, failed) /\ failed' = {}
    /\ UNCHANGED <<state, safe, touched>>

\* The end of the program: whatever is stored is safe.
Sync ==
    /\ state = "up" /\ state' = "down"
    /\ safe' = stored /\ touched' = {}
    /\ UNCHANGED <<stored, failed>>

\* The program is killed, or ends after a write that failed: arrays that were not touched
\* are as they were when it last ended.
Fail ==
    /\ state # "down" /\ state' = "down"
    /\ Restricted(stored', touched) = safe /\ failed' = {}
    /\ UNCHANGED <<safe, touched>>

Open == state = "down" /\ state' = "up" /\ UNCHANGED <<stored, failed, safe, touched>>

\* A new store in place of the old one.
Create ==
    /\ state = "down" /\ state' = "up"
    /\ stored' = <<>> /\ failed' = {} /\ safe' = <<>> /\ touched' = {}

Next == Load \/ Forget \/ Sync \/ Fail \/ Open \/ Create \/ \E id \in Id : Store(id)

Spec == Init /\ [][Next]_vars
=============================================================================
