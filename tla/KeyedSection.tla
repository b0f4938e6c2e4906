---------------------------- MODULE KeyedSection ----------------------------
(***************************************************************************)
(* What a mutation lock promises: at most one call owns the section of a   *)
(* key.  Owners give it up by leaving it, one at a time or together when   *)
(* their process stops, or, where ownership is a lease, by outliving it.   *)
(* MutationLock implements it; PostLikes uses the lock by this alone.      *)
(***************************************************************************)
CONSTANTS Keys, Calls

VARIABLE owners   \* owners[k]: the calls that own the section of key k

Init == owners = [k \in Keys |-> {}]

Enter(k, c) ==
    /\ owners[k] = {}
    /\ owners' = [owners EXCEPT ![k] = {c}]

Yield(C) == owners' = [k \in Keys |-> owners[k] \ C]

Next == \/ \E k \in Keys, c \in Calls : Enter(k, c)
        \/ \E C \in SUBSET Calls : Yield(C)

Spec == Init /\ [][Next]_owners
=============================================================================
