---------------------------- MODULE MutationLock ----------------------------
(***************************************************************************)
(* withMutationLock (lib/mutation-lock.ts) with the coherence provider's   *)
(* leases (runtime/coherence-provider.ts, cache/redis-cache.ts).           *)
(*                                                                         *)
(* In a process of its own the lock is a chain of promises: a call waits   *)
(* for the promise at the tail of its key and becomes the tail.  With a    *)
(* distributed provider the calls of all processes compete for a lease     *)
(* with a time to live, and give up after a while.                         *)
(***************************************************************************)
EXTENDS Naturals, FiniteSets

CONSTANTS Keys,     \* lock keys
          Calls,    \* calls of withMutationLock
          KeyOf,    \* KeyOf[c]: the key of call c
          NoCall    \* no predecessor, no tail, no lease

ASSUME LockAssumption ==
    KeyOf \in [Calls -> Keys] /\ NoCall \notin Calls /\ IsFiniteSet(Calls)

VARIABLES
    distributed,  \* provider.isDistributed
    pc,           \* pc[c]: where call c is
    tail,         \* tails: the call whose promise a newcomer to key k awaits
    previous,     \* previous[c]: the call whose promise c awaits
    released,     \* calls whose promise is resolved
    lease,        \* lease[k]: the call whose token the coordinator holds
    late          \* calls that have waited DISTRIBUTED_LOCK_WAIT_MS

\* What the properties observe; no guard reads them.
VARIABLES
    arrivals,     \* arrivals[k]: calls that have joined the chain of key k
    ticket,       \* ticket[c]: which of them call c was, 0 before it joins
    overrun       \* calls whose lease ran out while they were inside

chain == <<tail, previous, released, arrivals, ticket>>
lockVars == <<distributed, pc, tail, previous, released, arrivals, ticket,
              lease, late, overrun>>

\* "thrown" ends a call that could not reach the coordinator, "dead" one whose
\* process stopped.
Ended == {"done", "timeout", "thrown", "dead"}
Places == {"idle", "waiting", "trying", "asleep", "inside"} \union Ended

TypeOK ==
    /\ distributed \in BOOLEAN
    /\ pc \in [Calls -> Places]
    /\ tail \in [Keys -> Calls \union {NoCall}]
    /\ previous \in [Calls -> Calls \union {NoCall}]
    /\ released \subseteq Calls
    /\ arrivals \in [Keys -> Nat]
    /\ ticket \in [Calls -> Nat]
    /\ lease \in [Keys -> Calls \union {NoCall}]
    /\ late \subseteq Calls
    /\ overrun \subseteq Calls

Init ==
    /\ distributed \in BOOLEAN
    /\ pc = [c \in Calls |-> "idle"]
    /\ tail = [k \in Keys |-> NoCall]
    /\ previous = [c \in Calls |-> NoCall]
    /\ released = {}
    /\ arrivals = [k \in Keys |-> 0]
    /\ ticket = [c \in Calls |-> 0]
    /\ lease = [k \in Keys |-> NoCall]
    /\ late = {}
    /\ overrun = {}

Goto(c, place) == pc' = [pc EXCEPT ![c] = place]

-----------------------------------------------------------------------------
(***************************************************************************)
(* The chain of promises.                                                  *)
(***************************************************************************)

TakeTicket(c) ==
    /\ arrivals' = [arrivals EXCEPT ![KeyOf[c]] = @ + 1]
    /\ ticket' = [ticket EXCEPT ![c] = arrivals[KeyOf[c]] + 1]

\* Mutant: the newcomer awaits the tail but does not become it.
JoinChainKeepsTail(c) ==
    /\ ~ distributed /\ pc[c] = "idle"
    /\ previous' = [previous EXCEPT ![c] = tail[KeyOf[c]]]
    /\ tail' = [tail EXCEPT ![KeyOf[c]] = IF @ = NoCall THEN c ELSE @]
    /\ TakeTicket(c)
    /\ Goto(c, "waiting")
    /\ UNCHANGED <<distributed, released, lease, late, overrun>>

JoinChain(c) ==
    /\ ~ distributed /\ pc[c] = "idle"
    /\ previous' = [previous EXCEPT ![c] = tail[KeyOf[c]]]
    /\ tail' = [tail EXCEPT ![KeyOf[c]] = c]
    /\ TakeTicket(c)
    /\ Goto(c, "waiting")
    /\ UNCHANGED <<distributed, released, lease, late, overrun>>

EnterFromChain(c) ==
    /\ pc[c] = "waiting"
    /\ previous[c] = NoCall \/ previous[c] \in released
    /\ Goto(c, "inside")
    /\ UNCHANGED <<distributed, chain, lease, late, overrun>>

\* Mutant: the promise is resolved only when fn succeeds, not in a finally.
LeaveChainUnlessThrown(c) ==
    /\ ~ distributed /\ pc[c] = "inside"
    /\ released' \in {released, released \union {c}}
    /\ Goto(c, "done")
    /\ UNCHANGED <<distributed, tail, previous, arrivals, ticket, lease, late, overrun>>

\* fn has returned or thrown.  The entry of the key stays: tails never holds
\* the promise that the code compares it with before deleting it.
LeaveChain(c) ==
    /\ ~ distributed /\ pc[c] = "inside"
    /\ released' = released \union {c}
    /\ Goto(c, "done")
    /\ UNCHANGED <<distributed, tail, previous, arrivals, ticket, lease, late, overrun>>

-----------------------------------------------------------------------------
(***************************************************************************)
(* The lease.                                                              *)
(***************************************************************************)

StartTrying(c) ==
    /\ distributed /\ pc[c] = "idle"
    /\ Goto(c, "trying")
    /\ UNCHANGED <<distributed, chain, lease, late, overrun>>

\* Mutant: the value that is set is the key, not the token.
AcquireLeaseWithoutToken(c) ==
    /\ pc[c] = "trying" /\ lease[KeyOf[c]] = NoCall
    /\ lease' = [lease EXCEPT ![KeyOf[c]] = KeyOf[c]]
    /\ Goto(c, "inside")
    /\ UNCHANGED <<distributed, chain, late, overrun>>

\* SET NX PX: the key is free.
AcquireLease(c) ==
    /\ pc[c] = "trying" /\ lease[KeyOf[c]] = NoCall
    /\ lease' = [lease EXCEPT ![KeyOf[c]] = c]
    /\ Goto(c, "inside")
    /\ UNCHANGED <<distributed, chain, late, overrun>>

LeaseIsTaken(c) ==
    /\ pc[c] = "trying" /\ lease[KeyOf[c]] # NoCall
    /\ Goto(c, "asleep")
    /\ UNCHANGED <<distributed, chain, lease, late, overrun>>

\* The coordinator cannot be reached, or takes the lease and its answer is lost.
TryThrows(c) ==
    /\ pc[c] = "trying"
    /\ \/ UNCHANGED lease
       \/ /\ lease[KeyOf[c]] = NoCall
          /\ lease' = [lease EXCEPT ![KeyOf[c]] = c]
    /\ Goto(c, "thrown")
    /\ UNCHANGED <<distributed, chain, late, overrun>>

WaitElapses(c) ==
    /\ pc[c] \in {"trying", "asleep"} /\ c \notin late
    /\ late' = late \union {c}
    /\ UNCHANGED <<distributed, pc, chain, lease, overrun>>

\* After the sleep: try again, or mutation_lock_timeout.
WakeUp(c) ==
    /\ pc[c] = "asleep"
    /\ Goto(c, IF c \in late THEN "timeout" ELSE "trying")
    /\ UNCHANGED <<distributed, chain, lease, late, overrun>>

\* The time to live of the lease of key k passes.
LeaseExpires(k) ==
    /\ lease[k] # NoCall
    /\ lease' = [lease EXCEPT ![k] = NoCall]
    /\ overrun' = IF pc[lease[k]] = "inside" THEN overrun \union {lease[k]} ELSE overrun
    /\ UNCHANGED <<distributed, pc, chain, late>>

\* Mutant: the lease is deleted whoever holds it by now.
ReleaseAnyOwner(c) == lease' = [lease EXCEPT ![KeyOf[c]] = NoCall]

\* The script compares the token and deletes the key in one step.
ReleaseIfOwner(c) ==
    lease' = [lease EXCEPT ![KeyOf[c]] = IF @ = c THEN NoCall ELSE @]

\* fn has returned or thrown; the release itself may fail, before or after the
\* coordinator has run it, and the call then throws although fn took effect.
LeaveLease(c) ==
    /\ distributed /\ pc[c] = "inside"
    /\ \/ ReleaseIfOwner(c) /\ Goto(c, "done")
       \/ (ReleaseIfOwner(c) \/ UNCHANGED lease) /\ Goto(c, "thrown")
    /\ UNCHANGED <<distributed, chain, late, overrun>>

\* The process of the call stops; the lease stays until it runs out.
Die(c) ==
    /\ distributed /\ pc[c] \in {"trying", "asleep", "inside"}
    /\ Goto(c, "dead")
    /\ UNCHANGED <<distributed, chain, lease, late, overrun>>

-----------------------------------------------------------------------------
Leave(c) == LeaveChain(c) \/ LeaveLease(c)

\* What the event loop and the coordinator do for call c by themselves.
Progress(c) ==
    \/ EnterFromChain(c)
    \/ AcquireLease(c) \/ LeaseIsTaken(c) \/ TryThrows(c) \/ WakeUp(c)

Next ==
    \/ \E c \in Calls :
        \/ JoinChain(c) \/ StartTrying(c)
        \/ Progress(c) \/ WaitElapses(c) \/ Leave(c) \/ Die(c)
    \/ \E k \in Keys : LeaseExpires(k)

Spec == Init /\ [][Next]_lockVars

\* fn ends, promises and timers run, and time passes for a call that waits.
Fairness ==
    \A c \in Calls : WF_lockVars(Progress(c)) /\ WF_lockVars(Leave(c)) /\ WF_lockVars(WaitElapses(c))

FairSpec == Spec /\ Fairness

-----------------------------------------------------------------------------
Inside(k) == {c \in Calls : pc[c] = "inside" /\ KeyOf[c] = k}

\* Of the calls inside the section of a key, all but one have outlived their
\* lease: two calls whose leases are alive are never inside together, whatever
\* late releases, lost answers and dead processes do to the lease.
OneLiveCallInside == \A k \in Keys : \A c, d \in Inside(k) \ overrun : c = d

\* Without a coordinator calls get in in the order in which they arrived, each
\* when all before it have left: no two are ever inside together, and none
\* overtakes another, whether fn returns or throws.
ArrivalOrder ==
    ~ distributed =>
        \A c, d \in Calls :
            /\ KeyOf[c] = KeyOf[d]
            /\ 0 < ticket[d] /\ ticket[d] < ticket[c]
            /\ pc[c] \in {"inside", "done"}
            => pc[d] = "done"

\* A call whose lease is alive holds it: nobody else's release has deleted it.
LiveCallHoldsLease ==
    distributed => \A k \in Keys : \A c \in Inside(k) \ overrun : lease[k] = c

\* The rest of what makes these inductive.  A coordinator's calls and a chain's
\* calls do not meet; tickets are handed out once, the tail of a key holds the
\* last one, and a call waits for the one before it.
ModesApart ==
    /\ distributed => \A c \in Calls : pc[c] # "waiting"
    /\ ~ distributed =>
        /\ overrun = {}
        /\ \A k \in Keys : lease[k] = NoCall
        /\ \A c \in Calls : pc[c] \in {"idle", "waiting", "inside", "done"}
        /\ \A c \in Calls : c \in released <=> pc[c] = "done"
    /\ \A c \in overrun : pc[c] \in {"inside"} \union Ended

TicketsInOrder ==
    ~ distributed =>
        /\ \A c \in Calls : /\ ticket[c] <= arrivals[KeyOf[c]]
                            /\ ticket[c] = 0 <=> pc[c] = "idle"
        /\ \A c, d \in Calls :
            KeyOf[c] = KeyOf[d] /\ ticket[c] = ticket[d] /\ ticket[c] > 0 => c = d

ChainInOrder ==
    ~ distributed =>
        /\ \A k \in Keys :
            IF tail[k] = NoCall THEN arrivals[k] = 0
            ELSE KeyOf[tail[k]] = k /\ ticket[tail[k]] = arrivals[k] /\ arrivals[k] > 0
        /\ \A c \in Calls : pc[c] # "idle" =>
            IF previous[c] = NoCall THEN ticket[c] = 1
            ELSE KeyOf[previous[c]] = KeyOf[c] /\ ticket[previous[c]] + 1 = ticket[c]
                 /\ ticket[previous[c]] > 0

LockInvariant ==
    /\ TypeOK /\ ModesApart /\ TicketsInOrder /\ ChainInOrder
    /\ LiveCallHoldsLease /\ ArrivalOrder

\* The section is used as KeyedSection says, an overrun ending the ownership.
Section == INSTANCE KeyedSection WITH owners <- [k \in Keys |-> Inside(k) \ overrun]

\* Every step of the chain and of the lease is a step of the section's contract.
ImplementsSection == Section!Spec

\* A call ends: in the chain its turn comes, and with a lease it gets in, fails
\* or times out, even when the process that holds the lease is dead.
CallsEnd == \A c \in Calls : (pc[c] # "idle") ~> (pc[c] \in Ended)
=============================================================================
