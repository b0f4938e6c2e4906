------------------------ MODULE MutationLock_proofs ------------------------
(***************************************************************************)
(* The mutation lock, for any number of calls and keys: in a process the   *)
(* chain of promises excludes and keeps the order of arrival, and a lease  *)
(* excludes the calls that have not outlived theirs.                       *)
(***************************************************************************)
EXTENDS MutationLock, TLAPS

USE LockAssumption

\* Nothing is held and nobody waits at the start.
LEMMA LockInit == Init => LockInvariant
BY DEF Init, LockInvariant, TypeOK, ModesApart, TicketsInOrder, ChainInOrder,
       LiveCallHoldsLease, ArrivalOrder, Inside, Places, Ended

\* A step keeps the types.
LEMMA LockTypeStep == TypeOK /\ [Next]_lockVars => TypeOK'
<1> SUFFICES ASSUME TypeOK, [Next]_lockVars  PROVE TypeOK'
  OBVIOUS
<1> USE DEF TypeOK, chain, Goto, Places, Ended
<1>1. ASSUME NEW c \in Calls, JoinChain(c)  PROVE TypeOK'
  BY <1>1 DEF JoinChain, TakeTicket
<1>2. ASSUME NEW c \in Calls, StartTrying(c)  PROVE TypeOK'
  BY <1>2 DEF StartTrying
<1>3. ASSUME NEW c \in Calls, EnterFromChain(c)  PROVE TypeOK'
  BY <1>3 DEF EnterFromChain
<1>4. ASSUME NEW c \in Calls, AcquireLease(c)  PROVE TypeOK'
  BY <1>4 DEF AcquireLease
<1>5. ASSUME NEW c \in Calls, LeaseIsTaken(c)  PROVE TypeOK'
  BY <1>5 DEF LeaseIsTaken
<1>6. ASSUME NEW c \in Calls, TryThrows(c)  PROVE TypeOK'
  BY <1>6 DEF TryThrows
<1>7. ASSUME NEW c \in Calls, WakeUp(c)  PROVE TypeOK'
  BY <1>7 DEF WakeUp
<1>8. ASSUME NEW c \in Calls, WaitElapses(c)  PROVE TypeOK'
  BY <1>8 DEF WaitElapses
<1>9. ASSUME NEW c \in Calls, LeaveChain(c)  PROVE TypeOK'
  BY <1>9 DEF LeaveChain
<1>10. ASSUME NEW c \in Calls, LeaveLease(c)  PROVE TypeOK'
  BY <1>10 DEF LeaveLease, ReleaseIfOwner
<1>11. ASSUME NEW c \in Calls, Die(c)  PROVE TypeOK'
  BY <1>11 DEF Die
<1>12. ASSUME NEW k \in Keys, LeaseExpires(k)  PROVE TypeOK'
  BY <1>12 DEF LeaseExpires
<1>13. CASE UNCHANGED lockVars
  BY <1>13 DEF lockVars
<1> QED
  BY <1>1, <1>2, <1>3, <1>4, <1>5, <1>6, <1>7, <1>8, <1>9, <1>10, <1>11, <1>12, <1>13
     DEF Next, Progress, Leave

\* Every step of the chain hands out the next ticket or lets the next call in.
LEMMA ChainStep ==
    ASSUME LockInvariant, [Next]_lockVars, ~ distributed
    PROVE  ModesApart' /\ TicketsInOrder' /\ ChainInOrder' /\ ArrivalOrder' /\ LiveCallHoldsLease'
<1> USE DEF TypeOK
<1>0. TypeOK /\ ModesApart /\ TicketsInOrder /\ ChainInOrder /\ ArrivalOrder
  BY DEF LockInvariant
<1>1. ~ distributed'
  BY DEF Next, Progress, Leave, JoinChain, StartTrying, EnterFromChain, AcquireLease,
         LeaseIsTaken, TryThrows, WakeUp, WaitElapses, LeaveChain, LeaveLease, Die,
         LeaseExpires, lockVars
<1>2. \/ \E c \in Calls : JoinChain(c) \/ EnterFromChain(c) \/ LeaveChain(c)
      \/ UNCHANGED lockVars
  BY <1>0 DEF ModesApart, Next, Progress, Leave, StartTrying, AcquireLease, LeaseIsTaken,
              TryThrows, WakeUp, WaitElapses, LeaveLease, Die, LeaseExpires
<1>3. ASSUME NEW c \in Calls, JoinChain(c)
      PROVE  ModesApart' /\ TicketsInOrder' /\ ChainInOrder' /\ ArrivalOrder'
  <2> DEFINE k == KeyOf[c]
  <2>1. /\ pc[c] = "idle" /\ pc' = [pc EXCEPT ![c] = "waiting"]
        /\ previous' = [previous EXCEPT ![c] = tail[k]]
        /\ tail' = [tail EXCEPT ![k] = c]
        /\ arrivals' = [arrivals EXCEPT ![k] = @ + 1]
        /\ ticket' = [ticket EXCEPT ![c] = arrivals[k] + 1]
        /\ UNCHANGED <<released, lease, overrun>>
    BY <1>3 DEF JoinChain, TakeTicket, Goto
  <2>2. ModesApart'
    BY <1>0, <1>1, <2>1 DEF ModesApart
  <2>3. TicketsInOrder'
    BY <1>0, <1>1, <2>1 DEF TicketsInOrder
  <2>4. ChainInOrder'
    BY <1>0, <1>1, <2>1 DEF TicketsInOrder, ChainInOrder
  <2>5. ArrivalOrder'
    BY <1>0, <1>1, <2>1 DEF TicketsInOrder, ArrivalOrder
  <2> QED
    BY <2>2, <2>3, <2>4, <2>5
<1>4. ASSUME NEW c \in Calls, EnterFromChain(c)
      PROVE  ModesApart' /\ TicketsInOrder' /\ ChainInOrder' /\ ArrivalOrder'
  <2>1. /\ pc[c] = "waiting" /\ pc' = [pc EXCEPT ![c] = "inside"]
        /\ previous[c] = NoCall \/ previous[c] \in released
        /\ UNCHANGED <<tail, previous, released, arrivals, ticket, lease, overrun>>
    BY <1>4 DEF EnterFromChain, chain, Goto
  <2>2. ModesApart' /\ TicketsInOrder' /\ ChainInOrder'
    BY <1>0, <1>1, <2>1 DEF ModesApart, TicketsInOrder, ChainInOrder
  <2>3. ASSUME NEW d \in Calls, KeyOf[c] = KeyOf[d], 0 < ticket[d], ticket[d] < ticket[c]
        PROVE  pc[d] = "done"
    <3>1. previous[c] # NoCall
      BY <1>0, <2>1, <2>3 DEF ChainInOrder
    <3>2. /\ pc[previous[c]] = "done" /\ KeyOf[previous[c]] = KeyOf[c]
          /\ ticket[previous[c]] + 1 = ticket[c] /\ ticket[previous[c]] > 0
      BY <1>0, <2>1, <3>1 DEF ChainInOrder, ModesApart
    <3>3. CASE ticket[d] = ticket[previous[c]]
      BY <1>0, <2>3, <3>1, <3>2, <3>3 DEF TicketsInOrder
    <3>4. CASE ticket[d] < ticket[previous[c]]
      BY <1>0, <2>3, <3>1, <3>2, <3>4 DEF ArrivalOrder
    <3> QED
      <4>1. previous[c] \in Calls /\ ticket[previous[c]] \in Nat /\ ticket[d] \in Nat
        BY <1>0, <3>1
      <4> QED
        BY <2>3, <3>2, <3>3, <3>4, <4>1
  <2>4. ArrivalOrder'
    BY <1>0, <1>1, <2>1, <2>3 DEF ArrivalOrder
  <2> QED
    BY <2>2, <2>4
<1>5. ASSUME NEW c \in Calls, LeaveChain(c)
      PROVE  ModesApart' /\ TicketsInOrder' /\ ChainInOrder' /\ ArrivalOrder'
  <2>1. /\ pc[c] = "inside" /\ pc' = [pc EXCEPT ![c] = "done"]
        /\ released' = released \union {c}
        /\ UNCHANGED <<tail, previous, arrivals, ticket, lease, overrun>>
    BY <1>5 DEF LeaveChain, Goto
  <2> QED
    BY <1>0, <1>1, <2>1 DEF ModesApart, TicketsInOrder, ChainInOrder, ArrivalOrder
<1>6. CASE UNCHANGED lockVars
  <2>1. /\ pc' = pc /\ tail' = tail /\ previous' = previous /\ released' = released
        /\ arrivals' = arrivals /\ ticket' = ticket /\ lease' = lease /\ overrun' = overrun
    BY <1>6 DEF lockVars
  <2>2. ModesApart' /\ ArrivalOrder'
    BY <1>0, <1>1, <2>1 DEF ModesApart, ArrivalOrder
  <2>3. TicketsInOrder' /\ ChainInOrder'
    BY <1>0, <1>1, <2>1 DEF TicketsInOrder, ChainInOrder
  <2> QED
    BY <1>1, <2>2, <2>3 DEF LiveCallHoldsLease
<1> QED
  BY <1>1, <1>2, <1>3, <1>4, <1>5, <1>6 DEF LiveCallHoldsLease

\* Every step of the coordinator leaves the lease with the live call inside.
LEMMA LeaseStep ==
    ASSUME LockInvariant, [Next]_lockVars, distributed
    PROVE  ModesApart' /\ LiveCallHoldsLease' /\ distributed'
<1> USE DEF TypeOK, Goto, chain
<1>0. TypeOK /\ ModesApart /\ LiveCallHoldsLease
  BY DEF LockInvariant
<1> USE DEF ModesApart, LiveCallHoldsLease, Inside, Ended
<1>1. ASSUME NEW c \in Calls, StartTrying(c)  PROVE ModesApart' /\ LiveCallHoldsLease' /\ distributed'
  BY <1>0, <1>1 DEF StartTrying
<1>2. ASSUME NEW c \in Calls, AcquireLease(c)  PROVE ModesApart' /\ LiveCallHoldsLease' /\ distributed'
  BY <1>0, <1>2 DEF AcquireLease
<1>3. ASSUME NEW c \in Calls, LeaseIsTaken(c)  PROVE ModesApart' /\ LiveCallHoldsLease' /\ distributed'
  BY <1>0, <1>3 DEF LeaseIsTaken
<1>4. ASSUME NEW c \in Calls, TryThrows(c)  PROVE ModesApart' /\ LiveCallHoldsLease' /\ distributed'
  BY <1>0, <1>4 DEF TryThrows
<1>5. ASSUME NEW c \in Calls, WakeUp(c)  PROVE ModesApart' /\ LiveCallHoldsLease' /\ distributed'
  BY <1>0, <1>5 DEF WakeUp
<1>6. ASSUME NEW c \in Calls, WaitElapses(c)  PROVE ModesApart' /\ LiveCallHoldsLease' /\ distributed'
  BY <1>0, <1>6 DEF WaitElapses
<1>7. ASSUME NEW c \in Calls, LeaveLease(c)  PROVE ModesApart' /\ LiveCallHoldsLease' /\ distributed'
  BY <1>0, <1>7 DEF LeaveLease, ReleaseIfOwner
<1>8. ASSUME NEW c \in Calls, Die(c)  PROVE ModesApart' /\ LiveCallHoldsLease' /\ distributed'
  BY <1>0, <1>8 DEF Die
<1>9. ASSUME NEW k \in Keys, LeaseExpires(k)  PROVE ModesApart' /\ LiveCallHoldsLease' /\ distributed'
  BY <1>0, <1>9 DEF LeaseExpires
<1>10. CASE UNCHANGED lockVars
  BY <1>0, <1>10 DEF lockVars
<1> QED
  BY <1>0, <1>1, <1>2, <1>3, <1>4, <1>5, <1>6, <1>7, <1>8, <1>9, <1>10
     DEF Next, Progress, Leave, JoinChain, EnterFromChain, LeaveChain

\* The invariant of the lock holds in every reachable state.
THEOREM LockInvariance == Spec => []LockInvariant
<1>1. LockInvariant /\ [Next]_lockVars => LockInvariant'
  <2> SUFFICES ASSUME LockInvariant, [Next]_lockVars  PROVE LockInvariant'
    OBVIOUS
  <2>1. TypeOK'
    BY LockTypeStep DEF LockInvariant
  <2>2. CASE distributed
    BY <2>1, <2>2, LeaseStep DEF LockInvariant, TicketsInOrder, ChainInOrder, ArrivalOrder
  <2>3. CASE ~ distributed
    BY <2>1, <2>3, ChainStep DEF LockInvariant
  <2> QED
    BY <2>2, <2>3
<1> QED
  BY <1>1, LockInit, PTL DEF Spec

\* With a lease the one live call inside is the one that holds it; in the chain
\* two calls inside would each have let the other leave first.
LEMMA OneLive == LockInvariant => OneLiveCallInside
<1> SUFFICES ASSUME LockInvariant, NEW k \in Keys,
                    NEW c \in Inside(k) \ overrun, NEW d \in Inside(k) \ overrun
             PROVE  c = d
  BY DEF OneLiveCallInside
<1>0. c \in Calls /\ d \in Calls /\ KeyOf[c] = KeyOf[d] /\ pc[c] = "inside" /\ pc[d] = "inside"
  BY DEF Inside
<1>1. CASE distributed
  BY <1>1 DEF LockInvariant, LiveCallHoldsLease
<1>2. CASE ~ distributed
  <2>1. ticket[c] > 0 /\ ticket[d] > 0 /\ ticket[c] \in Nat /\ ticket[d] \in Nat
    BY <1>0, <1>2 DEF LockInvariant, TicketsInOrder, TypeOK
  <2>2. ~ (ticket[c] < ticket[d]) /\ ~ (ticket[d] < ticket[c])
    BY <1>0, <1>2, <2>1 DEF LockInvariant, ArrivalOrder
  <2> QED
    BY <1>0, <1>2, <2>1, <2>2 DEF LockInvariant, TicketsInOrder
<1> QED
  BY <1>1, <1>2

\* At most one call inside a section has not outlived its lease, for any number
\* of calls, keys, late releases and dead processes.
THEOREM ExclusionWhileLeasesLive == Spec => []OneLiveCallInside
BY OneLive, LockInvariance, PTL

Live(c) == pc[c] = "inside" /\ c \notin overrun
Owners == [k \in Keys |-> Inside(k) \ overrun]

\* A step makes at most one call enter, leave or outlive its lease.
LEMMA OneCallMoves ==
    ASSUME TypeOK, [Next]_lockVars
    PROVE  \/ Owners' = Owners
           \/ \E c \in Calls : \A d \in Calls \ {c} : Live(d)' = Live(d)
<1> USE DEF TypeOK, Live, Goto
<1>1. ASSUME NEW c \in Calls,
             \/ JoinChain(c) \/ StartTrying(c) \/ EnterFromChain(c) \/ AcquireLease(c)
             \/ LeaseIsTaken(c) \/ TryThrows(c) \/ WakeUp(c) \/ LeaveChain(c) \/ LeaveLease(c) \/ Die(c)
      PROVE  \A d \in Calls \ {c} : Live(d)' = Live(d)
  BY <1>1 DEF JoinChain, StartTrying, EnterFromChain, AcquireLease, LeaseIsTaken, TryThrows,
              WakeUp, LeaveChain, LeaveLease, Die
<1>2. ASSUME NEW k \in Keys, LeaseExpires(k)
      PROVE  lease[k] \in Calls /\ \A d \in Calls \ {lease[k]} : Live(d)' = Live(d)
  BY <1>2 DEF LeaseExpires
<1>3. ASSUME NEW c \in Calls, WaitElapses(c)  PROVE Owners' = Owners
  BY <1>3 DEF WaitElapses, Owners, Inside
<1>4. CASE UNCHANGED lockVars
  BY <1>4 DEF lockVars, Owners, Inside
<1> QED
  BY <1>1, <1>2, <1>3, <1>4 DEF Next, Progress, Leave

\* The call that moves finds the section free, or was its owner.
LEMMA SectionStep ==
    ASSUME LockInvariant, LockInvariant', [Next]_lockVars
    PROVE  \/ Owners' = Owners
           \/ \E k \in Keys, c \in Calls :
                \/ Owners[k] = {} /\ Owners' = [Owners EXCEPT ![k] = {c}]
                \/ Owners[k] = {c} /\ Owners' = [Owners EXCEPT ![k] = {}]
<1>0. TypeOK /\ OneLiveCallInside /\ OneLiveCallInside'
  <2>1. OneLiveCallInside /\ OneLiveCallInside'
    BY OneLive, PTL
  <2> QED
    BY <2>1 DEF LockInvariant
<1>1. /\ \A k \in Keys : Owners[k] = {c \in Calls : Live(c) /\ KeyOf[c] = k}
      /\ \A k \in Keys : Owners'[k] = {c \in Calls : Live(c)' /\ KeyOf[c] = k}
      /\ DOMAIN Owners = Keys /\ DOMAIN Owners' = Keys
      /\ Owners = [k \in Keys |-> Owners[k]] /\ Owners' = [k \in Keys |-> Owners'[k]]
  BY DEF Owners, Inside, Live
<1>2. ASSUME NEW c \in Calls, \A d \in Calls \ {c} : Live(d)' = Live(d)
      PROVE  \/ Owners' = Owners
             \/ Owners[KeyOf[c]] = {} /\ Owners' = [Owners EXCEPT ![KeyOf[c]] = {c}]
             \/ Owners[KeyOf[c]] = {c} /\ Owners' = [Owners EXCEPT ![KeyOf[c]] = {}]
  <2>0. KeyOf[c] \in Keys
    OBVIOUS
  <2>1. \A k \in Keys \ {KeyOf[c]} : Owners'[k] = Owners[k]
    BY <1>1, <1>2
  <2>2. CASE Live(c)' = Live(c)
    <3>1. \A k \in Keys : Owners'[k] = Owners[k]
      BY <1>1, <1>2, <2>2
    <3> QED
      BY <1>1, <3>1
  <2>3. CASE Live(c) /\ ~ Live(c)'
    <3>1. \A d \in Calls : Live(d) /\ KeyOf[d] = KeyOf[c] => d = c
      BY <1>0, <2>0, <2>3 DEF OneLiveCallInside, Inside, Live
    <3>2. Owners[KeyOf[c]] = {c} /\ Owners'[KeyOf[c]] = {}
      BY <1>1, <1>2, <2>0, <2>3, <3>1
    <3> QED
      BY <1>1, <2>0, <2>1, <3>2
  <2>4. CASE ~ Live(c) /\ Live(c)'
    <3>1. \A d \in Calls : Live(d)' /\ KeyOf[d] = KeyOf[c] => d = c
      BY <1>0, <2>0, <2>4 DEF OneLiveCallInside, Inside, Live
    <3>2. Owners[KeyOf[c]] = {} /\ Owners'[KeyOf[c]] = {c}
      BY <1>1, <1>2, <2>0, <2>4, <3>1
    <3> QED
      BY <1>1, <2>0, <2>1, <3>2
  <2> QED
    BY <2>2, <2>3, <2>4 DEF Live
<1> QED
  BY <1>0, <1>2, OneCallMoves

\* The lock is used as KeyedSection says, in both modes.
THEOREM LockRefinement == Spec => ImplementsSection
<1>1. Init => Section!Init
  BY DEF Init, Section!Init, Inside
<1>2. LockInvariant /\ LockInvariant' /\ [Next]_lockVars => [Section!Next]_Owners
  <2> SUFFICES ASSUME LockInvariant, LockInvariant', [Next]_lockVars
               PROVE  Section!Next \/ Owners' = Owners
    OBVIOUS
  <2>1. ASSUME NEW k \in Keys, NEW c \in Calls, Owners[k] = {},
               Owners' = [Owners EXCEPT ![k] = {c}]
        PROVE  Section!Next
    BY <2>1 DEF Section!Next, Section!Enter, Owners
  <2>2. ASSUME NEW k \in Keys, NEW c \in Calls, Owners[k] = {c},
               Owners' = [Owners EXCEPT ![k] = {}]
        PROVE  Section!Next
    <3>1. \A j \in Keys \ {k} : c \notin Owners[j]
      BY <2>2 DEF Owners, Inside
    <3>2. Owners' = [j \in Keys |-> Owners[j] \ {c}]
      <4>1. \A j \in Keys : Owners'[j] = IF j = k THEN {} ELSE Owners[j]
        BY <2>2 DEF Owners
      <4>2. \A j \in Keys : Owners'[j] = Owners[j] \ {c}
        BY <2>2, <3>1, <4>1
      <4>3. Owners' = [j \in Keys |-> Owners'[j]]
        BY DEF Owners
      <4> QED
        BY <4>2, <4>3
    <3>3. Section!Yield({c})
      BY <3>2 DEF Section!Yield, Owners
    <3> QED
      BY <3>3 DEF Section!Next
  <2> QED
    BY <2>1, <2>2, SectionStep
<1> QED
  BY <1>1, <1>2, LockInvariance, PTL DEF Spec, ImplementsSection, Section!Spec, Owners

\* In one process calls run in the order of their arrival, one at a time.
THEOREM ChainKeepsOrder == Spec => []ArrivalOrder
<1>1. LockInvariant => ArrivalOrder
  BY DEF LockInvariant
<1> QED
  BY <1>1, LockInvariance, PTL

\* The chain, the leases and the calls keep their types in both modes.
THEOREM LockTypes == Spec => []TypeOK
<1>1. LockInvariant => TypeOK
  BY DEF LockInvariant
<1> QED
  BY <1>1, LockInvariance, PTL
=============================================================================
