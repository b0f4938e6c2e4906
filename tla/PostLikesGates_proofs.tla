----------------------- MODULE PostLikesGates_proofs -----------------------
(***************************************************************************)
(* The slots of the concurrency limit, for any number of instances, calls  *)
(* and faults, and any limit.                                              *)
(***************************************************************************)
EXTENDS PostLikes_proofs

USE LikesAssumption

Inside(s) == {c \in Calls : Slot(c) = s /\ call[c].pc \in Slots}
Coming(s) == {c \in Calls : Slot(c) = s /\ call[c].pc = "woken"}
Counted(s) == active[s] = Cardinality(Inside(s))
QueueHasReason(s) ==
  waiting[s] # <<>> => Cardinality(Inside(s)) + Cardinality(Coming(s)) >= Limit
SlotsAreCounted == \A s \in Instances \X Kinds : Counted(s) /\ QueueHasReason(s)

LEMMA SameGates == SlotsAreCounted <=> GateCounts
<1> SUFFICES ASSUME NEW s \in Instances \X Kinds
             PROVE  /\ {c \in Calls : Slot(c) = s /\ call[c].pc \in Slots} = Inside(s)
                    /\ {c \in Calls : Slot(c) = s /\ call[c].pc \in {"woken"}} = Coming(s)
  BY DEF SlotsAreCounted, GateCounts, Counted, QueueHasReason
<1> QED
  BY DEF Inside, Coming

LEMMA FiniteCounts ==
  ASSUME NEW s
  PROVE  /\ IsFiniteSet(Inside(s)) /\ IsFiniteSet(Coming(s))
         /\ Cardinality(Inside(s)) \in Nat /\ Cardinality(Coming(s)) \in Nat
<1>1. IsFiniteSet(Calls)
  BY FS_Interval DEF Calls
<1>2. Inside(s) \subseteq Calls /\ Coming(s) \subseteq Calls
  BY DEF Inside, Coming
<1> QED
  BY <1>1, <1>2, FS_Subset, FS_CardinalityType

LEMMA FiniteCountsAfter ==
  ASSUME NEW s
  PROVE  /\ IsFiniteSet(Inside(s)') /\ IsFiniteSet(Coming(s)')
         /\ Cardinality(Inside(s)') \in Nat /\ Cardinality(Coming(s)') \in Nat
<1>1. IsFiniteSet(Calls)
  BY FS_Interval DEF Calls
<1>2. Inside(s)' \subseteq Calls /\ Coming(s)' \subseteq Calls
  BY DEF Inside, Coming
<1> QED
  BY <1>1, <1>2, FS_Subset, FS_CardinalityType

\* Where the places of a call are.
LEMMA GatePlaces ==
  /\ Slots = {"lock", "leave", "check", "commit", "return"}
  /\ "woken" \notin Slots
  /\ \A pc \in {"none", "joined", "lookup", "lease", "poll", "gate", "woken", "publish", "release"}
       \union Over : pc \notin Slots
  /\ \A pc \in Over : pc # "woken"
BY DEF Slots, Section, Over

\* The place of a call with respect to the gate is what it was.
Stays(d) == /\ call'[d].pc \in Slots <=> call[d].pc \in Slots
            /\ call'[d].pc = "woken" <=> call[d].pc = "woken"
            /\ call[d].pc \in Slots \union {"woken"} => Slot(d)' = Slot(d)

LEMMA StayingCounts ==
  ASSUME NEW s, \A d \in Calls : Stays(d)
  PROVE  Inside(s)' = Inside(s) /\ Coming(s)' = Coming(s)
BY DEF Stays, Inside, Coming

LEMMA CarriedSlot ==
  ASSUME NEW d \in Calls, Carries(d)
  PROVE  Slot(d)' = Slot(d)
BY DEF Carries, Slot

LEMMA StayingStep ==
  ASSUME SlotsAreCounted, \A d \in Calls : Stays(d), UNCHANGED gates
  PROVE  SlotsAreCounted'
BY StayingCounts DEF SlotsAreCounted, Counted, QueueHasReason, gates

LEMMA RestStays ==
  ASSUME NEW d \in Calls, Rests(d)
  PROVE  Stays(d)
BY CarriedSlot DEF Rests, Stays

\* A call that was outside takes a slot.
LEMMA OneMoreInside ==
  ASSUME TypeOK, SlotsAreCounted, NEW c \in Calls, NEW s \in Instances \X Kinds,
         call[c].pc \notin Slots, call'[c].pc = "lock", Slot(c)' = s,
         \A d \in Calls \ {c} : Stays(d),
         active' = [active EXCEPT ![s] = @ + 1], UNCHANGED waiting,
         call[c].pc = "woken" => Slot(c) = s
  PROVE  SlotsAreCounted'
<1> SUFFICES ASSUME NEW z \in Instances \X Kinds PROVE Counted(z)' /\ QueueHasReason(z)'
  BY DEF SlotsAreCounted
<1>p. "lock" \in Slots /\ "woken" # "lock"
  BY GatePlaces
<1>1. CASE z = s
  <2>1. Inside(z)' = Inside(z) \union {c} /\ c \notin Inside(z)
    BY <1>p, <1>1 DEF Inside, Stays
  <2>2. Coming(z)' = Coming(z) \ {c}
    BY <1>p, <1>1 DEF Coming, Stays
  <2>3. Cardinality(Inside(z)') = Cardinality(Inside(z)) + 1
    BY <2>1, FiniteCounts, FS_AddElement
  <2>4. Cardinality(Coming(z)') >= Cardinality(Coming(z)) - 1
    <3>1. CASE c \in Coming(z)
      <4>1. IsFiniteSet(Coming(z)) /\ Cardinality(Coming(z)) \in Nat
        BY FiniteCounts
      <4>2. Cardinality(Coming(z) \ {c}) = Cardinality(Coming(z)) - 1
        BY <3>1, <4>1, FS_RemoveElement
      <4> QED
        BY <2>2, <4>1, <4>2
    <3>2. CASE c \notin Coming(z)
      <4>1. Coming(z)' = Coming(z)
        BY <2>2, <3>2
      <4> QED
        BY <4>1, FiniteCounts
    <3> QED
      BY <3>1, <3>2
  <2>5. Counted(z)'
    BY <1>1, <2>3 DEF SlotsAreCounted, Counted, TypeOK
  <2>6. QueueHasReason(z)'
    BY <2>3, <2>4, FiniteCounts, FiniteCountsAfter DEF SlotsAreCounted, QueueHasReason
  <2> QED
    BY <2>5, <2>6
<1>2. CASE z # s
  <2>1. Inside(z)' = Inside(z) /\ Coming(z)' = Coming(z)
    BY <1>p, <1>2 DEF Inside, Coming, Stays
  <2>2. active'[z] = active[z]
    BY <1>2 DEF TypeOK
  <2> QED
    BY <2>1, <2>2 DEF SlotsAreCounted, Counted, QueueHasReason
<1> QED
  BY <1>1, <1>2

LEMMA ResumeCounts ==
  ASSUME TypeOK, SlotsAreCounted, NEW c \in Calls, Resume(c)
  PROVE  SlotsAreCounted'
<1>1. call[c].pc = "woken" /\ call'[c].pc = "lock" /\ Slot(c)' = Slot(c)
  BY DEF Resume, TypeOK, CallRecords, Slot
<1>2. \A d \in Calls \ {c} : Stays(d)
  BY DEF Resume, TypeOK, Stays, Slot
<1>3. Slot(c) \in Instances \X Kinds
  BY SlotAndKeyType DEF TypeOK, Histories
<1> QED
  BY <1>1, <1>2, <1>3, GatePlaces, OneMoreInside DEF Resume

LEMMA EnterCounts ==
  ASSUME TypeOK, SlotsAreCounted, NEW c \in Calls, NEW r \in CallRecords, EnterLimit(c, r),
         call[c].pc \in {"none", "lease", "poll"}
  PROVE  SlotsAreCounted'
<1> DEFINE s == <<r.at, r.kind>>
<1>s. s \in Instances \X Kinds
  BY DEF CallRecords
<1>t. call \in Histories
  BY DEF TypeOK, Histories
<1>o. call[c].pc \notin Slots /\ call[c].pc # "woken"
  BY GatePlaces
<1>i. active[s] \in Int
  BY <1>s DEF TypeOK
<1>1. CASE active[s] < Limit
  <2>0. /\ active' = [active EXCEPT ![s] = @ + 1] /\ UNCHANGED waiting
        /\ call' = [call EXCEPT ![c] = [r EXCEPT !.pc = "lock"]]
    BY <1>1, <1>i DEF EnterLimit
  <2>1. call'[c].pc = "lock" /\ Slot(c)' = s
    BY <1>t, <2>0 DEF Histories, CallRecords, Slot
  <2>2. \A d \in Calls \ {c} : Stays(d)
    BY <1>t, <2>0 DEF Histories, Stays, Slot
  <2>3. active' = [active EXCEPT ![s] = @ + 1] /\ UNCHANGED waiting
    BY <2>0
  <2> HIDE DEF s
  <2> QED
    BY <1>s, <1>o, <2>1, <2>2, <2>3, OneMoreInside
<1>2. CASE active[s] >= Limit
  <2>0. /\ UNCHANGED active /\ waiting' = [waiting EXCEPT ![s] = Append(@, c)]
        /\ call' = [call EXCEPT ![c] = [r EXCEPT !.pc = "gate"]]
    <3>1. ~ (active[s] < Limit)
      BY <1>2, <1>i
    <3> QED
      BY <3>1 DEF EnterLimit
  <2>1. call'[c].pc = "gate"
    BY <1>t, <2>0 DEF Histories, CallRecords
  <2>2. \A d \in Calls : Stays(d)
    BY <1>t, <1>o, <2>0, <2>1, GatePlaces DEF Histories, Stays, Slot
  <2> HIDE DEF s
  <2> SUFFICES ASSUME NEW z \in Instances \X Kinds PROVE Counted(z)' /\ QueueHasReason(z)'
    BY DEF SlotsAreCounted
  <2>3. Inside(z)' = Inside(z) /\ Coming(z)' = Coming(z)
    BY <2>2, StayingCounts
  <2>4. Counted(z)'
    BY <2>0, <2>3 DEF SlotsAreCounted, Counted
  <2>5. CASE z = s
    <3>1. Cardinality(Inside(z)) >= Limit
      BY <1>2, <2>5 DEF SlotsAreCounted, Counted
    <3>2. Cardinality(Inside(z)) + Cardinality(Coming(z)) >= Limit
      BY <3>1, FiniteCounts
    <3> QED
      BY <2>3, <2>4, <3>2 DEF QueueHasReason
  <2>6. CASE z # s
    <3>1. waiting'[z] = waiting[z]
      BY <2>0, <2>6 DEF TypeOK
    <3>2. QueueHasReason(z)
      BY DEF SlotsAreCounted
    <3> QED
      BY <2>3, <2>4, <3>1, <3>2 DEF QueueHasReason
  <2> QED
    BY <2>4, <2>5, <2>6
<1> QED
  BY <1>1, <1>2, <1>s DEF TypeOK

LEMMA EmptyTail == SubSeq(<<>>, 2, Len(<<>>)) = <<>>
<1>1. <<>> \in Seq(Calls) /\ Len(<<>>) = 0
  BY EmptySeq
<1>2. Len(SubSeq(<<>>, 2, 0)) = 0 /\ SubSeq(<<>>, 2, 0) \in Seq(Calls)
  BY <1>1, SubSeqProperties
<1> QED
  BY <1>1, <1>2, EmptySeq

LEMMA LeaveCounts ==
  ASSUME TypeOK, NothingFailedYet, QueuesAreTrue, SlotsAreCounted, NEW c \in Calls, Leave(c)
  PROVE  SlotsAreCounted'
<1> DEFINE s == Slot(c)
<1>s. s \in Instances \X Kinds
  BY SlotAndKeyType DEF TypeOK, Histories
<1>q. waiting[s] \in Seq(Calls)
  BY <1>s DEF TypeOK
<1>l. Leaves(c)
  BY LeavesStep
<1>c. Carries(c) /\ call[c].pc = "leave" /\ call'[c].pc \notin Slots /\ call'[c].pc # "woken"
  <2>1. c \in Sharing(c)
    BY DEF Sharing
  <2> QED
    BY <1>l, <2>1, GatePlaces DEF Leaves
<1>h. waiting[s] # <<>> => /\ Head(waiting[s]) \in Calls
                           /\ call[Head(waiting[s])].pc = "gate"
                           /\ Slot(Head(waiting[s])) = s
  <2>1. waiting[s] # <<>> => Head(waiting[s]) = waiting[s][1] /\ Len(waiting[s]) > 0
    BY <1>s, HeadWaits
  <2>2. Len(waiting[s]) \in Nat
    BY <1>q, LenProperties
  <2> QED
    BY <1>s, <2>1, <2>2, HeadWaits DEF QueuesAreTrue
<1>d. \A d \in Calls \ {c} :
        IF waiting[s] # <<>> /\ d = Head(waiting[s])
        THEN call'[d].pc = "woken" /\ Slot(d)' = Slot(d)
        ELSE Stays(d)
  <2> SUFFICES ASSUME NEW d \in Calls \ {c}
               PROVE  IF waiting[s] # <<>> /\ d = Head(waiting[s])
                      THEN call'[d].pc = "woken" /\ Slot(d)' = Slot(d)
                      ELSE Stays(d)
    OBVIOUS
  <2>1. CASE d \in Sharing(c)
    <3>1. call[d].pc = "joined" /\ Carries(d) /\ call'[d].pc \in Over \union {"joined"}
      BY <1>l, <2>1 DEF Leaves, Sharing, Rests
    <3>2. ~ (waiting[s] # <<>> /\ d = Head(waiting[s]))
      BY <1>h, <3>1
    <3> QED
      BY <3>1, <3>2, GatePlaces DEF Stays
  <2>2. CASE d \notin Sharing(c)
    BY <1>l, <2>2, CarriedSlot DEF Leaves, Stays
  <2> QED
    BY <2>1, <2>2
<1>a. /\ active' = [active EXCEPT ![s] = @ - 1]
      /\ waiting' = [waiting EXCEPT ![s] = SubSeq(@, 2, Len(@))]
  BY DEF Leave, FreeSlot
<1>e. Slot(c)' = s
  BY <1>c, CarriedSlot
<1> HIDE DEF s
<1> SUFFICES ASSUME NEW z \in Instances \X Kinds PROVE Counted(z)' /\ QueueHasReason(z)'
  BY DEF SlotsAreCounted
<1>g. "leave" \in Slots /\ "gate" \notin Slots /\ "woken" \notin Slots
  BY GatePlaces
<1>n. Slot(c) = s
  BY DEF s
<1>1. CASE z = s
  <2>1. Inside(z)' = Inside(z) \ {c} /\ c \in Inside(z)
    BY <1>1, <1>c, <1>d, <1>g, <1>h, <1>n DEF Inside, Stays
  <2>2. Cardinality(Inside(z)') = Cardinality(Inside(z)) - 1
    <3>1. IsFiniteSet(Inside(z))
      BY FiniteCounts
    <3>2. Cardinality(Inside(z) \ {c}) = Cardinality(Inside(z)) - 1
      BY <2>1, <3>1, FS_RemoveElement
    <3> QED
      BY <2>1, <3>2
  <2>3. Counted(z)'
    BY <1>1, <1>a, <2>2 DEF SlotsAreCounted, Counted, TypeOK
  <2>4. CASE waiting[s] = <<>>
    <3>1. waiting'[z] = <<>>
      BY <1>1, <1>s, <1>a, <2>4, EmptyTail DEF TypeOK
    <3> QED
      BY <2>3, <3>1 DEF QueueHasReason
  <2>5. CASE waiting[s] # <<>>
    <3>1. Coming(z)' = Coming(z) \union {Head(waiting[s])} /\ Head(waiting[s]) \notin Coming(z)
      BY <1>1, <1>c, <1>d, <1>g, <1>h, <2>5 DEF Coming, Stays
    <3>2. Cardinality(Coming(z)') = Cardinality(Coming(z)) + 1
      BY <3>1, FiniteCounts, FS_AddElement
    <3>3. Cardinality(Inside(z)) + Cardinality(Coming(z)) >= Limit
      BY <1>1, <2>5 DEF SlotsAreCounted, QueueHasReason
    <3> QED
      BY <2>2, <2>3, <3>2, <3>3, FiniteCounts DEF QueueHasReason
  <2> QED
    BY <2>4, <2>5
<1>2. CASE z # s
  <2>1. Inside(z)' = Inside(z)
    BY <1>2, <1>c, <1>d, <1>e, <1>g, <1>h, <1>n DEF Inside, Stays
  <2>2. Coming(z)' = Coming(z)
    BY <1>2, <1>c, <1>d, <1>e, <1>h, <1>n DEF Coming, Stays
  <2>3. active'[z] = active[z] /\ waiting'[z] = waiting[z]
    BY <1>2, <1>a DEF TypeOK
  <2> QED
    BY <2>1, <2>2, <2>3 DEF SlotsAreCounted, Counted, QueueHasReason
<1> QED
  BY <1>1, <1>2

LEMMA CrashCounts ==
  ASSUME TypeOK, SlotsAreCounted, NEW i \in Instances, Crash(i)
  PROVE  SlotsAreCounted'
<1> SUFFICES ASSUME NEW z \in Instances \X Kinds PROVE Counted(z)' /\ QueueHasReason(z)'
  BY DEF SlotsAreCounted
<1>1. \A d \in Calls : /\ Slot(d)' = Slot(d)
                       /\ call'[d].pc = IF call[d].at = i /\ InFlight(d) THEN "gone"
                                        ELSE call[d].pc
  BY DEF Crash, TypeOK, CallRecords, Slot
<1>2. /\ "gone" \notin Slots /\ Slots \subseteq Leads /\ "woken" \in Leads
      /\ \A d \in Calls : Slot(d)[1] = call[d].at
  BY GatePlaces DEF Over, Leads, Slot
<1>3. /\ active'[z] = IF z[1] = i THEN 0 ELSE active[z]
      /\ waiting'[z] = IF z[1] = i THEN <<>> ELSE waiting[z]
  BY DEF Crash, TypeOK
<1>4. CASE z[1] = i
  <2>1. Inside(z)' = {}
    BY <1>1, <1>2, <1>4 DEF Inside, InFlight
  <2> QED
    BY <1>3, <1>4, <2>1, FS_EmptySet DEF Counted, QueueHasReason
<1>5. CASE z[1] # i
  <2>1. Inside(z)' = Inside(z) /\ Coming(z)' = Coming(z)
    BY <1>1, <1>2, <1>5 DEF Inside, Coming
  <2> QED
    BY <1>3, <1>5, <2>1 DEF SlotsAreCounted, Counted, QueueHasReason
<1> QED
  BY <1>4, <1>5

LEMMA ArriveCounts ==
  ASSUME TypeOK, SlotsAreCounted, NEW c \in Calls, NEW v \in Viewers, NEW kind \in Kinds,
         NEW i \in Instances, Arrive(c, v, kind, i)
  PROVE  SlotsAreCounted'
<1> DEFINE r == [pc |-> "none", viewer |-> v, kind |-> kind, at |-> i, via |-> "work",
                 ok |-> TRUE, met |-> (v \in likes) <=> (kind = "like"),
                 past |-> PastResult(<<v, kind>>)]
<1>t. call \in Histories
  BY DEF TypeOK, Histories
<1>1. PastResult(<<v, kind>>) \in Calls \union {NoCall}
  BY DEF PastResult, TypeOK, Keys
<1>2. r \in CallRecords
  BY <1>1 DEF CallRecords
<1>3. call[c].pc = "none"
  BY DEF Arrive
<1>4. CASE EnterLimit(c, r)
  BY <1>2, <1>3, <1>4, EnterCounts
<1>5. CASE /\ UNCHANGED gates
           /\ \E pc \in {"joined", "lookup"} : call' = [call EXCEPT ![c] = [r EXCEPT !.pc = pc]]
  <2>1. PICK pc \in {"joined", "lookup"} : call' = [call EXCEPT ![c] = [r EXCEPT !.pc = pc]]
    BY <1>5
  <2>2. call'[c].pc = pc /\ \A d \in Calls \ {c} : call'[d] = call[d]
    BY <1>t, <2>1 DEF Histories, CallRecords
  <2>3. \A d \in Calls : Stays(d)
    BY <1>3, <2>2, GatePlaces DEF Stays, Slot
  <2> QED
    BY <1>5, <2>3, StayingStep
<1> QED
  BY <1>4, <1>5 DEF Arrive

\* The shared work, apart from the gate itself.
LEMMA DedupeCounts ==
  ASSUME TypeOK, NothingFailedYet, SlotsAreCounted, NEW c \in Calls, Dedupe(c)
  PROVE  SlotsAreCounted'
<1>t. call \in Histories
  BY DEF TypeOK, Histories
<1>1. CASE AcquireLease(c)
  <2>1. [call[c] EXCEPT !.via = "lease"] \in CallRecords
    BY <1>t DEF Histories, CallRecords
  <2>2. call[c].pc = "lease" /\ EnterLimit(c, [call[c] EXCEPT !.via = "lease"])
    BY <1>1 DEF AcquireLease
  <2> QED
    BY <2>1, <2>2, EnterCounts
<1>2. CASE PollGivesUp(c)
  BY <1>t, <1>2, EnterCounts DEF PollGivesUp, Histories
<1>3. CASE LookupHit(c) \/ PollHit(c) \/ ReleaseLease(c)
  <2>1. Settles(c) /\ UNCHANGED gates
    BY <1>3, SettlesStep DEF LookupHit, PollHit, Reuse, ReleaseLease
  <2>2. ASSUME NEW d \in Sharing(c) PROVE Stays(d)
    <3>1. d \in Calls /\ call[d].pc \in {"joined", "lookup", "poll", "release"}
      BY <2>1 DEF Sharing, Settles
    <3> QED
      BY <2>1, <3>1, GatePlaces DEF Settles, Stays
  <2>3. ASSUME NEW d \in Calls \ Sharing(c) PROVE Stays(d)
    BY <2>1, RestStays DEF Settles
  <2> QED
    BY <2>1, <2>2, <2>3, StayingStep
<1>4. CASE LookupMiss(c) \/ LeaseIsTaken(c) \/ Publish(c)
  <2>1. /\ UNCHANGED gates
        /\ call[c].pc \in {"lookup", "lease", "publish"}
        /\ call'[c].pc \in {"lease", "poll", "release"}
        /\ \A d \in Calls \ {c} : call'[d] = call[d]
    BY <1>t, <1>4 DEF LookupMiss, LeaseIsTaken, Publish, Histories, CallRecords
  <2>2. \A d \in Calls : Stays(d)
    BY <2>1, GatePlaces DEF Stays, Slot
  <2> QED
    BY <2>1, <2>2, StayingStep
<1> QED
  BY <1>1, <1>2, <1>3, <1>4 DEF Dedupe

\* A call that works keeps its slot.
LEMMA WorkCounts ==
  ASSUME TypeOK, SlotsAreCounted, NEW c \in Calls, Work(c)
  PROVE  SlotsAreCounted'
<1>1. Moves(c)
  BY MovesStep
<1>2. UNCHANGED gates /\ call[c].pc \in Slots
  BY GatePlaces DEF Work, EnterSection, LockTimeout, CheckLike, CheckThrows, Commit,
    CommitThrows, Return
<1>3. call'[c].pc \in Slots
  <2>1. CASE Commit(c) \/ CommitThrows(c)
    BY <2>1, CommitEffect, GatePlaces
  <2>2. CASE EnterSection(c) \/ LockTimeout(c) \/ CheckLike(c) \/ CheckThrows(c) \/ Return(c)
    BY <2>2, GatePlaces DEF EnterSection, LockTimeout, CheckLike, CheckThrows, Return,
      TypeOK, CallRecords
  <2> QED
    BY <2>1, <2>2 DEF Work
<1>4. Stays(c)
  BY <1>1, <1>2, <1>3, GatePlaces, CarriedSlot DEF Moves, Stays
<1>5. \A d \in Calls \ {c} : Stays(d)
  BY <1>1, RestStays DEF Moves
<1> QED
  BY <1>2, <1>4, <1>5, StayingStep

LEMMA GateStep ==
  ASSUME TypeOK, NothingFailedYet, QueuesAreTrue, SlotsAreCounted, [Next]_vars
  PROVE  SlotsAreCounted'
<1>1. ASSUME NEW c \in Calls, Step(c) PROVE SlotsAreCounted'
  BY <1>1, ResumeCounts, DedupeCounts, WorkCounts, LeaveCounts DEF Step
<1>2. ASSUME NEW c \in Calls, Outlive(c) PROVE SlotsAreCounted'
  BY <1>2, StayingStep DEF Outlive, Stays, Slot
<1>3. ASSUME NEW k \in Keys, LeaseExpires(k) \/ ResultExpires(k) PROVE SlotsAreCounted'
  BY <1>3, StayingStep DEF LeaseExpires, ResultExpires, Stays, Slot
<1>4. ASSUME NEW c \in Calls, LateBatch(c) PROVE SlotsAreCounted'
  BY <1>4, LateBatchRests, RestStays, StayingStep DEF LateBatch
<1>5. CASE UNCHANGED vars
  BY <1>5, StayingStep DEF vars, gates, Stays, Slot
<1> QED
  BY <1>1, <1>2, <1>3, <1>4, <1>5, ArriveCounts, CrashCounts DEF Next

LEMMA GateInit == ASSUME Init PROVE SlotsAreCounted
<1> SUFFICES ASSUME NEW s \in Instances \X Kinds PROVE Counted(s) /\ QueueHasReason(s)
  BY DEF SlotsAreCounted
<1>1. Inside(s) = {}
  BY GatePlaces DEF Init, NewCall, Inside
<1> QED
  BY <1>1, FS_EmptySet DEF Init, Counted, QueueHasReason

\* The counter of an instance is the number of calls inside its limit, and no
\* wake-up is lost: a call queues only while as many as the limit are inside or
\* on their way in, across joined calls, errors and restarts.
THEOREM SlotsAreTrue == Spec => []GateCounts
<1>1. TypeOK /\ NothingFailedYet /\ QueuesAreTrue /\ SlotsAreCounted /\ [Next]_vars
      => SlotsAreCounted'
  BY GateStep
<1>2. SlotsAreCounted => GateCounts
  BY SameGates
<1> QED
  BY <1>1, <1>2, GateInit, CallsAreHeldAlways, TypeCorrectness, PTL DEF Spec
=============================================================================
