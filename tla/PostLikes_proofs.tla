-------------------------- MODULE PostLikes_proofs --------------------------
(***************************************************************************)
(* Likes, for any number of instances, viewers, calls and faults.          *)
(***************************************************************************)
EXTENDS PostLikes, SequenceTheorems, FiniteSetTheorems, TLAPS

USE LikesAssumption

Queues == [Instances \X Kinds -> Seq(Calls)]
Histories == [Calls -> CallRecords]
----------------------------------------------------------------------------
(* Types                                                                   *)

LEMMA SlotAndKeyType ==
  ASSUME call \in Histories, NEW c \in Calls
  PROVE  Slot(c) \in Instances \X Kinds /\ Key(c) \in Keys
BY DEF Histories, CallRecords, Slot, Key, Keys

LEMMA Places ==
  /\ {"lookup", "lease", "poll", "gate", "woken", "publish", "release", "lock", "leave",
      "check", "commit", "return"} = Leads
  /\ Leads \union Over \union {"joined"} \subseteq {"none", "joined"} \union Leads \union Over
BY DEF Leads, Slots, Section

LEMMA PlaceType ==
  ASSUME NEW r \in CallRecords, NEW pc \in Leads \union Over \union {"joined"}
  PROVE  [r EXCEPT !.pc = pc] \in CallRecords
BY DEF CallRecords

LEMMA MoveType ==
  ASSUME NEW calls \in Histories, NEW c \in Calls,
         NEW pc \in Leads \union Over \union {"joined"}
  PROVE  /\ [calls EXCEPT ![c].pc = pc] \in Histories
         /\ [calls EXCEPT ![c].pc = pc, ![c].ok = FALSE] \in Histories
<1>1. calls[c] \in CallRecords
  BY DEF Histories
<1>2. [calls[c] EXCEPT !.pc = pc] \in CallRecords
  BY <1>1, PlaceType
<1>3. [calls[c] EXCEPT !.pc = pc, !.ok = FALSE] \in CallRecords
  BY <1>1 DEF CallRecords
<1> QED
  BY <1>2, <1>3 DEF Histories

LEMMA EnterLimitType ==
  ASSUME TypeOK, NEW c \in Calls, NEW r \in CallRecords, EnterLimit(c, r)
  PROVE  /\ call' \in Histories
         /\ active' \in [Instances \X Kinds -> Int] /\ waiting' \in Queues
<1> DEFINE s == <<r.at, r.kind>>
<1>1. s \in Instances \X Kinds
  BY DEF CallRecords
<1> DEFINE at(pc) == [r EXCEPT !.pc = pc]
<1>r. at("lock") \in CallRecords /\ at("gate") \in CallRecords
  BY Places, PlaceType
<1>2. CASE active[s] < Limit
  <2>1. /\ call' = [call EXCEPT ![c] = at("lock")]
        /\ active' = [active EXCEPT ![s] = @ + 1] /\ UNCHANGED waiting
    BY <1>1, <1>2 DEF EnterLimit, TypeOK
  <2> HIDE DEF at
  <2> QED
    BY <1>1, <1>r, <2>1 DEF TypeOK, Histories, Queues
<1>3. CASE active[s] >= Limit
  <2>1. Append(waiting[s], c) \in Seq(Calls)
    BY <1>1, AppendProperties DEF TypeOK
  <2>2. waiting' \in Queues
    BY <1>1, <1>3, <2>1 DEF EnterLimit, TypeOK, Queues
  <2>3. call' = [call EXCEPT ![c] = at("gate")] /\ UNCHANGED active
    BY <1>1, <1>3 DEF EnterLimit, TypeOK
  <2> HIDE DEF at
  <2> QED
    BY <1>r, <2>2, <2>3 DEF TypeOK, Histories
<1> QED
  BY <1>2, <1>3, <1>1 DEF TypeOK, EnterLimit

LEMMA FreeSlotType ==
  ASSUME TypeOK, NEW s \in Instances \X Kinds, FreeSlot(s)
  PROVE  active' \in [Instances \X Kinds -> Int] /\ waiting' \in Queues
<1>1. SubSeq(waiting[s], 2, Len(waiting[s])) \in Seq(Calls)
  <2>1. waiting[s] \in Seq(Calls) /\ Len(waiting[s]) \in Nat
    BY DEF TypeOK
  <2>2. \A n \in 2 .. Len(waiting[s]) : waiting[s][n] \in Calls
    BY <2>1, ElementOfSeq
  <2> QED
    BY <2>1, <2>2, SubSeqProperties
<1> QED
  BY <1>1 DEF FreeSlot, TypeOK, Queues

LEMMA WokenType ==
  ASSUME TypeOK, NEW s \in Instances \X Kinds
  PROVE  /\ Woken(s) \in Histories
         /\ \A d \in Calls : /\ Woken(s)[d].pc \in {call[d].pc, "woken"}
                             /\ Woken(s)[d] = [call[d] EXCEPT !.pc = Woken(s)[d].pc]
<1>1. waiting[s] \in Seq(Calls) /\ call \in Histories
  BY DEF TypeOK, Histories
<1>2. CASE waiting[s] = <<>>
  BY <1>1, <1>2 DEF Woken, Histories, CallRecords
<1>3. CASE waiting[s] # <<>>
  <2>1. Head(waiting[s]) \in Calls
    BY <1>1, <1>3, HeadTailProperties
  <2> QED
    BY <1>1, <1>3, <2>1 DEF Woken, Histories, CallRecords, Leads
<1> QED
  BY <1>2, <1>3

LEMMA SettledType ==
  ASSUME NEW c \in Calls, NEW calls \in Histories
  PROVE  Settled(c, calls) \in Histories
<1>1. ASSUME NEW d \in Calls, NEW pc \in Over, NEW ok \in BOOLEAN
      PROVE  [calls[d] EXCEPT !.pc = pc, !.ok = ok] \in CallRecords
  BY <1>1 DEF Histories, CallRecords
<1>2. calls[c].ok \in BOOLEAN /\ \A d \in Calls : calls[d] \in CallRecords
  BY DEF Histories, CallRecords
<1> QED
  BY <1>1, <1>2 DEF Settled, Histories, Over

LEMMA ArriveType ==
  ASSUME TypeOK, NEW c \in Calls, NEW v \in Viewers, NEW kind \in Kinds,
         NEW i \in Instances, Arrive(c, v, kind, i)
  PROVE  TypeOK'
<1> DEFINE r == [pc |-> "none", viewer |-> v, kind |-> kind, at |-> i, via |-> "work",
                 ok |-> TRUE, met |-> (v \in likes) <=> (kind = "like"),
                 past |-> PastResult(<<v, kind>>)]
<1>1. PastResult(<<v, kind>>) \in Calls \union {NoCall}
  BY DEF PastResult, TypeOK, Keys
<1>2. r \in CallRecords
  BY <1>1 DEF CallRecords
<1>3. \A pc \in {"joined", "lookup"} : [r EXCEPT !.pc = pc] \in CallRecords
  BY <1>2 DEF CallRecords, Leads
<1>4. /\ call' \in Histories
      /\ active' \in [Instances \X Kinds -> Int] /\ waiting' \in Queues
  <2>1. CASE EnterLimit(c, r)
    BY <1>2, <2>1, EnterLimitType
  <2>2. CASE UNCHANGED gates
             /\ \E pc \in {"joined", "lookup"} : call' = [call EXCEPT ![c] = [r EXCEPT !.pc = pc]]
    BY <1>3, <2>2 DEF gates, TypeOK, Histories, Queues
  <2> QED
    BY <2>1, <2>2 DEF Arrive
<1> QED
  BY <1>4 DEF Arrive, TypeOK, Histories, Queues, dedupe, lost, store

LEMMA DedupeType ==
  ASSUME TypeOK, NEW c \in Calls, Dedupe(c)
  PROVE  TypeOK'
<1> USE SlotAndKeyType DEF gates, dedupe, lost, store
<1>t. call \in Histories /\ waiting \in Queues /\ call[c] \in CallRecords
  BY DEF TypeOK, Histories, Queues
<1>1. CASE LookupMiss(c) \/ LeaseIsTaken(c)
  <2>1. call' \in Histories
    <3>1. PICK pc \in {"lease", "poll"} : call' = [call EXCEPT ![c].pc = pc]
      BY <1>1 DEF LookupMiss, LeaseIsTaken
    <3>2. pc \in Leads
      BY <3>1, Places
    <3> QED
      BY <1>t, <3>1, <3>2, MoveType
  <2> QED
    BY <1>1, <2>1 DEF LookupMiss, LeaseIsTaken, TypeOK, Histories
<1>2. CASE LookupHit(c) \/ PollHit(c)
  <2> DEFINE reused == [d \in Calls |->
        IF d \in Sharing(c)
        THEN [call[d] EXCEPT !.via = "stored", !.past = IF @ = result[Key(c)] THEN @ ELSE NoCall]
        ELSE call[d]]
  <2>1. reused \in Histories
    BY <1>t DEF Histories, CallRecords
  <2>2. call' = Settled(c, reused)
    BY <1>2 DEF LookupHit, PollHit, Reuse
  <2>3. call' \in Histories
    <3> HIDE DEF reused
    <3> QED BY <2>1, <2>2, SettledType
  <2> QED
    BY <1>2, <2>3 DEF LookupHit, PollHit, Reuse, TypeOK, Histories
<1>3. CASE AcquireLease(c)
  <2>1. [call[c] EXCEPT !.via = "lease"] \in CallRecords
    BY <1>t DEF CallRecords
  <2>2. /\ call' \in Histories
        /\ active' \in [Instances \X Kinds -> Int] /\ waiting' \in Queues
    BY <1>3, <2>1, EnterLimitType DEF AcquireLease
  <2> QED
    BY <1>3, <2>2 DEF AcquireLease, TypeOK, Histories, Queues
<1>4. CASE PollGivesUp(c)
  <2>2. /\ call' \in Histories
        /\ active' \in [Instances \X Kinds -> Int] /\ waiting' \in Queues
    BY <1>t, <1>4, EnterLimitType DEF PollGivesUp
  <2> QED
    BY <1>4, <2>2 DEF PollGivesUp, TypeOK, Histories, Queues
<1>5. CASE Publish(c)
  <2>1. call' \in Histories
    BY <1>t, <1>5, MoveType DEF Publish, Leads
  <2> QED
    BY <1>5, <2>1 DEF Publish, TypeOK, Histories
<1>6. CASE ReleaseLease(c)
  <2>1. call' \in Histories
    BY <1>t, <1>6, SettledType DEF ReleaseLease
  <2> QED
    BY <1>6, <2>1 DEF ReleaseLease, TypeOK, Histories
<1> QED
  BY <1>1, <1>2, <1>3, <1>4, <1>5, <1>6 DEF Dedupe

LEMMA ObservedType ==
  ASSUME TypeOK, NEW c \in Calls, NEW pc \in {"none", "joined"} \union Leads \union Over
  PROVE  Observed(c, pc) \in Histories
<1> SUFFICES ASSUME NEW d \in Calls PROVE Observed(c, pc)[d] \in CallRecords
  BY DEF Observed, Histories
<1> DEFINE m == call[d].met \/ (InFlight(d) /\ Holds(likes', d))
           p == IF d = c THEN pc ELSE call[d].pc
<1>1. call[d] \in CallRecords
  BY DEF TypeOK
<1>2. m \in BOOLEAN /\ p \in {"none", "joined"} \union Leads \union Over
  BY <1>1 DEF CallRecords, InFlight, Holds
<1>3. Observed(c, pc)[d] = [call[d] EXCEPT !.pc = p, !.met = m]
  BY DEF Observed
<1> HIDE DEF m, p
<1> QED
  BY <1>1, <1>2, <1>3 DEF CallRecords

LEMMA WriteBatchType ==
  ASSUME TypeOK, NEW c \in Calls, WriteBatch(c) \/ UNCHANGED store
  PROVE  likes' \in SUBSET Viewers /\ likeCount' \in Int
BY DEF WriteBatch, store, TypeOK, CallRecords

LEMMA WorkType ==
  ASSUME TypeOK, NEW c \in Calls, Work(c)
  PROVE  TypeOK'
<1> USE DEF gates, dedupe, lost, store
<1>t. call \in Histories /\ call[c] \in CallRecords /\ Section \subseteq Leads /\ "leave" \in Leads
  BY DEF TypeOK, Histories, Section, Leads, Slots
<1>f. Fault => faults' \in 0 .. MaxFaults
  BY DEF Fault, TypeOK
<1>1. CASE EnterSection(c) \/ CheckLike(c)
  <2>1. call' \in Histories
    <3>1. PICK pc \in {"commit", "check", "leave"} : call' = [call EXCEPT ![c].pc = pc]
      BY <1>1 DEF EnterSection, CheckLike
    <3>2. pc \in Leads
      BY <3>1, Places
    <3> QED
      BY <1>t, <3>1, <3>2, MoveType
  <2> QED
    BY <1>1, <2>1 DEF EnterSection, CheckLike, TypeOK, Histories
<1>2. CASE LockTimeout(c) \/ CheckThrows(c)
  <2>1. call' \in Histories
    BY <1>t, <1>2, MoveType DEF LockTimeout, CheckThrows
  <2> QED
    BY <1>2, <1>f, <2>1 DEF LockTimeout, CheckThrows, TypeOK, Histories
<1>3. CASE Commit(c)
  <2>1. call' \in Histories
    BY <1>t, <1>3, ObservedType DEF Commit, Section
  <2>2. likes' \in SUBSET Viewers /\ likeCount' \in Int
    BY <1>3, WriteBatchType DEF Commit
  <2> QED
    BY <1>3, <2>1, <2>2 DEF Commit, TypeOK, Histories
<1>4. CASE CommitThrows(c)
  <2>1. call' \in Histories
    <3>1. Observed(c, "leave") \in Histories
      BY <1>t, ObservedType
    <3> QED
      <4>1. [Observed(c, "leave")[c] EXCEPT !.ok = FALSE] \in CallRecords
        BY <3>1 DEF Histories, CallRecords
      <4> QED
        BY <1>4, <3>1, <4>1 DEF CommitThrows, Histories
  <2>2. likes' \in SUBSET Viewers /\ likeCount' \in Int
    BY <1>4, WriteBatchType DEF CommitThrows
  <2>3. adrift' \in SUBSET Calls
    BY <1>4 DEF CommitThrows, TypeOK
  <2> QED
    BY <1>4, <1>f, <2>1, <2>2, <2>3 DEF CommitThrows, TypeOK, Histories
<1>5. CASE Return(c)
  <2>1. call' \in Histories
    BY <1>t, <1>5, MoveType DEF Return
  <2>2. memory' \in [Instances -> SUBSET Viewers]
    BY <1>t, <1>5 DEF Return, TypeOK, CallRecords
  <2> QED
    BY <1>5, <2>1, <2>2 DEF Return, TypeOK, Histories
<1> QED
  BY <1>1, <1>2, <1>3, <1>4, <1>5 DEF Work

LEMMA LateBatchType ==
  ASSUME TypeOK, NEW c \in Calls, LateBatch(c)
  PROVE  TypeOK'
<1>1. call[c].pc \in {"none", "joined"} \union Leads \union Over
  BY DEF TypeOK, CallRecords
<1>2. call' \in Histories
  BY <1>1, ObservedType DEF LateBatch
<1>3. likes' \in SUBSET Viewers /\ likeCount' \in Int
  BY WriteBatchType DEF LateBatch
<1>4. adrift' \in SUBSET Calls /\ late' \in SUBSET Calls
  BY DEF LateBatch, TypeOK
<1> QED
  BY <1>2, <1>3, <1>4 DEF LateBatch, TypeOK, Histories, gates, dedupe

LEMMA LeaveType ==
  ASSUME TypeOK, NEW c \in Calls, Leave(c)
  PROVE  TypeOK'
<1>1. Slot(c) \in Instances \X Kinds
  BY SlotAndKeyType DEF TypeOK, Histories
<1>2. active' \in [Instances \X Kinds -> Int] /\ waiting' \in Queues
  BY <1>1, FreeSlotType DEF Leave
<1>3. Woken(Slot(c)) \in Histories
  BY <1>1, WokenType
<1>4. call' \in Histories
  BY <1>3, SettledType, MoveType DEF Leave, Leads
<1> QED
  BY <1>2, <1>4 DEF Leave, TypeOK, Histories, Queues, dedupe, lost, store

LEMMA TypeStep == ASSUME TypeOK, [Next]_vars PROVE TypeOK'
<1> USE DEF gates, dedupe, lost, store
<1>f. Fault => faults' \in 0 .. MaxFaults
  BY DEF Fault, TypeOK
<1>1. ASSUME NEW c \in Calls, Step(c) PROVE TypeOK'
  <2>1. CASE Resume(c)
    <3>1. call' \in Histories /\ Slot(c) \in Instances \X Kinds
      BY <2>1, MoveType, SlotAndKeyType DEF Resume, TypeOK, Histories, Leads, Slots
    <3> QED
      BY <2>1, <3>1 DEF Resume, TypeOK, Histories
  <2> QED
    BY <1>1, <2>1, DedupeType, WorkType, LeaveType DEF Step
<1>2. ASSUME NEW c \in Calls, Outlive(c) PROVE TypeOK'
  BY <1>2, <1>f DEF Outlive, TypeOK
<1>3. ASSUME NEW c \in Calls, NEW v \in Viewers, NEW kind \in Kinds, NEW i \in Instances,
             Arrive(c, v, kind, i)
      PROVE  TypeOK'
  BY <1>3, ArriveType
<1>4. ASSUME NEW k \in Keys, LeaseExpires(k) \/ ResultExpires(k) PROVE TypeOK'
  BY <1>4, <1>f DEF LeaseExpires, ResultExpires, TypeOK
<1>5. ASSUME NEW i \in Instances, Crash(i) PROVE TypeOK'
  <2>1. call' \in Histories
    <3>1. \A c \in Calls : [call[c] EXCEPT !.pc = "gone"] \in CallRecords
      BY PlaceType DEF TypeOK, Over
    <3> QED
      BY <1>5, <3>1 DEF Crash, TypeOK, Histories
  <2>2. waiting' \in Queues /\ active' \in [Instances \X Kinds -> Int]
    <3>1. <<>> \in Seq(Calls)
      BY EmptySeq
    <3> QED
      BY <1>5, <3>1 DEF Crash, TypeOK, Queues
  <2>3. adrift' \in SUBSET Calls
    BY <1>5 DEF Crash, TypeOK
  <2> QED
    BY <1>5, <1>f, <2>1, <2>2, <2>3 DEF Crash, TypeOK, Histories, Queues
<1>6. ASSUME NEW c \in Calls, LateBatch(c) PROVE TypeOK'
  BY <1>6, LateBatchType
<1>7. CASE UNCHANGED vars
  BY <1>7 DEF vars, TypeOK
<1> QED
  BY <1>1, <1>2, <1>3, <1>4, <1>5, <1>6, <1>7 DEF Next

LEMMA TypeInit == ASSUME Init PROVE TypeOK
<1>1. NewCall \in CallRecords
  BY DEF NewCall, CallRecords, Kinds
<1>2. <<>> \in Seq(Calls)
  BY EmptySeq
<1> QED
  BY <1>1, <1>2 DEF Init, TypeOK, Keys

\* Calls, queues, slots, memories and the coordinator's keys keep their types.
THEOREM TypeCorrectness == Spec => []TypeOK
BY TypeInit, TypeStep, PTL DEF Spec
----------------------------------------------------------------------------
(* The counter and the likes                                               *)

LikesBounded == IsFiniteSet(likes) /\ NeverOvercounts

\* Only a batch writes the likes and the counter.
LEMMA StoreStep ==
  ASSUME [Next]_vars
  PROVE  \/ UNCHANGED store
         \/ \E c \in Calls : WriteBatch(c)
<1> USE DEF dedupe, lost, store
<1>1. ASSUME NEW c \in Calls, NEW v \in Viewers, NEW kind \in Kinds, NEW i \in Instances,
             Arrive(c, v, kind, i)
      PROVE  UNCHANGED store
  BY <1>1 DEF Arrive
<1>2. ASSUME NEW c \in Calls, Dedupe(c) PROVE UNCHANGED store
  BY <1>2 DEF Dedupe, LookupHit, LookupMiss, Reuse, AcquireLease, LeaseIsTaken, PollHit,
             PollGivesUp, Publish, ReleaseLease
<1>3. ASSUME NEW c \in Calls, Work(c)
      PROVE  UNCHANGED store \/ WriteBatch(c)
  BY <1>3 DEF Work, EnterSection, LockTimeout, CheckLike, CheckThrows, Commit, CommitThrows,
             Return
<1>4. ASSUME NEW c \in Calls, Resume(c) \/ Leave(c) \/ Outlive(c) PROVE UNCHANGED store
  BY <1>4 DEF Resume, Leave, Outlive
<1>5. ASSUME NEW k \in Keys, LeaseExpires(k) \/ ResultExpires(k) PROVE UNCHANGED store
  BY <1>5 DEF LeaseExpires, ResultExpires
<1>6. ASSUME NEW i \in Instances, Crash(i) PROVE UNCHANGED store
  BY <1>6 DEF Crash
<1>7. CASE UNCHANGED vars
  BY <1>7 DEF vars
<1>8. ASSUME NEW c \in Calls, LateBatch(c) PROVE WriteBatch(c)
  BY <1>8 DEF LateBatch
<1> QED
  BY <1>1, <1>2, <1>3, <1>4, <1>5, <1>6, <1>7, <1>8 DEF Next, Step

\* What a batch does to the number of likes.
LEMMA BatchCounts ==
  ASSUME TypeOK, IsFiniteSet(likes), NEW c \in Calls, WriteBatch(c)
  PROVE  /\ IsFiniteSet(likes')
         /\ Cardinality(likes) \in Nat /\ Cardinality(likes') \in Nat
         /\ call[c].kind = "unlike" =>
              /\ likes' = likes \ {call[c].viewer} /\ likeCount' = likeCount - 1
              /\ Cardinality(likes') =
                   Cardinality(likes) - (IF call[c].viewer \in likes THEN 1 ELSE 0)
         /\ call[c].kind = "like" =>
              /\ likes' = likes \union {call[c].viewer}
              /\ likeCount' - likeCount = Cardinality(likes') - Cardinality(likes)
<1> DEFINE v == call[c].viewer
<1>k. call[c].kind \in Kinds
  BY DEF TypeOK, CallRecords
<1>n. Cardinality(likes) \in Nat
  BY FS_CardinalityType
<1>1. CASE call[c].kind = "like" /\ v \in likes
  BY <1>1, <1>n DEF WriteBatch, store, TypeOK
<1>2. CASE call[c].kind = "like" /\ v \notin likes
  <2>1. likes' = likes \union {v} /\ likeCount' = likeCount + 1
    BY <1>2 DEF WriteBatch
  <2>2. /\ IsFiniteSet(likes \union {v})
        /\ Cardinality(likes \union {v}) = Cardinality(likes) + 1
    BY <1>2, FS_AddElement
  <2> HIDE DEF v
  <2>3. IsFiniteSet(likes') /\ Cardinality(likes') = Cardinality(likes) + 1
    BY <2>1, <2>2
  <2> QED
    BY <1>2, <1>n, <2>1, <2>3 DEF TypeOK, v
<1>3. CASE call[c].kind = "unlike"
  <2>1. likes' = likes \ {v} /\ likeCount' = likeCount - 1
    BY <1>3 DEF WriteBatch
  <2>2. /\ IsFiniteSet(likes \ {v})
        /\ Cardinality(likes \ {v}) = Cardinality(likes) - (IF v \in likes THEN 1 ELSE 0)
        /\ Cardinality(likes \ {v}) \in Nat
    <3> HIDE DEF v
    <3>1. /\ IsFiniteSet(likes \ {v})
          /\ Cardinality(likes \ {v}) =
               IF v \in likes THEN Cardinality(likes) - 1 ELSE Cardinality(likes)
      BY FS_RemoveElement
    <3> QED
      BY <1>n, <3>1, FS_CardinalityType
  <2> HIDE DEF v
  <2>3. /\ IsFiniteSet(likes') /\ Cardinality(likes') \in Nat
        /\ Cardinality(likes') = Cardinality(likes) - (IF v \in likes THEN 1 ELSE 0)
    BY <2>1, <2>2
  <2> QED
    BY <1>3, <1>n, <2>1, <2>3 DEF v
<1> QED
  BY <1>k, <1>1, <1>2, <1>3 DEF Kinds

LEMMA BoundedStep ==
  ASSUME TypeOK, LikesBounded, [Next]_vars PROVE LikesBounded'
<1>1. CASE UNCHANGED store
  BY <1>1 DEF LikesBounded, NeverOvercounts, store
<1>2. ASSUME NEW c \in Calls, WriteBatch(c) PROVE LikesBounded'
  <2>1. call[c].kind \in {"like", "unlike"} /\ likeCount \in Int
    BY DEF TypeOK, CallRecords, Kinds
  <2>2. likeCount' \in Int
    BY <1>2, WriteBatchType DEF TypeOK
  <2> QED
    BY <1>2, <2>1, <2>2, BatchCounts DEF LikesBounded, NeverOvercounts
<1> QED
  BY <1>1, <1>2, StoreStep

LEMMA BoundedInit == ASSUME Init PROVE LikesBounded
BY FS_EmptySet DEF Init, LikesBounded, NeverOvercounts

\* The counter of a post is never above its likes, however many instances,
\* lost or late batches, outlived leases and restarts there are.
THEOREM CounterIsBounded == Spec => []NeverOvercounts
<1>1. TypeOK /\ LikesBounded /\ [Next]_vars => LikesBounded'
  BY BoundedStep
<1>2. LikesBounded => NeverOvercounts
  BY DEF LikesBounded
<1> QED
  BY <1>1, <1>2, BoundedInit, TypeCorrectness, PTL DEF Spec
----------------------------------------------------------------------------
(* What a step does to the calls                                           *)

\* A queue holds the calls of its slot that wait at the gate, each once.
QueuesAreTrue ==
  /\ \A s \in Instances \X Kinds : \A n \in 1 .. Len(waiting[s]) :
       /\ call[waiting[s][n]].pc = "gate" /\ Slot(waiting[s][n]) = s
       /\ \A m \in 1 .. Len(waiting[s]) : waiting[s][m] = waiting[s][n] => m = n
  /\ \A c \in Calls : call[c].pc = "gate" =>
       \E n \in 1 .. Len(waiting[Slot(c)]) : waiting[Slot(c)][n] = c

Carries(d) == /\ call'[d].viewer = call[d].viewer /\ call'[d].kind = call[d].kind
              /\ call'[d].at = call[d].at
              /\ call'[d].ok => call[d].ok
Rests(d) == Carries(d) /\ call'[d].pc = call[d].pc /\ call'[d].ok = call[d].ok

Moves(c) == /\ call[c].pc \in Leads \ {"gate"} /\ call'[c].pc \in Leads \ {"gate"}
            /\ Carries(c) /\ \A d \in Calls \ {c} : Rests(d)
            /\ UNCHANGED waiting
Joins(c) == /\ call[c].pc = "none" /\ call'[c].pc \in {"joined", "lookup"} /\ call'[c].ok
            /\ call'[c].pc = "joined" =>
                 \E d \in Calls \ {c} : /\ call[d].pc \in Leads /\ call[d].at = call'[c].at
                                        /\ call[d].viewer = call'[c].viewer
                                        /\ call[d].kind = call'[c].kind
            /\ \A d \in Calls \ {c} : Rests(d)
            /\ UNCHANGED waiting
Enters(c) == /\ call[c].pc \in {"none", "lease", "poll"} /\ call'[c].pc \in {"lock", "gate"}
             /\ call[c].pc # "none" => Carries(c)
             /\ \A d \in Calls \ {c} : Rests(d)
             /\ IF call'[c].pc = "lock" THEN UNCHANGED waiting
                ELSE waiting' = [waiting EXCEPT ![Slot(c)'] = Append(@, c)]
Settles(c) == /\ call[c].pc \in {"lookup", "poll", "release"}
              /\ \A d \in Sharing(c) : Carries(d) /\ call'[d].pc \in Over
              /\ \A d \in Calls \ Sharing(c) : Rests(d)
              /\ UNCHANGED waiting
Leaves(c) == /\ call[c].pc = "leave"
             /\ \/ \A d \in Sharing(c) : Carries(d) /\ call'[d].pc \in Over
                \/ /\ Carries(c) /\ call'[c].pc \in {"publish", "release"}
                   /\ \A d \in Sharing(c) \ {c} : Rests(d)
             /\ \A d \in Calls \ Sharing(c) :
                  /\ Carries(d) /\ call'[d].ok = call[d].ok
                  /\ call'[d].pc = IF waiting[Slot(c)] # <<>> /\ d = Head(waiting[Slot(c)])
                                   THEN "woken" ELSE call[d].pc
             /\ waiting' = [waiting EXCEPT ![Slot(c)] = SubSeq(@, 2, Len(@))]
Dies(i) == /\ \A c \in Calls : /\ Carries(c) /\ call'[c].ok = call[c].ok
                               /\ call'[c].pc = IF call[c].at = i /\ InFlight(c) THEN "gone"
                                                ELSE call[c].pc
           /\ \A s \in Instances \X Kinds :
                waiting'[s] = IF s[1] = i THEN <<>> ELSE waiting[s]
AllRest == (\A d \in Calls : Rests(d)) /\ UNCHANGED waiting

LEMMA HeadWaits ==
  ASSUME TypeOK, QueuesAreTrue, NEW s \in Instances \X Kinds, waiting[s] # <<>>
  PROVE  /\ Head(waiting[s]) \in Calls /\ Head(waiting[s]) = waiting[s][1] /\ Len(waiting[s]) > 0
         /\ call[Head(waiting[s])].pc = "gate"
<1>1. waiting[s] \in Seq(Calls)
  BY DEF TypeOK
<1>2. Len(waiting[s]) \in Nat /\ Len(waiting[s]) > 0
  BY <1>1, EmptySeq, LenProperties
<1>3. Head(waiting[s]) = waiting[s][1]
  BY <1>1, <1>2
<1> QED
  BY <1>1, <1>2, <1>3, ElementOfSeq DEF QueuesAreTrue

LEMMA ObservedEffect ==
  ASSUME TypeOK, NEW c \in Calls, NEW p \in {"none", "joined"} \union Leads \union Over,
         NEW d \in Calls
  PROVE  /\ Observed(c, p)[d].viewer = call[d].viewer /\ Observed(c, p)[d].kind = call[d].kind
         /\ Observed(c, p)[d].at = call[d].at /\ Observed(c, p)[d].via = call[d].via
         /\ Observed(c, p)[d].ok = call[d].ok
         /\ Observed(c, p)[d].met = (call[d].met \/ (InFlight(d) /\ Holds(likes', d)))
         /\ Observed(c, p)[d].pc = IF d = c THEN p ELSE call[d].pc
<1> DEFINE obs == Observed(c, p)
           m == call[d].met \/ (InFlight(d) /\ Holds(likes', d))
           q == IF d = c THEN p ELSE call[d].pc
<1>1. obs[d] = [call[d] EXCEPT !.pc = q, !.met = m]
  BY DEF Observed
<1>2. call[d] \in CallRecords
  BY DEF TypeOK
<1> HIDE DEF m, q, obs
<1>3. /\ obs[d].viewer = call[d].viewer /\ obs[d].kind = call[d].kind
      /\ obs[d].at = call[d].at /\ obs[d].via = call[d].via /\ obs[d].ok = call[d].ok
      /\ obs[d].met = m /\ obs[d].pc = q
  BY <1>1, <1>2 DEF CallRecords
<1> QED
  BY <1>3 DEF m, q, obs

\* A batch that lands late moves no call.
LEMMA LateBatchRests ==
  ASSUME TypeOK, NEW c \in Calls, LateBatch(c), NEW d \in Calls
  PROVE  Rests(d)
<1>1. call[c].pc \in {"none", "joined"} \union Leads \union Over
  BY DEF TypeOK, CallRecords
<1>2. call' = Observed(c, call[c].pc)
  BY DEF LateBatch
<1> QED
  BY <1>1, <1>2, ObservedEffect DEF Rests, Carries

LEMMA MovesStep ==
  ASSUME TypeOK, NEW c \in Calls,
         \/ Resume(c) \/ LookupMiss(c) \/ LeaseIsTaken(c) \/ Publish(c) \/ Work(c)
  PROVE  Moves(c)
<1> USE DEF gates
<1>t. call \in Histories
  BY DEF TypeOK, Histories
<1>1. ASSUME NEW p \in Leads \ {"gate"}, call[c].pc \in Leads \ {"gate"}, UNCHANGED waiting,
             \/ call' = [call EXCEPT ![c].pc = p]
             \/ call' = [call EXCEPT ![c].pc = p, ![c].ok = FALSE]
      PROVE  Moves(c)
  BY <1>t, <1>1 DEF Moves, Carries, Rests, Histories, CallRecords
<1>2. ASSUME NEW p \in Leads \ {"gate"}, call[c].pc \in Leads \ {"gate"}, UNCHANGED waiting,
             \/ call' = Observed(c, p)
             \/ call' = [Observed(c, p) EXCEPT ![c].ok = FALSE]
      PROVE  Moves(c)
  <2> DEFINE obs == Observed(c, p)
  <2>1. /\ obs \in Histories
        /\ \A d \in Calls : /\ obs[d].viewer = call[d].viewer /\ obs[d].kind = call[d].kind
                            /\ obs[d].at = call[d].at /\ obs[d].ok = call[d].ok
                            /\ obs[d].pc = IF d = c THEN p ELSE call[d].pc
    <3>1. obs \in Histories
      BY <1>2, ObservedType
    <3>2. ASSUME NEW d \in Calls
          PROVE  /\ obs[d].viewer = call[d].viewer /\ obs[d].kind = call[d].kind
                 /\ obs[d].at = call[d].at /\ obs[d].ok = call[d].ok
                 /\ obs[d].pc = IF d = c THEN p ELSE call[d].pc
      BY <1>2, ObservedEffect
    <3> QED
      BY <3>1, <3>2
  <2>2. call' = obs \/ call' = [obs EXCEPT ![c].ok = FALSE]
    BY <1>2
  <2> HIDE DEF obs
  <2> QED
    BY <1>2, <2>1, <2>2 DEF Moves, Carries, Rests, Histories, CallRecords
<1>p. /\ {"woken", "lookup", "lease", "publish", "lock", "check", "commit", "return"}
           \subseteq Leads \ {"gate"}
      /\ {"poll", "release", "leave"} \subseteq Leads \ {"gate"}
  BY Places
<1>3. CASE Resume(c)
  BY <1>3, <1>1, <1>p DEF Resume
<1>4. CASE LookupMiss(c)
  BY <1>4, <1>1, <1>p DEF LookupMiss
<1>5. CASE LeaseIsTaken(c)
  BY <1>5, <1>1, <1>p DEF LeaseIsTaken
<1>6. CASE Publish(c)
  BY <1>6, <1>1, <1>p DEF Publish
<1>7. CASE EnterSection(c)
  BY <1>7, <1>1, <1>p DEF EnterSection
<1>8. CASE LockTimeout(c)
  BY <1>8, <1>1, <1>p DEF LockTimeout
<1>9. CASE CheckLike(c)
  BY <1>9, <1>1, <1>p DEF CheckLike
<1>10. CASE CheckThrows(c)
  BY <1>10, <1>1, <1>p DEF CheckThrows
<1>11. CASE Return(c)
  BY <1>11, <1>1, <1>p DEF Return
<1>12. CASE Commit(c)
  BY <1>12, <1>2, <1>p DEF Commit
<1>13. CASE CommitThrows(c)
  BY <1>13, <1>2, <1>p DEF CommitThrows
<1> QED
  BY <1>3, <1>4, <1>5, <1>6, <1>7, <1>8, <1>9, <1>10, <1>11, <1>12, <1>13 DEF Work

LEMMA EnterLimitEnters ==
  ASSUME TypeOK, NEW c \in Calls, NEW r \in CallRecords, EnterLimit(c, r),
         call[c].pc \in {"none", "lease", "poll"},
         call[c].pc # "none" =>
           /\ r.viewer = call[c].viewer /\ r.kind = call[c].kind /\ r.at = call[c].at
           /\ r.ok => call[c].ok
  PROVE  Enters(c)
<1>t. call \in Histories
  BY DEF TypeOK, Histories
<1>1. PICK pc \in {"lock", "gate"} :
        /\ call' = [call EXCEPT ![c] = [r EXCEPT !.pc = pc]]
        /\ IF pc = "lock" THEN UNCHANGED waiting
           ELSE waiting' = [waiting EXCEPT ![<<r.at, r.kind>>] = Append(@, c)]
  BY DEF EnterLimit
<1>2. /\ call'[c].pc = pc /\ call'[c].viewer = r.viewer /\ call'[c].kind = r.kind
      /\ call'[c].at = r.at /\ call'[c].ok = r.ok
      /\ \A d \in Calls \ {c} : call'[d] = call[d]
  BY <1>t, <1>1 DEF Histories, CallRecords
<1>3. Slot(c)' = <<r.at, r.kind>>
  BY <1>2 DEF Slot
<1> QED
  BY <1>1, <1>2, <1>3 DEF Enters, Carries, Rests

LEMMA ArriveEffect ==
  ASSUME TypeOK, NEW c \in Calls, NEW v \in Viewers, NEW kind \in Kinds,
         NEW i \in Instances, Arrive(c, v, kind, i)
  PROVE  Joins(c) \/ Enters(c)
<1> DEFINE r == [pc |-> "none", viewer |-> v, kind |-> kind, at |-> i, via |-> "work",
                 ok |-> TRUE, met |-> (v \in likes) <=> (kind = "like"),
                 past |-> PastResult(<<v, kind>>)]
<1>t. call \in Histories
  BY DEF TypeOK, Histories
<1>1. PastResult(<<v, kind>>) \in Calls \union {NoCall}
  BY DEF PastResult, TypeOK, Keys
<1>2. r \in CallRecords
  BY <1>1 DEF CallRecords
<1>3. call[c].pc = "none"
  BY DEF Arrive
<1>4. CASE EnterLimit(c, r)
  BY <1>2, <1>3, <1>4, EnterLimitEnters
<1>5. CASE /\ UNCHANGED gates
           /\ \E pc \in {"joined", "lookup"} :
                /\ call' = [call EXCEPT ![c] = [r EXCEPT !.pc = pc]]
                /\ pc = "joined" => \E d \in Calls : /\ call[d].pc \in Leads /\ call[d].at = i
                                                     /\ Key(d) = <<v, kind>>
  <2>1. PICK pc \in {"joined", "lookup"} :
          /\ call' = [call EXCEPT ![c] = [r EXCEPT !.pc = pc]]
          /\ pc = "joined" => \E d \in Calls : /\ call[d].pc \in Leads /\ call[d].at = i
                                               /\ Key(d) = <<v, kind>>
    BY <1>5
  <2>2. /\ call'[c].pc = pc /\ call'[c].viewer = v /\ call'[c].kind = kind
        /\ call'[c].at = i /\ call'[c].ok
        /\ \A d \in Calls \ {c} : call'[d] = call[d]
    BY <1>t, <2>1 DEF Histories, CallRecords
  <2>3. "none" \notin Leads
    BY Places
  <2> QED
    BY <1>3, <1>5, <2>1, <2>2, <2>3 DEF Joins, Carries, Rests, gates, Key
<1> QED
  BY <1>4, <1>5 DEF Arrive

LEMMA SettledEffect ==
  ASSUME TypeOK, NothingFailedYet, NEW c \in Calls, NEW calls \in Histories,
         \A d \in Sharing(c) : /\ calls[d].viewer = call[d].viewer /\ calls[d].kind = call[d].kind
                               /\ calls[d].at = call[d].at /\ calls[d].ok = call[d].ok,
         call' = Settled(c, calls)
  PROVE  /\ \A d \in Sharing(c) : Carries(d) /\ call'[d].pc \in Over
         /\ \A d \in Calls \ Sharing(c) : call'[d] = calls[d]
<1>1. \A d \in Sharing(c) : d \in Calls /\ (d # c => call[d].ok)
  BY DEF Sharing, NothingFailedYet
<1>2. ASSUME NEW d \in Sharing(c)
      PROVE  /\ call'[d].viewer = calls[d].viewer /\ call'[d].kind = calls[d].kind
             /\ call'[d].at = calls[d].at /\ call'[d].ok = calls[c].ok
             /\ call'[d].pc \in {"answered", "thrown"}
  <2>1. call'[d] = [calls[d] EXCEPT !.pc = IF calls[c].ok THEN "answered" ELSE "thrown",
                                    !.ok = calls[c].ok]
    BY <1>1, <1>2 DEF Settled
  <2>2. calls[d] \in CallRecords
    BY <1>1, <1>2 DEF Histories
  <2> QED
    BY <2>1, <2>2 DEF CallRecords
<1>3. c \in Sharing(c)
  BY DEF Sharing
<1>4. ASSUME NEW d \in Sharing(c) PROVE Carries(d) /\ call'[d].pc \in Over
  BY <1>1, <1>2, <1>3, <1>4 DEF Carries, Over
<1>5. \A d \in Calls \ Sharing(c) : call'[d] = calls[d]
  BY DEF Settled
<1> QED
  BY <1>4, <1>5

LEMMA SettlesStep ==
  ASSUME TypeOK, NothingFailedYet, NEW c \in Calls,
         LookupHit(c) \/ PollHit(c) \/ ReleaseLease(c)
  PROVE  Settles(c)
<1>t. call \in Histories
  BY DEF TypeOK, Histories
<1>1. CASE ReleaseLease(c)
  BY <1>t, <1>1, SettledEffect DEF ReleaseLease, Settles, Rests, Carries, gates, Sharing
<1>2. CASE LookupHit(c) \/ PollHit(c)
  <2> DEFINE reused == [d \in Calls |->
        IF d \in Sharing(c)
        THEN [call[d] EXCEPT !.via = "stored", !.past = IF @ = result[Key(c)] THEN @ ELSE NoCall]
        ELSE call[d]]
  <2>1. /\ reused \in Histories
        /\ \A d \in Calls : /\ reused[d].viewer = call[d].viewer /\ reused[d].kind = call[d].kind
                            /\ reused[d].at = call[d].at /\ reused[d].ok = call[d].ok
        /\ \A d \in Calls \ Sharing(c) : reused[d] = call[d]
    <3>1. result[Key(c)] \in Calls \union {NoCall}
      BY <1>t, SlotAndKeyType DEF TypeOK
    <3>2. ASSUME NEW d \in Calls
          PROVE  /\ reused[d] \in CallRecords
                 /\ reused[d].viewer = call[d].viewer /\ reused[d].kind = call[d].kind
                 /\ reused[d].at = call[d].at /\ reused[d].ok = call[d].ok
                 /\ d \notin Sharing(c) => reused[d] = call[d]
      <4>1. call[d] \in CallRecords
        BY <1>t DEF Histories
      <4>2. \A past \in Calls \union {NoCall} :
              LET r == [call[d] EXCEPT !.via = "stored", !.past = past]
              IN  /\ r \in CallRecords
                  /\ r.viewer = call[d].viewer /\ r.kind = call[d].kind
                  /\ r.at = call[d].at /\ r.ok = call[d].ok
        BY <4>1 DEF CallRecords
      <4>3. call[d].past \in Calls \union {NoCall}
        BY <4>1 DEF CallRecords
      <4> QED
        BY <4>1, <4>2, <4>3
    <3> QED
      BY <3>2 DEF Histories
  <2>2. /\ call' = Settled(c, reused) /\ call[c].pc \in {"lookup", "poll"}
        /\ UNCHANGED waiting
    BY <1>2 DEF LookupHit, PollHit, Reuse, gates
  <2> HIDE DEF reused
  <2>3. Sharing(c) \subseteq Calls
    BY DEF Sharing
  <2>4. /\ \A d \in Sharing(c) : Carries(d) /\ call'[d].pc \in Over
        /\ \A d \in Calls \ Sharing(c) : call'[d] = reused[d]
    BY <2>1, <2>2, <2>3, SettledEffect
  <2> QED
    BY <2>1, <2>2, <2>4 DEF Settles, Rests, Carries
<1> QED
  BY <1>1, <1>2

LEMMA LeavesStep ==
  ASSUME TypeOK, NothingFailedYet, QueuesAreTrue, NEW c \in Calls, Leave(c)
  PROVE  Leaves(c)
<1> DEFINE s == Slot(c)
           woken == Woken(s)
<1>s. s \in Instances \X Kinds
  BY SlotAndKeyType DEF TypeOK, Histories
<1>1. woken \in Histories
  BY <1>s, WokenType
<1>2. \A d \in Calls :
        /\ woken[d].viewer = call[d].viewer /\ woken[d].kind = call[d].kind
        /\ woken[d].at = call[d].at /\ woken[d].ok = call[d].ok
        /\ woken[d].pc = IF waiting[s] # <<>> /\ d = Head(waiting[s]) THEN "woken" ELSE call[d].pc
  <2>1. call \in Histories
    BY DEF TypeOK, Histories
  <2>2. waiting[s] # <<>> => Head(waiting[s]) \in Calls
    BY <1>s, HeadWaits
  <2> HIDE DEF s
  <2> QED
    BY <2>1, <2>2 DEF Woken, Histories, CallRecords
<1>3. \A d \in Sharing(c) : d \in Calls /\ woken[d].pc = call[d].pc
  <2>1. waiting[s] # <<>> => call[Head(waiting[s])].pc = "gate"
    BY <1>s, HeadWaits
  <2> HIDE DEF s
  <2> QED
    BY <1>2, <2>1 DEF Sharing, Leave
<1>4. call[c].pc = "leave" /\ waiting' = [waiting EXCEPT ![s] = SubSeq(@, 2, Len(@))]
  BY DEF Leave, FreeSlot
<1>c. c \in Sharing(c)
  BY DEF Sharing
<1>5. CASE call[c].via = "lease"
  <2>1. PICK pc \in {"publish", "release"} : call' = [woken EXCEPT ![c].pc = pc]
    BY <1>5 DEF Leave
  <2> HIDE DEF woken, s
  <2>2. /\ call'[c].pc = pc
        /\ call'[c].viewer = call[c].viewer /\ call'[c].kind = call[c].kind
        /\ call'[c].at = call[c].at /\ call'[c].ok = call[c].ok
        /\ \A d \in Calls \ {c} : call'[d] = woken[d]
    BY <1>1, <1>2, <2>1 DEF Histories, CallRecords
  <2> QED
    BY <1>2, <1>3, <1>4, <1>c, <2>2 DEF Leaves, Carries, Rests, s
<1>6. CASE call[c].via # "lease"
  <2>1. call' = Settled(c, woken)
    BY <1>6 DEF Leave
  <2> HIDE DEF woken, s
  <2>2. /\ \A d \in Sharing(c) : Carries(d) /\ call'[d].pc \in Over
        /\ \A d \in Calls \ Sharing(c) : call'[d] = woken[d]
    BY <1>1, <1>2, <1>3, <2>1, SettledEffect
  <2> QED
    BY <1>2, <1>4, <2>2 DEF Leaves, Carries, s
<1> QED
  BY <1>5, <1>6

\* Every step moves a call, or lets one join, enter, settle or leave, or ends
\* those of an instance, or touches none.
LEMMA CallStep ==
  ASSUME TypeOK, NothingFailedYet, QueuesAreTrue, [Next]_vars
  PROVE  \/ \E c \in Calls : Moves(c) \/ Joins(c) \/ Enters(c) \/ Settles(c) \/ Leaves(c)
         \/ \E i \in Instances : Dies(i)
         \/ AllRest
<1>t. call \in Histories
  BY DEF TypeOK, Histories
<1>1. ASSUME NEW c \in Calls, NEW v \in Viewers, NEW kind \in Kinds, NEW i \in Instances,
             Arrive(c, v, kind, i)
      PROVE  Joins(c) \/ Enters(c)
  BY <1>1, ArriveEffect
<1>2. ASSUME NEW c \in Calls, AcquireLease(c) PROVE Enters(c)
  <2>1. [call[c] EXCEPT !.via = "lease"] \in CallRecords
    BY <1>t DEF Histories, CallRecords
  <2>2. call[c].pc = "lease" /\ EnterLimit(c, [call[c] EXCEPT !.via = "lease"])
    BY <1>2 DEF AcquireLease
  <2> QED
    BY <1>t, <2>1, <2>2, EnterLimitEnters DEF Histories, CallRecords
<1>3. ASSUME NEW c \in Calls, PollGivesUp(c) PROVE Enters(c)
  BY <1>t, <1>3, EnterLimitEnters DEF PollGivesUp, Histories
<1>4. ASSUME NEW c \in Calls, Step(c)
      PROVE  Moves(c) \/ Enters(c) \/ Settles(c) \/ Leaves(c)
  BY <1>2, <1>3, <1>4, MovesStep, SettlesStep, LeavesStep DEF Step, Dedupe
<1>5. ASSUME NEW c \in Calls, Outlive(c) PROVE AllRest
  BY <1>5 DEF Outlive, AllRest, Rests, Carries, gates
<1>6. ASSUME NEW k \in Keys, LeaseExpires(k) \/ ResultExpires(k) PROVE AllRest
  BY <1>6 DEF LeaseExpires, ResultExpires, AllRest, Rests, Carries, gates
<1>7. ASSUME NEW i \in Instances, Crash(i) PROVE Dies(i)
  BY <1>t, <1>7 DEF Crash, Dies, Carries, Histories, CallRecords, TypeOK
<1>8. ASSUME NEW c \in Calls, LateBatch(c) PROVE AllRest
  BY <1>8, LateBatchRests DEF AllRest, LateBatch, gates
<1>9. CASE UNCHANGED vars
  BY <1>9 DEF vars, AllRest, Rests, Carries
<1> QED
  BY <1>1, <1>4, <1>5, <1>6, <1>7, <1>8, <1>9 DEF Next
----------------------------------------------------------------------------
(* Queues and shared promises                                              *)

LEMMA NothingFailedStep ==
  ASSUME TypeOK, NothingFailedYet, QueuesAreTrue, [Next]_vars
  PROVE  /\ NothingFailedYet'
         /\ \A d \in Calls : call[d].pc # "none" => Carries(d) /\ call'[d].pc # "none"
<1>p. \A pc \in Leads \union Over : pc \notin {"none", "joined"}
  BY Places DEF Over
<1>s. \A c \in Calls : \A d \in Sharing(c) : d \in Calls /\ call[d].pc \in {call[c].pc, "joined"}
  BY DEF Sharing
<1> USE DEF NothingFailedYet
<1>1. ASSUME NEW c \in Calls, Moves(c) \/ Joins(c) \/ Enters(c)
      PROVE  /\ NothingFailedYet'
             /\ \A d \in Calls : call[d].pc # "none" => Carries(d) /\ call'[d].pc # "none"
  BY <1>1, <1>p DEF Moves, Joins, Enters, Rests
<1>2. ASSUME NEW c \in Calls, Settles(c) \/ Leaves(c)
      PROVE  /\ NothingFailedYet'
             /\ \A d \in Calls : call[d].pc # "none" => Carries(d) /\ call'[d].pc # "none"
  BY <1>2, <1>p, <1>s, Places DEF Settles, Leaves, Rests
<1>3. ASSUME NEW i \in Instances, Dies(i)
      PROVE  /\ NothingFailedYet'
             /\ \A d \in Calls : call[d].pc # "none" => Carries(d) /\ call'[d].pc # "none"
  BY <1>3 DEF Dies
<1>4. CASE AllRest
  BY <1>4 DEF AllRest, Rests
<1> QED
  BY <1>1, <1>2, <1>3, <1>4, CallStep

\* Nothing happens at the gate.
LEMMA QueuesUntouched ==
  ASSUME TypeOK, TypeOK', QueuesAreTrue, UNCHANGED waiting,
         \A d \in Calls : /\ call'[d].pc = "gate" <=> call[d].pc = "gate"
                          /\ call[d].pc = "gate" => Slot(d)' = Slot(d)
  PROVE  QueuesAreTrue'
<1>1. \A s \in Instances \X Kinds : \A n \in 1 .. Len(waiting[s]) : waiting[s][n] \in Calls
  BY ElementOfSeq DEF TypeOK
<1>2. \A c \in Calls : Slot(c)' \in Instances \X Kinds
  BY DEF Slot, TypeOK, CallRecords
<1> QED
  BY <1>1, <1>2 DEF QueuesAreTrue

SlotAfter(d) == <<call'[d].at, call'[d].kind>>

\* QueuesAreTrue, after the step, queue by queue.
LEMMA QueuesAfter ==
  ASSUME \A t \in Instances \X Kinds : \A n \in 1 .. Len(waiting'[t]) :
           /\ call'[waiting'[t][n]].pc = "gate" /\ SlotAfter(waiting'[t][n]) = t
           /\ \A m \in 1 .. Len(waiting'[t]) : waiting'[t][m] = waiting'[t][n] => m = n,
         \A d \in Calls : call'[d].pc = "gate" =>
           \E n \in 1 .. Len(waiting'[SlotAfter(d)]) : waiting'[SlotAfter(d)][n] = d
  PROVE  QueuesAreTrue'
BY DEF QueuesAreTrue, Slot, SlotAfter

LEMMA QueueGrows ==
  ASSUME TypeOK, TypeOK', QueuesAreTrue, NEW c \in Calls, Enters(c), call'[c].pc = "gate"
  PROVE  QueuesAreTrue'
<1> DEFINE s == SlotAfter(c)
           q == waiting[s]
<1>s. s \in Instances \X Kinds
  BY DEF SlotAfter, TypeOK, CallRecords
<1>q. q \in Seq(Calls) /\ Len(q) \in Nat
  BY <1>s DEF TypeOK
<1>1. waiting' = [waiting EXCEPT ![s] = Append(@, c)]
  BY DEF Enters, Slot, SlotAfter
<1>2. /\ Len(waiting'[s]) = Len(q) + 1
      /\ \A n \in 1 .. Len(q) : waiting'[s][n] = q[n]
      /\ waiting'[s][Len(q) + 1] = c
      /\ \A t \in (Instances \X Kinds) \ {s} : waiting'[t] = waiting[t]
  <2> HIDE DEF s
  <2> QED
    BY <1>s, <1>q, <1>1, AppendProperties DEF TypeOK
<1>3. \A t \in Instances \X Kinds : \A n \in 1 .. Len(waiting[t]) :
        waiting[t][n] \in Calls \ {c}
  BY ElementOfSeq DEF TypeOK, QueuesAreTrue, Enters
<1>4. \A d \in Calls \ {c} : call'[d].pc = call[d].pc /\ SlotAfter(d) = Slot(d)
  BY DEF Enters, Rests, Carries, Slot, SlotAfter
<1>5. \A d \in Calls : SlotAfter(d) \in Instances \X Kinds
  BY DEF SlotAfter, TypeOK, CallRecords
<1>6. \A t \in Instances \X Kinds : \A n \in 1 .. Len(waiting'[t]) :
        \/ n \in 1 .. Len(waiting[t]) /\ waiting'[t][n] = waiting[t][n]
        \/ t = s /\ n = Len(q) + 1 /\ waiting'[t][n] = c
  <2> HIDE DEF s
  <2> QED
    BY <1>q, <1>2
<1>7. ASSUME NEW t \in Instances \X Kinds, NEW n \in 1 .. Len(waiting'[t])
      PROVE  /\ call'[waiting'[t][n]].pc = "gate" /\ SlotAfter(waiting'[t][n]) = t
             /\ \A m \in 1 .. Len(waiting'[t]) : waiting'[t][m] = waiting'[t][n] => m = n
  <2>1. CASE n \in 1 .. Len(waiting[t]) /\ waiting'[t][n] = waiting[t][n]
    <3>1. call[waiting[t][n]].pc = "gate" /\ Slot(waiting[t][n]) = t
      BY <2>1 DEF QueuesAreTrue
    <3>2. \A m \in 1 .. Len(waiting[t]) : waiting[t][m] = waiting[t][n] => m = n
      BY <2>1 DEF QueuesAreTrue
    <3> HIDE DEF s, q
    <3>3. waiting[t][n] \in Calls \ {c}
      BY <1>3, <2>1
    <3>4. call'[waiting'[t][n]].pc = "gate" /\ SlotAfter(waiting'[t][n]) = t
      BY <1>4, <2>1, <3>1, <3>3
    <3>5. ASSUME NEW m \in 1 .. Len(waiting'[t]), waiting'[t][m] = waiting'[t][n]
          PROVE  m = n
      BY <1>6, <2>1, <3>2, <3>3, <3>5
    <3> QED
      BY <3>4, <3>5
  <2>2. CASE t = s /\ n = Len(q) + 1 /\ waiting'[t][n] = c
    <3>1. call'[c].pc = "gate"
      OBVIOUS
    <3>2. ASSUME NEW m \in 1 .. Len(waiting'[t]), waiting'[t][m] = c PROVE m = n
      BY <1>3, <1>6, <2>2, <3>2
    <3> QED
      BY <2>2, <3>1, <3>2
  <2> QED
    BY <1>6, <1>7, <2>1, <2>2
<1>8. ASSUME NEW d \in Calls, call'[d].pc = "gate"
      PROVE  \E n \in 1 .. Len(waiting'[SlotAfter(d)]) : waiting'[SlotAfter(d)][n] = d
  <2>1. CASE d = c
    <3>1. Len(q) + 1 \in 1 .. Len(waiting'[s])
      BY <1>q, <1>2
    <3> QED
      BY <1>2, <2>1, <3>1
  <2>2. CASE d # c
    <3>1. PICK n \in 1 .. Len(waiting[Slot(d)]) : waiting[Slot(d)][n] = d
      BY <1>4, <1>8, <2>2 DEF QueuesAreTrue
    <3>2. SlotAfter(d) = Slot(d) /\ Slot(d) \in Instances \X Kinds
      BY <1>4, <1>5, <2>2
    <3> HIDE DEF s, q
    <3>3. n \in 1 .. Len(waiting'[Slot(d)]) /\ waiting'[Slot(d)][n] = d
      <4>1. CASE Slot(d) = s
        BY <1>q, <1>2, <3>1, <4>1 DEF q
      <4>2. CASE Slot(d) # s
        BY <1>2, <3>1, <3>2, <4>2
      <4> QED
        BY <4>1, <4>2
    <3> QED
      BY <3>2, <3>3
  <2> QED
    BY <2>1, <2>2
<1> QED
  BY <1>7, <1>8, QueuesAfter

LEMMA QueueShrinks ==
  ASSUME TypeOK, TypeOK', QueuesAreTrue, NEW c \in Calls, Leaves(c)
  PROVE  QueuesAreTrue'
<1> DEFINE s == Slot(c)
           q == waiting[s]
           head == Head(q)
<1>s. s \in Instances \X Kinds
  BY SlotAndKeyType DEF TypeOK, Histories
<1>q. q \in Seq(Calls) /\ Len(q) \in Nat
  BY <1>s DEF TypeOK
<1>h. q # <<>> => head = q[1] /\ Len(q) > 0
  BY <1>s, HeadWaits
<1>e. q = <<>> => Len(q) = 0
  BY EmptySeq
<1>1. waiting' = [waiting EXCEPT ![s] = SubSeq(@, 2, Len(@))]
  BY DEF Leaves
<1>2. /\ Len(SubSeq(q, 2, Len(q))) = IF 2 <= Len(q) THEN Len(q) - 1 ELSE 0
      /\ \A n \in 1 .. Len(q) - 1 : SubSeq(q, 2, Len(q))[n] = q[n + 1]
  <2> HIDE DEF q
  <2>1. \A n \in 2 .. Len(q) : q[n] \in Calls
    BY <1>q, ElementOfSeq
  <2>2. /\ Len(SubSeq(q, 2, Len(q))) = IF 2 <= Len(q) THEN Len(q) - 2 + 1 ELSE 0
        /\ \A n \in 1 .. Len(q) - 2 + 1 : SubSeq(q, 2, Len(q))[n] = q[2 + n - 1]
    BY <1>q, <2>1, SubSeqProperties
  <2> QED
    BY <1>q, <2>2
<1>3. /\ Len(waiting'[s]) = IF 2 <= Len(q) THEN Len(q) - 1 ELSE 0
      /\ \A n \in 1 .. Len(waiting'[s]) : waiting'[s][n] = q[n + 1]
      /\ \A t \in (Instances \X Kinds) \ {s} : waiting'[t] = waiting[t]
  <2>1. waiting'[s] = SubSeq(q, 2, Len(q))
    <3> HIDE DEF s
    <3> QED BY <1>s, <1>1 DEF TypeOK
  <2> HIDE DEF s, q
  <2> QED
    BY <1>s, <1>q, <1>1, <1>2, <2>1 DEF TypeOK
<1>4. \A t \in Instances \X Kinds : \A n \in 1 .. Len(waiting[t]) : waiting[t][n] \in Calls
  BY ElementOfSeq DEF TypeOK
<1>5. \A d \in Calls : call[d].pc = "gate" =>
        /\ SlotAfter(d) = Slot(d)
        /\ call'[d].pc = IF q # <<>> /\ d = head THEN "woken" ELSE "gate"
  BY DEF Leaves, Sharing, Carries, Slot, SlotAfter
<1>6. \A d \in Calls : call'[d].pc = "gate" =>
        call[d].pc = "gate" /\ (q = <<>> \/ d # head) /\ SlotAfter(d) = Slot(d)
  <2>1. "gate" \notin Over
    BY DEF Over
  <2> QED
    BY <2>1 DEF Leaves, Sharing, Carries, Rests, Slot, SlotAfter
<1>7. ASSUME NEW t \in Instances \X Kinds, NEW n \in 1 .. Len(waiting'[t])
      PROVE  /\ call'[waiting'[t][n]].pc = "gate" /\ SlotAfter(waiting'[t][n]) = t
             /\ \A m \in 1 .. Len(waiting'[t]) : waiting'[t][m] = waiting'[t][n] => m = n
  <2>1. CASE t = s
    <3>1. /\ Len(q) >= 2 /\ Len(waiting'[s]) = Len(q) - 1
          /\ \A m \in 1 .. Len(waiting'[s]) : waiting'[s][m] = q[m + 1] /\ m + 1 \in 1 .. Len(q)
      <4> HIDE DEF s, q
      <4> QED BY <1>q, <1>3, <1>7, <2>1
    <3>2. /\ q[n + 1] \in Calls /\ call[q[n + 1]].pc = "gate" /\ Slot(q[n + 1]) = s
          /\ \A m \in 1 .. Len(q) : q[m] = q[n + 1] => m = n + 1
      <4>1. n + 1 \in 1 .. Len(q)
        BY <2>1, <3>1
      <4> QED
        BY <1>s, <1>4, <4>1 DEF QueuesAreTrue
    <3>3. q[n + 1] # head /\ q # <<>>
      <4> HIDE DEF s, q
      <4>1. q # <<>>
        BY <1>e, <3>1
      <4>2. 1 \in 1 .. Len(q) /\ 1 # n + 1
        BY <1>q, <3>1
      <4> QED
        BY <1>h, <3>2, <4>1, <4>2
    <3> HIDE DEF s, q, head
    <3>4. /\ waiting'[t][n] = q[n + 1]
          /\ \A m \in 1 .. Len(waiting'[t]) : waiting'[t][m] = q[m + 1] /\ m + 1 \in 1 .. Len(q)
      BY <2>1, <3>1
    <3>5. call'[waiting'[t][n]].pc = "gate" /\ SlotAfter(waiting'[t][n]) = t
      BY <1>5, <2>1, <3>2, <3>3, <3>4
    <3>6. ASSUME NEW m \in 1 .. Len(waiting'[t]), waiting'[t][m] = waiting'[t][n]
          PROVE  m = n
      <4>1. m + 1 = n + 1
        BY <3>2, <3>4, <3>6
      <4>2. m \in Nat /\ n \in Nat
        BY <3>1, <2>1, <1>q
      <4> QED
        BY <4>1, <4>2
    <3> QED
      BY <3>5, <3>6
  <2>2. CASE t # s
    <3>1. waiting'[t] = waiting[t]
      BY <1>3, <2>2
    <3>2. /\ waiting[t][n] \in Calls /\ call[waiting[t][n]].pc = "gate"
          /\ Slot(waiting[t][n]) = t
          /\ \A m \in 1 .. Len(waiting[t]) : waiting[t][m] = waiting[t][n] => m = n
      BY <1>4, <3>1 DEF QueuesAreTrue
    <3>3. q = <<>> \/ waiting[t][n] # head
      <4>1. q # <<>> => Slot(head) = s
        <5> HIDE DEF s
        <5> QED BY <1>s, <1>q, <1>h DEF QueuesAreTrue
      <4> QED
        BY <2>2, <3>2, <4>1
    <3> HIDE DEF s, q, head
    <3> QED
      BY <1>5, <3>1, <3>2, <3>3
  <2> QED
    BY <2>1, <2>2
<1>8. ASSUME NEW d \in Calls, call'[d].pc = "gate"
      PROVE  \E n \in 1 .. Len(waiting'[SlotAfter(d)]) : waiting'[SlotAfter(d)][n] = d
  <2>1. /\ call[d].pc = "gate" /\ (q = <<>> \/ d # head) /\ SlotAfter(d) = Slot(d)
        /\ Slot(d) \in Instances \X Kinds
    BY <1>6, <1>8, SlotAndKeyType DEF TypeOK, Histories
  <2>2. PICK n \in 1 .. Len(waiting[Slot(d)]) : waiting[Slot(d)][n] = d
    BY <2>1 DEF QueuesAreTrue
  <2>3. CASE Slot(d) = s
    <3> HIDE DEF s, q, head
    <3>1. n \in 1 .. Len(q) /\ q[n] = d
      BY <2>2, <2>3 DEF q
    <3>2. q # <<>>
      BY <1>e, <1>q, <3>1
    <3>3. n # 1
      BY <1>h, <2>1, <3>1, <3>2
    <3>4. /\ n - 1 \in 1 .. Len(waiting'[s]) /\ (n - 1) + 1 = n
      BY <1>q, <1>3, <3>1, <3>3
    <3>5. waiting'[s][n - 1] = d
      BY <1>3, <3>1, <3>4
    <3> QED
      BY <2>1, <2>3, <3>4, <3>5
  <2>4. CASE Slot(d) # s
    BY <1>3, <2>1, <2>2, <2>4
  <2> QED
    BY <2>3, <2>4
<1> QED
  BY <1>7, <1>8, QueuesAfter

LEMMA QueuesDie ==
  ASSUME TypeOK, TypeOK', QueuesAreTrue, NEW i \in Instances, Dies(i)
  PROVE  QueuesAreTrue'
<1>1. \A t \in Instances \X Kinds : \A n \in 1 .. Len(waiting[t]) : waiting[t][n] \in Calls
  BY ElementOfSeq DEF TypeOK
<1>2. \A d \in Calls : SlotAfter(d) = Slot(d) /\ Slot(d) \in Instances \X Kinds
  BY DEF Dies, Carries, Slot, SlotAfter, TypeOK, CallRecords
<1>3. \A d \in Calls : call[d].pc = "gate" =>
        call'[d].pc = IF call[d].at = i THEN "gone" ELSE "gate"
  BY Places DEF Dies, InFlight
<1>4. \A d \in Calls : call'[d].pc = "gate" => call[d].pc = "gate" /\ call[d].at # i
  BY Places DEF Dies, InFlight
<1>5. ASSUME NEW t \in Instances \X Kinds, NEW n \in 1 .. Len(waiting'[t])
      PROVE  /\ call'[waiting'[t][n]].pc = "gate" /\ SlotAfter(waiting'[t][n]) = t
             /\ \A m \in 1 .. Len(waiting'[t]) : waiting'[t][m] = waiting'[t][n] => m = n
  <2>1. t[1] # i /\ waiting'[t] = waiting[t]
    BY <1>5, EmptySeq DEF Dies
  <2>2. /\ waiting[t][n] \in Calls /\ call[waiting[t][n]].pc = "gate"
        /\ Slot(waiting[t][n]) = t
        /\ \A m \in 1 .. Len(waiting[t]) : waiting[t][m] = waiting[t][n] => m = n
    BY <1>1, <2>1 DEF QueuesAreTrue
  <2>3. call[waiting[t][n]].at # i
    BY <2>1, <2>2 DEF Slot
  <2> QED
    BY <1>2, <1>3, <2>1, <2>2, <2>3
<1>6. ASSUME NEW d \in Calls, call'[d].pc = "gate"
      PROVE  \E n \in 1 .. Len(waiting'[SlotAfter(d)]) : waiting'[SlotAfter(d)][n] = d
  <2>1. call[d].pc = "gate" /\ call[d].at # i
    BY <1>4, <1>6
  <2>2. waiting'[Slot(d)] = waiting[Slot(d)]
    BY <1>2, <2>1 DEF Dies, Slot
  <2> QED
    BY <1>2, <2>1, <2>2 DEF QueuesAreTrue
<1> QED
  BY <1>5, <1>6, QueuesAfter

LEMMA QueuesStep ==
  ASSUME TypeOK, TypeOK', NothingFailedYet, QueuesAreTrue, [Next]_vars
  PROVE  QueuesAreTrue'
<1>o. "gate" \notin Over
  BY DEF Over
<1>1. ASSUME NEW c \in Calls,
             Moves(c) \/ Joins(c) \/ Settles(c) \/ (Enters(c) /\ call'[c].pc = "lock")
      PROVE  QueuesAreTrue'
  <2>1. UNCHANGED waiting
    BY <1>1 DEF Moves, Joins, Settles, Enters
  <2>2. \A d \in Calls : /\ call'[d].pc = "gate" <=> call[d].pc = "gate"
                         /\ call[d].pc = "gate" => Slot(d)' = Slot(d)
    BY <1>1, <1>o DEF Moves, Joins, Settles, Enters, Rests, Carries, Slot, Sharing
  <2> QED
    BY <2>1, <2>2, QueuesUntouched
<1>2. ASSUME NEW c \in Calls, Enters(c), call'[c].pc # "lock" PROVE QueuesAreTrue'
  BY <1>2, QueueGrows DEF Enters
<1>3. CASE AllRest
  BY <1>3, QueuesUntouched DEF AllRest, Rests, Carries, Slot
<1> QED
  BY <1>1, <1>2, <1>3, QueueShrinks, QueuesDie, CallStep

\* e shares the promise of d.
Follows(e, d) == /\ call[d].pc \in Leads
                 /\ call[d].at = call[e].at /\ call[d].viewer = call[e].viewer
                 /\ call[d].kind = call[e].kind
FollowersAreLed ==
  \A e \in Calls : call[e].pc = "joined" => \E d \in Calls : Follows(e, d)

LEMMA SameAs ==
  ASSUME NEW c \in Calls, NEW d \in Calls
  PROVE  (Slot(d) = Slot(c) /\ Key(d) = Key(c)) <=>
           (/\ call[d].at = call[c].at /\ call[d].viewer = call[c].viewer
            /\ call[d].kind = call[c].kind)
BY DEF Slot, Key

LEMMA FollowersStep ==
  ASSUME TypeOK, NothingFailedYet, QueuesAreTrue, FollowersAreLed, [Next]_vars
  PROVE  FollowersAreLed'
<1>p. /\ \A pc \in Leads : pc \notin {"joined", "none"} \union Over
      /\ {"lock", "gate", "woken", "publish", "release", "leave"} \subseteq Leads
      /\ "joined" \notin Over
  BY Places DEF Over
<1>1. ASSUME NEW c \in Calls, Moves(c) \/ Joins(c) \/ Enters(c), NEW e \in Calls,
             call'[e].pc = "joined"
      PROVE  \E d \in Calls : Follows(e, d)'
  <2>1. CASE e = c
    <3>1. Joins(c)
      BY <1>1, <1>p, <2>1 DEF Moves, Enters
    <3>2. PICK d \in Calls \ {c} : /\ call[d].pc \in Leads /\ call[d].at = call'[c].at
                                   /\ call[d].viewer = call'[c].viewer
                                   /\ call[d].kind = call'[c].kind
      BY <1>1, <2>1, <3>1 DEF Joins
    <3> QED
      BY <2>1, <3>1, <3>2 DEF Joins, Rests, Carries, Follows
  <2>2. CASE e # c
    <3>1. Rests(e)
      BY <1>1, <2>2 DEF Moves, Joins, Enters
    <3>2. PICK d \in Calls : Follows(e, d)
      BY <1>1, <3>1 DEF Rests, FollowersAreLed
    <3>3. Carries(d) /\ call'[d].pc \in Leads
      BY <1>1, <1>p, <3>2 DEF Moves, Joins, Enters, Rests, Follows
    <3> QED
      BY <3>1, <3>2, <3>3 DEF Rests, Carries, Follows
  <2> QED
    BY <2>1, <2>2
<1>2. ASSUME NEW c \in Calls, Settles(c) \/ Leaves(c), NEW e \in Calls,
             call'[e].pc = "joined"
      PROVE  \E d \in Calls : Follows(e, d)'
  <2>s. \A d \in Calls : d \in Sharing(c) <=>
          (d = c \/ (/\ call[d].pc = "joined" /\ call[d].at = call[c].at
                     /\ call[d].viewer = call[c].viewer /\ call[d].kind = call[c].kind))
    BY SameAs DEF Sharing
  <2>1. call[e].pc = "joined" /\ Carries(e) /\ e # c
    <3>1. c \in Sharing(c)
      BY <2>s
    <3>2. CASE Settles(c)
      BY <1>2, <1>p, <3>1, <3>2 DEF Settles, Rests
    <3>3. CASE Leaves(c)
      BY <1>2, <1>p, <3>1, <3>3 DEF Leaves, Rests
    <3> QED
      BY <1>2, <3>2, <3>3
  <2>2. PICK d \in Calls : Follows(e, d)
    BY <2>1 DEF FollowersAreLed
  <2>3. d # c => d \notin Sharing(c)
    BY <1>p, <2>s, <2>2 DEF Follows
  <2>4. d = c => e \in Sharing(c)
    BY <2>s, <2>1, <2>2 DEF Follows
  <2>5. Carries(d) /\ call'[d].pc \in Leads
    <3>1. call[d].pc \in Leads
      BY <2>2 DEF Follows
    <3>2. CASE Settles(c)
      <4>1. e \in Sharing(c) => call'[e].pc \in Over
        BY <3>2 DEF Settles
      <4>2. d # c
        BY <1>2, <1>p, <2>4, <4>1
      <4> QED
        BY <2>3, <3>1, <3>2, <4>2 DEF Settles, Rests
    <3>3. CASE Leaves(c)
      <4>1. CASE d = c
        <5>1. Carries(c) /\ call'[c].pc \in {"publish", "release"}
          BY <1>2, <1>p, <2>4, <3>3, <4>1 DEF Leaves
        <5> QED
          BY <1>p, <4>1, <5>1
      <4>2. CASE d # c
        BY <1>p, <2>3, <3>1, <3>3, <4>2 DEF Leaves
      <4> QED
        BY <4>1, <4>2
    <3> QED
      BY <1>2, <3>2, <3>3
  <2> QED
    BY <2>1, <2>2, <2>5 DEF Carries, Follows
<1>3. ASSUME NEW i \in Instances, Dies(i), NEW e \in Calls, call'[e].pc = "joined"
      PROVE  \E d \in Calls : Follows(e, d)'
  <2>1. call[e].pc = "joined" /\ call[e].at # i /\ Carries(e)
    BY <1>3 DEF Dies, InFlight
  <2>2. PICK d \in Calls : Follows(e, d)
    BY <2>1 DEF FollowersAreLed
  <2> QED
    BY <1>3, <2>1, <2>2 DEF Dies, Carries, Follows
<1>4. ASSUME AllRest, NEW e \in Calls, call'[e].pc = "joined"
      PROVE  \E d \in Calls : Follows(e, d)'
  BY <1>4 DEF AllRest, Rests, Carries, Follows, FollowersAreLed
<1> QED
  BY <1>1, <1>2, <1>3, <1>4, CallStep DEF FollowersAreLed

LEMMA HeldInit == ASSUME Init PROVE NothingFailedYet /\ QueuesAreTrue /\ FollowersAreLed
<1>1. \A c \in Calls : call[c].pc = "none" /\ call[c].ok
  BY DEF Init, NewCall
<1>2. \A s \in Instances \X Kinds : Len(waiting[s]) = 0
  BY EmptySeq DEF Init
<1> QED
  BY <1>1, <1>2 DEF NothingFailedYet, QueuesAreTrue, FollowersAreLed

LEMMA HeldImpliesNobodyStranded ==
  ASSUME TypeOK, QueuesAreTrue, FollowersAreLed PROVE NobodyIsStranded
<1>1. ASSUME NEW c \in Calls, call[c].pc = "joined"
      PROVE  \E d \in Calls : call[d].pc \in Leads /\ Slot(d) = Slot(c) /\ Key(d) = Key(c)
  BY <1>1, SameAs DEF FollowersAreLed, Follows
<1>2. ASSUME NEW c \in Calls
      PROVE  call[c].pc = "gate" <=> \E n \in DOMAIN waiting[Slot(c)] : waiting[Slot(c)][n] = c
  <2>1. Slot(c) \in Instances \X Kinds
    BY SlotAndKeyType DEF TypeOK, Histories
  <2>2. DOMAIN waiting[Slot(c)] = 1 .. Len(waiting[Slot(c)])
    BY <2>1, LenProperties DEF TypeOK
  <2> QED
    BY <2>1, <2>2 DEF QueuesAreTrue
<1> QED
  BY <1>1, <1>2 DEF NobodyIsStranded

\* The invariant behind it: queues, followers, and what has not failed yet.
THEOREM CallsAreHeldAlways == Spec => [](NothingFailedYet /\ QueuesAreTrue /\ FollowersAreLed)
<1>1. /\ TypeOK /\ TypeOK' /\ NothingFailedYet /\ QueuesAreTrue /\ FollowersAreLed /\ [Next]_vars
      => NothingFailedYet' /\ QueuesAreTrue' /\ FollowersAreLed'
  BY NothingFailedStep, QueuesStep, FollowersStep
<1> QED
  BY <1>1, HeldInit, TypeCorrectness, PTL DEF Spec

\* A call that shares a promise shares that of a call at work, and a call that
\* waits for a slot is in its queue, whatever fails and whoever dies.
THEOREM NobodyStaysStranded == Spec => []NobodyIsStranded
BY HeldImpliesNobodyStranded, CallsAreHeldAlways, TypeCorrectness, PTL
----------------------------------------------------------------------------
(* The counter of one instance                                             *)

\* A batch is lost at the commit of its call, and once it has landed late it has.
LEMMA LateGrows ==
  ASSUME TypeOK, [Next]_vars
  PROVE  /\ late \subseteq late'
         /\ \A c \in adrift' \union late' : c \in adrift \union late \/ call[c].pc = "commit"
<1> USE DEF lost
<1>1. ASSUME NEW c \in Calls, Dedupe(c) PROVE UNCHANGED lost
  BY <1>1 DEF Dedupe, LookupHit, LookupMiss, Reuse, AcquireLease, LeaseIsTaken, PollHit,
             PollGivesUp, Publish, ReleaseLease
<1>2. ASSUME NEW c \in Calls, Work(c)
      PROVE  UNCHANGED lost \/ (/\ adrift' \subseteq adrift \union {c}
                               /\ UNCHANGED late /\ call[c].pc = "commit")
  BY <1>2 DEF Work, EnterSection, LockTimeout, CheckLike, CheckThrows, Commit, CommitThrows,
             Return
<1>3. ASSUME NEW c \in Calls, Resume(c) \/ Leave(c) \/ Outlive(c) PROVE UNCHANGED lost
  BY <1>3 DEF Resume, Leave, Outlive
<1>4. ASSUME NEW c \in Calls, LateBatch(c)
      PROVE  /\ late \subseteq late' /\ adrift' \subseteq adrift
             /\ late' \subseteq adrift \union late
  BY <1>4 DEF LateBatch
<1>5. ASSUME NEW c \in Calls, NEW v \in Viewers, NEW kind \in Kinds, NEW i \in Instances,
             Arrive(c, v, kind, i)
      PROVE  UNCHANGED lost
  BY <1>5 DEF Arrive
<1>6. ASSUME NEW k \in Keys, LeaseExpires(k) \/ ResultExpires(k) PROVE UNCHANGED lost
  BY <1>6 DEF LeaseExpires, ResultExpires
<1>7. ASSUME NEW i \in Instances, Crash(i)
      PROVE  /\ UNCHANGED late
             /\ adrift' = adrift \union {c \in Calls : call[c].at = i /\ call[c].pc = "commit"}
  BY <1>7 DEF Crash
<1>8. CASE UNCHANGED vars
  BY <1>8 DEF vars
<1> QED
  BY <1>1, <1>2, <1>3, <1>4, <1>5, <1>6, <1>7, <1>8 DEF Next, Step

\* Calls go on as themselves, and none enters or changes its place in a section.
Kept == /\ NothingFailedYet' /\ late \subseteq late'
        /\ \A d \in Calls : call[d].pc # "none" => Carries(d) /\ call'[d].pc # "none"
Quiet == /\ \A d \in Calls : /\ call'[d].pc \in Section => call'[d].pc = call[d].pc
                             /\ call[d].pc = "return" => call'[d].pc = "return"
         /\ UNCHANGED <<distributed, memory, likes, likeCount>>
         /\ outlived \subseteq outlived'

LEMMA SectionStep ==
  ASSUME TypeOK, NothingFailedYet, QueuesAreTrue, [Next]_vars
  PROVE  \/ Quiet
         \/ \E c \in Calls : \/ EnterSection(c) \/ CheckLike(c) \/ Commit(c) \/ CommitThrows(c)
                             \/ Return(c) \/ LateBatch(c)
         \/ \E i \in Instances : Crash(i)
<1> USE DEF dedupe, lost, store, gates
<1>t. call \in Histories
  BY DEF TypeOK, Histories
<1>p. Section = {"check", "commit", "return"} /\ \A pc \in Over : pc \notin Section
  BY DEF Section, Over
<1>s. \A c \in Calls : \A d \in Sharing(c) : d \in Calls /\ call[d].pc \in {call[c].pc, "joined"}
  BY DEF Sharing
<1>1. ASSUME NEW c \in Calls, NEW v \in Viewers, NEW kind \in Kinds, NEW i \in Instances,
             Arrive(c, v, kind, i)
      PROVE  Quiet
  <2>1. Joins(c) \/ Enters(c)
    BY <1>1, ArriveEffect
  <2> QED
    BY <1>1, <1>p, <2>1 DEF Joins, Enters, Rests, Quiet, Arrive
<1>2. ASSUME NEW c \in Calls, AcquireLease(c) \/ PollGivesUp(c) PROVE Quiet
  <2>1. [call[c] EXCEPT !.via = "lease"] \in CallRecords /\ call[c] \in CallRecords
    BY <1>t DEF Histories, CallRecords
  <2>2. Enters(c)
    BY <1>2, <1>t, <2>1, EnterLimitEnters DEF AcquireLease, PollGivesUp, CallRecords
  <2> QED
    BY <1>2, <1>p, <2>2 DEF Enters, Rests, Quiet, AcquireLease, PollGivesUp
<1>3. ASSUME NEW c \in Calls, LookupHit(c) \/ PollHit(c) \/ ReleaseLease(c) PROVE Quiet
  <2>1. Settles(c)
    BY <1>3, SettlesStep
  <2> QED
    BY <1>3, <1>p, <1>s, <2>1
    DEF Settles, Rests, Quiet, LookupHit, PollHit, Reuse, ReleaseLease
<1>4. ASSUME NEW c \in Calls, Leave(c) PROVE Quiet
  <2>1. Leaves(c)
    BY <1>4, LeavesStep
  <2>2. Slot(c) \in Instances \X Kinds
    BY <1>t, SlotAndKeyType
  <2>3. waiting[Slot(c)] # <<>> => call[Head(waiting[Slot(c)])].pc = "gate"
    BY <2>2, HeadWaits
  <2>4. \A d \in Calls : /\ call'[d].pc \in Section => call'[d].pc = call[d].pc
                         /\ call[d].pc = "return" => call'[d].pc = "return"
    BY <1>p, <1>s, <2>1, <2>3 DEF Leaves, Rests
  <2> QED
    BY <1>4, <2>4 DEF Quiet, Leave
<1>5. ASSUME NEW c \in Calls, Resume(c) \/ LookupMiss(c) \/ LeaseIsTaken(c) \/ Publish(c)
      PROVE  Quiet
  BY <1>5, <1>t, <1>p DEF Quiet, Resume, LookupMiss, LeaseIsTaken, Publish, Histories, CallRecords
<1>6. ASSUME NEW c \in Calls, LockTimeout(c) \/ CheckThrows(c) PROVE Quiet
  BY <1>6, <1>t, <1>p DEF Quiet, LockTimeout, CheckThrows, Histories, CallRecords
<1>7. ASSUME NEW c \in Calls, Outlive(c) PROVE Quiet
  BY <1>7 DEF Quiet, Outlive
<1>8. ASSUME NEW k \in Keys, LeaseExpires(k) \/ ResultExpires(k) PROVE Quiet
  BY <1>8 DEF Quiet, LeaseExpires, ResultExpires
<1>9. CASE UNCHANGED vars
  BY <1>9 DEF Quiet, vars
<1> QED
  BY <1>1, <1>2, <1>3, <1>4, <1>5, <1>6, <1>7, <1>8, <1>9 DEF Next, Step, Dedupe, Work

LEMMA ReliableBefore ==
  ASSUME NothingFailedYet, LostHasCaller, Kept, outlived \subseteq outlived', Reliable'
  PROVE  Reliable
<1>1. OneInstance
  BY DEF Reliable, OneInstance, Kept, Carries
<1>2. \A c \in Calls : call[c].kind = "unlike" => call[c].ok /\ c \notin late
  BY DEF Reliable, Kept, Carries, NothingFailedYet, LostHasCaller
<1> QED
  BY <1>1, <1>2 DEF Reliable

\* Where the calls of one viewer meet while the instance is reliable.
LEMMA OneOwner ==
  ASSUME TypeOK, OwnersApart, Reliable, NEW c \in Calls, NEW d \in Calls,
         call[c].pc \in Section, call[d].pc \in Section, call[c].viewer = call[d].viewer
  PROVE  c = d
<1>1. call[c].at = call[d].at
  BY DEF Reliable, OneInstance, Section
<1> QED
  BY <1>1 DEF OwnersApart, Reliable

LEMMA OwnersStep ==
  ASSUME TypeOK, NothingFailedYet, QueuesAreTrue, Kept, OwnersApart, [Next]_vars
  PROVE  OwnersApart'
<1>t. call \in Histories
  BY DEF TypeOK, Histories
<1>n. "none" \notin Section
  BY DEF Section
<1>1. ASSUME \A d \in Calls : call'[d].pc \in Section => call[d].pc \in Section,
             UNCHANGED distributed, outlived \subseteq outlived'
      PROVE  OwnersApart'
  BY <1>1, <1>n DEF OwnersApart, Kept, Carries
<1>2. CASE Quiet
  BY <1>1, <1>2 DEF Quiet
<1>3. ASSUME NEW c \in Calls, EnterSection(c) PROVE OwnersApart'
  <2>1. \A d \in Calls \ {c} : call'[d] = call[d]
    BY <1>3, <1>t DEF EnterSection, Histories
  <2>2. call'[c].viewer = call[c].viewer /\ call'[c].at = call[c].at
    BY <1>3, <1>t DEF EnterSection, Histories, CallRecords
  <2>3. UNCHANGED <<distributed, outlived>> /\ Owners(c) = {}
    BY <1>3 DEF EnterSection
  <2> QED
    BY <2>1, <2>2, <2>3 DEF OwnersApart, Owners
<1>4. ASSUME NEW c \in Calls, CheckLike(c) \/ Return(c) PROVE OwnersApart'
  BY <1>1, <1>4, <1>t DEF CheckLike, Return, Section, Histories, CallRecords
<1>5. ASSUME NEW c \in Calls, Commit(c) \/ CommitThrows(c) PROVE OwnersApart'
  <2>1. Moves(c)
    BY <1>5, MovesStep DEF Work
  <2>2. call[c].pc \in Section /\ UNCHANGED <<distributed, outlived>>
    BY <1>5 DEF Commit, CommitThrows, Section
  <2> QED
    BY <1>1, <2>1, <2>2 DEF Moves, Rests
<1>6. ASSUME NEW i \in Instances, Crash(i) PROVE OwnersApart'
  BY <1>1, <1>6, <1>t DEF Crash, Section, Histories, CallRecords
<1>7. ASSUME NEW c \in Calls, LateBatch(c) PROVE OwnersApart'
  BY <1>1, <1>7, LateBatchRests DEF LateBatch, Rests
<1> QED
  BY <1>2, <1>3, <1>4, <1>5, <1>6, <1>7, SectionStep

LEMMA LostHasCallerStep ==
  ASSUME TypeOK, Kept, LostHasCaller, [Next]_vars PROVE LostHasCaller'
<1> SUFFICES ASSUME NEW c \in adrift' \union late' PROVE call'[c].pc # "none"
  BY DEF LostHasCaller
<1>1. c \in Calls /\ (c \in adrift \union late \/ call[c].pc = "commit")
  BY LateGrows, TypeStep DEF TypeOK
<1> QED
  BY <1>1 DEF LostHasCaller, Kept

LEMMA MemoryHasCallerStep ==
  ASSUME TypeOK, NothingFailedYet, QueuesAreTrue, Kept, MemoryHasCaller, [Next]_vars
  PROVE  MemoryHasCaller'
<1>t. call \in Histories
  BY DEF TypeOK, Histories
<1>1. ASSUME NEW i \in Instances,
             \/ memory[i] # {}
             \/ \E c \in Calls : call[c].pc # "none" /\ call[c].at = i
      PROVE  \E c \in Calls : call'[c].pc # "none" /\ call'[c].at = i
  <2>1. PICK c \in Calls : call[c].pc # "none" /\ call[c].at = i
    BY <1>1 DEF MemoryHasCaller
  <2> QED
    BY <2>1 DEF Kept, Carries
<1>2. ASSUME NEW i \in Instances, memory'[i] # {}
      PROVE  \/ memory[i] # {}
             \/ \E c \in Calls : call[c].pc # "none" /\ call[c].at = i
  <2>1. CASE UNCHANGED memory
    BY <1>2, <2>1
  <2>2. ASSUME NEW c \in Calls, Return(c)
        PROVE  memory[i] # {} \/ (call[c].pc # "none" /\ call[c].at = i)
    BY <1>2, <2>2 DEF Return, TypeOK
  <2>3. ASSUME NEW j \in Instances, Crash(j) PROVE memory[i] # {}
    BY <1>2, <2>3 DEF Crash, TypeOK
  <2> QED
    BY <2>1, <2>2, <2>3, SectionStep
    DEF Quiet, EnterSection, CheckLike, Commit, CommitThrows, LateBatch
<1> QED
  BY <1>1, <1>2 DEF MemoryHasCaller

\* What a step in a section does to the calls.
LEMMA SectionEffect ==
  ASSUME TypeOK, NEW c \in Calls,
         EnterSection(c) \/ CheckLike(c) \/ Commit(c) \/ CommitThrows(c) \/ Return(c)
  PROVE  /\ Carries(c) /\ \A d \in Calls \ {c} : Rests(d)
         /\ UNCHANGED <<distributed, outlived>>
<1>1. Moves(c)
  BY MovesStep DEF Work
<1> QED
  BY <1>1 DEF Moves, EnterSection, CheckLike, Commit, CommitThrows, Return

LEMMA CommitEffect ==
  ASSUME TypeOK, NEW c \in Calls, Commit(c) \/ CommitThrows(c)
  PROVE  /\ Commit(c) => call'[c].pc = "return"
         /\ CommitThrows(c) => call'[c].pc = "leave" /\ ~ call'[c].ok
<1>1. "return" \in Leads /\ "leave" \in Leads
  BY Places
<1>2. Observed(c, "return") \in Histories /\ Observed(c, "leave") \in Histories
  BY <1>1, ObservedType
<1>3. Observed(c, "return")[c].pc = "return" /\ Observed(c, "leave")[c].pc = "leave"
  BY DEF Observed, TypeOK, CallRecords
<1>4. Commit(c) => call'[c].pc = "return"
  BY <1>3 DEF Commit
<1>5. ASSUME NEW obs \in Histories, call' = [obs EXCEPT ![c].ok = FALSE], obs[c].pc = "leave"
      PROVE  call'[c].pc = "leave" /\ ~ call'[c].ok
  BY <1>5 DEF Histories, CallRecords
<1> QED
  BY <1>2, <1>3, <1>4, <1>5 DEF CommitThrows

\* What an instance remembers, and what a batch relies on, apart.
Backed(i, v) == v \in likes \/ \E c \in Calls : Returning(c, "unlike") /\ call[c].viewer = v
Grounded(c) == /\ call[c].pc = "commit" /\ call[c].kind = "unlike" => call[c].viewer \in likes
               /\ Returning(c, "like") => call[c].viewer \in likes

LEMMA MemoryIsTrueApart ==
  MemoryIsTrue <=> (Reliable => /\ \A i \in Instances : \A v \in memory[i] : Backed(i, v)
                                /\ \A c \in Calls : Grounded(c))
BY DEF MemoryIsTrue, Backed, Grounded

\* While the instance is reliable, a step keeps what it remembers true, and the
\* likes that the batches rely on.
LEMMA QuietMemory ==
  ASSUME TypeOK, Kept, Quiet,
         \A i \in Instances : \A v \in memory[i] : Backed(i, v), \A c \in Calls : Grounded(c)
  PROVE  /\ \A i \in Instances : \A v \in memory'[i] : Backed(i, v)'
         /\ \A c \in Calls : Grounded(c)'
<1>n. "none" \notin Section /\ {"commit", "return"} \subseteq Section
  BY DEF Section
<1>1. ASSUME NEW i \in Instances, NEW v \in memory'[i] PROVE Backed(i, v)'
  BY <1>1, <1>n DEF Quiet, Kept, Carries, Backed, Returning
<1>2. ASSUME NEW c \in Calls PROVE Grounded(c)'
  BY <1>2, <1>n DEF Quiet, Kept, Carries, Grounded, Returning
<1> QED
  BY <1>1, <1>2

\* The other calls of the viewer are elsewhere.
LEMMA Alone ==
  ASSUME TypeOK, OwnersApart, Reliable, NEW c \in Calls, call[c].pc \in {"commit", "return"},
         NEW d \in Calls \ {c}, call[d].pc \in {"commit", "return"}
  PROVE  call[d].viewer # call[c].viewer
BY OneOwner DEF Section

LEMMA EnterMemory ==
  ASSUME TypeOK, OwnersApart, Reliable, NEW c \in Calls, EnterSection(c) \/ CheckLike(c),
         \A i \in Instances : \A v \in memory[i] : Backed(i, v), \A d \in Calls : Grounded(d)
  PROVE  /\ \A i \in Instances : \A v \in memory'[i] : Backed(i, v)'
         /\ \A d \in Calls : Grounded(d)'
<1> USE DEF store
<1>e. /\ Carries(c) /\ \A d \in Calls \ {c} : Rests(d)
      /\ UNCHANGED <<memory, likes>> /\ call[c].pc \notin {"commit", "return"}
  BY SectionEffect DEF EnterSection, CheckLike
<1>1. ASSUME NEW i \in Instances, NEW v \in memory'[i] PROVE Backed(i, v)'
  BY <1>1, <1>e DEF Backed, Returning, Rests, Carries
<1>2. Grounded(c)'
  <2>1. call'[c].pc # "return"
    BY DEF EnterSection, CheckLike, TypeOK, CallRecords
  <2>2. ASSUME call'[c].pc = "commit", call[c].kind = "unlike" PROVE call[c].viewer \in likes
    <3>1. CASE CheckLike(c)
      BY <2>2, <3>1 DEF CheckLike, TypeOK, CallRecords
    <3>2. CASE EnterSection(c)
      <4>1. call[c].viewer \in memory[call[c].at] /\ call[c].at \in Instances
        BY <2>2, <3>2 DEF EnterSection, TypeOK, CallRecords
      <4>2. ASSUME NEW d \in Calls, call[d].pc = "return", call[d].viewer = call[c].viewer
            PROVE  FALSE
        <5>1. call[d].at = call[c].at
          BY <3>2, <4>2 DEF EnterSection, Reliable, OneInstance
        <5>2. d \in Owners(c)
          BY <4>2, <5>1 DEF Owners, Section, Reliable
        <5> QED
          BY <3>2, <5>2 DEF EnterSection
      <4> QED
        BY <4>1, <4>2 DEF Backed, Returning
    <3> QED
      BY <3>1, <3>2
  <2> QED
    BY <1>e, <2>1, <2>2 DEF Grounded, Returning, Carries
<1>3. ASSUME NEW d \in Calls \ {c} PROVE Grounded(d)'
  BY <1>3, <1>e DEF Grounded, Returning, Rests, Carries
<1> QED
  BY <1>1, <1>2, <1>3

LEMMA CommitMemory ==
  ASSUME TypeOK, OwnersApart, Reliable, IsFiniteSet(likes),
         NEW c \in Calls, Commit(c) \/ CommitThrows(c), Reliable',
         \A i \in Instances : \A v \in memory[i] : Backed(i, v), \A d \in Calls : Grounded(d)
  PROVE  /\ \A i \in Instances : \A v \in memory'[i] : Backed(i, v)'
         /\ \A d \in Calls : Grounded(d)'
         /\ Cardinality(likes') - likeCount' = Cardinality(likes) - likeCount
<1> USE DEF store
<1>e. /\ Carries(c) /\ \A d \in Calls \ {c} : Rests(d)
      /\ UNCHANGED memory /\ call[c].pc = "commit"
  BY SectionEffect DEF Commit, CommitThrows
<1>k. call[c].kind \in {"like", "unlike"} /\ likeCount \in Int /\ Cardinality(likes) \in Int
  BY FS_CardinalityType DEF TypeOK, CallRecords, Kinds
<1>1. CASE call[c].kind = "like"
  <2>1. /\ likes \subseteq likes' /\ (call'[c].pc = "return" => call[c].viewer \in likes')
        /\ Cardinality(likes') - likeCount' = Cardinality(likes) - likeCount
    <3>1. CASE WriteBatch(c)
      <4>1. /\ likes' = likes \union {call[c].viewer}
            /\ likeCount' - likeCount = Cardinality(likes') - Cardinality(likes)
            /\ Cardinality(likes') \in Int
        BY <1>1, <3>1, BatchCounts
      <4>2. likeCount' \in Int
        BY <3>1, WriteBatchType
      <4> QED
        BY <1>k, <4>1, <4>2
    <3>2. CASE CommitThrows(c) /\ UNCHANGED store
      <4>1. call'[c].pc = "leave"
        BY <3>2, CommitEffect
      <4> QED
        BY <3>2, <4>1
    <3> QED
      BY <3>1, <3>2 DEF Commit, CommitThrows
  <2>2. ASSUME NEW i \in Instances, NEW v \in memory'[i] PROVE Backed(i, v)'
    BY <1>e, <2>1, <2>2 DEF Backed, Returning, Rests, Carries
  <2>3. ASSUME NEW d \in Calls PROVE Grounded(d)'
    BY <1>1, <1>e, <2>1, <2>3 DEF Grounded, Returning, Rests, Carries
  <2> QED
    BY <2>1, <2>2, <2>3
<1>2. CASE call[c].kind = "unlike"
  <2>1. Commit(c) /\ call'[c].pc = "return" /\ WriteBatch(c)
    <3>1. ~ CommitThrows(c)
      BY <1>2, <1>e, CommitEffect DEF Reliable, Carries
    <3> QED
      BY <3>1, CommitEffect DEF Commit
  <2>2. call[c].viewer \in likes
    BY <1>2, <1>e DEF Grounded
  <2>3. /\ likes' = likes \ {call[c].viewer} /\ likeCount' = likeCount - 1
        /\ Cardinality(likes') = Cardinality(likes) - 1
    BY <1>2, <2>1, <2>2, BatchCounts
  <2>4. ASSUME NEW i \in Instances, NEW v \in memory'[i] PROVE Backed(i, v)'
    <3>1. CASE v = call[c].viewer
      BY <1>2, <1>e, <2>1, <3>1 DEF Backed, Returning, Carries
    <3>2. CASE v # call[c].viewer
      BY <1>e, <2>3, <2>4, <3>2 DEF Backed, Returning, Rests, Carries
    <3> QED
      BY <3>1, <3>2
  <2>5. ASSUME NEW d \in Calls PROVE Grounded(d)'
    <3>1. CASE d = c
      BY <1>2, <1>e, <2>1, <3>1 DEF Grounded, Returning, Carries
    <3>2. CASE d # c
      <4>1. call[d].pc \in {"commit", "return"} => call[d].viewer # call[c].viewer
        BY <1>e, <3>2, Alone
      <4> QED
        BY <1>e, <2>3, <2>5, <3>2, <4>1 DEF Grounded, Returning, Rests, Carries
    <3> QED
      BY <3>1, <3>2
  <2> QED
    BY <1>k, <2>3, <2>4, <2>5
<1> QED
  BY <1>k, <1>1, <1>2

\* A late like is one more, or none.
LEMMA LateBatchMemory ==
  ASSUME TypeOK, IsFiniteSet(likes), NEW c \in Calls, LateBatch(c), Reliable', Kept,
         NothingFailedYet,
         \A i \in Instances : \A v \in memory[i] : Backed(i, v), \A d \in Calls : Grounded(d)
  PROVE  /\ \A i \in Instances : \A v \in memory'[i] : Backed(i, v)'
         /\ \A d \in Calls : Grounded(d)'
         /\ Cardinality(likes') - likeCount' = Cardinality(likes) - likeCount
<1>e. (\A d \in Calls : Rests(d)) /\ UNCHANGED memory /\ WriteBatch(c) /\ c \in late'
  BY LateBatchRests DEF LateBatch
<1>1. call[c].kind = "like"
  BY <1>e DEF Reliable, Rests, Carries, TypeOK, CallRecords, Kinds
<1>2. /\ likes' = likes \union {call[c].viewer}
      /\ likeCount' - likeCount = Cardinality(likes') - Cardinality(likes)
      /\ Cardinality(likes) \in Nat /\ Cardinality(likes') \in Nat
  BY <1>1, <1>e, BatchCounts
<1>3. likeCount \in Int /\ likeCount' \in Int
  BY <1>e, WriteBatchType DEF TypeOK
<1>4. ASSUME NEW i \in Instances, NEW v \in memory'[i] PROVE Backed(i, v)'
  BY <1>e, <1>2, <1>4 DEF Backed, Returning, Rests, Carries
<1>5. ASSUME NEW d \in Calls PROVE Grounded(d)'
  BY <1>e, <1>2, <1>5 DEF Grounded, Returning, Rests, Carries
<1> QED
  BY <1>2, <1>3, <1>4, <1>5

\* Only the instance that works remembers anything.
LEMMA OtherMemories ==
  ASSUME MemoryHasCaller, OneInstance, NEW c \in Calls, call[c].pc # "none",
         NEW i \in Instances \ {call[c].at}
  PROVE  memory[i] = {}
BY DEF MemoryHasCaller, OneInstance

LEMMA ReturnMemory ==
  ASSUME TypeOK, Reliable, MemoryHasCaller, NEW c \in Calls, Return(c),
         \A i \in Instances : \A v \in memory[i] : Backed(i, v), \A d \in Calls : Grounded(d)
  PROVE  /\ \A i \in Instances : \A v \in memory'[i] : Backed(i, v)'
         /\ \A d \in Calls : Grounded(d)'
<1> USE DEF store
<1>e. /\ Carries(c) /\ \A d \in Calls \ {c} : Rests(d)
      /\ UNCHANGED likes /\ call[c].pc = "return" /\ call'[c].pc = "leave"
  BY SectionEffect DEF Return, TypeOK, CallRecords
<1>k. call[c].kind \in {"like", "unlike"} /\ call[c].at \in Instances
  BY DEF TypeOK, CallRecords, Kinds
<1>1. ASSUME NEW i \in Instances, NEW v \in memory'[i] PROVE Backed(i, v)'
  <2>1. CASE i = call[c].at /\ v = call[c].viewer
    <3>1. call[c].kind = "like"
      BY <1>1, <1>k, <2>1 DEF Return, TypeOK
    <3> QED
      BY <1>e, <2>1, <3>1 DEF Grounded, Returning, Backed
  <2>2. CASE i = call[c].at /\ v # call[c].viewer
    <3>1. v \in memory[i]
      BY <1>1, <2>2 DEF Return, TypeOK
    <3> QED
      BY <1>e, <2>2, <3>1 DEF Returning, Backed, Rests, Carries
  <2>3. CASE i # call[c].at
    <3>1. memory'[i] = memory[i]
      BY <2>3 DEF Return, TypeOK
    <3>2. memory[i] = {}
      BY <1>e, <2>3, OtherMemories DEF Reliable
    <3> QED
      BY <1>1, <3>1, <3>2
  <2> QED
    BY <2>1, <2>2, <2>3
<1>2. ASSUME NEW d \in Calls PROVE Grounded(d)'
  BY <1>2, <1>e DEF Grounded, Returning, Rests, Carries
<1> QED
  BY <1>1, <1>2

LEMMA CrashMemory ==
  ASSUME TypeOK, Reliable, MemoryHasCaller, NEW j \in Instances, Crash(j),
         \A i \in Instances : \A v \in memory[i] : Backed(i, v), \A d \in Calls : Grounded(d)
  PROVE  /\ \A i \in Instances : \A v \in memory'[i] : Backed(i, v)'
         /\ \A d \in Calls : Grounded(d)'
<1> USE DEF store
<1>e. /\ \A d \in Calls : /\ Carries(d)
                          /\ call'[d].pc = IF call[d].at = j /\ InFlight(d) THEN "gone"
                                           ELSE call[d].pc
      /\ UNCHANGED likes
  BY DEF Crash, Carries, TypeOK, CallRecords
<1>1. ASSUME NEW i \in Instances, NEW v \in memory'[i] PROVE Backed(i, v)'
  <2>1. i # j /\ v \in memory[i]
    BY <1>1 DEF Crash, TypeOK
  <2>2. CASE v \in likes
    BY <1>e, <2>2 DEF Backed
  <2>3. CASE v \notin likes
    <3>1. PICK d \in Calls : Returning(d, "unlike") /\ call[d].viewer = v
      BY <2>1, <2>3 DEF Backed
    <3>2. call[d].at # j
      BY <2>1, <3>1, OtherMemories DEF Reliable, Returning
    <3> QED
      BY <1>e, <3>1, <3>2 DEF Backed, Returning, Carries
  <2> QED
    BY <2>2, <2>3
<1>2. ASSUME NEW d \in Calls PROVE Grounded(d)'
  BY <1>2, <1>e DEF Grounded, Returning, Carries
<1> QED
  BY <1>1, <1>2

LEMMA ExactStep ==
  ASSUME TypeOK, NothingFailedYet, QueuesAreTrue, Kept, OwnersApart, MemoryHasCaller,
         LostHasCaller, MemoryIsTrue, CountIsExact, IsFiniteSet(likes), [Next]_vars
  PROVE  MemoryIsTrue' /\ CountIsExact'
<1> USE DEF store
<1> SUFFICES ASSUME Reliable'
             PROVE  /\ \A i \in Instances : \A v \in memory'[i] : Backed(i, v)'
                    /\ \A c \in Calls : Grounded(c)'
                    /\ likeCount' = Cardinality(likes')
  BY DEF MemoryIsTrue, Backed, Grounded, CountIsExact
<1>o. outlived \subseteq outlived'
  BY SectionStep, SectionEffect DEF Quiet, Crash, LateBatch
<1>r. Reliable
  BY <1>o, ReliableBefore
<1>b. /\ \A i \in Instances : \A v \in memory[i] : Backed(i, v)
      /\ \A c \in Calls : Grounded(c)
      /\ likeCount = Cardinality(likes)
  BY <1>r, MemoryIsTrueApart DEF CountIsExact
<1>1. CASE Quiet
  BY <1>b, <1>1, QuietMemory DEF Quiet
<1>2. ASSUME NEW c \in Calls, EnterSection(c) \/ CheckLike(c)
      PROVE  /\ \A i \in Instances : \A v \in memory'[i] : Backed(i, v)'
             /\ \A d \in Calls : Grounded(d)'
             /\ likeCount' = Cardinality(likes')
  BY <1>r, <1>b, <1>2, EnterMemory DEF EnterSection, CheckLike
<1>3. ASSUME NEW c \in Calls, Commit(c) \/ CommitThrows(c) \/ LateBatch(c)
      PROVE  /\ \A i \in Instances : \A v \in memory'[i] : Backed(i, v)'
             /\ \A d \in Calls : Grounded(d)'
             /\ likeCount' = Cardinality(likes')
  <2>1. /\ \A i \in Instances : \A v \in memory'[i] : Backed(i, v)'
        /\ \A d \in Calls : Grounded(d)'
        /\ Cardinality(likes') - likeCount' = Cardinality(likes) - likeCount
    BY <1>r, <1>b, <1>3, CommitMemory, LateBatchMemory
  <2>2. /\ likeCount' \in Int /\ likeCount \in Int
        /\ Cardinality(likes') \in Int /\ Cardinality(likes) \in Int
    <3>1. likeCount' \in Int
      BY <1>3, WriteBatchType DEF Commit, CommitThrows, LateBatch
    <3>2. IsFiniteSet(likes')
      BY <1>3, BatchCounts DEF Commit, CommitThrows, LateBatch
    <3> QED
      BY <3>1, <3>2, FS_CardinalityType DEF TypeOK
  <2>3. likeCount' = Cardinality(likes')
    <3>1. likeCount = Cardinality(likes)
      BY <1>b
    <3> HIDE <1>b
    <3> QED
      BY <2>1, <2>2, <3>1
  <2> QED
    BY <2>1, <2>3
<1>4. ASSUME NEW c \in Calls, Return(c)
      PROVE  /\ \A i \in Instances : \A v \in memory'[i] : Backed(i, v)'
             /\ \A d \in Calls : Grounded(d)'
             /\ likeCount' = Cardinality(likes')
  BY <1>r, <1>b, <1>4, ReturnMemory DEF Return
<1>5. ASSUME NEW j \in Instances, Crash(j)
      PROVE  /\ \A i \in Instances : \A v \in memory'[i] : Backed(i, v)'
             /\ \A d \in Calls : Grounded(d)'
             /\ likeCount' = Cardinality(likes')
  BY <1>r, <1>b, <1>5, CrashMemory DEF Crash
<1> QED
  BY <1>1, <1>2, <1>3, <1>4, <1>5, SectionStep

LEMMA ExactInit ==
  ASSUME Init
  PROVE  OwnersApart /\ MemoryHasCaller /\ LostHasCaller /\ MemoryIsTrue /\ CountIsExact
<1>1. \A c \in Calls : call[c].pc = "none"
  BY DEF Init, NewCall
<1>2. /\ \A i \in Instances : memory[i] = {}
      /\ adrift = {} /\ late = {} /\ likeCount = 0 /\ Cardinality(likes) = 0
  BY FS_EmptySet DEF Init
<1> QED
  BY <1>1, <1>2 DEF OwnersApart, MemoryHasCaller, LostHasCaller, MemoryIsTrue, CountIsExact,
    Section, Returning

LEMMA BoundedAlways == Spec => []LikesBounded
<1>1. TypeOK /\ LikesBounded /\ [Next]_vars => LikesBounded'
  BY BoundedStep
<1> QED
  BY <1>1, BoundedInit, TypeCorrectness, PTL DEF Spec

\* The counter of one instance is exact while no lease is outlived and no unlike
\* throws or lands late, across joined calls, likes whose answer is lost or whose
\* batch lands late, and restarts.
THEOREM CounterIsExact == Spec => []CountIsExact
<1> DEFINE Held == NothingFailedYet /\ QueuesAreTrue /\ FollowersAreLed
           Exact == OwnersApart /\ MemoryHasCaller /\ LostHasCaller /\ MemoryIsTrue /\ CountIsExact
<1>1. TypeOK /\ Held /\ LikesBounded /\ Exact /\ [Next]_vars => Exact'
  <2> SUFFICES ASSUME TypeOK, Held, LikesBounded, Exact, [Next]_vars PROVE Exact'
    OBVIOUS
  <2>1. Kept
    BY NothingFailedStep, LateGrows DEF Kept
  <2>2. IsFiniteSet(likes)
    BY DEF LikesBounded
  <2> QED
    BY <2>1, <2>2, OwnersStep, MemoryHasCallerStep, LostHasCallerStep, ExactStep
<1>2. Init => Exact
  BY ExactInit
<1>3. Exact => CountIsExact
  OBVIOUS
<1>4. Spec => []Held
  BY CallsAreHeldAlways
<1> HIDE DEF Held, Exact
<1> QED
  BY <1>1, <1>2, <1>3, <1>4, BoundedAlways, TypeCorrectness, PTL DEF Spec
----------------------------------------------------------------------------
(* The lock                                                                *)

Owns(c) == c \notin outlived /\ call[c].pc \in Section
Place(c) == <<call[c].viewer, Site(c)>>

LEMMA OwnedOfPlace ==
  /\ Owned = [k \in Viewers \X Instances |-> {c \in Calls : Owns(c) /\ Place(c) = k}]
  /\ \A c \in Calls : call[c].viewer \in Viewers /\ call[c].at \in Instances =>
       Place(c) \in Viewers \X Instances
BY DEF Owned, Owns, Place, Site

\* Owners that stay stay where they are, and nobody comes: the others yield.
LEMMA OthersYield ==
  ASSUME \A d \in Calls : Owns(d)' => Owns(d) /\ Place(d)' = Place(d)
  PROVE  Lock!Next
<1> DEFINE gone == {d \in Calls : ~ Owns(d)'}
<1>1. ASSUME NEW k \in Viewers \X Instances
      PROVE  {d \in Calls : Owns(d)' /\ Place(d)' = k} =
               {d \in Calls : Owns(d) /\ Place(d) = k} \ gone
  OBVIOUS
<1>2. Owned' = [k \in Viewers \X Instances |-> {d \in Calls : Owns(d)' /\ Place(d)' = k}]
  BY DEF Owned, Owns, Place, Site
<1>3. Lock!Yield(gone)
  BY <1>1, <1>2, OwnedOfPlace DEF Lock!Yield
<1> QED
  BY <1>3 DEF Lock!Next

\* The one that comes finds no owner.
LEMMA OneEnters ==
  ASSUME TypeOK, NEW c \in Calls, EnterSection(c), c \notin outlived
  PROVE  Lock!Next
<1>1. /\ \A d \in Calls \ {c} : call'[d] = call[d]
      /\ call'[c].viewer = call[c].viewer /\ call'[c].at = call[c].at
      /\ call'[c].pc \in Section /\ call[c].pc \notin Section
      /\ UNCHANGED <<distributed, outlived>>
  BY DEF EnterSection, TypeOK, CallRecords, Section
<1>2. \A d \in Calls : Place(d)' = Place(d)
  BY <1>1 DEF Place, Site
<1>3. \A d \in Calls \ {c} : Owns(d)' <=> Owns(d)
  BY <1>1 DEF Owns
<1>4. Owns(c)' /\ ~ Owns(c)
  BY <1>1 DEF Owns
<1>5. Place(c) \in Viewers \X Instances
  BY OwnedOfPlace DEF TypeOK, CallRecords
<1>6. ASSUME NEW d \in Calls, Owns(d), Place(d) = Place(c) PROVE FALSE
  <2>1. d \in Owners(c)
    BY <1>6 DEF Owns, Place, Site, Owners
  <2> QED
    BY <2>1 DEF EnterSection
<1>7. Owned' = [k \in Viewers \X Instances |-> {d \in Calls : Owns(d)' /\ Place(d)' = k}]
  BY DEF Owned, Owns, Place, Site
<1>8. Owned[Place(c)] = {}
  BY <1>5, <1>6, OwnedOfPlace
<1>9. Owned' = [Owned EXCEPT ![Place(c)] = {c}]
  <2>1. ASSUME NEW k \in Viewers \X Instances
        PROVE  {d \in Calls : Owns(d)' /\ Place(d)' = k} =
                 IF k = Place(c) THEN {c} ELSE {d \in Calls : Owns(d) /\ Place(d) = k}
    BY <1>2, <1>3, <1>4, <1>6
  <2> QED
    BY <1>5, <1>7, <2>1, OwnedOfPlace
<1>10. Lock!Enter(Place(c), c)
  BY <1>8, <1>9 DEF Lock!Enter
<1> QED
  BY <1>5, <1>10 DEF Lock!Next

LEMMA LockStep ==
  ASSUME TypeOK, NothingFailedYet, QueuesAreTrue, [Next]_vars
  PROVE  Lock!Next
<1>k. Kept
  BY NothingFailedStep, LateGrows DEF Kept
<1>n. "none" \notin Section
  BY DEF Section
<1>1. ASSUME \A d \in Calls : call'[d].pc \in Section => call[d].pc \in Section,
             UNCHANGED distributed, outlived \subseteq outlived'
      PROVE  Lock!Next
  <2>1. \A d \in Calls : Owns(d)' => Owns(d) /\ Place(d)' = Place(d)
    BY <1>1, <1>k, <1>n DEF Owns, Place, Site, Kept, Carries
  <2> QED
    BY <2>1, OthersYield
<1>2. ASSUME NEW c \in Calls, EnterSection(c) PROVE Lock!Next
  <2>1. CASE c \notin outlived
    BY <1>2, <2>1, OneEnters
  <2>2. CASE c \in outlived
    <3>1. \A d \in Calls : Owns(d)' => Owns(d) /\ Place(d)' = Place(d)
      BY <1>2, <2>2 DEF EnterSection, Owns, Place, Site, TypeOK, CallRecords
    <3> QED
      BY <3>1, OthersYield
  <2> QED
    BY <2>1, <2>2
<1>3. CASE Quiet
  BY <1>1, <1>3 DEF Quiet
<1>4. ASSUME NEW c \in Calls, CheckLike(c) \/ Commit(c) \/ CommitThrows(c) \/ Return(c)
      PROVE  Lock!Next
  <2>1. call[c].pc \in Section
    BY <1>4 DEF CheckLike, Commit, CommitThrows, Return, Section
  <2>2. (\A d \in Calls \ {c} : Rests(d)) /\ UNCHANGED <<distributed, outlived>>
    BY <1>4, SectionEffect
  <2> QED
    BY <1>1, <2>1, <2>2 DEF Rests
<1>5. ASSUME NEW i \in Instances, Crash(i) PROVE Lock!Next
  BY <1>1, <1>5 DEF Crash, Section, TypeOK, CallRecords
<1>6. ASSUME NEW c \in Calls, LateBatch(c) PROVE Lock!Next
  BY <1>1, <1>6, LateBatchRests DEF LateBatch, Rests
<1> QED
  BY <1>2, <1>3, <1>4, <1>5, <1>6, SectionStep

\* The gates compose with the lock: every step of the likes is a step of what
\* KeyedSection promises, with an owner that ends, dies or outlives its lease
\* yielding, and nobody else in a section before.
THEOREM SectionsAreKeyed == Spec => LockIsKeyed
<1>1. Init => Lock!Init
  <2> SUFFICES ASSUME Init PROVE \A c \in Calls : ~ Owns(c)
    BY OwnedOfPlace DEF Lock!Init
  <2> QED
    BY DEF Init, NewCall, Owns, Section
<1>2. TypeOK /\ NothingFailedYet /\ QueuesAreTrue /\ [Next]_vars => [Lock!Next]_Owned
  BY LockStep
<1> QED
  BY <1>1, <1>2, TypeCorrectness, CallsAreHeldAlways, PTL DEF Spec, LockIsKeyed, Lock!Spec
=============================================================================
