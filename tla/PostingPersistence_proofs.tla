----------------------- MODULE PostingPersistence_proofs -----------------------
(***************************************************************************)
(* PersistenceInvariant is an invariant, for any number of calls and of    *)
(* restarts, and the file never goes back, as long as the file operations  *)
(* that a state depends on succeed and no late load replaces it.           *)
(***************************************************************************)
EXTENDS PostingPersistence, TLAPS

\* The state is empty and so is the file.
LEMMA PersistenceInit == Init => PersistenceInvariant
<1> SUFFICES ASSUME Init  PROVE PersistenceInvariant
  OBVIOUS
<1>1. Unreadable \in Files
  BY DEF Unreadable, Files
<1>2. TypeOK
  <2>1. << >> \in Seq(Writes)
    OBVIOUS
  <2>2. crashes \in 0 .. MaxCrashes
    BY PersistenceAssumption DEF Init
  <2> QED
    BY <1>1, <2>1, <2>2 DEF Init, TypeOK, Places
<1>3. UnreadableIsEmpty
  BY <1>1 DEF Init, UnreadableIsEmpty
<1>4. AckedIsDurable /\ AckedIsVisible
  BY DEF Init, AckedIsDurable, AckedIsVisible
<1>5. SamplesAreFresh
  BY DEF Init, SamplesAreFresh
<1>6. PayloadsGrow
  BY DEF Init, PayloadsGrow
<1> QED
  BY <1>2, <1>3, <1>4, <1>5, <1>6 DEF PersistenceInvariant

Step(c) == BeginLoad(c) \/ ReadFile(c) \/ FinishLoad(c) \/ CallLoaded(c)

\* What a call does with the state it goes on with keeps the types.
LEMMA ProceedTypes ==
    ASSUME TypeOK, NEW c \in Calls, NEW s \in SUBSET Writers, NEW alias \in BOOLEAN,
           ChangeState(c, s, alias), Persist(c, s), writing' = writing, poisoned' = poisoned
    PROVE  /\ own' \subseteq Writers /\ shared' \subseteq Writers /\ acked' = acked
           /\ aliased' \in BOOLEAN
           /\ pc' \in [Calls -> Places]
           /\ queue' \in Seq(Writes)
           /\ writing' => queue' # << >>
           /\ poisoned' => queue' = << >>
<1>1. ASSUME c \in Writers, ~ poisoned  PROVE [call |-> c, payload |-> s \union {c}] \in Writes
  BY <1>1 DEF Writes
<1>2. CASE c \in Writers /\ ~ poisoned
  BY <1>1, <1>2 DEF TypeOK, ChangeState, Persist, Goto, Places
<1>3. CASE ~ (c \in Writers /\ ~ poisoned)
  BY <1>3 DEF TypeOK, ChangeState, Persist, Goto, Places
<1> QED
  BY <1>2, <1>3

\* The types, and that only a process that has loaded waits for writes.
LEMMA PersistenceTypes == TypeOK /\ UnreadableIsEmpty /\ [Next]_persistenceVars => TypeOK' /\ UnreadableIsEmpty'
<1> SUFFICES ASSUME TypeOK, UnreadableIsEmpty, [Next]_persistenceVars
             PROVE  TypeOK' /\ UnreadableIsEmpty'
  OBVIOUS
<1> USE PersistenceAssumption DEF UnreadableIsEmpty
<1>0. Unreadable \in Files /\ ~ Unreadable.whole
  BY DEF Unreadable, Files
<1>1. ASSUME NEW c \in Calls, BeginLoad(c)  PROVE TypeOK' /\ UnreadableIsEmpty'
  BY <1>1 DEF TypeOK, BeginLoad, Goto, Places, memory, chain, answers
<1>2. ASSUME NEW c \in Calls, ReadFile(c)  PROVE TypeOK' /\ UnreadableIsEmpty'
  <2>1. PICK f \in Files : sample' = [sample EXCEPT ![c] = f] /\ (~ f.whole => f = Unreadable)
    BY <1>0, <1>2 DEF ReadFile, TypeOK
  <2>2. accidents' \subseteq Accidents /\ UNCHANGED <<memory, chain, disk, crashes, answers>>
    BY <1>2 DEF ReadFile, TypeOK, Accidents
  <2>3. pc' \in [Calls -> Places]
    BY <1>2 DEF ReadFile, Goto, TypeOK, Places
  <2>4. sample' \in [Calls -> Files] /\ \A d \in Calls : ~ sample'[d].whole => sample'[d] = Unreadable
    BY <2>1 DEF TypeOK
  <2> QED
    BY <2>2, <2>3, <2>4 DEF TypeOK, memory, chain, answers
<1>3. ASSUME NEW c \in Calls, FinishLoad(c)  PROVE TypeOK' /\ UnreadableIsEmpty'
  <2>1. StateRead(c) \in SUBSET Writers /\ (~ sample[c].whole) \in BOOLEAN
    BY DEF TypeOK, StateRead, Files
  <2> HIDE DEF StateRead
  <2>2. /\ ChangeState(c, StateRead(c), ~ sample[c].whole) /\ Persist(c, StateRead(c))
        /\ writing' = writing /\ poisoned' = poisoned
    BY <1>3 DEF FinishLoad
  <2>3. TypeOK'
    BY <1>3, <2>1, <2>2, ProceedTypes DEF FinishLoad, TypeOK, Accidents
  <2> QED
    BY <1>3, <2>3 DEF FinishLoad
<1>4. ASSUME NEW c \in Calls, CallLoaded(c)  PROVE TypeOK' /\ UnreadableIsEmpty'
  <2>1. Mem \in SUBSET Writers /\ aliased \in BOOLEAN
    BY DEF TypeOK, Mem
  <2>2. /\ ChangeState(c, Mem, aliased) /\ Persist(c, Mem)
        /\ writing' = writing /\ poisoned' = poisoned
    BY <1>4 DEF CallLoaded
  <2>3. TypeOK'
    BY <1>4, <2>1, <2>2, ProceedTypes DEF CallLoaded, TypeOK
  <2> QED
    BY <1>4, <2>3 DEF CallLoaded
<1>5. CASE StartWrite
  BY <1>0, <1>5 DEF TypeOK, StartWrite, memory, chain, answers
<1>6. CASE FinishWrite
  <2>1. queue # << >> /\ Head(queue) \in Writes
        /\ Tail(queue) \in Seq(Writes)
    BY <1>6 DEF TypeOK, FinishWrite
  <2>2. ~ (~ loaded \/ poisoned)
    BY <2>1 DEF TypeOK
  <2> QED
    BY <1>6, <2>1, <2>2 DEF TypeOK, FinishWrite, Whole, Files, Writes, Goto, Places, memory, answers
<1>7. CASE FailWrite
  <2>1. Head(queue) \in Writes
    BY <1>7 DEF TypeOK, FailWrite
  <2>2. disk' \in Files /\ (~ disk'.whole => disk' = Unreadable)
        /\ accidents' \subseteq Accidents
    <3>1. Whole(Head(queue).payload) \in Files /\ Whole(Head(queue).payload).whole
      BY <2>1 DEF Whole, Files, Writes
    <3>2. CASE UNCHANGED <<disk, accidents>>
      BY <3>2 DEF TypeOK
    <3>3. CASE disk' = Whole(Head(queue).payload) /\ UNCHANGED accidents
      BY <3>1, <3>3 DEF TypeOK
    <3>4. CASE disk' = Unreadable /\ accidents' = accidents \union {"torn"}
      BY <1>0, <3>4 DEF TypeOK, Accidents
    <3> QED
      BY <1>7, <3>2, <3>3, <3>4 DEF FailWrite, FileAfterFailure
  <2>3. << >> \in Seq(Writes)
    OBVIOUS
  <2>4. pc' \in [Calls -> Places]
    BY <1>7 DEF TypeOK, FailWrite, Places
  <2> QED
    BY <1>7, <2>2, <2>3, <2>4 DEF TypeOK, FailWrite, memory, answers
<1>8. CASE Crash
  <2>1. << >> \in Seq(Writes)
    OBVIOUS
  <2>2. crashes' \in 0 .. MaxCrashes
    BY <1>8 DEF TypeOK, Crash
  <2>3. pc' \in [Calls -> Places]
    BY <1>8 DEF TypeOK, Crash, Places
  <2>4. accidents' \subseteq Accidents
    BY <1>8 DEF TypeOK, Crash, Accidents
  <2> QED
    BY <1>8, <2>1, <2>2, <2>3, <2>4 DEF TypeOK, Crash
<1>9. CASE UNCHANGED persistenceVars
  BY <1>9 DEF TypeOK, persistenceVars
<1> QED
  BY <1>1, <1>2, <1>3, <1>4, <1>5, <1>6, <1>7, <1>8, <1>9 DEF Next

Promises == AckedIsDurable /\ AckedIsVisible /\ PayloadsGrow /\ SamplesAreFresh

\* A call that goes on with a state that holds all that is durable, answered or
\* in the chain leaves such a state behind.
LEMMA Proceed ==
    ASSUME TypeOK, TypeOK', PayloadsGrow, Quiet, NEW c \in Calls, NEW s \in SUBSET Writers, NEW alias \in BOOLEAN,
           ChangeState(c, s, alias), Persist(c, s),
           loaded', writing' = writing, poisoned' = poisoned, disk' = disk,
           acked \subseteq Durable, Durable \subseteq s,
           \A i \in DOMAIN queue : queue[i].payload \subseteq s
    PROVE  Promises' /\ Durable \subseteq Durable'
<1>1. acked' = acked
  BY DEF Persist
<1>2. s \subseteq Mem' /\ (c \in Writers => s \union {c} \subseteq Mem')
  BY DEF ChangeState, Mem
<1>3. CASE c \in Writers /\ ~ poisoned
  <2> DEFINE w == [call |-> c, payload |-> s \union {c}]
  <2>1. queue' = Append(queue, w) /\ w.payload = s \union {c} /\ w.call = c
    BY <1>3 DEF Persist
  <2> HIDE DEF w
  <2>2. /\ DOMAIN queue' = 1 .. Len(queue) + 1 /\ DOMAIN queue = 1 .. Len(queue) /\ Len(queue) \in Nat
        /\ \A i \in DOMAIN queue : queue'[i] = queue[i]
        /\ queue'[Len(queue) + 1] = w
        /\ queue # << >> => Head(queue') = Head(queue)
    BY <2>1 DEF TypeOK
  <2>3. Durable' = Durable
    BY <2>2 DEF Durable, TypeOK
  <2>4. PayloadsGrow'
    <3>1. ASSUME NEW i \in DOMAIN queue'
          PROVE  /\ Durable \subseteq queue'[i].payload
                 /\ queue'[i].payload \subseteq Mem'
                 /\ queue'[i].call \in queue'[i].payload
                 /\ \A j \in DOMAIN queue' : i <= j => queue'[i].payload \subseteq queue'[j].payload
      <4>1. CASE i \in DOMAIN queue
        BY <1>2, <1>3, <2>1, <2>2, <4>1 DEF PayloadsGrow
      <4>2. CASE i = Len(queue) + 1
        BY <1>2, <1>3, <2>1, <2>2, <4>2
      <4> QED
        BY <2>2, <4>1, <4>2
    <3> QED
      BY <1>2, <2>3, <3>1 DEF PayloadsGrow
  <2> QED
    BY <1>1, <1>2, <2>3, <2>4 DEF Promises, AckedIsDurable, AckedIsVisible, SamplesAreFresh
<1>4. CASE ~ (c \in Writers /\ ~ poisoned)
  <2>1. queue' = queue
    BY <1>4 DEF Persist
  <2>2. Durable' = Durable
    BY <2>1 DEF Durable
  <2>3. PayloadsGrow'
    BY <1>2, <2>1, <2>2 DEF PayloadsGrow
  <2> QED
    BY <1>1, <1>2, <2>2, <2>3 DEF Promises, AckedIsDurable, AckedIsVisible, SamplesAreFresh
<1> QED
  BY <1>3, <1>4

\* Every step of a quiet history keeps the promises, and what is durable.
LEMMA QuietStep ==
    ASSUME PersistenceInvariant, TypeOK', [Next]_persistenceVars, accidents' = {}
    PROVE  Promises' /\ Durable \subseteq Durable'
<1>0. Quiet /\ TypeOK /\ Promises /\ UnreadableIsEmpty
  <2>1. accidents \subseteq accidents'
    BY DEF Next, BeginLoad, ReadFile, FinishLoad, CallLoaded, StartWrite, FinishWrite, FailWrite,
           FileAfterFailure, Crash, persistenceVars
  <2> QED
    BY <2>1 DEF Quiet, PersistenceInvariant, Promises
<1>a. /\ acked \subseteq Durable
      /\ loaded => Durable \subseteq Mem
      /\ ~ loaded => queue = << >> /\ ~ writing
  BY <1>0 DEF Promises, AckedIsDurable, PayloadsGrow, TypeOK
<1>1. ASSUME NEW c \in Calls, BeginLoad(c)  PROVE Promises' /\ Durable \subseteq Durable'
  BY <1>0, <1>1 DEF BeginLoad, Goto, memory, chain, answers, Promises, AckedIsDurable, AckedIsVisible,
                    PayloadsGrow, SamplesAreFresh, Quiet, Durable, Mem, TypeOK
<1>2. ASSUME NEW c \in Calls, ReadFile(c)  PROVE Promises' /\ Durable \subseteq Durable'
  <2>1. sample' = [sample EXCEPT ![c] = disk] /\ UNCHANGED accidents
    BY <1>2 DEF ReadFile
  <2>2. Durable' = Durable /\ Mem' = Mem /\ queue' = queue /\ acked' = acked /\ loaded' = loaded
    BY <1>2 DEF ReadFile, Durable, Mem, memory, chain, answers
  <2>3. SamplesAreFresh'
    BY <1>0, <1>2, <2>1 DEF ReadFile, Goto, SamplesAreFresh, Promises, Quiet, memory, TypeOK
  <2> QED
    BY <1>0, <2>1, <2>2, <2>3 DEF Promises, AckedIsDurable, AckedIsVisible, PayloadsGrow, Quiet
<1>3. ASSUME NEW c \in Calls, FinishLoad(c)  PROVE Promises' /\ Durable \subseteq Durable'
  <2>1. StateRead(c) \in SUBSET Writers /\ (~ sample[c].whole) \in BOOLEAN
    BY <1>0 DEF TypeOK, StateRead, Files
  <2>2. CASE loaded
    <3>1. StateRead(c) = Mem
      BY <1>3, <2>2 DEF FinishLoad
    <3> QED
      BY <1>0, <1>a, <1>3, <2>1, <2>2, <3>1, Proceed DEF FinishLoad, Promises, PayloadsGrow
  <2>3. CASE ~ loaded
    <3>1. sample[c] = disk /\ shared = {}
      BY <1>0, <1>3, <2>3 DEF FinishLoad, Promises, SamplesAreFresh
    <3>2. StateRead(c) = disk.content
      <4>1. CASE disk.whole
        BY <3>1, <4>1 DEF StateRead
      <4>2. CASE ~ disk.whole
        <5>1. disk = Unreadable
          BY <1>0, <4>2 DEF Promises, UnreadableIsEmpty
        <5> QED
          BY <3>1, <4>2, <5>1 DEF StateRead, Unreadable
      <4> QED
        BY <4>1, <4>2
    <3>3. Durable = disk.content /\ DOMAIN queue = {}
      BY <1>a, <2>3 DEF Durable
    <3> QED
      BY <1>0, <1>a, <1>3, <2>1, <3>2, <3>3, Proceed DEF FinishLoad, Promises
  <2> QED
    BY <2>2, <2>3
<1>4. ASSUME NEW c \in Calls, CallLoaded(c)  PROVE Promises' /\ Durable \subseteq Durable'
  <2>1. Mem \in SUBSET Writers /\ aliased \in BOOLEAN
    BY <1>0 DEF TypeOK, Mem
  <2> QED
    BY <1>0, <1>a, <1>4, <2>1, Proceed DEF CallLoaded, Promises, PayloadsGrow
<1>5. CASE StartWrite
  <2>1. loaded /\ 1 \in DOMAIN queue /\ Head(queue) = queue[1]
    BY <1>0, <1>5 DEF StartWrite, TypeOK
  <2>2. Durable = disk.content /\ Durable' = queue[1].payload
    BY <1>5, <2>1 DEF StartWrite, Durable
  <2>3. Durable \subseteq Durable' /\ Mem' = Mem /\ loaded' = loaded /\ acked' = acked /\ queue' = queue
    BY <1>0, <1>5, <2>1, <2>2 DEF StartWrite, Promises, PayloadsGrow, Mem, memory, answers
  <2>4. PayloadsGrow'
    BY <1>0, <2>1, <2>2, <2>3 DEF Promises, PayloadsGrow, TypeOK
  <2> QED
    BY <1>0, <1>a, <2>1, <2>3, <2>4 DEF Promises, AckedIsDurable, AckedIsVisible, SamplesAreFresh
<1>6. CASE FinishWrite
  <2>1. queue # << >> /\ loaded
    BY <1>0, <1>6 DEF FinishWrite, TypeOK
  <2>2. /\ 1 \in DOMAIN queue /\ Head(queue) = queue[1]
        /\ DOMAIN queue' = 1 .. Len(queue) - 1 /\ DOMAIN queue = 1 .. Len(queue) /\ Len(queue) \in Nat
        /\ \A i \in DOMAIN queue' : i + 1 \in DOMAIN queue /\ queue'[i] = queue[i + 1]
    BY <1>0, <1>6, <2>1 DEF FinishWrite, TypeOK
  <2>3. Durable = queue[1].payload /\ Durable' = queue[1].payload
    BY <1>6, <2>2 DEF FinishWrite, Durable, Whole
  <2>4. Mem' = Mem /\ loaded' = loaded /\ acked' = acked \union {queue[1].call}
    BY <1>6, <2>2 DEF FinishWrite, Mem, memory
  <2>5. PayloadsGrow'
    <3>1. ASSUME NEW i \in DOMAIN queue', NEW j \in DOMAIN queue', i <= j
          PROVE  queue'[i].payload \subseteq queue'[j].payload
      <4>1. i + 1 \in DOMAIN queue /\ j + 1 \in DOMAIN queue /\ i + 1 <= j + 1
        BY <2>2, <3>1
      <4> QED
        BY <1>0, <2>2, <4>1 DEF Promises, PayloadsGrow
    <3>2. \A i \in DOMAIN queue' : /\ Durable \subseteq queue'[i].payload
                                   /\ queue'[i].payload \subseteq Mem
                                   /\ queue'[i].call \in queue'[i].payload
      BY <1>0, <2>2 DEF Promises, PayloadsGrow
    <3> QED
      BY <1>a, <2>1, <2>3, <2>4, <3>1, <3>2 DEF PayloadsGrow
  <2>6. acked' \subseteq Durable
    BY <1>0, <1>a, <2>2, <2>3, <2>4 DEF Promises, PayloadsGrow
  <2> QED
    BY <1>a, <2>1, <2>3, <2>4, <2>5, <2>6 DEF Promises, AckedIsDurable, AckedIsVisible, SamplesAreFresh
<1>7. CASE FailWrite
  <2>1. queue # << >> /\ loaded
    BY <1>0, <1>7 DEF FailWrite, TypeOK
  <2>2. Durable' = Durable
    BY <1>0, <1>7 DEF FailWrite, FileAfterFailure, Durable, Whole, Quiet
  <2>3. Mem' = Mem /\ loaded' = loaded /\ acked' = acked /\ DOMAIN queue' = {}
    BY <1>7 DEF FailWrite, Mem, memory, answers
  <2> QED
    BY <1>a, <2>1, <2>2, <2>3 DEF Promises, AckedIsDurable, AckedIsVisible, SamplesAreFresh, PayloadsGrow
<1>8. CASE Crash
  <2>1. ~ writing /\ Durable' = disk.content /\ Durable = disk.content
    BY <1>0, <1>8 DEF Crash, Durable, Quiet
  <2>2. acked' = acked /\ DOMAIN queue' = {} /\ ~ loaded' /\ shared' = {}
    BY <1>8 DEF Crash
  <2>3. \A c \in Calls : pc'[c] # "read"
    BY <1>0, <1>8 DEF Crash, TypeOK
  <2> QED
    BY <1>a, <2>1, <2>2, <2>3 DEF Promises, AckedIsDurable, AckedIsVisible, SamplesAreFresh, PayloadsGrow
<1>9. CASE UNCHANGED persistenceVars
  BY <1>0, <1>9 DEF persistenceVars, Promises, AckedIsDurable, AckedIsVisible, PayloadsGrow,
                    SamplesAreFresh, Quiet, Durable, Mem
<1> QED
  BY <1>1, <1>2, <1>3, <1>4, <1>5, <1>6, <1>7, <1>8, <1>9 DEF Next

\* The invariant holds in every reachable state; once something has gone wrong
\* with the file it promises the types only.
THEOREM PersistenceInvariance == Spec => []PersistenceInvariant
<1>1. PersistenceInvariant /\ [Next]_persistenceVars => PersistenceInvariant'
  <2> SUFFICES ASSUME PersistenceInvariant, [Next]_persistenceVars  PROVE PersistenceInvariant'
    OBVIOUS
  <2>1. TypeOK' /\ UnreadableIsEmpty'
    BY PersistenceTypes DEF PersistenceInvariant
  <2>2. CASE accidents' = {}
    BY <2>1, <2>2, QuietStep DEF PersistenceInvariant, Promises
  <2>3. CASE accidents' # {}
    BY <2>1, <2>3 DEF PersistenceInvariant, AckedIsDurable, AckedIsVisible, PayloadsGrow, SamplesAreFresh, Quiet
  <2> QED
    BY <2>2, <2>3
<1> QED
  BY <1>1, PersistenceInit, PTL DEF Spec

\* What mutate has answered is in the file or in the write over it.
THEOREM AnswersAreDurable == Spec => []AckedIsDurable
<1>1. PersistenceInvariant => AckedIsDurable
  BY DEF PersistenceInvariant
<1> QED
  BY <1>1, PersistenceInvariance, PTL

\* What mutate has answered is in the state that every later call sees.
THEOREM AnswersAreVisible == Spec => []AckedIsVisible
<1>1. PersistenceInvariant => AckedIsVisible
  BY DEF PersistenceInvariant
<1> QED
  BY <1>1, PersistenceInvariance, PTL

\* The file never goes back to an earlier state.
THEOREM FileNeverGoesBack == Spec => DurableGrows
<1>1. PersistenceInvariant /\ PersistenceInvariant' /\ [Next]_persistenceVars
      => [accidents' = {} => Durable \subseteq Durable']_persistenceVars
  BY QuietStep DEF PersistenceInvariant
<1> QED
  BY <1>1, PersistenceInvariance, PTL DEF Spec, DurableGrows

\* The states in memory, the file, the writes and the calls keep their types.
THEOREM PersistenceKeepsTypes == Spec => []TypeOK
<1>1. PersistenceInvariant => TypeOK
  BY DEF PersistenceInvariant
<1> QED
  BY <1>1, PersistenceInvariance, PTL
=============================================================================
