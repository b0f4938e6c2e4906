---------------------- MODULE PostingOperations_proofs ----------------------
(***************************************************************************)
(* Proofs about PostingOperations, for any viewers, intents, sessions and  *)
(* operations and any bounds: type correctness, the inductive invariant    *)
(* behind its safety properties, and the refinement of PublishIntent.      *)
(***************************************************************************)
EXTENDS PostingOperations, TLAPS

USE ConstantsAssumption

-----------------------------------------------------------------------------
(***************************************************************************)
(* The actions that write each variable; every other step leaves it alone. *)
(***************************************************************************)
LEMMA Writers ==
    ASSUME [Next]_vars
    PROVE  /\ \/ UNCHANGED session
              \/ \E v \in Viewers, c \in ClientKeys : CreateUploadSession(v, c)
              \/ \E k \in Keys, s \in Sessions : FinalizeAccept(k, s) \/ FinalizeExpire(k, s)
           /\ \/ UNCHANGED sessionOf
              \/ \E v \in Viewers, c \in ClientKeys : CreateUploadSession(v, c)
           /\ UNCHANGED lapsed \/ \E s \in Sessions : SessionLapses(s)
           /\ \/ UNCHANGED op
              \/ \E k \in Keys, s \in Sessions : FinalizeAccept(k, s)
              \/ \E k \in Keys : MarkOperationCompleted(k) \/ PublishThrows(k)
              \/ \E v \in Viewers, o \in Ops :
                    ClientPoll(v, o) \/ CancelOperation(v, o) \/ RetryOperation(v, o)
              \/ \E o \in Ops : TimerPoll(o)
              \/ \E o \in Ops, w \in Pollers : MarkInvalidated(o, w)
           /\ UNCHANGED opOf \/ \E k \in Keys, s \in Sessions : FinalizeAccept(k, s)
           /\ UNCHANGED posts \/ \E k \in Keys : CreatePost(k) \/ DeletePost(k) \/ LateMerge(k)
           /\ UNCHANGED made \/ \E k \in Keys : CreatePost(k)
           /\ UNCHANGED erased \/ \E k \in Keys : DeletePost(k)
           /\ UNCHANGED jobs \/ \E k \in Keys : StartJobs(k) \/ PublishThrows(k)
           /\ UNCHANGED counted \/ \E k \in Keys : CountOnProfile(k)
           /\ \/ UNCHANGED fin \/ Crash
              \/ \E k \in Keys : FinalizeReplay(k) \/ FinalizeStep(k)
              \/ \E k \in Keys, s \in Sessions : FinalizeAccept(k, s)
           /\ \/ UNCHANGED poll \/ Crash
              \/ \E v \in Viewers, o \in Ops : ClientPoll(v, o)
              \/ \E o \in Ops : TimerPoll(o)
              \/ \E o \in Ops, w \in Pollers : PollStep(o, w)
           /\ \/ UNCHANGED timer \/ Crash
              \/ \E k \in Keys : AuthorResolved(k) \/ MarkOperationCompleted(k)
              \/ \E o \in Ops : TimerPoll(o)
           /\ \/ UNCHANGED countTimer \/ Crash
              \/ \E k \in Keys : PostAlreadyExists(k) \/ StartJobs(k) \/ CountOnProfile(k)
           /\ UNCHANGED known \/ \E k \in Keys : FinalizeAnswer(k)
           /\ UNCHANGED applied \/ \E o \in Ops, w \in Pollers : ApplyInvalidation(o, w)
           /\ \/ UNCHANGED attempts
              \/ \E k \in Keys : FinalizeReplay(k)
              \/ \E k \in Keys, s \in Sessions : FinalizeAccept(k, s) \/ FinalizeExpire(k, s)
           /\ UNCHANGED crashes \/ Crash
<1> USE DEF durable, stored, local, seen
<1>1. ASSUME NEW v \in Viewers, NEW c \in ClientKeys, CreateUploadSession(v, c)
      PROVE  UNCHANGED <<lapsed, op, opOf, stored, local, seen>>
  BY <1>1 DEF CreateUploadSession
<1>2. ASSUME NEW s \in Sessions, SessionLapses(s)
      PROVE  UNCHANGED <<session, sessionOf, op, opOf, stored, local, seen>>
  BY <1>2 DEF SessionLapses
<1>3. ASSUME NEW k \in Keys, FinalizeReplay(k)
      PROVE  UNCHANGED <<durable, stored, poll, timer, countTimer, known, applied, crashes>>
  BY <1>3 DEF FinalizeReplay
<1>4. ASSUME NEW k \in Keys, NEW s \in Sessions, FinalizeAccept(k, s)
      PROVE  UNCHANGED <<sessionOf, lapsed, stored, poll, timer, countTimer, known, applied, crashes>>
  BY <1>4 DEF FinalizeAccept
<1>5. ASSUME NEW k \in Keys, NEW s \in Sessions, FinalizeExpire(k, s)
      PROVE  UNCHANGED <<sessionOf, lapsed, op, opOf, stored, local, known, applied, crashes>>
  BY <1>5 DEF FinalizeExpire
<1>6. ASSUME NEW k \in Keys, FinalizeStep(k)
      PROVE  /\ UNCHANGED <<session, sessionOf, lapsed, opOf, erased, counted, poll, applied,
                            attempts, crashes>>
             /\ UNCHANGED op \/ MarkOperationCompleted(k) \/ PublishThrows(k)
             /\ UNCHANGED <<posts, made>> \/ CreatePost(k)
             /\ UNCHANGED jobs \/ StartJobs(k) \/ PublishThrows(k)
             /\ UNCHANGED timer \/ AuthorResolved(k) \/ MarkOperationCompleted(k)
             /\ UNCHANGED countTimer \/ PostAlreadyExists(k) \/ StartJobs(k)
             /\ UNCHANGED known \/ FinalizeAnswer(k)
  <2>1. CASE AuthorRefused(k) \/ EchoThrows(k)
    BY <2>1 DEF AuthorRefused, EchoThrows
  <2>2. CASE AuthorResolved(k)
    BY <2>2 DEF AuthorResolved
  <2>3. CASE CreatePost(k)
    BY <2>3 DEF CreatePost
  <2>4. CASE PostAlreadyExists(k)
    BY <2>4 DEF PostAlreadyExists
  <2>5. CASE StartJobs(k)
    BY <2>5 DEF StartJobs
  <2>6. CASE MarkOperationCompleted(k)
    BY <2>6 DEF MarkOperationCompleted
  <2>7. CASE PublishThrows(k)
    BY <2>7 DEF PublishThrows
  <2>8. CASE FinalizeAnswer(k)
    BY <2>8 DEF FinalizeAnswer
  <2> QED
    BY <1>6, <2>1, <2>2, <2>3, <2>4, <2>5, <2>6, <2>7, <2>8 DEF FinalizeStep
<1>7. ASSUME NEW k \in Keys, CountOnProfile(k)
      PROVE  UNCHANGED <<durable, posts, made, erased, jobs, fin, poll, timer, seen>>
  BY <1>7 DEF CountOnProfile
<1>8. ASSUME NEW o \in Ops, NEW v \in Viewers, ClientPoll(v, o)
      PROVE  UNCHANGED <<session, sessionOf, lapsed, opOf, stored, fin, timer, countTimer, seen>>
  BY <1>8 DEF ClientPoll
<1>9. ASSUME NEW o \in Ops, NEW v \in Viewers, CancelOperation(v, o) \/ RetryOperation(v, o)
      PROVE  UNCHANGED <<session, sessionOf, lapsed, opOf, stored, local, seen>>
  BY <1>9 DEF CancelOperation, RetryOperation
<1>10. ASSUME NEW o \in Ops, TimerPoll(o)
       PROVE  UNCHANGED <<session, sessionOf, lapsed, opOf, stored, fin, countTimer, seen>>
  BY <1>10 DEF TimerPoll
<1>11. ASSUME NEW o \in Ops, NEW w \in Pollers, PollStep(o, w)
       PROVE  /\ UNCHANGED <<session, sessionOf, lapsed, opOf, stored, fin, timer, countTimer,
                             known, attempts, crashes>>
              /\ UNCHANGED op \/ MarkInvalidated(o, w)
              /\ UNCHANGED applied \/ ApplyInvalidation(o, w)
  BY <1>11 DEF PollStep, PollAnswer, BeginInvalidation, ApplyInvalidation, InvalidationThrows,
                MarkInvalidated
<1>12. CASE Crash
  BY <1>12 DEF Crash
<1>13. CASE UNCHANGED vars
  BY <1>13 DEF vars
<1>14. ASSUME NEW k \in Keys, DeletePost(k) \/ LateMerge(k)
       PROVE  /\ UNCHANGED <<durable, made, jobs, counted, local, seen>>
              /\ UNCHANGED erased \/ DeletePost(k)
  BY <1>14 DEF DeletePost, LateMerge
<1> QED
  <2>1. \/ UNCHANGED session
        \/ \E v \in Viewers, c \in ClientKeys : CreateUploadSession(v, c)
        \/ \E k \in Keys, s \in Sessions : FinalizeAccept(k, s) \/ FinalizeExpire(k, s)
    BY <1>1, <1>2, <1>3, <1>4, <1>5, <1>6, <1>7, <1>8, <1>9, <1>10, <1>11, <1>12, <1>13, <1>14
       DEF Next
  <2>2. \/ UNCHANGED sessionOf
        \/ \E v \in Viewers, c \in ClientKeys : CreateUploadSession(v, c)
    BY <1>1, <1>2, <1>3, <1>4, <1>5, <1>6, <1>7, <1>8, <1>9, <1>10, <1>11, <1>12, <1>13, <1>14
       DEF Next
  <2>3. UNCHANGED lapsed \/ \E s \in Sessions : SessionLapses(s)
    BY <1>1, <1>2, <1>3, <1>4, <1>5, <1>6, <1>7, <1>8, <1>9, <1>10, <1>11, <1>12, <1>13, <1>14
       DEF Next
  <2>4. \/ UNCHANGED op
        \/ \E k \in Keys, s \in Sessions : FinalizeAccept(k, s)
        \/ \E k \in Keys : MarkOperationCompleted(k) \/ PublishThrows(k)
        \/ \E v \in Viewers, o \in Ops :
              ClientPoll(v, o) \/ CancelOperation(v, o) \/ RetryOperation(v, o)
        \/ \E o \in Ops : TimerPoll(o)
        \/ \E o \in Ops, w \in Pollers : MarkInvalidated(o, w)
    BY <1>1, <1>2, <1>3, <1>4, <1>5, <1>6, <1>7, <1>8, <1>9, <1>10, <1>11, <1>12, <1>13, <1>14
       DEF Next
  <2>5. UNCHANGED opOf \/ \E k \in Keys, s \in Sessions : FinalizeAccept(k, s)
    BY <1>1, <1>2, <1>3, <1>4, <1>5, <1>6, <1>7, <1>8, <1>9, <1>10, <1>11, <1>12, <1>13, <1>14
       DEF Next
  <2>6. UNCHANGED posts \/ \E k \in Keys : CreatePost(k) \/ DeletePost(k) \/ LateMerge(k)
    BY <1>1, <1>2, <1>3, <1>4, <1>5, <1>6, <1>7, <1>8, <1>9, <1>10, <1>11, <1>12, <1>13, <1>14
       DEF Next
  <2>7. UNCHANGED jobs \/ \E k \in Keys : StartJobs(k) \/ PublishThrows(k)
    BY <1>1, <1>2, <1>3, <1>4, <1>5, <1>6, <1>7, <1>8, <1>9, <1>10, <1>11, <1>12, <1>13, <1>14
       DEF Next
  <2>8. UNCHANGED counted \/ \E k \in Keys : CountOnProfile(k)
    BY <1>1, <1>2, <1>3, <1>4, <1>5, <1>6, <1>7, <1>8, <1>9, <1>10, <1>11, <1>12, <1>13, <1>14
       DEF Next
  <2>9. \/ UNCHANGED fin \/ Crash
        \/ \E k \in Keys : FinalizeReplay(k) \/ FinalizeStep(k)
        \/ \E k \in Keys, s \in Sessions : FinalizeAccept(k, s)
    BY <1>1, <1>2, <1>3, <1>4, <1>5, <1>6, <1>7, <1>8, <1>9, <1>10, <1>11, <1>12, <1>13, <1>14
       DEF Next
  <2>10. \/ UNCHANGED poll \/ Crash
         \/ \E v \in Viewers, o \in Ops : ClientPoll(v, o)
         \/ \E o \in Ops : TimerPoll(o)
         \/ \E o \in Ops, w \in Pollers : PollStep(o, w)
    BY <1>1, <1>2, <1>3, <1>4, <1>5, <1>6, <1>7, <1>8, <1>9, <1>10, <1>11, <1>12, <1>13, <1>14
       DEF Next
  <2>11. \/ UNCHANGED timer \/ Crash
         \/ \E k \in Keys : AuthorResolved(k) \/ MarkOperationCompleted(k)
         \/ \E o \in Ops : TimerPoll(o)
    BY <1>1, <1>2, <1>3, <1>4, <1>5, <1>6, <1>7, <1>8, <1>9, <1>10, <1>11, <1>12, <1>13, <1>14
       DEF Next
  <2>12. \/ UNCHANGED countTimer \/ Crash
         \/ \E k \in Keys : PostAlreadyExists(k) \/ StartJobs(k) \/ CountOnProfile(k)
    BY <1>1, <1>2, <1>3, <1>4, <1>5, <1>6, <1>7, <1>8, <1>9, <1>10, <1>11, <1>12, <1>13, <1>14
       DEF Next
  <2>13. UNCHANGED known \/ \E k \in Keys : FinalizeAnswer(k)
    BY <1>1, <1>2, <1>3, <1>4, <1>5, <1>6, <1>7, <1>8, <1>9, <1>10, <1>11, <1>12, <1>13, <1>14
       DEF Next
  <2>14. UNCHANGED applied \/ \E o \in Ops, w \in Pollers : ApplyInvalidation(o, w)
    BY <1>1, <1>2, <1>3, <1>4, <1>5, <1>6, <1>7, <1>8, <1>9, <1>10, <1>11, <1>12, <1>13, <1>14
       DEF Next
  <2>15. \/ UNCHANGED attempts
         \/ \E k \in Keys : FinalizeReplay(k)
         \/ \E k \in Keys, s \in Sessions : FinalizeAccept(k, s) \/ FinalizeExpire(k, s)
    BY <1>1, <1>2, <1>3, <1>4, <1>5, <1>6, <1>7, <1>8, <1>9, <1>10, <1>11, <1>12, <1>13, <1>14
       DEF Next
  <2>16. UNCHANGED crashes \/ Crash
    BY <1>1, <1>2, <1>3, <1>4, <1>5, <1>6, <1>7, <1>8, <1>9, <1>10, <1>11, <1>12, <1>13, <1>14
       DEF Next
  <2>17. UNCHANGED made \/ \E k \in Keys : CreatePost(k)
    BY <1>1, <1>2, <1>3, <1>4, <1>5, <1>6, <1>7, <1>8, <1>9, <1>10, <1>11, <1>12, <1>13, <1>14
       DEF Next
  <2>18. UNCHANGED erased \/ \E k \in Keys : DeletePost(k)
    BY <1>1, <1>2, <1>3, <1>4, <1>5, <1>6, <1>7, <1>8, <1>9, <1>10, <1>11, <1>12, <1>13, <1>14
       DEF Next
  <2> QED
    BY <2>1, <2>2, <2>3, <2>4, <2>5, <2>6, <2>7, <2>8, <2>9, <2>10, <2>11, <2>12, <2>13, <2>14, <2>15, <2>16,
       <2>17, <2>18

-----------------------------------------------------------------------------
(***************************************************************************)
(* Types.                                                                  *)
(***************************************************************************)
\* The empty control plane has the right types.
LEMMA TypeInit == Init => TypeOK
BY SMTT(30)
   DEF Init, TypeOK, SessionRecord, SessionStates, OpRecord, OpStates,
       FinRecord, FinPlaces, NoFin, NoPolls, Pollers, PollPlaces, CompleteAfterPolls

\* Steps that write no operation record keep op's type; the ones that do write
\* one field or a fresh record of the right type.
LEMMA OpTypeStep ==
    ASSUME InductiveInvariant, [Next]_vars
    PROVE  op' \in [Ops -> OpRecord]
<1> USE DEF durable, stored, local, seen
<1>0. /\ op \in [Ops -> OpRecord] /\ TypeOK /\ PollsLeft
      /\ RequestKeepsItsGround
  BY DEF InductiveInvariant, TypeOK
<1>1. \A o \in Ops : op[o] \in OpRecord
  BY <1>0
<1>a. 0 \in 0..CompleteAfterPolls
  BY DEF CompleteAfterPolls
<1>b. ASSUME NEW r \in OpRecord
      PROVE  /\ [r EXCEPT !.invalidated = TRUE] \in OpRecord
             /\ \A x \in OpStates : [r EXCEPT !.state = x] \in OpRecord
  BY DEF OpRecord
<1>c. ASSUME NEW r \in OpRecord, NEW x \in OpStates, NEW k \in Keys
      PROVE  [r EXCEPT !.postId = k, !.state = x, !.pollCount = 0] \in OpRecord
  BY <1>a DEF OpRecord
<1>2. ASSUME NEW k \in Keys, NEW s \in Sessions, FinalizeAccept(k, s)
      PROVE  op' \in [Ops -> OpRecord]
  <2>1. PICK o \in Ops :
          op' = [op EXCEPT ![o] = [state |-> "processing", key |-> k, session |-> s,
                                   postId |-> NoKey, pollCount |-> 0, invalidated |-> FALSE]]
    BY <1>2 DEF FinalizeAccept
  <2>2. [state |-> "processing", key |-> k, session |-> s,
         postId |-> NoKey, pollCount |-> 0, invalidated |-> FALSE] \in OpRecord
    BY DEF OpRecord, OpStates, CompleteAfterPolls
  <2> QED
    BY <1>0, <2>1, <2>2
<1>3. ASSUME NEW k \in Keys, MarkOperationCompleted(k)
      PROVE  op' \in [Ops -> OpRecord]
  <2>1. op' = [op EXCEPT ![fin[k].op] = [op[fin[k].op] EXCEPT !.postId = k, !.state = "processing",
                                                           !.pollCount = 0]]
    BY <1>3 DEF MarkOperationCompleted
  <2>2. fin[k].op \in Ops
    BY <1>3, <1>0 DEF MarkOperationCompleted, RequestKeepsItsGround
  <2>3. [op[fin[k].op] EXCEPT !.postId = k, !.state = "processing", !.pollCount = 0] \in OpRecord
    BY <2>2, <1>1, <1>c DEF OpStates
  <2> QED
    BY <1>0, <2>1, <2>3
<1>4. ASSUME NEW k \in Keys, PublishThrows(k)
      PROVE  op' \in [Ops -> OpRecord]
  <2>1. op' = [op EXCEPT ![fin[k].op] = [op[fin[k].op] EXCEPT !.state = "failed"]]
    BY <1>4 DEF PublishThrows
  <2>2. fin[k].op \in Ops
    BY <1>4, <1>0 DEF PublishThrows, RequestKeepsItsGround
  <2> QED
    BY <1>0, <1>1, <1>b, <2>1, <2>2 DEF OpStates
<1>5. ASSUME NEW o \in Ops, ReadOperation(o)
      PROVE  op' \in [Ops -> OpRecord]
  <2>1. CASE op[o].state = "processing" /\ op[o].postId # NoKey
    <3>1. op[o].pollCount + 1 \in 0..CompleteAfterPolls
      BY <1>0, <1>1, <2>1 DEF PollsLeft, OpRecord, CompleteAfterPolls
    <3> DEFINE r == [op[o] EXCEPT !.pollCount = op[o].pollCount + 1,
                                  !.state = IF op[o].pollCount + 1 >= CompleteAfterPolls
                                            THEN "completed" ELSE "processing"]
    <3>2. op' = [op EXCEPT ![o] = r]
      BY <1>5, <2>1 DEF ReadOperation
    <3>3. r \in OpRecord
      BY <1>1, <3>1 DEF OpRecord, OpStates
    <3> QED
      BY <1>0, <3>2, <3>3
  <2>2. CASE ~ (op[o].state = "processing" /\ op[o].postId # NoKey)
    BY <1>5, <1>0, <2>2 DEF ReadOperation
  <2> QED
    BY <2>1, <2>2
<1>6. ASSUME NEW o \in Ops, NEW v \in Viewers, CancelOperation(v, o) \/ RetryOperation(v, o)
      PROVE  op' \in [Ops -> OpRecord]
  <2>1. CASE CancelOperation(v, o)
    BY <1>0, <1>1, <1>b, <2>1 DEF CancelOperation, OpStates
  <2>2. CASE RetryOperation(v, o)
    <3>1. op' = [op EXCEPT ![o] = [op[o] EXCEPT !.state = "processing", !.pollCount = 0]]
      BY <2>2 DEF RetryOperation
    <3>2. [op[o] EXCEPT !.state = "processing", !.pollCount = 0] \in OpRecord
      BY <1>1, <1>a DEF OpRecord, OpStates
    <3> QED
      BY <1>0, <3>1, <3>2
  <2> QED
    BY <1>6, <2>1, <2>2
<1>7. ASSUME NEW o \in Ops, NEW w \in Pollers, MarkInvalidated(o, w)
      PROVE  op' \in [Ops -> OpRecord]
  BY <1>0, <1>1, <1>b, <1>7 DEF MarkInvalidated, OpStates
<1>8. CASE UNCHANGED op
  BY <1>0, <1>8
<1> QED
  BY <1>2, <1>3, <1>4, <1>5, <1>6, <1>7, <1>8, Writers DEF ClientPoll, TimerPoll

\* The request, poll and session records.
LEMMA RecordTypeStep ==
    ASSUME InductiveInvariant, [Next]_vars
    PROVE  /\ fin' \in [Keys -> FinRecord]
           /\ poll' \in [Ops -> [Pollers -> PollPlaces]]
           /\ session' \in [Sessions -> SessionRecord]
<1> USE DEF durable, stored, local, seen
<1>0. /\ fin \in [Keys -> FinRecord]
      /\ poll \in [Ops -> [Pollers -> PollPlaces]]
      /\ session \in [Sessions -> SessionRecord]
      /\ opOf \in [Keys -> Ops \union {NoOp}]
  BY DEF InductiveInvariant, TypeOK
<1>1. NoFin \in FinRecord /\ NoPolls \in [Ops -> [Pollers -> PollPlaces]]
  BY DEF NoFin, FinRecord, FinPlaces, NoPolls, PollPlaces
<1>2. ASSUME NEW k \in Keys, NEW p \in FinPlaces
      PROVE  [fin EXCEPT ![k].place = p] \in [Keys -> FinRecord]
  <2>1. fin[k] \in FinRecord
    BY <1>0
  <2>2. [fin[k] EXCEPT !.place = p] \in FinRecord
    BY <2>1 DEF FinRecord
  <2> QED
    BY <1>0, <2>2
<1>3. ASSUME NEW k \in Keys, NEW o \in Ops, NEW b \in BOOLEAN, AwaitAuthor(k, o, b)
      PROVE  fin' \in [Keys -> FinRecord]
  <2>1. [place |-> "author", op |-> o, replayed |-> b, author |-> NoViewer] \in FinRecord
    BY DEF FinRecord, FinPlaces
  <2> QED
    BY <1>0, <1>3, <2>1 DEF AwaitAuthor
<1>4. fin' \in [Keys -> FinRecord]
  <2>1. ASSUME NEW k \in Keys, FinalizeReplay(k)  PROVE fin' \in [Keys -> FinRecord]
    BY <1>0, <1>3, <2>1 DEF FinalizeReplay
  <2>2. ASSUME NEW k \in Keys, NEW s \in Sessions, FinalizeAccept(k, s)
        PROVE  fin' \in [Keys -> FinRecord]
    BY <1>3, <2>2 DEF FinalizeAccept
  <2>3. ASSUME NEW k \in Keys, FinalizeStep(k)  PROVE fin' \in [Keys -> FinRecord]
    <3>1. CASE fin' = [fin EXCEPT ![k] = NoFin]
      BY <1>0, <1>1, <3>1
    <3>2. CASE \E p \in FinPlaces : fin' = [fin EXCEPT ![k].place = p]
      BY <1>2, <3>2
    <3>3. CASE \E v \in PostAs[k] :
                 fin' = [fin EXCEPT ![k] = [@ EXCEPT !.place = "publish", !.author = v]]
      <4>1. PICK v \in PostAs[k] :
              fin' = [fin EXCEPT ![k] = [fin[k] EXCEPT !.place = "publish", !.author = v]]
        BY <3>3
      <4>2. v \in Viewers /\ fin[k] \in FinRecord
        BY <1>0, <4>1
      <4>3. [fin[k] EXCEPT !.place = "publish", !.author = v] \in FinRecord
        BY <4>2 DEF FinRecord, FinPlaces
      <4> QED
        BY <1>0, <4>1, <4>3
    <3> QED
      BY <2>3, <3>1, <3>2, <3>3
         DEF FinalizeStep, AuthorRefused, AuthorResolved, CreatePost, PostAlreadyExists,
             StartJobs, MarkOperationCompleted, PublishThrows, EchoThrows, FinalizeAnswer,
             FinPlaces
  <2>4. CASE Crash
    BY <1>1, <2>4 DEF Crash
  <2>5. CASE UNCHANGED fin
    BY <1>0, <2>5
  <2> QED
    BY <2>1, <2>2, <2>3, <2>4, <2>5, Writers
<1>5. poll' \in [Ops -> [Pollers -> PollPlaces]]
  <2>1. ASSUME NEW o \in Ops, NEW w \in Pollers, NEW p \in PollPlaces
        PROVE  [poll EXCEPT ![o][w] = p] \in [Ops -> [Pollers -> PollPlaces]]
    <3>1. [poll[o] EXCEPT ![w] = p] \in [Pollers -> PollPlaces]
      BY <1>0
    <3> QED
      BY <1>0, <3>1
  <2>2. CASE \E o \in Ops, w \in Pollers, p \in PollPlaces : poll' = [poll EXCEPT ![o][w] = p]
    BY <2>1, <2>2
  <2>3. CASE Crash
    BY <1>1, <2>3 DEF Crash
  <2>4. CASE UNCHANGED poll
    BY <1>0, <2>4
  <2> QED
    BY <2>2, <2>3, <2>4, Writers
       DEF ClientPoll, TimerPoll, PollStep, PollAnswer, BeginInvalidation, ApplyInvalidation,
           InvalidationThrows, MarkInvalidated, Pollers, PollPlaces
<1>6. session' \in [Sessions -> SessionRecord]
  <2>1. ASSUME NEW v \in Viewers, NEW c \in ClientKeys, CreateUploadSession(v, c)
        PROVE  session' \in [Sessions -> SessionRecord]
    <3>1. [state |-> "open", viewer |-> v] \in SessionRecord
      BY DEF SessionRecord, SessionStates
    <3> QED
      BY <1>0, <2>1, <3>1 DEF CreateUploadSession
  <2>2. ASSUME NEW s \in Sessions, NEW x \in SessionStates
        PROVE  [session EXCEPT ![s].state = x] \in [Sessions -> SessionRecord]
    <3>1. [session[s] EXCEPT !.state = x] \in SessionRecord
      BY <1>0 DEF SessionRecord
    <3> QED
      BY <1>0, <3>1
  <2>3. ASSUME NEW k \in Keys, NEW s \in Sessions, FinalizeAccept(k, s) \/ FinalizeExpire(k, s)
        PROVE  session' \in [Sessions -> SessionRecord]
    BY <2>2, <2>3 DEF FinalizeAccept, FinalizeExpire, SessionStates
  <2>4. CASE UNCHANGED session
    BY <1>0, <2>4
  <2> QED
    BY <2>1, <2>3, <2>4, Writers
<1> QED
  BY <1>4, <1>5, <1>6

\* Every step keeps the types: the two lemmas above, and the sets and maps.
LEMMA TypeStep == InductiveInvariant /\ [Next]_vars => TypeOK'
<1> SUFFICES ASSUME InductiveInvariant, [Next]_vars  PROVE TypeOK'
  OBVIOUS
<1> USE DEF durable, stored, local, seen
<1>0. TypeOK /\ RequestKeepsItsGround
  BY DEF InductiveInvariant
<1>1. /\ op' \in [Ops -> OpRecord] /\ fin' \in [Keys -> FinRecord]
      /\ poll' \in [Ops -> [Pollers -> PollPlaces]] /\ session' \in [Sessions -> SessionRecord]
  BY OpTypeStep, RecordTypeStep
<1>2. /\ sessionOf' \in [Viewers \X ClientKeys -> Sessions \union {NoSession}]
      /\ lapsed' \subseteq Sessions
      /\ opOf' \in [Keys -> Ops \union {NoOp}]
  <2>1. /\ sessionOf \in [Viewers \X ClientKeys -> Sessions \union {NoSession}]
        /\ lapsed \subseteq Sessions
        /\ opOf \in [Keys -> Ops \union {NoOp}]
    BY <1>0 DEF TypeOK
  <2>2. ASSUME NEW v \in Viewers, NEW c \in ClientKeys, CreateUploadSession(v, c)
        PROVE  sessionOf' \in [Viewers \X ClientKeys -> Sessions \union {NoSession}]
    BY <2>1, <2>2 DEF CreateUploadSession
  <2>3. ASSUME NEW s \in Sessions, SessionLapses(s)  PROVE lapsed' \subseteq Sessions
    BY <2>1, <2>3 DEF SessionLapses
  <2>4. ASSUME NEW k \in Keys, NEW s \in Sessions, FinalizeAccept(k, s)
        PROVE  opOf' \in [Keys -> Ops \union {NoOp}]
    BY <2>1, <2>4 DEF FinalizeAccept
  <2> QED
    BY <2>1, <2>2, <2>3, <2>4, Writers
<1>3. posts' \subseteq Keys
  BY <1>0, Writers DEF TypeOK, CreatePost, DeletePost, LateMerge
<1>12. made' \in [Keys -> Nat] /\ erased' \in [Keys -> Nat]
  <2>1. made \in [Keys -> Nat] /\ erased \in [Keys -> Nat]
    BY <1>0 DEF TypeOK
  <2>2. ASSUME NEW k \in Keys, CreatePost(k)  PROVE made' \in [Keys -> Nat]
    BY <2>1, <2>2 DEF CreatePost
  <2>3. ASSUME NEW k \in Keys, DeletePost(k)  PROVE erased' \in [Keys -> Nat]
    BY <2>1, <2>3 DEF DeletePost
  <2> QED
    BY <2>1, <2>2, <2>3, Writers
<1>4. jobs' \in [Keys -> Nat]
  <2>1. jobs \in [Keys -> Nat]
    BY <1>0 DEF TypeOK
  <2>2. ASSUME NEW k \in Keys, StartJobs(k) \/ PublishThrows(k)  PROVE jobs' \in [Keys -> Nat]
    BY <2>1, <2>2 DEF StartJobs, PublishThrows
  <2> QED
    BY <2>1, <2>2, Writers
<1>5. counted' \in [Keys \X Viewers -> Nat]
  <2>1. counted \in [Keys \X Viewers -> Nat] /\ countTimer \in [Keys -> Viewers \union {NoViewer}]
    BY <1>0 DEF TypeOK
  <2>2. ASSUME NEW k \in Keys, CountOnProfile(k)  PROVE counted' \in [Keys \X Viewers -> Nat]
    <3>1. PICK v \in Viewers : v = countTimer[k]
      BY <2>1, <2>2 DEF CountOnProfile
    <3>2. counted' = counted \/ counted' = [counted EXCEPT ![<<k, v>>] = counted[<<k, v>>] + 1]
      BY <2>2, <3>1 DEF CountOnProfile
    <3> QED
      BY <2>1, <3>2
  <2> QED
    BY <2>1, <2>2, Writers
<1>6. attempts' \in [Keys -> Nat]
  <2>1. attempts \in [Keys -> Nat]
    BY <1>0 DEF TypeOK
  <2>2. ASSUME NEW k \in Keys, RequestFinalize(k)  PROVE attempts' \in [Keys -> Nat]
    BY <2>1, <2>2 DEF RequestFinalize
  <2> QED
    BY <2>1, <2>2, Writers DEF FinalizeReplay, FinalizeAccept, FinalizeExpire
<1>7. crashes' \in 0..MaxCrashes
  <2>1. crashes \in 0..MaxCrashes
    BY <1>0 DEF TypeOK
  <2>2. CASE Crash
    BY <2>1, <2>2 DEF Crash
  <2> QED
    BY <2>1, <2>2, Writers
<1>8. timer' \subseteq Ops
  <2>1. timer \subseteq Ops /\ \A k \in Keys : fin[k].place # "idle" => fin[k].op \in Ops
    BY <1>0 DEF TypeOK, RequestKeepsItsGround
  <2>2. ASSUME NEW k \in Keys, AuthorResolved(k) \/ MarkOperationCompleted(k)
        PROVE  timer' \subseteq Ops
    <3>1. CASE AuthorResolved(k)
      <4>1. timer' \subseteq timer \union {fin[k].op} /\ fin[k].place # "idle"
        BY <3>1 DEF AuthorResolved
      <4> QED
        BY <2>1, <4>1
    <3>2. CASE MarkOperationCompleted(k)
      BY <2>1, <3>2 DEF MarkOperationCompleted
    <3> QED
      BY <2>2, <3>1, <3>2
  <2>3. ASSUME NEW o \in Ops, TimerPoll(o)  PROVE timer' \subseteq Ops
    BY <2>1, <2>3 DEF TimerPoll
  <2>4. CASE Crash
    BY <2>4 DEF Crash
  <2> QED
    BY <2>1, <2>2, <2>3, <2>4, Writers
<1>9. countTimer' \in [Keys -> Viewers \union {NoViewer}]
  <2>1. countTimer \in [Keys -> Viewers \union {NoViewer}] /\ fin \in [Keys -> FinRecord]
    BY <1>0 DEF TypeOK
  <2>2. ASSUME NEW k \in Keys, QueueCount(k)
        PROVE  countTimer' \in [Keys -> Viewers \union {NoViewer}]
    <3>1. fin[k].author \in Viewers \union {NoViewer}
      BY <2>1 DEF FinRecord
    <3> QED
      BY <2>1, <2>2, <3>1 DEF QueueCount
  <2>3. ASSUME NEW k \in Keys, CountOnProfile(k)
        PROVE  countTimer' \in [Keys -> Viewers \union {NoViewer}]
    BY <2>1, <2>3 DEF CountOnProfile
  <2>4. CASE Crash
    BY <2>4 DEF Crash
  <2> QED
    BY <2>1, <2>2, <2>3, <2>4, Writers DEF PostAlreadyExists, StartJobs
<1>10. known' \subseteq Ops
  BY <1>0, Writers DEF TypeOK, RequestKeepsItsGround, FinalizeAnswer
<1>11. applied' \subseteq Ops
  BY <1>0, Writers DEF TypeOK, ApplyInvalidation
<1> QED
  BY <1>1, <1>2, <1>3, <1>4, <1>5, <1>6, <1>7, <1>8, <1>9, <1>10, <1>11, <1>12 DEF TypeOK

-----------------------------------------------------------------------------
(***************************************************************************)
(* What a step may do to an operation record.                              *)
(***************************************************************************)

\* A record that exists keeps its intent and session; it gains a post only
\* behind the post document, its invalidation mark only behind the
\* invalidation, and "completed" only with a post.
LEMMA ExistingOperationStep ==
    ASSUME InductiveInvariant, [Next]_vars, NEW o \in Ops, Exists(o)
    PROVE  /\ op'[o].state # "none"
           /\ op'[o].key = op[o].key /\ op'[o].session = op[o].session
           /\ op'[o].postId = op[o].postId \/ (op'[o].postId = op[o].key /\ made[op[o].key] > 0)
           /\ op'[o].invalidated => op[o].invalidated \/ o \in applied
           /\ op'[o].state = "completed" => op'[o].postId # NoKey
           /\ op'[o].state = "processing" => op'[o].pollCount < CompleteAfterPolls
<1>0. /\ op \in [Ops -> OpRecord] /\ op[o] \in OpRecord
      /\ RequestKeepsItsGround /\ OneAcceptance /\ PostBehindOperation /\ PollsLeft
      /\ PollersApplied
  BY DEF InductiveInvariant, TypeOK
<1>1. CASE op'[o] = op[o]
  BY <1>0, <1>1 DEF Exists, PostBehindOperation, PollsLeft
<1>2. ASSUME NEW k \in Keys, NEW s \in Sessions, FinalizeAccept(k, s)  PROVE op'[o] = op[o]
  BY <1>0, <1>2 DEF FinalizeAccept, Exists
<1>3. ASSUME NEW k \in Keys, MarkOperationCompleted(k), op'[o] # op[o]
      PROVE  /\ op'[o] = [op[o] EXCEPT !.postId = k, !.state = "processing", !.pollCount = 0]
             /\ k = op[o].key /\ made[k] > 0
  <2>1. fin[k].op = o
    BY <1>0, <1>3 DEF MarkOperationCompleted
  <2>2. opOf[k] = o /\ made[k] > 0
    BY <1>0, <1>3, <2>1 DEF MarkOperationCompleted, RequestKeepsItsGround
  <2>3. op[o].key = k
    BY <1>0, <2>2 DEF OneAcceptance
  <2> QED
    BY <1>0, <1>3, <2>1, <2>2, <2>3 DEF MarkOperationCompleted
<1>4. ASSUME NEW k \in Keys, PublishThrows(k), op'[o] # op[o]
      PROVE  op'[o] = [op[o] EXCEPT !.state = "failed"]
  BY <1>0, <1>4 DEF PublishThrows
<1>5. ASSUME NEW p \in Ops, ReadOperation(p), op'[o] # op[o]
      PROVE  /\ op[o].state = "processing" /\ op[o].postId # NoKey
             /\ op'[o] = [op[o] EXCEPT !.pollCount = op[o].pollCount + 1,
                            !.state = IF op[o].pollCount + 1 >= CompleteAfterPolls
                                      THEN "completed" ELSE "processing"]
  BY <1>0, <1>5 DEF ReadOperation
<1>6. ASSUME NEW p \in Ops, NEW v \in Viewers, CancelOperation(v, p), op'[o] # op[o]
      PROVE  op'[o] = [op[o] EXCEPT !.state = "cancelled"]
  BY <1>0, <1>6 DEF CancelOperation
<1>7. ASSUME NEW p \in Ops, NEW v \in Viewers, RetryOperation(v, p), op'[o] # op[o]
      PROVE  op'[o] = [op[o] EXCEPT !.state = "processing", !.pollCount = 0]
  BY <1>0, <1>7 DEF RetryOperation
<1>8. ASSUME NEW p \in Ops, NEW w \in Pollers, MarkInvalidated(p, w), op'[o] # op[o]
      PROVE  op'[o] = [op[o] EXCEPT !.invalidated = TRUE] /\ o \in applied
  BY <1>0, <1>8 DEF MarkInvalidated, PollersApplied
<1>9. \/ op'[o] = op[o]
      \/ /\ op'[o] = [op[o] EXCEPT !.postId = op[o].key, !.state = "processing", !.pollCount = 0]
         /\ made[op[o].key] > 0
      \/ op'[o] = [op[o] EXCEPT !.state = "failed"]
      \/ /\ op[o].state = "processing" /\ op[o].postId # NoKey
         /\ op'[o] = [op[o] EXCEPT !.pollCount = op[o].pollCount + 1,
                        !.state = IF op[o].pollCount + 1 >= CompleteAfterPolls
                                  THEN "completed" ELSE "processing"]
      \/ op'[o] = [op[o] EXCEPT !.state = "cancelled"]
      \/ op'[o] = [op[o] EXCEPT !.state = "processing", !.pollCount = 0]
      \/ op'[o] = [op[o] EXCEPT !.invalidated = TRUE] /\ o \in applied
  BY <1>2, <1>3, <1>4, <1>5, <1>6, <1>7, <1>8, Writers DEF ClientPoll, TimerPoll
<1>10. /\ op[o].state = "completed" => op[o].postId # NoKey
       /\ op[o].state = "processing" => op[o].pollCount < CompleteAfterPolls
       /\ op[o].state # "none"
  BY <1>0 DEF PostBehindOperation, PollsLeft, Exists
<1>11. CASE /\ op'[o] = [op[o] EXCEPT !.postId = op[o].key, !.state = "processing", !.pollCount = 0]
            /\ made[op[o].key] > 0
  BY <1>0, <1>11 DEF OpRecord, CompleteAfterPolls
<1>12. CASE op'[o] = [op[o] EXCEPT !.state = "failed"] \/ op'[o] = [op[o] EXCEPT !.state = "cancelled"]
  BY <1>0, <1>12 DEF OpRecord
<1>13. CASE /\ op[o].state = "processing" /\ op[o].postId # NoKey
            /\ op'[o] = [op[o] EXCEPT !.pollCount = op[o].pollCount + 1,
                           !.state = IF op[o].pollCount + 1 >= CompleteAfterPolls
                                     THEN "completed" ELSE "processing"]
  BY <1>0, <1>13 DEF OpRecord, CompleteAfterPolls
<1>14. CASE op'[o] = [op[o] EXCEPT !.state = "processing", !.pollCount = 0]
  BY <1>0, <1>14 DEF OpRecord, CompleteAfterPolls
<1>15. CASE op'[o] = [op[o] EXCEPT !.invalidated = TRUE] /\ o \in applied
  BY <1>0, <1>10, <1>15 DEF OpRecord
<1> QED
  BY <1>1, <1>9, <1>10, <1>11, <1>12, <1>13, <1>14, <1>15

\* A record that does not exist is left alone, or accepted: then it is fresh,
\* and its intent and its session were free until now.
LEMMA NewOperationStep ==
    ASSUME InductiveInvariant, [Next]_vars, NEW o \in Ops, ~ Exists(o)
    PROVE  \/ op'[o] = op[o]
           \/ \E k \in Keys, s \in Sessions :
                /\ FinalizeAccept(k, s) /\ opOf' = [opOf EXCEPT ![k] = o]
                /\ \A p \in Ops : p # o => op'[p] = op[p]
                /\ op'[o] = [state |-> "processing", key |-> k, session |-> s,
                             postId |-> NoKey, pollCount |-> 0, invalidated |-> FALSE]
<1>0. /\ op \in [Ops -> OpRecord] /\ op[o].state = "none"
      /\ RequestKeepsItsGround /\ OneAcceptance /\ AnsweredIsPublished /\ PollersApplied
  BY DEF InductiveInvariant, TypeOK, Exists
<1>1. ASSUME NEW k \in Keys, fin[k].place # "idle"  PROVE fin[k].op # o
  BY <1>0, <1>1 DEF RequestKeepsItsGround, OneAcceptance, Exists
<1>2. ASSUME NEW k \in Keys, MarkOperationCompleted(k) \/ PublishThrows(k)  PROVE op'[o] = op[o]
  BY <1>0, <1>1, <1>2 DEF MarkOperationCompleted, PublishThrows
<1>3. ASSUME NEW p \in Ops, ReadOperation(p)  PROVE op'[o] = op[o]
  BY <1>0, <1>3 DEF ReadOperation
<1>4. ASSUME NEW p \in Ops, NEW v \in Viewers, CancelOperation(v, p) \/ RetryOperation(v, p)
      PROVE  op'[o] = op[o]
  BY <1>0, <1>4 DEF CancelOperation, RetryOperation
<1>5. ASSUME NEW p \in Ops, NEW w \in Pollers, MarkInvalidated(p, w)  PROVE op'[o] = op[o]
  <2>1. p # o
    BY <1>0, <1>5 DEF MarkInvalidated, PollersApplied, Exists
  <2> QED
    BY <1>0, <1>5, <2>1 DEF MarkInvalidated
<1>6. ASSUME NEW k \in Keys, NEW s \in Sessions, FinalizeAccept(k, s), op'[o] # op[o]
      PROVE  /\ opOf' = [opOf EXCEPT ![k] = o]
             /\ \A p \in Ops : p # o => op'[p] = op[p]
             /\ op'[o] = [state |-> "processing", key |-> k, session |-> s,
                          postId |-> NoKey, pollCount |-> 0, invalidated |-> FALSE]
  BY <1>0, <1>6 DEF FinalizeAccept
<1> QED
  BY <1>2, <1>3, <1>4, <1>5, <1>6, Writers DEF ClientPoll, TimerPoll

\* The same, field by field.
LEMMA NewOperationRecord ==
    ASSUME InductiveInvariant, [Next]_vars, NEW o \in Ops, ~ Exists(o)
    PROVE  \/ op'[o] = op[o]
           \/ /\ op'[o].state = "processing" /\ op'[o].pollCount = 0
              /\ op'[o].postId = NoKey /\ op'[o].invalidated = FALSE
              /\ op'[o].key \in Keys /\ op'[o].session \in Sessions
<1>1. ASSUME NEW k \in Keys, NEW s \in Sessions,
             op'[o] = [state |-> "processing", key |-> k, session |-> s,
                       postId |-> NoKey, pollCount |-> 0, invalidated |-> FALSE]
      PROVE  /\ op'[o].state = "processing" /\ op'[o].pollCount = 0
             /\ op'[o].postId = NoKey /\ op'[o].invalidated = FALSE
             /\ op'[o].key \in Keys /\ op'[o].session \in Sessions
  BY <1>1
<1> QED
  BY <1>1, NewOperationStep, Zenon

-----------------------------------------------------------------------------
(***************************************************************************)
(* The inductive invariant.                                                *)
(***************************************************************************)

\* Nothing that is accepted, answered or invalidated is taken back, and what
\* was created and deleted is only added to.
LEMMA Monotonic ==
    ASSUME InductiveInvariant, [Next]_vars
    PROVE  /\ known \subseteq known' /\ applied \subseteq applied'
           /\ \A k \in Keys : made[k] \in Nat /\ made'[k] \in Nat /\ made[k] <= made'[k]
           /\ \A k \in Keys : opOf[k] # NoOp => opOf'[k] = opOf[k]
           /\ \A o \in Ops : Exists(o) => Exists(o)'
<1>1. opOf \in [Keys -> Ops \union {NoOp}]
  BY DEF InductiveInvariant, TypeOK
<1>2. ASSUME NEW k \in Keys  PROVE made[k] \in Nat /\ made'[k] \in Nat /\ made[k] <= made'[k]
  <2>1. made \in [Keys -> Nat]
    BY DEF InductiveInvariant, TypeOK
  <2>2. ASSUME NEW j \in Keys, CreatePost(j)
        PROVE  made'[k] = made[k] \/ made'[k] = made[k] + 1
    BY <2>1, <2>2 DEF CreatePost
  <2> QED
    BY <2>1, <2>2, Writers
<1>3. known \subseteq known'
  BY Writers DEF FinalizeAnswer
<1>4. applied \subseteq applied'
  BY Writers DEF ApplyInvalidation
<1>5. ASSUME NEW k \in Keys, opOf[k] # NoOp  PROVE opOf'[k] = opOf[k]
  <2>1. ASSUME NEW j \in Keys, NEW s \in Sessions, FinalizeAccept(j, s)  PROVE opOf'[k] = opOf[k]
    BY <1>1, <1>5, <2>1 DEF FinalizeAccept
  <2> QED
    BY <2>1, Writers
<1>6. ASSUME NEW o \in Ops, Exists(o)  PROVE Exists(o)'
  BY <1>6, ExistingOperationStep DEF Exists
<1> QED
  BY <1>2, <1>3, <1>4, <1>5, <1>6

\* The empty control plane satisfies the inductive invariant.
LEMMA InitInvariant == Init => InductiveInvariant
<1> SUFFICES ASSUME Init PROVE InductiveInvariant
  OBVIOUS
<1>1. TypeOK
  BY TypeInit
<1>2. \A o \in Ops : op[o].state = "none" /\ op[o].postId = NoKey /\ op[o].invalidated = FALSE
  BY DEF Init
<1>3. \A o \in Ops, w \in Pollers : poll[o][w] = "idle"
  BY DEF Init, NoPolls
<1>4. \A k \in Keys : /\ fin[k].place = "idle" /\ opOf[k] = NoOp /\ countTimer[k] = NoViewer
                     /\ made[k] = 0 /\ erased[k] = 0 /\ jobs[k] = 0 /\ k \notin posts
  BY DEF Init, NoFin
<1>5. \A k \in Keys, v \in Viewers : counted[<<k, v>>] = 0
  BY DEF Init
<1> QED
  BY <1>1, <1>2, <1>3, <1>4, <1>5
     DEF Init, InductiveInvariant, PollsLeft, JobsBehindPosts, PollersApplied,
         RequestKeepsItsGround, OneAcceptance, PostBehindOperation, AnsweredIsPublished,
         CreatedOncePerDelete, JobsStartedOnce, CountedOnce, InvalidationRecordIsTrue, Exists

\* Accepting, posting and retrying an operation reset its poll counter, and the
\* read that reaches the threshold completes it.
LEMMA PollsLeftStep == InductiveInvariant /\ [Next]_vars => PollsLeft'
<1> SUFFICES ASSUME InductiveInvariant, [Next]_vars, NEW o \in Ops, op'[o].state = "processing"
             PROVE  op'[o].pollCount < CompleteAfterPolls
  BY DEF PollsLeft
<1>1. CASE Exists(o)
  BY <1>1, ExistingOperationStep
<1>2. CASE ~ Exists(o)
  <2>1. op'[o] # op[o]
    BY <1>2 DEF Exists
  <2>2. op'[o].pollCount = 0
    BY <1>2, <2>1, NewOperationRecord
  <2> QED
    BY <2>2 DEF CompleteAfterPolls
<1> QED
  BY <1>1, <1>2

\* The record is written by a poller that is past the invalidation.
LEMMA InvalidationStep ==
    InductiveInvariant /\ [Next]_vars => InvalidationRecordIsTrue' /\ PollersApplied'
<1> SUFFICES ASSUME InductiveInvariant, [Next]_vars
             PROVE  InvalidationRecordIsTrue' /\ PollersApplied'
  OBVIOUS
<1>0. /\ InvalidationRecordIsTrue /\ PollersApplied
      /\ poll \in [Ops -> [Pollers -> PollPlaces]] /\ applied \subseteq Ops
  BY DEF InductiveInvariant, TypeOK
<1>1. ASSUME NEW o \in Ops, op'[o].invalidated  PROVE o \in applied'
  <2>1. CASE Exists(o)
    BY <1>0, <1>1, <2>1, ExistingOperationStep, Monotonic DEF InvalidationRecordIsTrue
  <2>2. CASE ~ Exists(o)
    BY <1>0, <1>1, <2>2, NewOperationRecord, Monotonic DEF InvalidationRecordIsTrue
  <2> QED
    BY <2>1, <2>2
<1>2. ASSUME NEW o \in applied'  PROVE Exists(o)'
  <2>1. ASSUME NEW p \in Ops, NEW w \in Pollers, ApplyInvalidation(p, w)
        PROVE  applied' = applied \union {p} /\ Exists(p)
    BY <1>0, <2>1 DEF ApplyInvalidation, PollersApplied
  <2>2. o \in Ops /\ Exists(o)
    BY <1>0, <1>2, <2>1, Writers DEF PollersApplied
  <2> QED
    BY <2>2, Monotonic
<1>3. ASSUME NEW o \in Ops, NEW w \in Pollers, poll'[o][w] = "applied"  PROVE o \in applied'
  <2>1. CASE poll[o][w] = "applied"
    BY <1>0, <2>1, Monotonic DEF PollersApplied
  <2>2. CASE poll[o][w] # "applied"
    <3>1. ~ Crash
      BY <1>3 DEF Crash, NoPolls
    <3>2. ASSUME NEW p \in Ops, ReadOperation(p),
                 NEW u \in Pollers, poll' = [poll EXCEPT ![p][u] = "read"]
          PROVE  FALSE
      BY <1>0, <1>3, <2>2, <3>2
    <3>3. ASSUME NEW p \in Ops, NEW u \in Pollers, poll' = [poll EXCEPT ![p][u] = "idle"]
          PROVE  FALSE
      BY <1>0, <1>3, <2>2, <3>3
    <3>4. ASSUME NEW p \in Ops, NEW u \in Pollers, ApplyInvalidation(p, u)
          PROVE  o \in applied'
      BY <1>0, <1>3, <2>2, <3>4 DEF ApplyInvalidation
    <3> QED
      <4>1. ASSUME NEW p \in Ops, NEW u \in Pollers, BeginInvalidation(p, u)
            PROVE  FALSE
        BY <1>0, <1>3, <2>2, <4>1 DEF BeginInvalidation
      <4> QED
        BY <1>3, <2>2, <3>1, <3>2, <3>3, <3>4, <4>1, Writers
           DEF ClientPoll, TimerPoll, PollStep, PollAnswer, InvalidationThrows,
               MarkInvalidated, Pollers
  <2> QED
    BY <2>1, <2>2
<1>4. ASSUME NEW o \in Ops, NEW w \in Pollers, poll'[o][w] = "deleting"  PROVE Exists(o)'
  <2>1. CASE poll[o][w] = "deleting"
    BY <1>0, <2>1, Monotonic DEF PollersApplied
  <2>2. CASE poll[o][w] # "deleting"
    <3>1. ~ Crash
      BY <1>4 DEF Crash, NoPolls
    <3>2. ASSUME NEW p \in Ops, NEW u \in Pollers, NEW x \in {"read", "idle", "applied"},
                 poll' = [poll EXCEPT ![p][u] = x]
          PROVE  FALSE
      BY <1>0, <1>4, <2>2, <3>2
    <3>3. ASSUME NEW p \in Ops, NEW u \in Pollers, BeginInvalidation(p, u)
          PROVE  Exists(o)
      <4>1. p = o
        BY <1>0, <1>4, <2>2, <3>3 DEF BeginInvalidation
      <4> QED
        BY <3>3, <4>1 DEF BeginInvalidation, NeedsInvalidation, Exists
    <3>4. PICK p \in Ops, u \in Pollers : BeginInvalidation(p, u)
      BY <1>4, <2>2, <3>1, <3>2, Writers
         DEF ClientPoll, TimerPoll, PollStep, PollAnswer, ApplyInvalidation, InvalidationThrows,
             MarkInvalidated, Pollers
    <3> QED
      BY <3>3, <3>4, Monotonic
  <2> QED
    BY <2>1, <2>2
<1> QED
  BY <1>1, <1>2, <1>3, <1>4 DEF InvalidationRecordIsTrue, PollersApplied

\* A session that was finalized is never open again and keeps its viewer.
LEMMA SettledSession ==
    ASSUME InductiveInvariant, [Next]_vars,
           NEW s \in Sessions, session[s].state \in {"finalized", "expired"}
    PROVE  /\ session'[s].state \in {"finalized", "expired"}
           /\ session'[s].viewer = session[s].viewer
<1>0. session \in [Sessions -> SessionRecord] /\ session[s] \in SessionRecord
  BY DEF InductiveInvariant, TypeOK
<1>1. ASSUME NEW v \in Viewers, NEW c \in ClientKeys, CreateUploadSession(v, c)
      PROVE  session'[s] = session[s]
  BY <1>0, <1>1 DEF CreateUploadSession
<1>2. ASSUME NEW k \in Keys, NEW t \in Sessions, FinalizeAccept(k, t)
      PROVE  session'[s] = session[s]
  BY <1>0, <1>2 DEF FinalizeAccept
<1>3. ASSUME NEW k \in Keys, NEW t \in Sessions, FinalizeExpire(k, t)
      PROVE  session'[s] = session[s] \/ session'[s] = [session[s] EXCEPT !.state = "expired"]
  BY <1>0, <1>3 DEF FinalizeExpire
<1>4. session'[s] = session[s] \/ session'[s] = [session[s] EXCEPT !.state = "expired"]
  BY <1>1, <1>2, <1>3, Writers
<1> QED
  BY <1>0, <1>4 DEF SessionRecord

\* The maps between intents, operations and sessions stay one to one: only an
\* acceptance extends them, with an intent, a record and a session that were free.
LEMMA OneAcceptanceStep == InductiveInvariant /\ [Next]_vars => OneAcceptance'
<1> SUFFICES ASSUME InductiveInvariant, [Next]_vars  PROVE OneAcceptance'
  OBVIOUS
<1>0. /\ OneAcceptance /\ op \in [Ops -> OpRecord] /\ opOf \in [Keys -> Ops \union {NoOp}]
      /\ session \in [Sessions -> SessionRecord]
  BY DEF InductiveInvariant, TypeOK
\* An accepted operation: what it was, or the one this step accepts.
<1>1. ASSUME NEW k \in Keys, NEW s \in Sessions, FinalizeAccept(k, s),
             NEW o \in Ops, opOf' = [opOf EXCEPT ![k] = o]
      PROVE  /\ opOf'[k] = o /\ opOf[k] = NoOp
             /\ \A j \in Keys : j # k => opOf'[j] = opOf[j]
             /\ session[s].state = "open"
             /\ session'[s].state = "finalized" /\ session'[s].viewer = KeyViewer[k]
  <2>1. session'[s] = [session[s] EXCEPT !.state = "finalized"]
    BY <1>0, <1>1 DEF FinalizeAccept
  <2>2. session[s] \in SessionRecord
    BY <1>0
  <2>3. session'[s].state = "finalized" /\ session'[s].viewer = session[s].viewer
    BY <2>1, <2>2 DEF SessionRecord
  <2> QED
    BY <1>0, <1>1, <2>3 DEF FinalizeAccept
<1>2. ASSUME NEW k \in Keys, opOf'[k] # NoOp
      PROVE  op'[opOf'[k]].state # "none" /\ op'[opOf'[k]].key = k
  <2>1. CASE opOf[k] # NoOp
    <3>1. opOf[k] \in Ops /\ opOf'[k] = opOf[k] /\ Exists(opOf[k]) /\ op[opOf[k]].key = k
      BY <1>0, <2>1, Monotonic DEF OneAcceptance
    <3>2. op'[opOf[k]].state # "none" /\ op'[opOf[k]].key = k
      BY <3>1, ExistingOperationStep
    <3> QED
      BY <3>1, <3>2
  <2>2. CASE opOf[k] = NoOp
    <3>1. PICK s \in Sessions : FinalizeAccept(k, s)
      <4>1. PICK j \in Keys, s \in Sessions : FinalizeAccept(j, s)
        BY <1>2, <2>2, Writers
      <4>2. j = k
        BY <1>0, <1>2, <2>2, <4>1 DEF FinalizeAccept
      <4> QED
        BY <4>1, <4>2
    <3>2. PICK o \in Ops :
            /\ op' = [op EXCEPT ![o] = [state |-> "processing", key |-> k, session |-> s,
                                        postId |-> NoKey, pollCount |-> 0, invalidated |-> FALSE]]
            /\ opOf' = [opOf EXCEPT ![k] = o]
      BY <3>1 DEF FinalizeAccept
    <3>3. opOf'[k] = o /\ op'[o].state = "processing" /\ op'[o].key = k
      BY <1>0, <3>2
    <3> QED
      BY <3>3
  <2> QED
    BY <2>1, <2>2
<1>3. ASSUME NEW o \in Ops, Exists(o)
      PROVE  /\ op'[o].key = op[o].key /\ op'[o].session = op[o].session
             /\ op[o].key \in Keys /\ opOf'[op[o].key] = o /\ op[o].session \in Sessions
             /\ session[op[o].session].state \in {"finalized", "expired"}
             /\ session'[op[o].session].state \in {"finalized", "expired"}
             /\ session'[op[o].session].viewer = KeyViewer[op[o].key]
  <2>1. /\ op[o].key \in Keys /\ opOf[op[o].key] = o /\ op[o].session \in Sessions
        /\ session[op[o].session].state \in {"finalized", "expired"}
        /\ session[op[o].session].viewer = KeyViewer[op[o].key]
    BY <1>0, <1>3 DEF OneAcceptance
  <2>2. op'[o].key = op[o].key /\ op'[o].session = op[o].session
    BY <1>3, ExistingOperationStep
  <2>3. opOf'[op[o].key] = o
    BY <2>1, Monotonic
  <2> QED
    BY <2>1, <2>2, <2>3, SettledSession
<1>4. ASSUME NEW o \in Ops, ~ Exists(o), Exists(o)'
      PROVE  \E k \in Keys, s \in Sessions :
                /\ op'[o].key = k /\ op'[o].session = s /\ opOf'[k] = o
                /\ session[s].state = "open"
                /\ session'[s].state = "finalized" /\ session'[s].viewer = KeyViewer[k]
                /\ \A p \in Ops : p # o => op'[p] = op[p]
  <2>1. op'[o] # op[o]
    BY <1>4 DEF Exists
  <2>2. PICK k \in Keys, s \in Sessions :
          /\ FinalizeAccept(k, s) /\ opOf' = [opOf EXCEPT ![k] = o]
          /\ \A p \in Ops : p # o => op'[p] = op[p]
          /\ op'[o] = [state |-> "processing", key |-> k, session |-> s,
                       postId |-> NoKey, pollCount |-> 0, invalidated |-> FALSE]
    BY <1>4, <2>1, NewOperationStep, Zenon
  <2>3. op'[o].key = k /\ op'[o].session = s
    BY <2>2
  <2>4. /\ opOf'[k] = o /\ session[s].state = "open"
        /\ session'[s].state = "finalized" /\ session'[s].viewer = KeyViewer[k]
    <3>1. FinalizeAccept(k, s) /\ opOf' = [opOf EXCEPT ![k] = o]
      BY <2>2
    <3> QED
      BY <1>1, <3>1
  <2> QED
    BY <2>2, <2>3, <2>4
<1>5. ASSUME NEW o \in Ops, Exists(o)'
      PROVE  /\ op'[o].key \in Keys /\ opOf'[op'[o].key] = o /\ op'[o].session \in Sessions
             /\ session'[op'[o].session].state \in {"finalized", "expired"}
             /\ session'[op'[o].session].viewer = KeyViewer[op'[o].key]
  <2>1. CASE Exists(o)
    BY <1>3, <2>1
  <2>2. CASE ~ Exists(o)
    BY <1>4, <1>5, <2>2
  <2> QED
    BY <2>1, <2>2
<1>6. ASSUME NEW o \in Ops, NEW p \in Ops, Exists(o)', Exists(p)', op'[o].session = op'[p].session
      PROVE  o = p
  <2>1. CASE Exists(o) /\ Exists(p)
    BY <1>0, <1>3, <1>6, <2>1 DEF OneAcceptance
  <2>2. ASSUME NEW q \in Ops, NEW r \in Ops, ~ Exists(q), Exists(q)', Exists(r)', q # r,
               op'[q].session = op'[r].session
        PROVE  FALSE
    <3>1. op'[r] = op[r] /\ session[op'[q].session].state = "open"
      BY <1>4, <2>2
    <3>2. Exists(r)
      BY <2>2, <3>1 DEF Exists
    <3>3. session[op[r].session].state \in {"finalized", "expired"}
      BY <1>3, <3>2
    <3> QED
      BY <2>2, <3>1, <3>3
  <2> QED
    BY <1>6, <2>1, <2>2
<1> QED
  BY <1>2, <1>5, <1>6 DEF OneAcceptance, Exists

\* A post is created, and named by its operation, only by a request of its intent.
LEMMA PostBehindOperationStep == InductiveInvariant /\ [Next]_vars => PostBehindOperation'
<1> SUFFICES ASSUME InductiveInvariant, [Next]_vars  PROVE PostBehindOperation'
  OBVIOUS
<1>0. /\ PostBehindOperation /\ RequestKeepsItsGround /\ OneAcceptance /\ posts \subseteq Keys
      /\ made \in [Keys -> Nat] /\ OneAcceptance'
  BY OneAcceptanceStep DEF InductiveInvariant, TypeOK
<1>1. ASSUME NEW k \in Keys, made'[k] > 0  PROVE opOf'[k] # NoOp
  <2>1. ASSUME NEW j \in Keys, CreatePost(j), made[k] = 0  PROVE j = k /\ opOf[k] # NoOp
    BY <1>0, <1>1, <2>1 DEF CreatePost, RequestKeepsItsGround
  <2>2. opOf[k] # NoOp
    <3>1. made[k] = 0 \/ made[k] > 0
      BY <1>0
    <3> QED
      BY <1>0, <1>1, <2>1, <3>1, Writers DEF PostBehindOperation
  <2> QED
    BY <2>2, Monotonic
<1>2. ASSUME NEW k \in Keys, k \in posts'  PROVE made'[k] > 0
  <2>1. ASSUME NEW j \in Keys, CreatePost(j)  PROVE k \in posts \/ made'[k] > 0
    BY <1>0, <1>2, <2>1 DEF CreatePost
  <2>2. ASSUME NEW j \in Keys, DeletePost(j) \/ LateMerge(j)  PROVE k \in posts \/ made[k] > 0
    BY <1>2, <2>2 DEF DeletePost, LateMerge
  <2>3. made[k] > 0 \/ made'[k] > 0
    BY <1>0, <1>2, <2>1, <2>2, Writers DEF PostBehindOperation
  <2> QED
    BY <2>3, Monotonic
<1>3. ASSUME NEW o \in Ops
      PROVE  /\ op'[o].postId # NoKey => op'[o].postId = op'[o].key /\ made'[op'[o].key] > 0
             /\ op'[o].state = "completed" => op'[o].postId # NoKey
  <2>1. CASE Exists(o)
    <3>1. op[o].key \in Keys /\ op'[o].key = op[o].key
      BY <1>0, <2>1, ExistingOperationStep DEF OneAcceptance
    <3>2. op'[o].postId # NoKey => op'[o].postId = op[o].key /\ made[op[o].key] > 0
      BY <1>0, <2>1, ExistingOperationStep DEF PostBehindOperation
    <3>3. made[op[o].key] > 0 => made'[op[o].key] > 0
      BY <3>1, Monotonic
    <3>4. op'[o].state = "completed" => op'[o].postId # NoKey
      BY <2>1, ExistingOperationStep
    <3> QED
      BY <3>1, <3>2, <3>3, <3>4
  <2>2. CASE ~ Exists(o)
    <3>1. CASE op'[o] = op[o]
      <4>1. op[o] \in OpRecord
        BY DEF InductiveInvariant, TypeOK
      <4>2. op[o].postId # NoKey => op[o].key \in Keys /\ made[op[o].key] > 0 /\ op[o].postId = op[o].key
        BY <1>0, <4>1 DEF PostBehindOperation, OpRecord
      <4>3. op[o].postId # NoKey => made'[op[o].key] > 0
        BY <4>2, Monotonic
      <4> QED
        BY <1>0, <3>1, <4>2, <4>3 DEF PostBehindOperation
    <3>2. CASE op'[o] # op[o]
      BY <2>2, <3>2, NewOperationRecord
    <3> QED
      BY <3>1, <3>2
  <2> QED
    BY <2>1, <2>2
<1> QED
  BY <1>1, <1>2, <1>3 DEF PostBehindOperation

\* Only a request past the mark, or one that echoes a completed operation, answers.
LEMMA AnsweredStep == InductiveInvariant /\ [Next]_vars => AnsweredIsPublished'
<1> SUFFICES ASSUME InductiveInvariant, [Next]_vars, NEW o \in known'
             PROVE  Exists(o)' /\ op'[o].postId # NoKey
  BY DEF AnsweredIsPublished
<1>0. /\ AnsweredIsPublished /\ RequestKeepsItsGround /\ OneAcceptance /\ known \subseteq Ops
  BY DEF InductiveInvariant, TypeOK
<1>1. o \in Ops /\ Exists(o) /\ op[o].postId # NoKey
  <2>1. ASSUME NEW k \in Keys, FinalizeAnswer(k)
        PROVE  /\ known' = known \union {fin[k].op}
               /\ fin[k].op \in Ops /\ Exists(fin[k].op) /\ op[fin[k].op].postId # NoKey
    BY <1>0, <2>1 DEF FinalizeAnswer, RequestKeepsItsGround, OneAcceptance
  <2> QED
    BY <1>0, <2>1, Writers DEF AnsweredIsPublished
<1>2. op'[o].postId = op[o].postId \/ (op'[o].postId = op[o].key /\ op[o].key \in Keys)
  BY <1>0, <1>1, ExistingOperationStep DEF OneAcceptance
<1> QED
  BY <1>1, <1>2, Monotonic

\* A document is created where there is none, the jobs run only for a request
\* that created the document, the count only for a post that was written.
LEMMA JobsStep ==
    InductiveInvariant /\ [Next]_vars =>
        JobsBehindPosts' /\ CreatedOncePerDelete' /\ JobsStartedOnce' /\ CountedOnce'
<1> SUFFICES ASSUME InductiveInvariant, [Next]_vars
             PROVE  JobsBehindPosts' /\ CreatedOncePerDelete' /\ JobsStartedOnce' /\ CountedOnce'
  OBVIOUS
<1>0. /\ RequestKeepsItsGround /\ JobsBehindPosts /\ CreatedOncePerDelete
      /\ JobsStartedOnce /\ CountedOnce /\ posts \subseteq Keys
      /\ made \in [Keys -> Nat] /\ erased \in [Keys -> Nat] /\ jobs \in [Keys -> Nat]
      /\ counted \in [Keys \X Viewers -> Nat]
      /\ countTimer \in [Keys -> Viewers \union {NoViewer}]
  BY DEF InductiveInvariant, TypeOK
<1>1. ASSUME NEW k \in Keys, countTimer'[k] # NoViewer  PROVE made'[k] > 0
  <2>1. ASSUME NEW j \in Keys, PostAlreadyExists(j) \/ StartJobs(j), countTimer[k] = NoViewer
        PROVE  made[k] > 0
    <3>1. QueueCount(j)
      BY <2>1 DEF PostAlreadyExists, StartJobs
    <3>2. j = k
      BY <1>0, <1>1, <2>1, <3>1 DEF QueueCount
    <3>3. CASE PostAlreadyExists(k)
      BY <3>3 DEF PostAlreadyExists, InductiveInvariant, PostBehindOperation
    <3>4. CASE StartJobs(k)
      BY <1>0, <3>4 DEF StartJobs, RequestKeepsItsGround
    <3> QED
      BY <2>1, <3>2, <3>3, <3>4
  <2>2. ASSUME NEW j \in Keys, CountOnProfile(j)  PROVE countTimer[k] # NoViewer
    BY <1>0, <1>1, <2>2 DEF CountOnProfile
  <2>3. ~ Crash
    BY <1>1 DEF Crash
  <2>4. made[k] > 0
    BY <1>0, <1>1, <2>1, <2>2, <2>3, Writers DEF JobsBehindPosts
  <2> QED
    BY <2>4, Monotonic
<1>2. ASSUME NEW k \in Keys
      PROVE  made'[k] <= erased'[k] + (IF k \in posts' THEN 1 ELSE 0)
  <2>0. made[k] <= erased[k] + (IF k \in posts THEN 1 ELSE 0)
    BY <1>0 DEF CreatedOncePerDelete
  <2>1. ASSUME NEW j \in Keys, CreatePost(j)
        PROVE  made'[k] <= erased'[k] + (IF k \in posts' THEN 1 ELSE 0)
    <3>1. /\ j \notin posts /\ posts' = posts \union {j} /\ erased' = erased
          /\ made' = [made EXCEPT ![j] = made[j] + 1]
      BY <2>1 DEF CreatePost
    <3>2. CASE k = j
      <4>1. made'[k] = made[k] + 1 /\ k \notin posts /\ k \in posts'
        BY <1>0, <3>1, <3>2
      <4> QED
        BY <1>0, <2>0, <3>1, <4>1
    <3>3. CASE k # j
      <4>1. made'[k] = made[k] /\ (k \in posts' <=> k \in posts)
        BY <1>0, <3>1, <3>3
      <4> QED
        BY <2>0, <3>1, <4>1
    <3> QED
      BY <3>2, <3>3
  <2>2. ASSUME NEW j \in Keys, DeletePost(j)
        PROVE  made'[k] <= erased'[k] + (IF k \in posts' THEN 1 ELSE 0)
    <3>1. /\ posts' = posts \ {j} /\ made' = made
          /\ erased' = [erased EXCEPT ![j] = erased[j] + 1]
      BY <2>2 DEF DeletePost
    <3>2. CASE k = j
      <4>1. erased'[k] = erased[k] + 1 /\ k \notin posts'
        BY <1>0, <3>1, <3>2
      <4> QED
        BY <1>0, <2>0, <3>1, <4>1
    <3>3. CASE k # j
      <4>1. erased'[k] = erased[k] /\ (k \in posts' <=> k \in posts)
        BY <1>0, <3>1, <3>3
      <4> QED
        BY <2>0, <3>1, <4>1
    <3> QED
      BY <3>2, <3>3
  <2>3. ASSUME NEW j \in Keys, LateMerge(j)
        PROVE  made'[k] <= erased'[k] + (IF k \in posts' THEN 1 ELSE 0)
    <3>1. posts' = posts \union {j} /\ made' = made /\ erased' = erased
      BY <2>3 DEF LateMerge
    <3> QED
      BY <1>0, <2>0, <3>1
  <2>4. CASE UNCHANGED <<posts, made, erased>>
    BY <2>0, <2>4
  <2> QED
    BY <2>1, <2>2, <2>3, <2>4, Writers
<1>3. ASSUME NEW k \in Keys  PROVE jobs'[k] <= made'[k]
  <2>1. ASSUME NEW j \in Keys, StartJobs(j) \/ PublishThrows(j)
        PROVE  \/ jobs' = jobs
               \/ jobs' = [jobs EXCEPT ![j] = @ + 1] /\ jobs[j] < made[j]
    BY <1>0, <2>1 DEF StartJobs, PublishThrows, RequestKeepsItsGround
  <2>2. jobs'[k] = jobs[k] \/ (jobs[k] < made[k] /\ jobs'[k] = jobs[k] + 1)
    BY <1>0, <2>1, Writers
  <2>3. jobs[k] <= made[k] /\ made[k] <= made'[k] /\ jobs[k] \in Nat
        /\ made[k] \in Nat /\ made'[k] \in Nat
    BY <1>0, Monotonic DEF JobsStartedOnce
  <2> QED
    BY <2>2, <2>3
<1>4. ASSUME NEW k \in Keys, NEW v \in Viewers
      PROVE  counted'[<<k, v>>] <= 1 /\ (counted'[<<k, v>>] > 0 => made'[k] > 0)
  <2>1. ASSUME NEW j \in Keys, CountOnProfile(j)
        PROVE  \/ counted'[<<k, v>>] = counted[<<k, v>>]
               \/ counted'[<<k, v>>] = 1 /\ made[k] > 0
    <3>1. PICK u \in Viewers : u = countTimer[j]
      BY <1>0, <2>1 DEF CountOnProfile
    <3>2. \/ counted' = counted
          \/ counted' = [counted EXCEPT ![<<j, u>>] = 1] /\ made[j] > 0
      BY <1>0, <2>1, <3>1 DEF CountOnProfile, JobsBehindPosts
    <3> QED
      BY <1>0, <3>2
  <2>2. \/ counted'[<<k, v>>] = counted[<<k, v>>]
        \/ counted'[<<k, v>>] = 1 /\ made[k] > 0
    BY <2>1, Writers
  <2>3. made[k] > 0 => made'[k] > 0
    BY Monotonic
  <2> QED
    BY <1>0, <2>2, <2>3 DEF CountedOnce
<1> QED
  BY <1>1, <1>2, <1>3, <1>4
     DEF JobsBehindPosts, CreatedOncePerDelete, JobsStartedOnce, CountedOnce

\* The part of the invariant that speaks of the awaits.  A step of another
\* request or job disturbs none of it; a step of the request itself only moves
\* on from what it has just done.
LEMMA RequestStep == InductiveInvariant /\ [Next]_vars => RequestKeepsItsGround'
<1> SUFFICES ASSUME InductiveInvariant, [Next]_vars,
                    NEW k \in Keys, fin'[k].place # "idle"
             PROVE  /\ opOf'[k] \in Ops /\ fin'[k].op = opOf'[k]
                    /\ fin'[k].place \in {"enqueue", "mark", "rewards", "echo"} => made'[k] > 0
                    /\ fin'[k].place = "enqueue" => jobs'[k] < made'[k]
                    /\ fin'[k].place \in {"rewards", "echo"} => op'[fin'[k].op].postId # NoKey
  BY DEF RequestKeepsItsGround
<1>0. /\ RequestKeepsItsGround /\ OneAcceptance /\ PostBehindOperation /\ JobsStartedOnce
      /\ fin \in [Keys -> FinRecord] /\ fin[k] \in FinRecord
      /\ op \in [Ops -> OpRecord] /\ opOf \in [Keys -> Ops \union {NoOp}]
      /\ jobs \in [Keys -> Nat] /\ made \in [Keys -> Nat]
  BY DEF InductiveInvariant, TypeOK
<1>1. ASSUME opOf[k] \in Ops, op[opOf[k]].postId # NoKey
      PROVE  op'[opOf[k]].postId # NoKey
  <2>1. Exists(opOf[k])
    BY <1>0, <1>1 DEF OneAcceptance
  <2>2. op[opOf[k]].key \in Keys
    BY <1>0, <1>1, <2>1 DEF OneAcceptance
  <2> QED
    BY <1>1, <2>1, <2>2, ExistingOperationStep
\* The request of k does not move.
<1>2. CASE fin'[k] = fin[k]
  <2>1. /\ opOf[k] \in Ops /\ fin[k].op = opOf[k] /\ opOf'[k] = opOf[k]
        /\ fin[k].place \in {"enqueue", "mark", "rewards", "echo"} => made'[k] > 0
        /\ fin[k].place = "enqueue" => jobs[k] < made'[k]
        /\ fin[k].place \in {"rewards", "echo"} => op[fin[k].op].postId # NoKey
    <3>1. /\ made[k] > 0 => made'[k] > 0
          /\ jobs[k] < made[k] => jobs[k] < made'[k]
      BY <1>0, Monotonic
    <3> QED
      BY <1>0, <1>2, <3>1, Monotonic DEF RequestKeepsItsGround
  <2>2. ASSUME fin[k].place = "enqueue"  PROVE jobs'[k] = jobs[k]
    <3>1. ASSUME NEW j \in Keys, StartJobs(j) \/ PublishThrows(j), jobs'[k] # jobs[k]
          PROVE  FALSE
      <4>1. j = k
        <5>1. jobs' = jobs \/ jobs' = [jobs EXCEPT ![j] = jobs[j] + 1]
          BY <3>1 DEF StartJobs, PublishThrows
        <5>2. k # j => jobs'[k] = jobs[k]
          BY <1>0, <5>1
        <5> QED
          BY <3>1, <5>2
      <4>2. fin'[k].place # "enqueue"
        <5>1. CASE StartJobs(k)
          BY <1>0, <5>1 DEF StartJobs, FinRecord
        <5>2. CASE PublishThrows(k)
          BY <1>0, <5>2 DEF PublishThrows, NoFin
        <5> QED
          BY <3>1, <4>1, <5>1, <5>2
      <4> QED
        BY <1>2, <2>2, <4>2
    <3> QED
      BY <3>1, Writers
  <2> QED
    BY <1>1, <1>2, <2>1, <2>2
\* It moves.
<1>3. CASE fin'[k] # fin[k]
  <2>1. ~ Crash
    BY DEF Crash, NoFin
  <2>2. ASSUME NEW j \in Keys, FinalizeReplay(j) \/ FinalizeStep(j) \/ \E s \in Sessions : FinalizeAccept(j, s)
        PROVE  j = k
    BY <1>0, <1>3, <2>2
       DEF FinalizeReplay, FinalizeAccept, AwaitAuthor, FinalizeStep, AuthorRefused,
           AuthorResolved, CreatePost, PostAlreadyExists, StartJobs, MarkOperationCompleted,
           PublishThrows, EchoThrows, FinalizeAnswer
  <2>3. FinalizeReplay(k) \/ FinalizeStep(k) \/ \E s \in Sessions : FinalizeAccept(k, s)
    BY <1>3, <2>1, <2>2, Writers
  <2>4. CASE FinalizeReplay(k)
    <3>1. fin'[k] = [place |-> "author", op |-> opOf[k], replayed |-> TRUE,
                       author |-> NoViewer] /\ opOf'[k] = opOf[k]
      BY <1>0, <2>4 DEF FinalizeReplay, AwaitAuthor, durable
    <3>2. opOf[k] \in Ops
      BY <1>0, <2>4 DEF FinalizeReplay
    <3> QED
      BY <3>1, <3>2
  <2>5. ASSUME NEW s \in Sessions, FinalizeAccept(k, s)
        PROVE  opOf'[k] \in Ops /\ fin'[k].op = opOf'[k] /\ fin'[k].place = "author"
    BY <1>0, <2>5 DEF FinalizeAccept, AwaitAuthor
  <2>6. CASE AuthorResolved(k)
    <3>1. opOf[k] \in Ops /\ fin[k].op = opOf[k] /\ opOf'[k] = opOf[k]
      BY <1>0, <2>6, Monotonic DEF AuthorResolved, RequestKeepsItsGround
    <3>2. CASE ReplayIsDone(k)
      <4>1. fin'[k] = [fin[k] EXCEPT !.place = "echo"] /\ op[opOf[k]].postId # NoKey
        BY <1>0, <2>6, <3>1, <3>2 DEF AuthorResolved, ReplayIsDone
      <4>2. op'[opOf[k]].postId # NoKey
        BY <1>1, <3>1, <4>1
      <4>3. made'[k] > 0
        <5>1. made[k] > 0
          BY <1>0, <3>1, <4>1 DEF PostBehindOperation, OneAcceptance
        <5> QED
          BY <5>1, Monotonic
      <4>4. fin'[k].place = "echo" /\ fin'[k].op = opOf[k]
        BY <1>0, <3>1, <4>1 DEF FinRecord
      <4> QED
        BY <3>1, <4>2, <4>3, <4>4
    <3>3. CASE ~ ReplayIsDone(k)
      <4>1. PICK v \in PostAs[k] :
              fin' = [fin EXCEPT ![k] = [fin[k] EXCEPT !.place = "publish", !.author = v]]
        BY <2>6, <3>3 DEF AuthorResolved
      <4>2. fin'[k].place = "publish" /\ fin'[k].op = fin[k].op
        BY <1>0, <4>1 DEF FinRecord
      <4> QED
        BY <3>1, <4>2
    <3> QED
      BY <3>2, <3>3
  <2>7. CASE CreatePost(k)
    <3>1. opOf[k] \in Ops /\ fin[k].op = opOf[k] /\ opOf'[k] = opOf[k]
      BY <1>0, <2>7, Monotonic DEF CreatePost, RequestKeepsItsGround
    <3>2. fin'[k].place = "enqueue" /\ fin'[k].op = opOf[k]
      BY <1>0, <2>7, <3>1 DEF CreatePost, FinRecord
    <3>3. made'[k] = made[k] + 1 /\ jobs' = jobs /\ jobs[k] <= made[k]
      BY <1>0, <2>7 DEF CreatePost, JobsStartedOnce
    <3>4. made'[k] > 0 /\ jobs'[k] < made'[k]
      BY <1>0, <3>3
    <3> QED
      BY <3>1, <3>2, <3>4
  <2>8. CASE PostAlreadyExists(k) \/ StartJobs(k)
    <3>1. opOf[k] \in Ops /\ fin[k].op = opOf[k] /\ opOf'[k] = opOf[k] /\ made[k] > 0
      BY <1>0, <2>8, Monotonic
         DEF PostAlreadyExists, StartJobs, RequestKeepsItsGround, PostBehindOperation
    <3>3. made'[k] > 0
      BY <3>1, Monotonic
    <3>2. fin'[k].place = "mark" /\ fin'[k].op = opOf[k]
      BY <1>0, <2>8, <3>1 DEF PostAlreadyExists, StartJobs, FinRecord
    <3> QED
      BY <3>1, <3>2, <3>3
  <2>9. CASE MarkOperationCompleted(k)
    <3>1. opOf[k] \in Ops /\ fin[k].op = opOf[k] /\ opOf'[k] = opOf[k] /\ made[k] > 0
      BY <1>0, <2>9, Monotonic DEF MarkOperationCompleted, RequestKeepsItsGround
    <3>5. made'[k] > 0
      BY <3>1, Monotonic
    <3>2. fin'[k].place = "rewards" /\ fin'[k].op = opOf[k]
      BY <1>0, <2>9, <3>1 DEF MarkOperationCompleted, FinRecord
    <3>3. op'[opOf[k]] = [op[opOf[k]] EXCEPT !.postId = k, !.state = "processing", !.pollCount = 0]
      BY <1>0, <2>9, <3>1 DEF MarkOperationCompleted
    <3>4. op'[opOf[k]].postId = k
      BY <1>0, <3>1, <3>3 DEF OpRecord
    <3> QED
      BY <3>1, <3>2, <3>4, <3>5
  <2>10. CASE AuthorRefused(k) \/ PublishThrows(k) \/ EchoThrows(k) \/ FinalizeAnswer(k)
    BY <1>0, <2>10 DEF AuthorRefused, PublishThrows, EchoThrows, FinalizeAnswer, NoFin
  <2> QED
    BY <2>3, <2>4, <2>5, <2>6, <2>7, <2>8, <2>9, <2>10 DEF FinalizeStep
<1> QED
  BY <1>2, <1>3

-----------------------------------------------------------------------------
(***************************************************************************)
(* The theorems.                                                           *)
(***************************************************************************)

\* The invariant holds in every reachable state, for any number of intents,
\* sessions and operations, any number of finalize requests, of deletes of
\* their posts and of restarts.
THEOREM Invariance == Spec => []InductiveInvariant
<1>1. InductiveInvariant /\ [Next]_vars => InductiveInvariant'
  BY TypeStep, PollsLeftStep, InvalidationStep, OneAcceptanceStep, PostBehindOperationStep,
     AnsweredStep, JobsStep, RequestStep DEF InductiveInvariant
<1> QED
  BY <1>1, InitInvariant, PTL DEF Spec

\* Type correctness of the control plane's records, maps and jobs.
THEOREM TypeCorrectness == Spec => []TypeOK
<1>1. InductiveInvariant => TypeOK
  BY DEF InductiveInvariant
<1> QED
  BY <1>1, Invariance, PTL

\* finalizePosting accepts an intent once, and a session for one intent only.
THEOREM AcceptanceIsOnce == Spec => []OneAcceptance
<1>1. InductiveInvariant => OneAcceptance
  BY DEF InductiveInvariant
<1> QED
  BY <1>1, Invariance, PTL

\* "completed" is only ever reported of a post that was written, and no post is
\* written without an accepted operation.
THEOREM CompletedIsPublished == Spec => []PostBehindOperation
<1>1. InductiveInvariant => PostBehindOperation
  BY DEF InductiveInvariant
<1> QED
  BY <1>1, Invariance, PTL

\* The operation a finalize request is answered with names its post, for good.
THEOREM AnswersArePublished == Spec => []AnsweredIsPublished
<1>1. InductiveInvariant => AnsweredIsPublished
  BY DEF InductiveInvariant
<1> QED
  BY <1>1, Invariance, PTL

\* However often an intent is finalized and the process restarted, its post is
\* created again only after a delete, its jobs are started at most once per
\* document that was created, and it is counted at most once on a profile.
THEOREM JobsAndCountsAreOnce == Spec => []SideEffectsOnce
<1>1. InductiveInvariant => SideEffectsOnce
  BY DEF InductiveInvariant, SideEffectsOnce
<1> QED
  BY <1>1, Invariance, PTL

\* An invalidation that is recorded has been applied.
THEOREM RecordedIsInvalidated == Spec => []InvalidationRecordIsTrue
<1>1. InductiveInvariant => InvalidationRecordIsTrue
  BY DEF InductiveInvariant
<1> QED
  BY <1>1, Invariance, PTL

\* What a finalize request relies on between its awaits is not taken from it.
THEOREM RequestsKeepTheirGround == Spec => []RequestKeepsItsGround
<1>1. InductiveInvariant => RequestKeepsItsGround
  BY DEF InductiveInvariant
<1> QED
  BY <1>1, Invariance, PTL

\* Only a finalize request of the same intent, in flight, takes an operation out
\* of "completed": no cancel, retry, poll, background job or restart does.
THEOREM CompletedIsFinal == Spec => CompletedUndoneOnlyByFinalize
<1>1. ASSUME InductiveInvariant, [Next]_vars, NEW o \in Ops,
             op[o].state = "completed", op'[o].state # "completed"
      PROVE  \E k \in Keys : /\ fin[k].op = o /\ fin[k].place # "idle"
                             /\ op'[o].state \in {"processing", "failed"}
  <2>0. op \in [Ops -> OpRecord] /\ op[o] \in OpRecord
    BY <1>1 DEF InductiveInvariant, TypeOK
  <2>1. ASSUME NEW k \in Keys, MarkOperationCompleted(k)
        PROVE  fin[k].op = o /\ fin[k].place # "idle" /\ op'[o].state = "processing"
    <3>1. fin[k].op = o
      BY <1>1, <2>0, <2>1 DEF MarkOperationCompleted
    <3>2. op'[o] = [op[o] EXCEPT !.postId = k, !.state = "processing", !.pollCount = 0]
      BY <2>0, <2>1, <3>1 DEF MarkOperationCompleted
    <3> QED
      BY <2>0, <2>1, <3>1, <3>2 DEF MarkOperationCompleted, OpRecord
  <2>2. ASSUME NEW k \in Keys, PublishThrows(k)
        PROVE  fin[k].op = o /\ fin[k].place # "idle" /\ op'[o].state = "failed"
    BY <1>1, <2>0, <2>2 DEF PublishThrows, OpRecord
  <2>3. ASSUME NEW k \in Keys, NEW s \in Sessions, FinalizeAccept(k, s)  PROVE FALSE
    BY <1>1, <2>0, <2>3 DEF FinalizeAccept
  <2>4. ASSUME NEW p \in Ops, ReadOperation(p)  PROVE FALSE
    BY <1>1, <2>0, <2>4 DEF ReadOperation
  <2>5. ASSUME NEW p \in Ops, NEW v \in Viewers, CancelOperation(v, p) \/ RetryOperation(v, p)
        PROVE  FALSE
    BY <1>1, <2>0, <2>5 DEF CancelOperation, RetryOperation
  <2>6. ASSUME NEW p \in Ops, NEW w \in Pollers, MarkInvalidated(p, w)  PROVE FALSE
    BY <1>1, <2>0, <2>6 DEF MarkInvalidated, OpRecord
  <2> QED
    BY <1>1, <2>1, <2>2, <2>3, <2>4, <2>5, <2>6, Writers DEF ClientPoll, TimerPoll
<1>2. InductiveInvariant /\ [Next]_vars =>
        [\A o \in Ops : op[o].state = "completed" /\ op'[o].state # "completed" =>
           \E k \in Keys : /\ fin[k].op = o /\ fin[k].place # "idle"
                           /\ op'[o].state \in {"processing", "failed"}]_vars
  BY <1>1
<1> QED
  BY <1>2, Invariance, PTL DEF Spec, CompletedUndoneOnlyByFinalize

-----------------------------------------------------------------------------
(***************************************************************************)
(* The control plane implements the publish-intent contract: one lemma per *)
(* variable of the contract says how a step changes it, then every action  *)
(* of the control plane is an action of the contract or a stutter.         *)
(***************************************************************************)
Accepted == [k \in Keys |-> IF opOf[k] = NoOp THEN NoSession ELSE op[opOf[k]].session]
Counted == {kv \in Keys \X Viewers : counted[kv] > 0}
Answered == {k \in Keys : opOf[k] \in known}

\* The contract's accepted map changes by an acceptance, of one intent, alone.
LEMMA AcceptedStep ==
    ASSUME InductiveInvariant, [Next]_vars
    PROVE  \/ Accepted' = Accepted
           \/ \E k \in Keys, s \in Sessions :
                /\ FinalizeAccept(k, s)
                /\ Accepted[k] = NoSession /\ \A j \in Keys : Accepted[j] # s
                /\ Accepted' = [Accepted EXCEPT ![k] = s]
<1>0. /\ OneAcceptance /\ op \in [Ops -> OpRecord] /\ opOf \in [Keys -> Ops \union {NoOp}]
  BY DEF InductiveInvariant, TypeOK
<1>1. ASSUME NEW j \in Keys, opOf[j] # NoOp
      PROVE  /\ opOf[j] \in Ops /\ opOf'[j] = opOf[j]
             /\ op'[opOf[j]].session = op[opOf[j]].session /\ Exists(opOf[j])
  <2>1. opOf[j] \in Ops /\ Exists(opOf[j]) /\ opOf'[j] = opOf[j]
    BY <1>0, <1>1, Monotonic DEF OneAcceptance
  <2> QED
    BY <2>1, ExistingOperationStep
<1>2. CASE UNCHANGED opOf
  <2>1. ASSUME NEW j \in Keys  PROVE Accepted'[j] = Accepted[j]
    BY <1>1, <1>2 DEF Accepted
  <2> QED
    BY <2>1 DEF Accepted
<1>3. ASSUME NEW k \in Keys, NEW s \in Sessions, FinalizeAccept(k, s)
      PROVE  /\ Accepted[k] = NoSession /\ \A j \in Keys : Accepted[j] # s
             /\ Accepted' = [Accepted EXCEPT ![k] = s]
  <2>1. PICK o \in Ops :
          /\ op' = [op EXCEPT ![o] = [state |-> "processing", key |-> k, session |-> s,
                                      postId |-> NoKey, pollCount |-> 0, invalidated |-> FALSE]]
          /\ opOf' = [opOf EXCEPT ![k] = o]
    BY <1>3 DEF FinalizeAccept
  <2>2. opOf'[k] = o /\ op'[o].session = s /\ \A j \in Keys : j # k => opOf'[j] = opOf[j]
    BY <1>0, <2>1
  <2>3. opOf[k] = NoOp /\ session[s].state = "open"
    BY <1>3 DEF FinalizeAccept
  <2>4. ASSUME NEW j \in Keys  PROVE Accepted[j] # s
    BY <1>0, <1>1, <2>3 DEF Accepted, OneAcceptance
  <2>5. Accepted'[k] = s
    BY <2>2 DEF Accepted
  <2>6. ASSUME NEW j \in Keys, j # k  PROVE Accepted'[j] = Accepted[j]
    <3>1. opOf'[j] = opOf[j]
      BY <2>2, <2>6
    <3>2. CASE opOf[j] = NoOp
      BY <3>1, <3>2 DEF Accepted
    <3>3. CASE opOf[j] # NoOp
      BY <1>1, <3>1, <3>3 DEF Accepted
    <3> QED
      BY <3>2, <3>3
  <2> QED
    <3>1. Accepted[k] = NoSession
      BY <2>3 DEF Accepted
    <3>2. Accepted \in [Keys -> {Accepted[j] : j \in Keys}] /\ DOMAIN Accepted' = Keys
      BY DEF Accepted
    <3>3. Accepted' = [Accepted EXCEPT ![k] = s]
      <4> HIDE DEF Accepted
      <4>1. Accepted' = [j \in Keys |-> Accepted'[j]]
        BY DEF Accepted
      <4> QED
        BY <2>5, <2>6, <3>2, <4>1
    <3> QED
      BY <2>4, <3>1, <3>3
<1> QED
  BY <1>2, <1>3, Writers

\* The other variables of the contract grow by the intent that acts.
LEMMA GrowingSteps ==
    ASSUME InductiveInvariant, [Next]_vars
    PROVE  /\ UNCHANGED made
              \/ \E k \in Keys : /\ CreatePost(k) /\ made[k] <= erased[k]
                                 /\ made' = [made EXCEPT ![k] = made[k] + 1]
           /\ UNCHANGED erased
              \/ \E k \in Keys : /\ DeletePost(k) /\ made[k] > 0
                                 /\ erased' = [erased EXCEPT ![k] = erased[k] + 1]
           /\ UNCHANGED jobs
              \/ \E k \in Keys : /\ StartJobs(k) \/ PublishThrows(k)
                                 /\ jobs[k] < made[k] /\ jobs' = [jobs EXCEPT ![k] = jobs[k] + 1]
           /\ Counted' = Counted
              \/ \E k \in Keys, v \in Viewers :
                    /\ CountOnProfile(k) /\ made[k] > 0
                    /\ <<k, v>> \notin Counted /\ Counted' = Counted \union {<<k, v>>}
           /\ Answered' = Answered
              \/ \E k \in Keys : /\ FinalizeAnswer(k)
                                 /\ made[k] > 0 /\ Answered' = Answered \union {k}
<1>0. /\ RequestKeepsItsGround /\ JobsBehindPosts /\ OneAcceptance /\ AnsweredIsPublished
      /\ PostBehindOperation /\ CreatedOncePerDelete
      /\ made \in [Keys -> Nat] /\ erased \in [Keys -> Nat]
      /\ jobs \in [Keys -> Nat] /\ counted \in [Keys \X Viewers -> Nat]
      /\ countTimer \in [Keys -> Viewers \union {NoViewer}]
      /\ opOf \in [Keys -> Ops \union {NoOp}] /\ known \subseteq Ops
  BY DEF InductiveInvariant, TypeOK
<1>1. ASSUME NEW k \in Keys, CreatePost(k)
      PROVE  made[k] <= erased[k] /\ made' = [made EXCEPT ![k] = made[k] + 1]
  <2>1. k \notin posts /\ made[k] <= erased[k] + (IF k \in posts THEN 1 ELSE 0)
    BY <1>0, <1>1 DEF CreatePost, CreatedOncePerDelete
  <2>2. made[k] <= erased[k]
    BY <1>0, <2>1
  <2> QED
    BY <1>1, <2>2 DEF CreatePost
<1>2. ASSUME NEW k \in Keys, DeletePost(k)
      PROVE  made[k] > 0 /\ erased' = [erased EXCEPT ![k] = erased[k] + 1]
  BY <1>0, <1>2 DEF DeletePost, PostBehindOperation
<1>3. ASSUME NEW k \in Keys, StartJobs(k) \/ PublishThrows(k), jobs' # jobs
      PROVE  jobs[k] < made[k] /\ jobs' = [jobs EXCEPT ![k] = jobs[k] + 1]
  <2>1. jobs' = [jobs EXCEPT ![k] = jobs[k] + 1] /\ fin[k].place = "enqueue"
    BY <1>3 DEF StartJobs, PublishThrows
  <2> QED
    BY <1>0, <2>1 DEF RequestKeepsItsGround
<1>4. ASSUME NEW k \in Keys, CountOnProfile(k), counted' # counted
      PROVE  /\ made[k] > 0
             /\ \E v \in Viewers : <<k, v>> \notin Counted /\ Counted' = Counted \union {<<k, v>>}
  <2>1. PICK v \in Viewers : v = countTimer[k]
    BY <1>0, <1>4 DEF CountOnProfile
  <2>2. counted' = [counted EXCEPT ![<<k, v>>] = counted[<<k, v>>] + 1] /\ counted[<<k, v>>] = 0
    BY <1>4, <2>1 DEF CountOnProfile
  <2>3. made[k] > 0
    BY <1>0, <1>4 DEF CountOnProfile, JobsBehindPosts
  <2>4. <<k, v>> \in Keys \X Viewers
    OBVIOUS
  <2>5. /\ counted'[<<k, v>>] = 1
        /\ \A kv \in Keys \X Viewers : kv # <<k, v>> => counted'[kv] = counted[kv]
    BY <1>0, <2>2, <2>4
  <2>6. <<k, v>> \notin Counted
    BY <2>2 DEF Counted
  <2>7. Counted' = Counted \union {<<k, v>>}
    <3>1. \A kv \in Keys \X Viewers : kv \in Counted' <=> kv \in Counted \/ kv = <<k, v>>
      BY <2>2, <2>5 DEF Counted
    <3> QED
      BY <2>4, <3>1 DEF Counted
  <2> QED
    BY <2>3, <2>6, <2>7
<1>5. ASSUME NEW k \in Keys, FinalizeAnswer(k)
      PROVE  made[k] > 0 /\ Answered' = Answered \union {k}
  <2>1. /\ opOf[k] \in Ops /\ fin[k].op = opOf[k] /\ made[k] > 0
        /\ known' = known \union {opOf[k]} /\ opOf' = opOf
    BY <1>0, <1>5 DEF FinalizeAnswer, RequestKeepsItsGround, durable
  <2>2. ASSUME NEW j \in Keys, opOf[j] = opOf[k]  PROVE j = k
    BY <1>0, <2>1, <2>2 DEF OneAcceptance
  <2> QED
    BY <2>1, <2>2 DEF Answered
\* A new operation is not one the client knows.
<1>6. ASSUME UNCHANGED known  PROVE Answered' = Answered
  <2>1. ASSUME NEW k \in Keys, NEW s \in Sessions, FinalizeAccept(k, s)
        PROVE  /\ opOf[k] \notin known /\ opOf'[k] \notin known
               /\ \A j \in Keys : j # k => opOf'[j] = opOf[j]
    BY <1>0, <2>1 DEF FinalizeAccept, AnsweredIsPublished, Exists
  <2>2. \A j \in Keys : opOf'[j] \in known <=> opOf[j] \in known
    BY <2>1, Writers
  <2> QED
    BY <1>6, <2>2 DEF Answered
<1>7. UNCHANGED made
      \/ \E k \in Keys : /\ CreatePost(k) /\ made[k] <= erased[k]
                         /\ made' = [made EXCEPT ![k] = made[k] + 1]
  BY <1>1, Writers
<1>8. UNCHANGED erased
      \/ \E k \in Keys : /\ DeletePost(k) /\ made[k] > 0
                         /\ erased' = [erased EXCEPT ![k] = erased[k] + 1]
  BY <1>2, Writers
<1>9. UNCHANGED jobs
      \/ \E k \in Keys : /\ StartJobs(k) \/ PublishThrows(k)
                         /\ jobs[k] < made[k] /\ jobs' = [jobs EXCEPT ![k] = jobs[k] + 1]
  BY <1>3, Writers
<1>10. Counted' = Counted
       \/ \E k \in Keys, v \in Viewers :
             /\ CountOnProfile(k) /\ made[k] > 0
             /\ <<k, v>> \notin Counted /\ Counted' = Counted \union {<<k, v>>}
  <2>1. CASE counted' = counted
    BY <2>1 DEF Counted
  <2>2. CASE counted' # counted
    BY <1>4, <2>2, Writers
  <2> QED
    BY <2>1, <2>2
<1>11. Answered' = Answered
       \/ \E k \in Keys : FinalizeAnswer(k) /\ made[k] > 0 /\ Answered' = Answered \union {k}
  BY <1>5, <1>6, Writers
<1> QED
  BY <1>7, <1>8, <1>9, <1>10, <1>11

\* Every step of the control plane is a step of the publish-intent contract, or
\* leaves what the contract speaks of alone.
THEOREM Refinement == Spec => ImplementsPublishIntent
<1>1. Init => Intent!Init
  <2>1. Init => /\ Accepted = [k \in Keys |-> NoSession]
                /\ made = [k \in Keys |-> 0] /\ erased = [k \in Keys |-> 0]
                /\ jobs = [k \in Keys |-> 0] /\ Counted = {} /\ Answered = {}
    BY DEF Init, Accepted, Counted, Answered
  <2> QED
    BY <2>1 DEF Intent!Init, Accepted, Counted, Answered
<1>2. InductiveInvariant /\ [Next]_vars => [Intent!Next]_(Intent!intentVars)
  <2> SUFFICES ASSUME InductiveInvariant, [Next]_vars
               PROVE  [Intent!Next]_(Intent!intentVars)
    OBVIOUS
  <2>0. opOf \in [Keys -> Ops \union {NoOp}]
    BY DEF InductiveInvariant, TypeOK
  <2>1. ASSUME NEW k \in Keys, NEW s \in Sessions, FinalizeAccept(k, s)
        PROVE  /\ UNCHANGED <<made, erased, jobs, counted, known>> /\ opOf' # opOf
    BY <2>0, <2>1 DEF FinalizeAccept, stored
  \* Acceptance: the contract's Accept, nothing else.
  <2>2. CASE Accepted' # Accepted
    <3>1. PICK k \in Keys, s \in Sessions :
            /\ FinalizeAccept(k, s)
            /\ Accepted[k] = NoSession /\ \A j \in Keys : Accepted[j] # s
            /\ Accepted' = [Accepted EXCEPT ![k] = s]
      BY <2>2, AcceptedStep
    <3>2. made' = made /\ erased' = erased /\ jobs' = jobs /\ Counted' = Counted
      BY <2>1, <3>1 DEF Counted
    <3>3. Answered' = Answered
      <4>1. ASSUME NEW j \in Keys, FinalizeAnswer(j)  PROVE opOf' = opOf
        BY <4>1 DEF FinalizeAnswer, durable
      <4> QED
        BY <2>1, <3>1, <4>1, GrowingSteps
    <3>4. Intent!Accept(k, s)
      BY <3>1, <3>2, <3>3 DEF Intent!Accept, Accepted, Counted, Answered
    <3> QED
      BY <3>4 DEF Intent!Next
  \* Any other step changes at most one variable of the contract.
  <2>3. CASE Accepted' = Accepted
    <3>1. ASSUME NEW k \in Keys, CreatePost(k), made[k] <= erased[k],
                 made' = [made EXCEPT ![k] = made[k] + 1]
          PROVE  Intent!Publish(k)
      <4>1. /\ erased' = erased /\ jobs' = jobs /\ counted' = counted
            /\ known' = known /\ opOf' = opOf /\ opOf[k] \in Ops
        BY <3>1 DEF CreatePost, durable, seen, InductiveInvariant, RequestKeepsItsGround
      <4>2. Counted' = Counted /\ Answered' = Answered
        BY <4>1 DEF Counted, Answered
      <4>3. Accepted[k] # NoSession
        BY <4>1 DEF Accepted, InductiveInvariant, OneAcceptance
      <4> QED
        BY <2>3, <3>1, <4>1, <4>2, <4>3 DEF Intent!Publish, Accepted, Counted, Answered
    <3>2. ASSUME NEW k \in Keys, DeletePost(k), made[k] > 0,
                 erased' = [erased EXCEPT ![k] = erased[k] + 1]
          PROVE  Intent!Withdraw(k)
      <4>1. made' = made /\ jobs' = jobs /\ counted' = counted /\ known' = known /\ opOf' = opOf
        BY <3>2 DEF DeletePost, durable, seen
      <4>2. Counted' = Counted /\ Answered' = Answered
        BY <4>1 DEF Counted, Answered
      <4> QED
        BY <2>3, <3>2, <4>1, <4>2 DEF Intent!Withdraw, Accepted, Counted, Answered
    <3>3. ASSUME NEW k \in Keys, StartJobs(k) \/ PublishThrows(k),
                 jobs[k] < made[k], jobs' = [jobs EXCEPT ![k] = jobs[k] + 1]
          PROVE  Intent!StartJobs(k)
      <4>1. /\ made' = made /\ erased' = erased /\ counted' = counted
            /\ known' = known /\ opOf' = opOf
        BY <3>3 DEF StartJobs, PublishThrows, durable, seen
      <4>2. Counted' = Counted /\ Answered' = Answered
        BY <4>1 DEF Counted, Answered
      <4> QED
        BY <2>3, <3>3, <4>1, <4>2 DEF Intent!StartJobs, Accepted, Counted, Answered
    <3>4. ASSUME NEW k \in Keys, NEW v \in Viewers, CountOnProfile(k), made[k] > 0,
                 <<k, v>> \notin Counted, Counted' = Counted \union {<<k, v>>}
          PROVE  Intent!CountOnProfile(k, v)
      <4>1. made' = made /\ erased' = erased /\ jobs' = jobs /\ known' = known /\ opOf' = opOf
        BY <3>4 DEF CountOnProfile, durable, seen
      <4>2. Answered' = Answered
        BY <4>1 DEF Answered
      <4> QED
        BY <2>3, <3>4, <4>1, <4>2 DEF Intent!CountOnProfile, Accepted, Counted, Answered
    <3>5. ASSUME NEW k \in Keys, FinalizeAnswer(k), made[k] > 0, Answered' = Answered \union {k}
          PROVE  Intent!Answer(k)
      <4>1. made' = made /\ erased' = erased /\ jobs' = jobs /\ counted' = counted
        BY <3>5 DEF FinalizeAnswer, stored
      <4>2. Counted' = Counted
        BY <4>1 DEF Counted
      <4> QED
        BY <2>3, <3>5, <4>1, <4>2 DEF Intent!Answer, Accepted, Counted, Answered
    <3>6. CASE /\ made' = made /\ erased' = erased /\ jobs' = jobs
               /\ Counted' = Counted /\ Answered' = Answered
      BY <2>3, <3>6 DEF Intent!intentVars, Accepted, Counted, Answered
    <3> QED
      BY <3>1, <3>2, <3>3, <3>4, <3>5, <3>6, GrowingSteps DEF Intent!Next
  <2> QED
    BY <2>2, <2>3
<1> QED
  BY <1>1, <1>2, Invariance, PTL DEF Spec, ImplementsPublishIntent, Intent!Spec
=============================================================================
