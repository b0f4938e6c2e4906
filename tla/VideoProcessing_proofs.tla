----------------------- MODULE VideoProcessing_proofs -----------------------
(***************************************************************************)
(* The video post, for any number of workers and deferred tasks.           *)
(***************************************************************************)
EXTENDS VideoProcessing, TLAPS

USE BoundAssumption, NoPostAssumption

\* Finalize has not created the post: nothing else has happened either.
NothingBeforeCreate ==
  fin = "create" =>
    /\ post = NoPost
    /\ due = [k \in Kinds |-> 0]
    /\ \A w \in Workers : run[w].job = "none"

\* The document is missing, or a ghost, only after the author deleted it.
MissingIsRemoved ==
  /\ post = NoPost => fin = "create" \/ removed
  /\ post # NoPost /\ post.shape = "ghost" => removed

\* No document says completed, and only a replaced one says active.
DocumentIsSound ==
  post # NoPost => /\ post.videoProcessingStatus # "completed"
                   /\ post.lifecycle = "active" => post.shape = "compact"

\* A run about to write has its variants, and what it read was sound.
RunIsSound(r) ==
  /\ r.snapshot.lifecycle = "active" => r.snapshot.shape = "compact"
  /\ r.job = "faststart" /\ r.pc \in {"enqueue", "write"} => "startup" \in r.out
RunsAreSound == \A w \in Workers : RunIsSound(run[w])

\* A source without an upgrade has no deferred task, and then a replaced
\* document is playable.
NoUpgradeNoTask ==
  ~tall => /\ due["deferred"] = 0
           /\ \A w \in Workers : run[w].job # "deferred"
           /\ post # NoPost /\ post.shape = "compact" => "startup" \in post.media

\* The task is there before finalize ends.
QueuedIsHeld ==
  fin \in {"queued", "done"} /\ ~removed /\ ~tall => Playable \/ due["faststart"] > 0

Inv == /\ TypeOK /\ NothingBeforeCreate /\ MissingIsRemoved /\ DocumentIsSound
       /\ RunsAreSound /\ NoUpgradeNoTask /\ QueuedIsHeld
       /\ CompleteIsTrue
----------------------------------------------------------------------------
(* Types                                                                   *)

LEMMA ConstantDocs == NewPost \in Docs /\ Ghost \in Docs /\ Idle \in Jobs
BY DEF NewPost, Ghost, Idle, Docs, Jobs, Snapshots, Read, Variants

LEMMA CurrentType == ASSUME TypeOK PROVE Current \in Docs
BY ConstantDocs DEF TypeOK, Current

LEMMA ReadType == ASSUME NEW d \in Docs PROVE Read(d) \in Snapshots
BY DEF Docs, Snapshots, Read

LEMMA LiveType ==
  ASSUME NEW media \in SUBSET Variants,
         NEW lc \in {"none", "processing", "active"},
         NEW ph \in {"none", "pending", "encoding", "complete", "skipped", "failed"}
  PROVE  Live(media, lc, ph) \in Docs
BY DEF Live, Docs

LEMMA SettleType ==
  ASSUME TypeOK, NEW w \in Workers, NEW ok \in BOOLEAN, run[w].job \in Kinds,
         Answer(w, ok)
  PROVE  /\ run' \in [Workers -> Jobs] /\ due' \in [Kinds -> Nat]
         /\ fin' \in {"create", "sync", "waiting", "verify", "enqueue", "queued",
                      "refused", "done", "notQueued", "stopped"}
BY ConstantDocs DEF Answer, Settle, TypeOK

LEMMA GotoType ==
  ASSUME TypeOK, NEW w \in Workers,
         NEW pc \in {"read", "mark", "encode", "enqueue", "probe", "write", "fail"},
         Goto(w, pc)
  PROVE  run' \in [Workers -> Jobs]
BY DEF Goto, TypeOK, Jobs

LEMMA BeginType ==
  ASSUME TypeOK, NEW w \in Workers, NEW k \in Kinds, NEW c \in {"task", "finalize"},
         Begin(w, k, c)
  PROVE  run' \in [Workers -> Jobs]
<1>1. [Idle EXCEPT !.job = k, !.caller = c] \in Jobs
  BY ConstantDocs DEF Jobs, Kinds
<1> QED
  BY <1>1 DEF Begin, TypeOK

\* A run that has read the document keeps it as its snapshot.
LEMMA SnapshotType ==
  ASSUME TypeOK, NEW w \in Workers, post \in Docs,
         NEW pc \in {"read", "mark", "encode", "enqueue", "probe", "write", "fail"},
         run' = [run EXCEPT ![w].pc = pc, ![w].snapshot = Read(post)]
  PROVE  run' \in [Workers -> Jobs]
<1>1. run[w] \in Jobs
  BY DEF TypeOK
<1>2. Read(post) \in Snapshots
  BY ReadType
<1>3. [run[w] EXCEPT !.pc = pc, !.snapshot = Read(post)] \in Jobs
  BY <1>1, <1>2 DEF Jobs
<1> QED
  BY <1>3 DEF TypeOK

LEMMA RunType ==
  ASSUME TypeOK, NEW w \in Workers
  PROVE  run[w] \in Jobs /\ run[w].snapshot \in Snapshots /\ run[w].out \in SUBSET Variants
BY DEF TypeOK, Jobs

\* A step keeps the types.
LEMMA TypeStep == TypeOK /\ [Next]_vars => TypeOK'
<1> SUFFICES ASSUME TypeOK, [Next]_vars PROVE TypeOK'
  OBVIOUS
<1> USE ConstantDocs, CurrentType
<1>1. CASE CreatePost
  BY <1>1 DEF CreatePost, TypeOK
<1>2. CASE SyncFails
  BY <1>2 DEF SyncFails, TypeOK
<1>3. CASE VerifyInstantPlayback
  BY <1>3 DEF VerifyInstantPlayback, TypeOK
<1>4. CASE EnqueueFaststart
  BY <1>4 DEF EnqueueFaststart, TypeOK, Kinds
<1>5. CASE UpdateAfterEnqueue
  <2>1. post' \in Docs \union {NoPost}
    BY <1>5 DEF UpdateAfterEnqueue, TypeOK, Docs
  <2> QED
    BY <1>5, <2>1 DEF UpdateAfterEnqueue, TypeOK
<1>6. CASE FinalizeDies
  BY <1>6 DEF FinalizeDies, TypeOK
<1>7. ASSUME NEW w \in Workers, TriggerSync(w) PROVE TypeOK'
  BY <1>7, BeginType DEF TriggerSync, TypeOK, Kinds
<1>8. ASSUME NEW w \in Workers, NEW k \in Kinds, Deliver(w, k) PROVE TypeOK'
  BY <1>8, BeginType DEF Deliver, TypeOK
<1>9. ASSUME NEW w \in Workers, WorkerDies(w) PROVE TypeOK'
  BY <1>9, SettleType, RunType DEF WorkerDies, TypeOK, Jobs
<1>10. ASSUME NEW w \in Workers, Faststart(w) PROVE TypeOK'
  <2> USE RunType
  <2>1. CASE ReadForFaststart(w)
    <3>1. CASE Answer(w, FALSE) \/ Answer(w, TRUE)
      BY <2>1, <3>1, SettleType DEF ReadForFaststart, At, TypeOK, Kinds
    <3>2. CASE /\ post # NoPost
               /\ run' = [run EXCEPT ![w].pc = "mark", ![w].snapshot = Read(post)]
               /\ UNCHANGED <<fin, due>>
      <4>1. run' \in [Workers -> Jobs]
        BY <3>2, SnapshotType DEF TypeOK
      <4> QED
        BY <2>1, <3>2, <4>1 DEF ReadForFaststart, TypeOK
    <3> QED
      BY <2>1, <3>1, <3>2 DEF ReadForFaststart
  <2>2. CASE MarkProcessing(w)
    <3>1. post' \in Docs
      BY <2>2 DEF MarkProcessing, WithLab, Docs, Snapshots
    <3> QED
      BY <2>2, <3>1, GotoType DEF MarkProcessing, TypeOK
  <2>3. CASE EncodeStartup(w)
    <3>1. post' \in Docs \union {NoPost}
      BY <2>3 DEF EncodeStartup, WithLab, Docs, Snapshots, TypeOK
    <3>2. run' \in [Workers -> Jobs]
      BY <2>3, GotoType DEF EncodeStartup, TypeOK, Jobs, Variants
    <3> QED
      BY <2>3, <3>1, <3>2 DEF EncodeStartup, TypeOK
  <2>4. CASE EnqueueUpgrade(w)
    BY <2>4, GotoType DEF EnqueueUpgrade, TypeOK, Kinds
  <2>5. CASE WriteReady(w)
    <3>1. post' \in Docs
      BY <2>5, LiveType DEF WriteReady, Snapshots
    <3> QED
      BY <2>5, <3>1, SettleType DEF WriteReady, TypeOK, At, Kinds
  <2>6. CASE WriteReadyThrows(w)
    BY <2>6, GotoType DEF WriteReadyThrows, TypeOK
  <2>7. CASE MarkFailed(w)
    <3>1. post' \in Docs
      BY <2>7 DEF MarkFailed, WithLab, Docs, Snapshots
    <3> QED
      BY <2>7, <3>1, SettleType DEF MarkFailed, TypeOK, At, Kinds
  <2> QED
    BY <1>10, <2>1, <2>2, <2>3, <2>4, <2>5, <2>6, <2>7 DEF Faststart
<1>11. ASSUME NEW w \in Workers, Upgrade(w) PROVE TypeOK'
  <2> USE RunType
  <2>1. CASE ReadForUpgrade(w)
    <3>1. CASE Answer(w, FALSE) \/ Answer(w, TRUE)
      BY <2>1, <3>1, SettleType DEF ReadForUpgrade, At, TypeOK, Kinds
    <3>2. CASE /\ Current.shape # "ghost"
               /\ run' = [run EXCEPT ![w].pc = "probe", ![w].snapshot = Read(post)]
               /\ UNCHANGED <<fin, due>>
      <4>1. post # NoPost
        BY <3>2 DEF Current, Ghost
      <4>2. run' \in [Workers -> Jobs]
        BY <3>2, <4>1, SnapshotType DEF TypeOK
      <4> QED
        BY <2>1, <3>2, <4>2 DEF ReadForUpgrade, TypeOK
    <3> QED
      BY <2>1, <3>1, <3>2 DEF ReadForUpgrade
  <2>2. CASE ProbeSource(w)
    <3>1. post' \in Docs \union {NoPost}
      BY <2>2 DEF ProbeSource, Docs, TypeOK
    <3> QED
      BY <2>2, <3>1, GotoType, SettleType DEF ProbeSource, TypeOK, At, Kinds
  <2>3. CASE WriteUpgraded(w)
    <3>1. UpgradedMedia(run[w].snapshot) \in SUBSET Variants
      BY DEF UpgradedMedia, Snapshots, Variants
    <3>2. post' \in Docs
      BY <2>3, <3>1, LiveType DEF WriteUpgraded, Snapshots
    <3> QED
      BY <2>3, <3>2, SettleType DEF WriteUpgraded, TypeOK, At, Kinds
  <2>4. CASE UpgradeThrows(w)
    BY <2>4, GotoType, SettleType DEF UpgradeThrows, TypeOK, At, Kinds
  <2>5. CASE MarkUpgradeFailed(w)
    <3>1. post' \in Docs
      BY <2>5 DEF MarkUpgradeFailed, Docs
    <3> QED
      BY <2>5, <3>1, SettleType DEF MarkUpgradeFailed, TypeOK, At, Kinds
  <2> QED
    BY <1>11, <2>1, <2>2, <2>3, <2>4, <2>5 DEF Upgrade
<1>13. CASE DeletePost
  BY <1>13 DEF DeletePost, TypeOK
<1>14. CASE UNCHANGED vars
  BY <1>14 DEF vars, TypeOK
<1> QED
  BY <1>1, <1>2, <1>3, <1>4, <1>5, <1>6, <1>7, <1>8, <1>9, <1>10, <1>11, <1>13,
     <1>14 DEF Next, Finalize
----------------------------------------------------------------------------
(* The invariant                                                           *)

\* What an answer does, whoever waits for it.
LEMMA SettleEffect ==
  ASSUME TypeOK, NEW w \in Workers, NEW ok \in BOOLEAN, run[w].job \in Kinds,
         Answer(w, ok)
  PROVE  /\ \A v \in Workers : run'[v] = run[v] \/ run'[v] = Idle
         /\ fin' = fin \/ fin' \in {"verify", "enqueue"}
         /\ fin' = "create" => fin = "create"
         /\ ~ok => due' = due
         /\ \A k \in Kinds : k # run[w].job \/ due[k] = 0 => due'[k] = due[k]
BY DEF Answer, Settle, TypeOK

\* A merge into the document keeps its shape, its media and its lifecycle,
\* and never says completed.
MergeOf(d) ==
  /\ post' \in Docs
  /\ post'.shape = d.shape /\ post'.media = d.media
  /\ post'.lifecycle = d.lifecycle
  /\ post'.videoProcessingStatus # "completed"
  /\ post'.upgradePhase = "complete" => d.upgradePhase = "complete"

\* What a merge preserves of the invariant.
LEMMA MergeKeeps ==
  ASSUME Inv, MergeOf(Current), post' # NoPost, post # NoPost \/ removed,
         UNCHANGED <<removed, tall>>
  PROVE  /\ MissingIsRemoved' /\ DocumentIsSound' /\ CompleteIsTrue'
         /\ Playable => Playable'
         /\ tall \/ (post'.shape = "compact" => "startup" \in post'.media)
<1> USE DEF Inv, MergeOf
<1>1. CASE post = NoPost
  <2>1. Current = Ghost
    BY <1>1 DEF Current
  <2> QED
    BY <1>1, <2>1 DEF Ghost, MissingIsRemoved, DocumentIsSound, CompleteIsTrue, Playable
<1>2. CASE post # NoPost
  <2>1. Current = post
    BY <1>2 DEF Current
  <2> QED
    BY <1>2, <2>1 DEF MissingIsRemoved, DocumentIsSound, CompleteIsTrue, Playable, NoUpgradeNoTask
<1> QED
  BY <1>1, <1>2

\* While something runs, the post was created.
LEMMA RunningIsCreated ==
  ASSUME Inv, NEW w \in Workers, run[w].job # "none"
  PROVE  fin # "create" /\ (post # NoPost \/ removed)
BY DEF Inv, NothingBeforeCreate, MissingIsRemoved

LEMMA IdleIsSound == RunIsSound(Idle) /\ Idle.job = "none"
BY DEF RunIsSound, Idle, Read, Ghost

\* What the runs' part of the invariant asks of a step of one run.
LEMMA OneRunMoves ==
  ASSUME Inv, NEW w \in Workers, NEW r \in Jobs, run' = [run EXCEPT ![w] = r],
         RunIsSound(r), fin # "create",
         tall \/ r.job # "deferred"
  PROVE  /\ RunsAreSound'
         /\ tall \/ (\A v \in Workers : run'[v].job # "deferred")
BY DEF Inv, RunsAreSound, TypeOK, NoUpgradeNoTask

\* An answer, after a write that kept what it must keep.
LEMMA AnswerKeeps ==
  ASSUME Inv, TypeOK', NEW w \in Workers, NEW ok \in BOOLEAN, run[w].job \in Kinds,
         Answer(w, ok), UNCHANGED <<removed, tall>>,
         Playable => Playable' \/ tall,
         ok => Playable' \/ run[w].job = "deferred",
         tall \/ (post' # NoPost /\ post'.shape = "compact" => "startup" \in post'.media)
  PROVE  NothingBeforeCreate' /\ RunsAreSound' /\ NoUpgradeNoTask' /\ QueuedIsHeld'
<1> USE SettleEffect, IdleIsSound, RunningIsCreated
<1>1. fin # "create" /\ fin' # "create"
  BY DEF Inv, Kinds
<1>2. RunsAreSound'
  BY DEF Inv, RunsAreSound
<1>3. NoUpgradeNoTask'
  BY DEF Inv, NoUpgradeNoTask, Kinds, TypeOK
<1>4. QueuedIsHeld'
  BY DEF Inv, QueuedIsHeld, NoUpgradeNoTask, Kinds, TypeOK
<1> QED
  BY <1>1, <1>2, <1>3, <1>4 DEF NothingBeforeCreate

\* Finalize's own steps.
LEMMA FinalizeKeeps ==
  ASSUME Inv, TypeOK', CreatePost \/ SyncFails \/ VerifyInstantPlayback \/ EnqueueFaststart
                       \/ UpdateAfterEnqueue \/ FinalizeDies
  PROVE  Inv'
<1> USE DEF Inv
<1>1. CASE CreatePost
  <2>1. post' = NewPost /\ post' # NoPost /\ fin' # "create"
    BY <1>1, ConstantDocs DEF CreatePost, NothingBeforeCreate
  <2>3. MissingIsRemoved' /\ DocumentIsSound' /\ CompleteIsTrue'
    BY <2>1 DEF MissingIsRemoved, DocumentIsSound, CompleteIsTrue, NewPost
  <2>4. NothingBeforeCreate' /\ RunsAreSound' /\ NoUpgradeNoTask' /\ QueuedIsHeld'
    BY <1>1, <2>1 DEF CreatePost, NothingBeforeCreate, RunsAreSound, NoUpgradeNoTask,
                      QueuedIsHeld, NewPost
  <2> QED
    BY <2>3, <2>4
<1>2. CASE UpdateAfterEnqueue
  <2>1. /\ MissingIsRemoved' /\ DocumentIsSound' /\ CompleteIsTrue'
        /\ Playable <=> Playable'
        /\ post' # NoPost /\ post'.shape = "compact" =>
             post # NoPost /\ post.shape = "compact" /\ post'.media = post.media
    <3>1. CASE post = NoPost
      BY <1>2, <3>1 DEF UpdateAfterEnqueue, MissingIsRemoved, DocumentIsSound, CompleteIsTrue, Playable
    <3>2. CASE post # NoPost
      <4>1. post \in Docs
        BY <3>2 DEF TypeOK
      <4>2. MergeOf(post) /\ post' # NoPost /\ Current = post
        BY <1>2, <3>2, <4>1 DEF UpdateAfterEnqueue, MergeOf, Docs, TypeOK, Current
      <4>3. UNCHANGED <<removed, tall>>
        BY <1>2 DEF UpdateAfterEnqueue
      <4> QED
        BY <3>2, <4>2, <4>3, MergeKeeps DEF MergeOf, Playable
    <3> QED
      BY <3>1, <3>2
  <2>2. NothingBeforeCreate' /\ RunsAreSound' /\ NoUpgradeNoTask' /\ QueuedIsHeld'
    BY <1>2, <2>1 DEF UpdateAfterEnqueue, NothingBeforeCreate, RunsAreSound, NoUpgradeNoTask,
                      QueuedIsHeld
  <2> QED
    BY <2>1, <2>2
<1>3. CASE SyncFails \/ VerifyInstantPlayback \/ EnqueueFaststart \/ FinalizeDies
  <2>1. UNCHANGED <<post, removed, tall, run>> /\ fin # "create" /\ fin' # "create"
    BY <1>3 DEF SyncFails, VerifyInstantPlayback, EnqueueFaststart, FinalizeDies
  <2>2. MissingIsRemoved' /\ DocumentIsSound' /\ CompleteIsTrue'
    BY <2>1 DEF MissingIsRemoved, DocumentIsSound,
       CompleteIsTrue
  <2>3. NothingBeforeCreate' /\ RunsAreSound'
    BY <2>1 DEF NothingBeforeCreate, RunsAreSound
  <2>4. due'["deferred"] = due["deferred"] /\ due'["faststart"] >= due["faststart"]
    BY <1>3 DEF SyncFails, VerifyInstantPlayback, EnqueueFaststart, FinalizeDies, TypeOK, Kinds
  <2>5. NoUpgradeNoTask'
    BY <2>1, <2>4 DEF NoUpgradeNoTask
  <2>6. QueuedIsHeld'
    <3>1. CASE VerifyInstantPlayback
      <4>1. fin' = "done" => post # NoPost /\ Current.shape # "native" /\ Current = post
        BY <3>1 DEF VerifyInstantPlayback, Current
      <4>2. fin' = "done" /\ ~removed /\ ~tall => Playable
        BY <4>1 DEF MissingIsRemoved, NoUpgradeNoTask, Playable, TypeOK, Docs
      <4> QED
        BY <2>1, <4>2, <3>1 DEF QueuedIsHeld, Playable, VerifyInstantPlayback
    <3>2. CASE EnqueueFaststart
      BY <3>2, <2>1 DEF EnqueueFaststart, QueuedIsHeld, Playable, TypeOK, Kinds
    <3>3. CASE SyncFails \/ FinalizeDies
      BY <3>3, <2>1 DEF SyncFails, FinalizeDies, QueuedIsHeld, Playable
    <3> QED
      BY <1>3, <3>1, <3>2, <3>3
  <2> QED
    BY <2>2, <2>3, <2>5, <2>6
<1> QED
  BY <1>1, <1>2, <1>3

\* A run begins, from finalize or from the queue.
LEMMA BeginKeeps ==
  ASSUME Inv, TypeOK', NEW w \in Workers,
         TriggerSync(w) \/ \E k \in Kinds : Deliver(w, k)
  PROVE  Inv'
<1> USE DEF Inv
<1>1. PICK k \in Kinds, c \in {"task", "finalize"} :
        /\ Begin(w, k, c)
        /\ k = "deferred" => due["deferred"] > 0
        /\ k = "faststart" \/ k = "deferred"
        /\ fin # "create"
  BY DEF TriggerSync, Deliver, Kinds, NothingBeforeCreate
<1>2. UNCHANGED <<post, removed, tall, due>> /\ fin' # "create"
      /\ (fin' \in {"queued", "done"} => fin \in {"queued", "done"})
  BY <1>1 DEF TriggerSync, Deliver
<1> DEFINE r == [Idle EXCEPT !.job = k, !.caller = c]
<1>3. r \in Jobs /\ RunIsSound(r) /\ r.job = k /\ run' = [run EXCEPT ![w] = r]
  <2>1. r \in Jobs
    BY ConstantDocs DEF Jobs, Kinds
  <2>2. r.job = k /\ r.pc = "read" /\ r.snapshot = Read(Ghost)
    BY DEF Idle
  <2>3. RunIsSound(r)
    BY <2>2 DEF RunIsSound, Read, Ghost
  <2> QED
    BY <1>1, <2>1, <2>2, <2>3 DEF Begin
<1>4. tall \/ k # "deferred"
  BY <1>1 DEF NoUpgradeNoTask
<1>5. RunsAreSound' /\ (tall \/ (\A v \in Workers : run'[v].job # "deferred"))
  BY <1>1, <1>3, <1>4, OneRunMoves
<1> QED
  BY <1>1, <1>2, <1>5 DEF NothingBeforeCreate, MissingIsRemoved, DocumentIsSound, NoUpgradeNoTask,
     QueuedIsHeld, Playable, CompleteIsTrue

\* A run that is not answered yet goes on, after a write that kept what it
\* must keep; only the enqueue of an upgrade touches due.
LEMMA GoOnKeeps ==
  ASSUME Inv, TypeOK', NEW w \in Workers, NEW r \in Jobs, run[w].job \in Kinds,
         run' = [run EXCEPT ![w] = r], r.job = run[w].job, RunIsSound(r),
         UNCHANGED <<removed, tall, fin>>,
         due' = due \/ (tall /\ due' = [due EXCEPT !["deferred"] = @ + 1]),
         \/ UNCHANGED post
         \/ MergeOf(Current) /\ post' # NoPost
  PROVE  Inv'
<1> USE DEF Inv
<1>1. fin # "create" /\ fin' # "create" /\ (post # NoPost \/ removed)
  BY RunningIsCreated DEF Kinds
<1>2. tall \/ r.job # "deferred"
  BY DEF NoUpgradeNoTask
<1>3. RunsAreSound' /\ (tall \/ (\A v \in Workers : run'[v].job # "deferred"))
  BY <1>1, <1>2, OneRunMoves
<1>4. /\ MissingIsRemoved' /\ DocumentIsSound' /\ CompleteIsTrue'
      /\ Playable => Playable'
      /\ tall \/ (post' # NoPost /\ post'.shape = "compact" => "startup" \in post'.media)
  <2>1. CASE UNCHANGED post
    BY <1>1, <2>1 DEF MissingIsRemoved, DocumentIsSound, CompleteIsTrue, Playable, NoUpgradeNoTask
  <2>2. CASE MergeOf(Current) /\ post' # NoPost
    BY <1>1, <2>2, MergeKeeps
  <2> QED
    BY <2>1, <2>2
<1>5. NoUpgradeNoTask'
  BY <1>3, <1>4 DEF NoUpgradeNoTask
<1>6. QueuedIsHeld'
  BY <1>4 DEF QueuedIsHeld, TypeOK, Kinds
<1> QED
  BY <1>1, <1>3, <1>4, <1>5, <1>6 DEF NothingBeforeCreate

\* The same when the run goes on at another await.
LEMMA GotoKeeps ==
  ASSUME Inv, TypeOK', NEW w \in Workers, run[w].job \in Kinds,
         NEW pc \in {"encode", "probe", "write", "fail"}, Goto(w, pc),
         run[w].job = "faststart" /\ pc = "write" => "startup" \in run[w].out,
         UNCHANGED <<removed, tall, fin>>,
         due' = due \/ (tall /\ due' = [due EXCEPT !["deferred"] = @ + 1]),
         \/ UNCHANGED post
         \/ MergeOf(Current) /\ post' # NoPost
  PROVE  Inv'
<1> DEFINE r == [run[w] EXCEPT !.pc = pc]
<1>1. TypeOK /\ RunIsSound(run[w])
  BY DEF Inv, RunsAreSound
<1>2. r \in Jobs /\ r.job = run[w].job /\ r.pc = pc /\ r.out = run[w].out
      /\ r.snapshot = run[w].snapshot /\ run' = [run EXCEPT ![w] = r]
  BY <1>1 DEF TypeOK, Jobs, Goto
<1>3. RunIsSound(r)
  BY <1>1, <1>2 DEF RunIsSound
<1> HIDE DEF r
<1> QED
  BY <1>2, <1>3, GoOnKeeps

\* A run that ends with an error, or with nothing to do.
LEMMA EndKeeps ==
  ASSUME Inv, TypeOK', NEW w \in Workers, NEW ok \in BOOLEAN, run[w].job \in Kinds,
         Answer(w, ok), ok => run[w].job = "deferred",
         UNCHANGED <<removed, tall>>,
         UNCHANGED post \/ (MergeOf(Current) /\ post' # NoPost)
  PROVE  Inv'
<1> USE DEF Inv
<1>1. fin # "create" /\ fin' # "create" /\ (post # NoPost \/ removed)
  BY RunningIsCreated, SettleEffect DEF Kinds
<1>2. /\ MissingIsRemoved' /\ DocumentIsSound' /\ CompleteIsTrue'
      /\ Playable => Playable'
      /\ tall \/ (post' # NoPost /\ post'.shape = "compact" => "startup" \in post'.media)
  <2>1. CASE UNCHANGED post
    BY <1>1, <2>1 DEF MissingIsRemoved, DocumentIsSound, CompleteIsTrue, Playable, NoUpgradeNoTask
  <2>2. CASE MergeOf(Current) /\ post' # NoPost
    BY <1>1, <2>2, MergeKeeps
  <2> QED
    BY <2>1, <2>2
<1> QED
  BY <1>2, AnswerKeeps

\* The documents that a run merges into, and what it replaces them by.
LEMMA MergesAre ==
  ASSUME Inv, NEW w \in Workers,
         \/ post' = WithLab(w) \/ post' = [WithLab(w) EXCEPT !.videoProcessingStatus = "processing"]
         \/ post' = [WithLab(w) EXCEPT !.videoProcessingStatus = "failed", !.lab = @ \union run[w].out]
         \/ \E ph \in {"encoding", "skipped", "failed"} : post' = [Current EXCEPT !.upgradePhase = ph]
  PROVE  MergeOf(Current) /\ post' # NoPost
<1>1. Current \in Docs /\ Current.videoProcessingStatus # "completed"
  BY CurrentType DEF Inv, DocumentIsSound, Current, Ghost
<1>2. run[w].snapshot.lab \in SUBSET Variants /\ run[w].out \in SUBSET Variants
  BY RunType DEF Inv, Snapshots
<1> DEFINE D == WithLab(w)
<1>3. /\ D \in Docs /\ D.shape = Current.shape /\ D.media = Current.media
      /\ D.lifecycle = Current.lifecycle
      /\ D.videoProcessingStatus # "completed" /\ D.upgradePhase = Current.upgradePhase
  BY <1>1, <1>2 DEF WithLab, Docs
<1> HIDE DEF D
<1>4. MergeOf(Current)
  <2>1. CASE post' = D
    BY <1>3, <2>1 DEF MergeOf
  <2>2. CASE post' = [D EXCEPT !.videoProcessingStatus = "processing"]
    BY <1>3, <2>2 DEF MergeOf, Docs
  <2>3. CASE post' = [D EXCEPT !.videoProcessingStatus = "failed", !.lab = @ \union run[w].out]
    BY <1>2, <1>3, <2>3 DEF MergeOf, Docs
  <2>4. CASE \E ph \in {"encoding", "skipped", "failed"} : post' = [Current EXCEPT !.upgradePhase = ph]
    BY <1>1, <2>4 DEF MergeOf, Docs
  <2> QED
    BY <2>1, <2>2, <2>3, <2>4 DEF D
<1> QED
  BY <1>4 DEF MergeOf

\* A live write that answers ok.
LEMMA LiveKeeps ==
  ASSUME Inv, TypeOK', NEW w \in Workers, run[w].job \in Kinds, Answer(w, TRUE),
         NEW media \in SUBSET Variants, NEW lc, NEW ph,
         post' = Live(media, lc, ph), post' \in Docs,
         UNCHANGED <<removed, tall>>,
         lc = "active" /\ ph = "complete" => "upgrade" \in media,
         run[w].job = "deferred" \/ "startup" \in media
  PROVE  Inv'
<1> USE DEF Inv
<1>1. fin # "create" /\ fin' # "create" /\ (post # NoPost \/ removed)
  BY RunningIsCreated, SettleEffect DEF Kinds
<1>2. /\ post' # NoPost /\ post'.shape = "compact" /\ post'.media = media
      /\ post'.videoProcessingStatus = "none" /\ post'.lifecycle = lc /\ post'.upgradePhase = ph
  BY DEF Live
<1>3. MissingIsRemoved' /\ DocumentIsSound' /\ CompleteIsTrue'
  BY <1>2 DEF MissingIsRemoved, DocumentIsSound, CompleteIsTrue
<1>4. tall \/ "startup" \in media
  BY DEF NoUpgradeNoTask
<1>5. (run[w].job = "deferred" /\ tall) \/ Playable'
  BY <1>2, <1>4 DEF Playable, NoUpgradeNoTask
<1>6. NothingBeforeCreate' /\ RunsAreSound' /\ NoUpgradeNoTask' /\ QueuedIsHeld'
  BY <1>2, <1>4, <1>5, AnswerKeeps
<1> QED
  BY <1>3, <1>6

\* Every step of a fast-start run.
LEMMA FaststartKeeps ==
  ASSUME Inv, TypeOK', NEW w \in Workers, Faststart(w)
  PROVE  Inv'
<1>0. TypeOK /\ run[w] \in Jobs /\ run[w].out \in SUBSET Variants /\ RunIsSound(run[w])
      /\ run[w].snapshot \in Snapshots
  BY RunType DEF Inv, RunsAreSound
<1>1. run[w].job = "faststart" /\ run[w].job \in Kinds
  BY DEF Faststart, ReadForFaststart, MarkProcessing, EncodeStartup, EnqueueUpgrade,
         WriteReady, WriteReadyThrows, MarkFailed, At, Kinds
<1>2. CASE ReadForFaststart(w)
  <2>0. UNCHANGED <<post, removed, tall>>
    BY <1>2 DEF ReadForFaststart
  <2>1. CASE Answer(w, FALSE)
    BY <1>1, <2>0, <2>1, EndKeeps
  <2>2. CASE post # NoPost /\ IsCompleted(post)
    BY <2>2 DEF Inv, DocumentIsSound, IsCompleted
  <2>3. CASE /\ post # NoPost
             /\ run' = [run EXCEPT ![w].pc = "mark", ![w].snapshot = Read(post)]
             /\ UNCHANGED <<fin, due>>
    <3> DEFINE r == [run[w] EXCEPT !.pc = "mark", !.snapshot = Read(post)]
    <3>1. post \in Docs /\ (post.lifecycle = "active" => post.shape = "compact")
      BY <2>3 DEF Inv, TypeOK, DocumentIsSound
    <3>2. run' = [run EXCEPT ![w] = r] /\ r \in Jobs /\ r.job = run[w].job /\ r.pc = "mark"
          /\ r.snapshot = Read(post)
      BY <1>0, <2>3, <3>1, ReadType DEF Jobs, TypeOK
    <3>3. RunIsSound(r)
      BY <3>1, <3>2 DEF RunIsSound, Read
    <3> HIDE DEF r
    <3> QED
      BY <1>1, <2>0, <2>3, <3>2, <3>3, GoOnKeeps
  <2> QED
    BY <1>2, <2>1, <2>2, <2>3 DEF ReadForFaststart
<1>3. CASE MarkProcessing(w)
  BY <1>1, <1>3, MergesAre, GotoKeeps DEF MarkProcessing
<1>4. CASE EncodeStartup(w)
  <2>1. UNCHANGED post \/ (MergeOf(Current) /\ post' # NoPost)
    BY <1>4, MergesAre DEF EncodeStartup
  <2>2. UNCHANGED <<removed, tall, fin, due>>
    BY <1>4 DEF EncodeStartup
  <2>3. CASE Goto(w, "fail")
    BY <1>1, <2>1, <2>2, <2>3, GotoKeeps
  <2>4. CASE run' = [run EXCEPT ![w].pc = "enqueue", ![w].out = {"startup"}]
    <3> DEFINE r == [run[w] EXCEPT !.pc = "enqueue", !.out = {"startup"}]
    <3>1. run' = [run EXCEPT ![w] = r] /\ r \in Jobs /\ r.job = run[w].job
          /\ r.snapshot = run[w].snapshot /\ r.out = {"startup"}
      BY <1>0, <2>4 DEF Jobs, TypeOK, Variants
    <3>2. RunIsSound(r)
      BY <1>0, <3>1 DEF RunIsSound
    <3> HIDE DEF r
    <3> QED
      BY <1>1, <2>1, <2>2, <3>1, <3>2, GoOnKeeps
  <2> QED
    BY <1>4, <2>3, <2>4 DEF EncodeStartup
<1>5. CASE EnqueueUpgrade(w)
  <2>1. "startup" \in run[w].out
    BY <1>0, <1>5 DEF EnqueueUpgrade, At, RunIsSound
  <2> QED
    BY <1>1, <1>5, <2>1, GotoKeeps DEF EnqueueUpgrade
<1>6. CASE WriteReady(w)
  <2> DEFINE media == run[w].snapshot.media \union run[w].out
             ph == IF tall THEN "pending" ELSE "skipped"
  <2>1. media \in SUBSET Variants /\ "startup" \in media
    BY <1>0, <1>6 DEF WriteReady, At, RunIsSound, Snapshots
  <2>2. /\ post' = Live(media, "active", ph) /\ Answer(w, TRUE)
        /\ UNCHANGED <<removed, tall>> /\ ph # "complete"
    BY <1>6 DEF WriteReady
  <2>3. post' \in Docs
    BY <1>0, <2>1, <2>2, LiveType
  <2> HIDE DEF media, ph
  <2> QED
    BY <1>1, <2>1, <2>2, <2>3, LiveKeeps
<1>7. CASE WriteReadyThrows(w)
  BY <1>1, <1>7, GotoKeeps DEF WriteReadyThrows
<1>8. CASE MarkFailed(w)
  BY <1>1, <1>8, MergesAre, EndKeeps DEF MarkFailed
<1> QED
  BY <1>2, <1>3, <1>4, <1>5, <1>6, <1>7, <1>8 DEF Faststart

\* Every step of a run of the deferred upgrade.
LEMMA UpgradeKeeps ==
  ASSUME Inv, TypeOK', NEW w \in Workers, Upgrade(w)
  PROVE  Inv'
<1>0. TypeOK /\ run[w] \in Jobs /\ RunIsSound(run[w]) /\ run[w].snapshot \in Snapshots
  BY RunType DEF Inv, RunsAreSound
<1>1. run[w].job = "deferred" /\ run[w].job \in Kinds
  BY DEF Upgrade, ReadForUpgrade, ProbeSource, WriteUpgraded, UpgradeThrows,
         MarkUpgradeFailed, At, Kinds
<1>2. CASE ReadForUpgrade(w)
  <2>0. UNCHANGED <<post, removed, tall>>
    BY <1>2 DEF ReadForUpgrade
  <2>1. CASE Answer(w, FALSE) \/ Answer(w, TRUE)
    BY <1>1, <2>0, <2>1, EndKeeps
  <2>2. CASE /\ Current.shape # "ghost"
             /\ run' = [run EXCEPT ![w].pc = "probe", ![w].snapshot = Read(post)]
             /\ UNCHANGED <<fin, due>>
    <3> DEFINE r == [run[w] EXCEPT !.pc = "probe", !.snapshot = Read(post)]
    <3>1. post # NoPost
      BY <2>2 DEF Current, Ghost
    <3>2. post \in Docs /\ (post.lifecycle = "active" => post.shape = "compact")
      BY <3>1 DEF Inv, TypeOK, DocumentIsSound
    <3>3. run' = [run EXCEPT ![w] = r] /\ r \in Jobs /\ r.job = run[w].job
          /\ r.pc = "probe" /\ r.snapshot = Read(post)
      BY <1>0, <2>2, <3>2, ReadType DEF Jobs, TypeOK
    <3>4. RunIsSound(r)
      BY <3>2, <3>3 DEF RunIsSound, Read
    <3> HIDE DEF r
    <3> QED
      BY <1>1, <2>0, <2>2, <3>3, <3>4, GoOnKeeps
  <2> QED
    BY <1>2, <2>1, <2>2 DEF ReadForUpgrade
<1>3. CASE ProbeSource(w)
  <2>1. UNCHANGED post \/ (MergeOf(Current) /\ post' # NoPost)
    BY <1>3, MergesAre DEF ProbeSource
  <2>2. CASE Goto(w, "write") /\ UNCHANGED <<fin, due>>
    BY <1>1, <1>3, <2>1, <2>2, GotoKeeps DEF ProbeSource
  <2>3. CASE Answer(w, TRUE)
    BY <1>1, <1>3, <2>1, <2>3, EndKeeps DEF ProbeSource
  <2>4. CASE Goto(w, "fail") /\ UNCHANGED <<fin, due>>
    BY <1>1, <1>3, <2>1, <2>4, GotoKeeps DEF ProbeSource
  <2> QED
    BY <1>3, <2>2, <2>3, <2>4 DEF ProbeSource
<1>4. CASE WriteUpgraded(w)
  <2> DEFINE media == UpgradedMedia(run[w].snapshot)
             lc == run[w].snapshot.lifecycle
  <2>1. media \in SUBSET Variants /\ (lc = "active" => "upgrade" \in media)
    BY <1>0 DEF UpgradedMedia, Snapshots, Variants, RunIsSound
  <2>2. /\ post' = Live(media, lc, "complete") /\ Answer(w, TRUE)
        /\ UNCHANGED <<removed, tall>>
    BY <1>4 DEF WriteUpgraded
  <2>3. post' \in Docs
    BY <1>0, <2>1, <2>2, LiveType DEF Snapshots
  <2> HIDE DEF media, lc
  <2> QED
    BY <1>1, <2>1, <2>2, <2>3, LiveKeeps
<1>5. CASE UpgradeThrows(w)
  BY <1>1, <1>5, GotoKeeps, EndKeeps DEF UpgradeThrows
<1>6. CASE MarkUpgradeFailed(w)
  BY <1>1, <1>6, MergesAre, EndKeeps DEF MarkUpgradeFailed
<1> QED
  BY <1>2, <1>3, <1>4, <1>5, <1>6 DEF Upgrade

LEMMA WorkerDiesKeeps ==
  ASSUME Inv, TypeOK', NEW w \in Workers, WorkerDies(w)
  PROVE  Inv'
<1>1. run[w].job \in Kinds
  BY RunType DEF Inv, WorkerDies, Jobs
<1> QED
  BY <1>1, EndKeeps DEF WorkerDies

\* The author deletes.
LEMMA DeleteKeeps ==
  ASSUME Inv, TypeOK', DeletePost
  PROVE  Inv'
BY DEF DeletePost, Inv, NothingBeforeCreate, MissingIsRemoved, DocumentIsSound, RunsAreSound,
       NoUpgradeNoTask, QueuedIsHeld, CompleteIsTrue

LEMMA InvInit == Init => Inv
<1> SUFFICES ASSUME Init  PROVE Inv
  OBVIOUS
<1>1. TypeOK
  BY ConstantDocs DEF Init, TypeOK
<1>3. \A w \in Workers : RunIsSound(run[w]) /\ run[w].job = "none"
  BY IdleIsSound DEF Init
<1> QED
  BY <1>1, <1>3
     DEF Init, Inv, NothingBeforeCreate, MissingIsRemoved, DocumentIsSound, RunsAreSound, Kinds,
         NoUpgradeNoTask, QueuedIsHeld, CompleteIsTrue

LEMMA InvStep == Inv /\ [Next]_vars => Inv'
<1> SUFFICES ASSUME Inv, [Next]_vars  PROVE Inv'
  OBVIOUS
<1>1. TypeOK'
  BY TypeStep DEF Inv
<1>2. CASE Finalize \/ FinalizeDies
  BY <1>1, <1>2, FinalizeKeeps, BeginKeeps DEF Finalize
<1>3. ASSUME NEW w \in Workers, \/ Faststart(w) \/ Upgrade(w) \/ WorkerDies(w)
                                \/ \E k \in Kinds : Deliver(w, k)
      PROVE Inv'
  BY <1>1, <1>3, FaststartKeeps, UpgradeKeeps, WorkerDiesKeeps, BeginKeeps
<1>4. CASE DeletePost
  BY <1>1, <1>4, DeleteKeeps
<1>5. CASE UNCHANGED vars
  BY <1>1, <1>5 DEF vars, Inv, NothingBeforeCreate, MissingIsRemoved, DocumentIsSound,
     RunsAreSound, NoUpgradeNoTask, QueuedIsHeld, CompleteIsTrue, Playable
<1> QED
  BY <1>2, <1>3, <1>4, <1>5 DEF Next
----------------------------------------------------------------------------
(* Theorems                                                                *)

\* The inductive invariant holds in every reachable state.
THEOREM Invariance == Spec => []Inv
BY InvInit, InvStep, PTL DEF Spec

\* The document, the tasks and the runs keep their types.
THEOREM TypeCorrectness == Spec => []TypeOK
<1>1. Inv => TypeOK
  BY DEF Inv
<1> QED
  BY <1>1, Invariance, PTL

\* A post whose finalize was answered without a warning is playable, or its
\* task is still held, as long as its source has no upgrade.
THEOREM TasksAreKept == Spec => []NothingStranded
<1>1. Inv => NothingStranded
  BY DEF Inv, QueuedIsHeld, NothingStranded
<1> QED
  BY <1>1, Invariance, PTL

\* A live post that says that its upgrade is complete has it.
THEOREM CompletionIsTrue == Spec => []CompleteIsTrue
<1>1. Inv => CompleteIsTrue
  BY DEF Inv
<1> QED
  BY <1>1, Invariance, PTL

\* No step but the live write of a deferred run takes startup away.
LEMMA StartupStep ==
  ASSUME Inv, [Next]_vars, TakesStartup
  PROVE  EarlyUpgradeWrites
<1> USE DEF TakesStartup, EarlyUpgradeWrites
<1>0. TypeOK /\ Current = post /\ post # NoPost /\ post' # post
  BY DEF Inv, Playable, Current
<1>1. ~(MergeOf(Current) /\ post' # NoPost)
  BY <1>0 DEF MergeOf, Playable
<1>2. ASSUME NEW w \in Workers, Faststart(w)  PROVE FALSE
  <2>1. RunIsSound(run[w])
    BY DEF Inv, RunsAreSound
  <2>2. ASSUME WriteReady(w)  PROVE FALSE
    <3>1. "startup" \in run[w].out
      BY <2>1, <2>2 DEF WriteReady, At, RunIsSound
    <3>2. post'.media = run[w].snapshot.media \union run[w].out
      BY <2>2 DEF WriteReady, Live
    <3> QED
      BY <3>1, <3>2
  <2> QED
    BY <1>0, <1>1, <1>2, <2>2, MergesAre
       DEF Faststart, ReadForFaststart, MarkProcessing, EncodeStartup, EnqueueUpgrade,
           WriteReadyThrows, MarkFailed
<1>3. ASSUME NEW w \in Workers, Upgrade(w)
      PROVE  WriteUpgraded(w) /\ "startup" \notin run[w].snapshot.media
  <2>1. WriteUpgraded(w)
    BY <1>0, <1>1, <1>3, MergesAre
       DEF Upgrade, ReadForUpgrade, ProbeSource, UpgradeThrows, MarkUpgradeFailed
  <2> QED
    BY <2>1 DEF WriteUpgraded, Live, UpgradedMedia
<1>4. ~CreatePost /\ ~UpdateAfterEnqueue
  BY <1>0 DEF CreatePost, UpdateAfterEnqueue, Inv, NothingBeforeCreate, Playable, TypeOK, Docs
<1>6. ~DeletePost /\ ~(UNCHANGED vars)
  BY <1>0 DEF DeletePost, vars
<1>7. \A w \in Workers : /\ ~TriggerSync(w) /\ ~WorkerDies(w)
                         /\ \A k \in Kinds : ~Deliver(w, k)
  BY <1>0 DEF TriggerSync, WorkerDies, Deliver
<1>8. ~SyncFails /\ ~VerifyInstantPlayback /\ ~EnqueueFaststart /\ ~FinalizeDies
  BY <1>0 DEF SyncFails, VerifyInstantPlayback, EnqueueFaststart, FinalizeDies
<1> QED
  BY <1>2, <1>3, <1>4, <1>6, <1>7, <1>8 DEF Next, Finalize

\* Only a deferred run that read the document before it was playable can
\* make a playable post unplayable.
THEOREM OnlyEarlyUpgrades == Spec => OnlyEarlyUpgradeTakesStartup
<1>1. Inv /\ [Next]_vars => [TakesStartup => EarlyUpgradeWrites]_vars
  BY StartupStep
<1> QED
  BY <1>1, Invariance, PTL DEF Spec, OnlyEarlyUpgradeTakesStartup
=============================================================================
