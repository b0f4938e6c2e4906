-------------------------- MODULE VideoProcessing --------------------------
(***************************************************************************)
(* What happens to the document of a video post after it is created:       *)
(* finalize asks for the fast-start encode, in line or as a Cloud Task;    *)
(* the worker encodes and replaces the document by a compact one, built    *)
(* from the snapshot it read when it began; before that it asks for a      *)
(* second, deferred encode of the 1080p upgrade, whose worker replaces the *)
(* document again.  Meanwhile the author may delete the post.  Tasks are   *)
(* delivered at least once and retried until a run answers ok; workers can *)
(* die between any two awaits.  What else a live write takes back, such as *)
(* likes counted while it encoded, is left out.                            *)
(*                                                                         *)
(* A post has one video here.  Its encoded files are abstracted to the     *)
(* variant that makes it play at once ("startup": the 540 and 720 files,   *)
(* which a run produces together or not at all) and the "upgrade".         *)
(***************************************************************************)
EXTENDS Naturals

CONSTANTS
  Workers,        \* workers that can run a job at the same time
  MaxUpgradeTasks,\* bound: deferred tasks that can be queued together
  NoPost          \* the document does not exist

ASSUME BoundAssumption == MaxUpgradeTasks \in Nat

Kinds == {"faststart", "deferred"}
Variants == {"startup", "upgrade"}

VARIABLES
  post,     \* /posts/{postId}
  removed,  \* the author has deleted the post
  tall,     \* the source is good enough for the 1080p upgrade
  fin,      \* where the finalize request is
  due,      \* tasks that Cloud Tasks holds: created and not answered ok
  run       \* what each worker is doing
vars == <<post, removed, tall, fin, due, run>>

(* "native" is the document of finalize, with top-level assets and         *)
(* media.assets; "compact" has media.assets only; "ghost" is what a merge  *)
(* into a missing document creates: neither.  media are the variants in    *)
(* media.assets, lab those in playbackLab.assets.                          *)
Docs == [shape: {"native", "compact", "ghost"},
         media: SUBSET Variants, lab: SUBSET Variants,
         videoProcessingStatus: {"none", "pending", "processing", "failed", "completed"},
         lifecycle: {"none", "processing", "active"},
         upgradePhase: {"none", "pending", "encoding", "complete", "skipped", "failed"}]
ASSUME NoPostAssumption == NoPost \notin Docs

NewPost == [shape |-> "native", media |-> {}, lab |-> {},
            videoProcessingStatus |-> "pending", lifecycle |-> "processing",
            upgradePhase |-> "none"]
Ghost == [shape |-> "ghost", media |-> {}, lab |-> {},
          videoProcessingStatus |-> "none", lifecycle |-> "none",
          upgradePhase |-> "none"]

\* The document that a set with merge writes into.
Current == IF post = NoPost THEN Ghost ELSE post
Playable == post # NoPost /\ "startup" \in post.media

\* What a run goes on to use of the document that it reads.
Read(doc) == [shape |-> doc.shape, media |-> doc.media, lab |-> doc.lab,
              lifecycle |-> doc.lifecycle]
Snapshots == [shape: {"native", "compact", "ghost"},
              media: SUBSET Variants, lab: SUBSET Variants,
              lifecycle: {"none", "processing", "active"}]

\* job: the kind of job, or none; caller: who waits for the answer; pc: the
\* await the run is at; snapshot: the document as it read it; out: what it
\* has encoded.
Jobs == [job: Kinds \union {"none"}, caller: {"task", "finalize"},
         pc: {"read", "mark", "encode", "enqueue", "probe", "write", "fail"},
         snapshot: Snapshots, out: SUBSET Variants]
Idle == [job |-> "none", caller |-> "task", pc |-> "read",
         snapshot |-> Read(Ghost), out |-> {}]

TypeOK ==
  /\ post \in Docs \union {NoPost}
  /\ removed \in BOOLEAN /\ tall \in BOOLEAN
  /\ fin \in {"create", "sync", "waiting", "verify", "enqueue", "queued",
              "refused", "done", "notQueued", "stopped"}
  /\ due \in [Kinds -> Nat]
  /\ run \in [Workers -> Jobs]

Init ==
  /\ post = NoPost /\ removed = FALSE
  /\ tall \in BOOLEAN
  /\ fin = "create"
  /\ due = [k \in Kinds |-> 0]
  /\ run = [w \in Workers |-> Idle]
----------------------------------------------------------------------------
(* finalize                                                                *)

CreatePost ==
  /\ fin = "create"
  /\ post' = NewPost
  /\ fin' \in {"sync", "enqueue"}  \* sync only by configuration and size
  /\ UNCHANGED <<removed, tall, due, run>>

Begin(w, k, c) == run' = [run EXCEPT ![w] = [Idle EXCEPT !.job = k, !.caller = c]]

TriggerSync(w) ==
  /\ fin = "sync"
  /\ run[w].job = "none"
  /\ Begin(w, "faststart", "finalize")
  /\ fin' = "waiting"
  /\ UNCHANGED <<post, removed, tall, due>>

\* The trigger fails, or its answer takes longer than finalize waits: the
\* request is aborted, and the run that it started goes on.
SyncFails ==
  /\ fin \in {"sync", "waiting"}
  /\ fin' = "enqueue"
  /\ UNCHANGED <<post, removed, tall, due, run>>

\* A native document has no ladder variant on its video, so it is not
\* ready; a document without top-level assets has no video left to check.
VerifyInstantPlayback ==
  /\ fin = "verify"
  /\ fin' = IF post = NoPost \/ Current.shape = "native" THEN "enqueue" ELSE "done"
  /\ UNCHANGED <<post, removed, tall, due, run>>

EnqueueFaststart ==
  /\ fin = "enqueue"
  /\ \/ fin' = "queued" /\ due' = [due EXCEPT !["faststart"] = @ + 1]
     \/ fin' = "refused" /\ UNCHANGED due
  /\ UNCHANGED <<post, removed, tall, run>>

\* The update comes after the task was created, whatever the task has done
\* to the document by then; an update of a missing document throws.
UpdateAfterEnqueue ==
  /\ fin \in {"queued", "refused"}
  /\ fin' = IF fin = "queued" THEN "done" ELSE "notQueued"
  /\ post' = IF post = NoPost THEN NoPost
             ELSE [post EXCEPT !.videoProcessingStatus =
                                 IF fin = "queued" THEN "processing" ELSE "failed"]
  /\ UNCHANGED <<removed, tall, due, run>>

\* The API process stops before finalize has ended.
FinalizeDies ==
  /\ fin \in {"sync", "waiting", "verify", "enqueue", "queued", "refused"}
  /\ fin' = IF fin = "queued" THEN "done" ELSE "stopped"
  /\ UNCHANGED <<post, removed, tall, due, run>>
----------------------------------------------------------------------------
(* Runs of the worker                                                      *)

\* Mutant: a task is forgotten when it is delivered.
DeliverAtMostOnce(w, k) ==
  /\ run[w].job = "none"
  /\ due[k] > 0
  /\ Begin(w, k, "task")
  /\ due' = [due EXCEPT ![k] = @ - 1]
  /\ UNCHANGED <<post, removed, tall, fin>>

\* Cloud Tasks delivers a task that has not been answered ok, also while
\* an earlier delivery of it is still being worked on.
Deliver(w, k) ==
  /\ run[w].job = "none"
  /\ due[k] > 0
  /\ Begin(w, k, "task")
  /\ UNCHANGED <<post, removed, tall, fin, due>>

Goto(w, pc) == run' = [run EXCEPT ![w].pc = pc]

\* The answer of a run.  200 removes the task; 500 leaves it to be retried.
Settle(w, ok, acked) ==
  /\ run' = [run EXCEPT ![w] = Idle]
  /\ due' = IF acked /\ run[w].caller = "task"
            THEN [due EXCEPT ![run[w].job] = @ - 1] ELSE due
  /\ fin' = IF run[w].caller = "finalize" /\ fin = "waiting"
            THEN IF ok THEN "verify" ELSE "enqueue"
            ELSE fin

\* Mutant: an error is answered 200.
AnswerAlwaysOk(w, ok) == Settle(w, ok, due[run[w].job] > 0)
\* Mutant: a second delivery removes the task again.
AnswerRemovesAgain(w, ok) == Settle(w, ok, ok)
Answer(w, ok) == Settle(w, ok, ok /\ due[run[w].job] > 0)

At(w, k, pc) == run[w].job = k /\ run[w].pc = pc

\* A connection that breaks, a worker that stops: no answer.
WorkerDies(w) ==
  /\ run[w].job # "none"
  /\ Answer(w, FALSE)
  /\ UNCHANGED <<post, removed, tall>>

\* The document that replaces the whole of /posts/{postId}.
Live(media, lifecycle, phase) ==
  [shape |-> "compact", media |-> media, lab |-> {},
   videoProcessingStatus |-> "none", lifecycle |-> lifecycle,
   upgradePhase |-> phase]

\* processVideoPostJob begins.  The readiness that the normalizer finds is
\* true of every document with media.assets, since it trusts the playback
\* that is written there: what decides is videoProcessingStatus.
IsCompleted(doc) == doc.videoProcessingStatus = "completed" /\ doc.shape # "ghost"

ReadForFaststart(w) ==
  /\ At(w, "faststart", "read")
  /\ \/ /\ post = NoPost
        /\ Answer(w, FALSE)
     \/ /\ post # NoPost /\ IsCompleted(post)
        /\ Answer(w, TRUE)
     \/ /\ post # NoPost /\ ~IsCompleted(post)
        /\ run' = [run EXCEPT ![w].pc = "mark", ![w].snapshot = Read(post)]
        /\ UNCHANGED <<fin, due>>
  /\ UNCHANGED <<post, removed, tall>>

\* The document after a merge that repeats what the run has seen of
\* playbackLab.
WithLab(w) == [Current EXCEPT !.lab = @ \union run[w].snapshot.lab]

MarkProcessing(w) ==
  /\ At(w, "faststart", "mark")
  /\ post' = [WithLab(w) EXCEPT !.videoProcessingStatus = "processing"]
  /\ Goto(w, "encode")
  /\ UNCHANGED <<removed, tall, fin, due>>

\* Only top-level assets are looked at: a compact document has no video to
\* encode.  Progress is merged into the document, if that succeeds.
EncodeStartup(w) ==
  /\ At(w, "faststart", "encode")
  /\ post' \in {post, WithLab(w)}
  /\ \/ /\ run[w].snapshot.shape = "native"
        /\ run' = [run EXCEPT ![w].pc = "enqueue", ![w].out = {"startup"}]
     \/ Goto(w, "fail")
  /\ UNCHANGED <<removed, tall, fin, due>>

\* The deferred task is created before the document it is meant for.
EnqueueUpgrade(w) ==
  /\ At(w, "faststart", "enqueue")
  /\ Goto(w, "write")
  /\ \/ tall /\ due["deferred"] < MaxUpgradeTasks
             /\ due' = [due EXCEPT !["deferred"] = @ + 1]
     \/ UNCHANGED due  \* not eligible, or the queue refuses
  /\ UNCHANGED <<post, removed, tall, fin>>

\* Mutant: the new variants are not taken into the document.
WriteReadyWithoutVariants(w) ==
  /\ At(w, "faststart", "write")
  /\ post' = Live(run[w].snapshot.media, "active",
                  IF tall THEN "pending" ELSE "skipped")
  /\ Answer(w, TRUE)
  /\ UNCHANGED <<removed, tall>>

WriteReady(w) ==
  /\ At(w, "faststart", "write")
  /\ post' = Live(run[w].snapshot.media \union run[w].out, "active",
                  IF tall THEN "pending" ELSE "skipped")
  /\ Answer(w, TRUE)
  /\ UNCHANGED <<removed, tall>>

WriteReadyThrows(w) ==
  /\ At(w, "faststart", "write")
  /\ Goto(w, "fail")
  /\ UNCHANGED <<post, removed, tall, fin, due>>

\* The catch block merges "failed" into whatever the document is by now.
MarkFailed(w) ==
  /\ At(w, "faststart", "fail")
  /\ post' = [WithLab(w) EXCEPT !.videoProcessingStatus = "failed",
                                !.lab = @ \union run[w].out]
  /\ Answer(w, FALSE)
  /\ UNCHANGED <<removed, tall>>

\* processDeferred1080UpgradeJob begins: it takes the top-level assets,
\* which never carry an upgrade, or else media.assets.
ReadForUpgrade(w) ==
  /\ At(w, "deferred", "read")
  /\ \/ /\ Current.shape = "ghost"  \* no document, or no asset in it
        /\ Answer(w, FALSE)
     \/ /\ Current.shape = "compact" /\ "upgrade" \in Current.media
        /\ Answer(w, TRUE)
     \/ /\ \/ Current.shape = "native"
           \/ Current.shape = "compact" /\ "upgrade" \notin Current.media
        /\ run' = [run EXCEPT ![w].pc = "probe", ![w].snapshot = Read(post)]
        /\ UNCHANGED <<fin, due>>
  /\ UNCHANGED <<post, removed, tall>>

\* The downloaded source is measured again, by ffprobe.
ProbeSource(w) ==
  /\ At(w, "deferred", "probe")
  /\ \/ /\ post' = [Current EXCEPT !.upgradePhase = "encoding"]
        /\ Goto(w, "write")
        /\ UNCHANGED <<fin, due>>
     \/ /\ post' = [Current EXCEPT !.upgradePhase = "skipped"]
        /\ Answer(w, TRUE)
     \/ /\ UNCHANGED <<post, fin, due>>
        /\ Goto(w, "fail")
  /\ UNCHANGED <<removed, tall>>

\* The variants of the new document: the normalizer takes media.assets, and
\* what playbackLab has generated, from the snapshot; an upgrade that was
\* put on a top-level asset is not looked at.
UpgradedMedia(snapshot) ==
  snapshot.media \union snapshot.lab
  \union (IF snapshot.shape = "compact" THEN {"upgrade"} ELSE {})

\* Mutant: the deferred job sets the lifecycle too.
WriteUpgradedActivates(w) ==
  /\ At(w, "deferred", "write")
  /\ post' = Live(UpgradedMedia(run[w].snapshot), "active", "complete")
  /\ Answer(w, TRUE)
  /\ UNCHANGED <<removed, tall>>

WriteUpgraded(w) ==
  /\ At(w, "deferred", "write")
  /\ post' = Live(UpgradedMedia(run[w].snapshot),
                  run[w].snapshot.lifecycle, "complete")
  /\ Answer(w, TRUE)
  /\ UNCHANGED <<removed, tall>>

\* The encode throws; a live write that is refused answers at once.
UpgradeThrows(w) ==
  /\ At(w, "deferred", "write")
  /\ \/ Goto(w, "fail") /\ UNCHANGED <<fin, due>>
     \/ Answer(w, FALSE)
  /\ UNCHANGED <<post, removed, tall>>

MarkUpgradeFailed(w) ==
  /\ At(w, "deferred", "fail")
  /\ post' = [Current EXCEPT !.upgradePhase = "failed"]
  /\ Answer(w, FALSE)
  /\ UNCHANGED <<removed, tall>>
----------------------------------------------------------------------------
(* The author                                                              *)

DeletePost ==
  /\ post # NoPost
  /\ post' = NoPost
  /\ removed' = TRUE
  /\ UNCHANGED <<tall, fin, due, run>>
----------------------------------------------------------------------------
Finalize == \/ CreatePost \/ SyncFails \/ VerifyInstantPlayback
            \/ EnqueueFaststart \/ UpdateAfterEnqueue
            \/ \E w \in Workers : TriggerSync(w)
Faststart(w) == \/ ReadForFaststart(w) \/ MarkProcessing(w) \/ EncodeStartup(w)
                \/ EnqueueUpgrade(w) \/ WriteReady(w) \/ WriteReadyThrows(w)
                \/ MarkFailed(w)
Upgrade(w) == \/ ReadForUpgrade(w) \/ ProbeSource(w) \/ WriteUpgraded(w)
              \/ UpgradeThrows(w) \/ MarkUpgradeFailed(w)
Next ==
  \/ Finalize \/ FinalizeDies
  \/ \E w \in Workers : \/ Faststart(w) \/ Upgrade(w) \/ WorkerDies(w)
                        \/ \E k \in Kinds : Deliver(w, k)
  \/ DeletePost

Spec == Init /\ [][Next]_vars

(* A worker keeps working, and finalize goes on; not every attempt at a     *)
(* post dies or throws at the same place.                                  *)
EncodeSucceeds(w) == EncodeStartup(w) /\ run'[w].pc = "enqueue"
Fairness ==
  /\ WF_vars(Finalize)
  /\ WF_vars(\E w \in Workers : Deliver(w, "faststart"))
  /\ \A w \in Workers : WF_vars(Faststart(w))
  /\ SF_vars(\E w \in Workers : ReadForFaststart(w))
  /\ SF_vars(\E w \in Workers : MarkProcessing(w))
  /\ SF_vars(\E w \in Workers : EncodeSucceeds(w))
  /\ SF_vars(\E w \in Workers : EnqueueUpgrade(w))
  /\ SF_vars(\E w \in Workers : WriteReady(w))
FairSpec == Spec /\ Fairness
----------------------------------------------------------------------------
(* Properties                                                              *)

(* A post whose finalize was answered without a warning is playable or its *)
(* task is still held by Cloud Tasks, however often runs failed, died or   *)
(* ran twice.  This is only so for a source without an upgrade: see        *)
(* UpgradeKeepsStartup.                                                    *)
NothingStranded ==
  fin = "done" /\ ~removed /\ ~tall => Playable \/ due["faststart"] > 0

(* A live post says that its upgrade is complete only if it has it: the    *)
(* phase and the variants are written by different runs from different     *)
(* snapshots, and merges of other runs come between.                       *)
CompleteIsTrue ==
  post # NoPost /\ post.lifecycle = "active" /\ post.upgradePhase = "complete"
    => "upgrade" \in post.media

TakesStartup == Playable /\ post' # NoPost /\ "startup" \notin post'.media
EarlyUpgradeWrites ==
  \E w \in Workers : WriteUpgraded(w) /\ "startup" \notin run[w].snapshot.media

(* The only write that makes a playable post unplayable is that of a       *)
(* deferred job which read the document before it was playable.            *)
OnlyEarlyUpgradeTakesStartup == [][TakesStartup => EarlyUpgradeWrites]_vars

(* What the comment above processDeferred1080UpgradeJob says: the job does *)
(* not change the URLs that startup playback uses.                         *)
UpgradeKeepsStartup ==
  [][Playable /\ (\E w \in Workers : WriteUpgraded(w)) => Playable']_vars

(* Every post of a source without an upgrade whose finalize was answered   *)
(* without a warning becomes playable, or is deleted.                      *)
EventuallyPlayable ==
  (fin = "done" /\ ~tall) ~> (Playable \/ removed)
=============================================================================
