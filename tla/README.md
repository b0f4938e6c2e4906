# Locava Backend v2: a verification of posting, video and likes

Locava Backend v2 is the TypeScript server behind a photo and video sharing
app. Most of its half million lines are reads: surfaces that project Firestore
documents into screens, with caches in front. What has control of its own, and
what users lose something by when it goes wrong, is **posting**: a phone with a
bad network uploads media, finalizes a post under an idempotency key, polls,
cancels, retries and sends everything again, while the server publishes,
starts media jobs, pays rewards and restarts. This project models that path:
the operations themselves, the lock they run under, the file their state is
kept in, the legends a published post competes for, and what the video workers
do to its document afterwards. It also models the likes of a post, as the
mutation in which the three gates that every social mutation passes (dedupe,
concurrency limit, lock) meet a process-local memory and a shared counter.

## Inventory

Paths are relative to `src/`.

| Component | State it keeps | Operations | Talks to |
|---|---|---|---|
| Posting control plane (`repositories/mutations/posting-mutation.repository.ts`, `services/mutations/posting-mutation.service.ts`) | sessions, operations and their two indexes in one JSON state; the canonical post in Firestore | create session, finalize, status, cancel, retry, complete, fail, record invalidation | persistence, lock, dedupe, background queue, caches, Firestore |
| Posting media (same repository) | media records, indexes by session slot and by client key | register, mark uploaded, status | persistence; read by finalize |
| Posting state persistence (`posting-state.persistence.ts`) | the JSON state in memory, the file, a chain of writes | load once, mutate, write | file system |
| Mutation lock (`lib/mutation-lock.ts`, `runtime/coherence-provider.ts`) | a promise chain per key, or a lease with a time to live | run a section under a key | every mutation |
| In-flight dedupe (`cache/in-flight-dedupe.ts`) | the promise per key; distributed: a lease and a short-lived result | join or run | finalize, status, reads |
| Concurrency limit (`lib/concurrency-limit.ts`) | a counter and a waiting list per key | run with at most n others | status reads, finalize |
| Background work (`lib/background-work.ts`) | a queue, one job at a time | schedule, drain | completion invalidation, profile count, usage |
| Cache invalidation (`cache/entity-invalidation.ts`) | none: deletes keys per mutation type | invalidate | caches, local or redis |
| Legends (`domains/legends/`) | stages, processed markers, user and scope counts, leaders, top users, first claims, awards, a result per post; all in Firestore | stage, cancel, prime, commit, mark error | finalize's rewards; polled by the client |
| Video pipeline (`services/video/`, `services/posting/video-processing-cloud-task.service.ts`, `native-async-video-post-complete.ts`) | the post document; tasks held by Cloud Tasks; what a run has read and encoded | enqueue or trigger in line, fast-start run, deferred 1080p upgrade, replace the document | finalize, Cloud Tasks, Firestore, object storage |
| Social mutations (`repositories/mutations/post-mutation.repository.ts`, `services/mutations/post-mutation.service.ts`, `mutation-state.repository.ts`) | like documents and a counter in Firestore; the viewers a process remembers | like, unlike (modelled); save, follow, collections, delete | dedupe, limit, lock, Firestore |
| Others | see `components` in `PROJECT.json`, each with the reason it is left out | | |

What makes the path hard:

* **Awaits as interleaving points.** Node runs one continuation at a time, so
  a stretch without a slow await is atomic, and every slow await is a place
  where a cancel, a poll, another finalize or a job may run.
* **Live records.** The repository hands out the records of the in-memory
  state themselves. A request that holds one sees other requests' changes, and
  overwrites them.
* **Different locks.** Finalize locks `posting-finalize:<viewer>:<session>`,
  and only around the acceptance; cancel and retry lock
  `posting-operation:<viewer>:<operation>`; the publish flow, the status reads
  and the background jobs lock nothing.
* **Restarts.** The JSON state and Firestore survive; requests in flight,
  queued jobs, locks and dedupe entries do not.
* **A load that is not shared, a chain that stays broken.** The first calls of
  a process each load the state file, and each replaces the state; one failed
  write rejects every write after it until the process restarts.
* **Ownership that runs out.** With a distributed provider the lock is a lease
  of 8 s around work that nothing bounds.
* **Documents replaced from old snapshots.** A video run reads the document,
  works for minutes, and then replaces all of it by what it built from that
  reading; another run, finalize and the author act on it meanwhile.
* **At-least-once delivery.** Cloud Tasks redelivers a task until a run of it
  answers 200, also beside one that is still at work.
* **Memory that speaks for a store.** A process remembers who liked what, and
  an unlike that finds itself there lowers the counter without looking.
* **Retries of what was done.** A replayed finalize runs the publish flow
  again on purpose: the Firestore `create`, by a name derived from the
  idempotency key, is what makes it harmless.

What each component owes its users is stated as properties below; the hazards
they are aimed at are listed in `PROJECT.json`, each at its line.

## Modules

| Module | What it is |
|---|---|
| `PublishIntent` | the abstract contract of a publish intent |
| `PostingOperations` | the posting control plane, detailed; implements `PublishIntent` |
| `PostingOperations_proofs` | its theorems |
| `KeyedSection` | the abstract section of a key: one owner at a time; what `MutationLock` implements and `PostLikes` uses |
| `MutationLock` | `withMutationLock` in both its modes; implements `KeyedSection` |
| `MutationLock_proofs` | its theorems |
| `PostingPersistence` | the JSON state, its loads, its file and its chain of writes |
| `PostingPersistence_proofs` | its theorems |
| `Leaderboard` | the abstract contract of the legends |
| `LegendCommit` | stages, runs and the commit transaction; implements `Leaderboard` |
| `LegendCommit_proofs` | its theorems |
| `VideoProcessing` | the document of a video post under finalize, its two kinds of job and the author |
| `VideoProcessing_proofs` | its theorems |
| `PostLikes` | like and unlike through dedupe, limit, section, batch and memory |
| `PostLikes_proofs` | its types, its counter, and who waits for whom |
| `PostLikesGates_proofs` | the slots of the concurrency limit |
| `PostLikesAnswers_proofs` | what an answer without a coordinator is worth |
| `MCPostingOperations`, `MCMutationLock`, `MCPostingPersistence`, `MCLegendCommit`, `MCVideoProcessing`, `MCPostLikes` | values of the constants for TLC |

`PostLikes` composes three components: it has `dedupeInFlight` and
`withConcurrencyLimit` whole, and uses of the lock what `KeyedSection` promises
(one owner who has not outlived its lease). Both sides are proved:
`MutationLock` implements `KeyedSection`, and the sections of `PostLikes` are
used as it says (`LockIsKeyed`). The other detailed modules are separate: `PostingOperations` uses what the others
promise. It takes the section under a lock as free of others with its key, which
is `MutationLock.ArrivalOrder` in one process; it takes what was answered as
kept over a restart, which is `PostingPersistence.AckedIsVisible` as long as no
accident happens to the file; and its reward await is where the runs of
`LegendCommit` start. `VideoProcessing` begins where `PostingOperations` counts
that the jobs of a post were started. No module composes these: their states
are disjoint, and together they are out of TLC's reach.

### PostingOperations

One *intent* `k` is a viewer's idempotency key (`KeyViewer[k]` owns it). It
names the post too: the code derives `postId` from a hash of both, so
`postId = k`, and the empty string is `NoKey`.

| Model | Code |
|---|---|
| `session`, `sessionOf`, `lapsed` | `sessionsById`, `sessionsByViewerKey`, `expiresAtMs <= now` |
| `op`, `opOf` | `operationsById`, `operationsByViewerIdempotency` |
| `posts`, `made`, `erased` | whether the `posts/{postId}` document exists; how often `publishNativeCanonicalPost` created it; how often `deletePost` deleted it |
| `jobs`, `counted` | how often the audio, video and embedding jobs of a created post were started; how often a post was added to the counters of a profile (`users/{uid}/posts/{postId}`) |
| `fin[k]` | the finalize request of the intent that `dedupeInFlight` lets run, and the await it is at: `author` (before `resolveEffectivePostAuthor`), `publish` (before `postRef.create`), `enqueue`, `mark` (before `markOperationCompleted`), `rewards`, `echo` (the answer to the replay of a completed operation); and the author it resolved, the viewer or the user of `PostAs[k]` that an admin's request names in `adminPostAsUserId` |
| `poll[o][w]` | a status read by the client's request or by the background job: `read`, `deleting` (the invalidation was decided and its deletes are in flight), `applied` (the deletes are done, the record is not set) |
| `timer`, `countTimer` | queued background jobs: completion invalidation; profile count, one per post, with the profile it is for (`finalizeSupplementaryWriteTimers`) |
| `DeletePost`, `LateMerge` | the hard delete of `deletePost`; `unlikePost`, which merges into `posts/{postId}` without looking whether it exists, after a delete |
| `known` | operations a successful finalize answer has named. Error answers carry no operation id (`routes/v2/posting-finalize.routes.ts` 68-92), so only these can be polled, cancelled and retried |

A delete takes the document and nothing else: the operation, the jobs that run
and the profile's document stay. `postRef.create` looks only at whether the
document exists, so an intent whose operation is not completed can be sent again
after the delete: the post comes back, its jobs start again, and it is not
counted again on the profile where it was counted. If an unlike has meanwhile
left its merge there, the replay takes these remains for its post and completes
without jobs. A replay under another `adminPostAsUserId` meets the post and
counts it on a second profile. What the echo and the end of a finalize assert of
a post that is gone makes them throw, which `EchoThrows` and `PublishThrows`
cover.

A step is the stretch of code between two slow awaits. A repository method
changes the in-memory state in one such stretch; its checks, its loops and the
final `mutate` are one action. `ensureLoaded` and the local lock and dedupe
add microtask gaps inside such a stretch when they are uncontended; what could
slip into one is excluded by the same lock or dedupe key.

Abstractions, all in the direction of more behaviours or of data no property
speaks of: time is a nondeterministic lapse; identifiers are fresh values;
`terminalReason`, `retryCount`, timestamps and the media hint are dropped; a
throw may happen anywhere the flow can throw, whatever the reason (missing
media, an unpublishable location, Firestore); each finalize of an intent
carries any session; `NODE_ENV=test` has a publish flow of its own that is not
modelled. One process, `COHERENCE_MODE=process_local`, which is the default of
`config/env.ts`: the code's own documents place multi-instance locking out of
scope. Writes of the state file are taken as done; their failures are what
`PostingPersistence` is about.

### MutationLock

A call of `withMutationLock(provider, key, fn)` is a constant `c`, its key
`KeyOf[c]`. The mode, `provider.isDistributed`, is chosen in `Init`.

| Model | Code |
|---|---|
| `tail`, `previous`, `released` | the map `tails`; the promise a call found there and awaits; the promises that are resolved |
| `JoinChain`, `EnterFromChain`, `LeaveChain` | the process-local branch of `lib/mutation-lock.ts`: read and replace the tail in one turn, await, run `fn`, resolve in `finally` |
| `lease` | the redis key, its value the token of a call (`SET NX PX`) |
| `StartTrying`, `AcquireLease`, `LeaseIsTaken`, `TryThrows`, `WakeUp` | the loop around `tryAcquireLease`; `late` says that `DISTRIBUTED_LOCK_WAIT_MS` has passed |
| `LeaveLease` | the release script, which compares the token; it may fail on either side |
| `LeaseExpires`, `Die` | the time to live, and a process that stops: external |

`arrivals`, `ticket` and `overrun` are history: no guard reads them. An entry
of `tails` is never deleted, in the model as in the code, where the promise that
is stored is a chained one and the one it is compared with is not.

### PostingPersistence

A call is a `getState` or, for `Writers`, a `mutate`. What a mutation changes is
reduced to whether it is there, so a state is the *set of calls* whose change it
holds, and so is the content of the file.

| Model | Code |
|---|---|
| `BeginLoad`, `ReadFile`, `FinishLoad` | `ensureLoaded`, whose `loaded` flag is set only at its end: several loads overlap, and each replaces `this.state` |
| `own`, `shared`, `aliased` | the maps of a parsed state; the maps of the constant `EMPTY_STATE`, which a shallow copy shares with every other empty state; which of them `this.state` has |
| `queue`, `writing`, `poisoned` | `writeTail`: the writes chained in it with the payload each made when it was called, whether the first has opened the file, whether the chain is rejected |
| `StartWrite`, `FinishWrite`, `FailWrite` | `writeFile`, which truncates before it writes; a rejection that no later write recovers from |
| `Crash` | a restart: memory is lost, the file is what it was (external) |

`acked`, `kept` and `accidents` are history. An *accident* is a write that was
cut off (`torn`), a read that failed (`misread`), or a load that replaced a
state in use (`overlap`).

### LegendCommit

| Model | Code |
|---|---|
| `stage` | `legendPostStages`; the stage that `processPostCreated` makes for a post `p`, `legdirect_<p>`, is `p` itself |
| `ReadForCancel`, `CancelStage` | `cancelStage`, which reads and then writes without a transaction |
| `run[r]` | one call of `runLegendsCommit`, with the priming finalize does before it, and the await it is at |
| `Finalize`, `Prime`, `SyncTimeout` | `resolveFinalizeLegendRewards`: the pending result, the wait, and the second run it schedules when the wait is over while the first goes on |
| `CreateStage`, `MarkPending` | `processPostCreated`, `commitStagedPostLegend` up to its transaction |
| `AlreadyProcessed`, `CommitThrows`, `CommitIneligible`, `CommitEligible` | the outcomes of the transaction. Firestore's transactions are serializable, so it is one step |
| `FinishRun`, `MarkError` | the badge synchronisation, the error result |
| `processed`, `counted` | the processed marker with its stage; the scopes it lists |
| `scope`, `topUsers`, `stat`, `award`, `claim` | `legendScopes`, `legendUserStats`, `legendAwards`, first claims |
| `result` | `legendPostResults`, which the client polls |

The state is all in Firestore, so a process that stops is a run that takes no
further step, which the specification (without fairness) allows everywhere.
Left out: overtaken events, the document of legends state, rank aggregates,
previews, reward cards, the seen marks of the awards, and how scopes are derived
from a post: `ScopesOf[p][s]` stands for what `resolveCommitDerivedScopes` finds
for post `p` with the fields it lacks filled in from the context of stage `s`,
and `StagedScopes[s]` for the scopes a client's stage is created with. Both are
constants, since the derivation reads fields that do not change. `SentWith[p]`
are the ids that requests send as `legendStageId` of `p`; the code takes any
string, so another post's own stage `legdirect_<q>` may be one. An expired stage is one of the reasons `CommitThrows` stands
for. Whether the hydrated post is eligible is read before the transaction and is
a choice. `TopUsersCap` and `CloseThreshold`, both 5 in the code (a cap from
the environment is at least 3), are constants.

### VideoProcessing

| Model | Code |
|---|---|
| `post` | the document: its `shape` (finalize's with top-level `assets`, the compact one with `media.assets` only, or the remains a merge into a missing document creates), the variants in `media` and in `playbackLab`, `videoProcessingStatus`, lifecycle, `deferred1080` phase |
| `fin` | where `publishNativeCanonicalPost` is; `CreatePost`, `TriggerSync`, `SyncFails`, `VerifyInstantPlayback`, `EnqueueFaststart`, `UpdateAfterEnqueue` are its steps. `done` is the end without a warning, `notQueued` the end with one |
| `due` | the tasks Cloud Tasks holds: created and not yet answered 200. `Deliver` may hand one to several workers |
| `run[w]` | a job at work: its kind, who waits for its answer, the await it is at, `snapshot` (what it goes on to use of the document it read), `out` (what it has encoded) |
| `ReadForFaststart` ... `WriteReady`, `MarkFailed` | `processVideoPostJob`: the early 200 for a completed post, the merges, the encode, the deferred task, the compact live write, the catch block |
| `ReadForUpgrade` ... `WriteUpgraded`, `MarkUpgradeFailed` | `processDeferred1080UpgradeJob` |
| `Answer` | the route's 200 or 500, which removes the task or leaves it |
| `FinalizeDies`, `WorkerDies` | processes that stop (external) |

A post has one video. The files a run encodes are one value, `startup`: a run
produces the 540 and 720 files together or throws. `tall` says that the source
is good enough for the upgrade; it is chosen in `Init`. A merge repeats what the
run has seen of `playbackLab`. Object storage and `ffmpeg` succeed or throw.
What else of the document a live write puts back, such as the `likeCount` it
read (`native-async-video-post-complete.ts` 57-95, 157), is a hazard that is
listed and not modelled.

### PostLikes

| Model | Code |
|---|---|
| `call[c]` | a request: viewer, kind, instance and the await it is at. `via`, `met` and `past` are history |
| `Arrive`, `Sharing`, `Settled` | `dedupeInFlight`: a request joins the promise of a call in flight with the same key in the same process; when that settles or dies, so do all who share it |
| `lease`, `result` | the distributed mode: `dedupe:<key>` with 5 s to live, its result with 2 s; `LookupHit`, `AcquireLease`, `LeaseIsTaken`, `PollHit`, `PollGivesUp`, `Publish`, `ReleaseLease` |
| `active`, `waiting` | `withConcurrencyLimit`; `FreeSlot` lowers the counter and wakes one, who raises it in `Resume`, a microtask later |
| `Owners`, `EnterSection`, `Outlive`, `LockTimeout` | `withMutationLock`, by what `KeyedSection` promises |
| `CheckLike`, `WriteBatch`, `Commit`, `CommitThrows` | the read of an unlike that is not remembered; the batch, which creates or deletes the like and changes the counter, or throws with or without having been written |
| `adrift`, `LateBatch`, `late` | a batch whose process has ended, or whose call has thrown, before it was written: it lands later, or never (external: the store) |
| `memory`, `Return` | `mutationStateRepository`, changed when the batch has been answered |
| `Crash` | an instance that restarts and forgets (external) |

The mode is chosen in `Init`; process-local, each instance has its own sections.
Left out: the coordinator is taken to answer (`MutationLock` has one that does
not), the user documents that the batch writes as well, a post that is deleted
while it is liked, and the route after the service, which invalidates caches.

### Mutants

Definitions that begin with the comment `Mutant:` are not part of the
specification: each is a plausible bug of the action after it, and
`PROJECT.json` names the property that catches it.

## Checks

| Run | Question | Instance |
|---|---|---|
| `posting_replays` | Does what must happen once happen once when an intent is sent again and again beside another, and is every step a step of the contract? | 2 keys, sent 4 times and twice, the second posted as one of 2 users, 1 delete, 1 session, 2 operations, 2 restarts |
| `posting_live` | Do operations settle, are completions invalidated, do queued counts run? | 1 key sent twice, 1 session, 1 delete, 1 restart, fair |
| `cancel_is_overwritten` | Does cancel prevent progress until an explicit retry, as the state machine document says? It does not | 1 key sent twice, 1 delete, 1 restart |
| `lock` | Who can be inside a section together, in which order do calls get in, and does every call end? | 3 calls, 1 key, both modes, fair |
| `persistence` | Whatever fails, what do calls see and what does the file hold of what was answered? | 3 mutates, 1 read, 1 restart, fair |
| `restart_forgets_answers` | Does the file keep the state available across restarts, as the surface document says, when no file operation fails? It does not | 2 mutates, 1 read, 1 restart |
| `legends` | Do counts, leaders, top users, claims and results agree with the posts that were settled, each once? | 2 users, 3 posts, 1 scope, 1 client stage that two posts are sent with, 1 post's own stage that another post is sent with, 3 runs |
| `legend_result_is_lost` | Is a second run safe, as the legends audit says? Not for the result | 1 post, 2 runs |
| `video` | Is a post playable or its task kept, is what it says of its upgrade true, and does it become playable? | 2 workers, 1 queued upgrade task, any number of deliveries, deaths and failures, fair |
| `startup_is_taken_back` | Does the deferred upgrade leave startup playback alone, as its comment says? It does not | 2 workers |
| `likes` | Is the counter right, are slots counted, are answers true, is anybody left waiting? | 2 instances, 2 viewers, 3 calls, limit 1, 1 fault, both modes |
| `stored_answer_is_stale` | Are only requests in flight deduplicated, as the mutation documents say? With a coordinator they are not | as `likes` |

Properties of `PostingOperations`:

* `OneAcceptance`: an intent is accepted once, on a session no other intent has.
* `PostBehindOperation`: a post has an accepted operation behind it, and
  `completed` is said only of a post that was written. (Its author may have
  deleted it since: a status read does not look.)
* `AnsweredIsPublished`: an operation the client was given names its post, for
  good, so no retry or poll waits for a post that nobody is writing.
* `SideEffectsOnce`: whatever is replayed, a document is created again only
  after a delete, the media jobs start at most once per created document, and a
  profile counts a post at most once, also one that comes back. "At most once
  per post" does **not** hold of the jobs, because of the deletes. Nor does at
  least once: a restart between the create and the jobs loses the jobs, since
  the replay meets `ALREADY_EXISTS`.
* `InvalidationRecordIsTrue`: a recorded invalidation happened.
* `RequestKeepsItsGround`: what a finalize did before an await holds after it,
  deletes included: it acts on the operation of its key, its post was written,
  and nobody has started the jobs of the document it has just created.
* `CompletedUndoneOnlyByFinalize`: only an in-flight finalize of the same
  intent takes an operation out of `completed`. (That it can is the same
  overwrite that `cancel_is_overwritten` exhibits.)
* `ImplementsPublishIntent`: refinement of the contract.
* `AnsweredOperationSettles`, `CompletionIsInvalidated`, `QueuedCountIsRun`:
  liveness.

Properties of `MutationLock`:

* `ArrivalOrder`: in one process, exclusion and no overtaking.
* `ImplementsSection`: refinement of `KeyedSection`, an overrun ending the
  ownership: two calls are inside together only when one has outlived its lease,
  whatever late releases, lost answers and dead processes do.
* `CallsEnd`: a call gets in, fails or times out, also behind a dead holder.

Properties of `PostingPersistence`, the first three as long as no accident has
happened:

* `AckedIsDurable`: an answered change is in the file or in the payload that is
  being written over it.
* `AckedIsVisible`: an answered change is in the state in use, in this process
  and in later ones.
* `DurableGrows`: what is durable never goes back, restarts included.
* `WaitersAreAnswered`: a call ends whatever fails, also one that is chained
  behind a failed write.

Properties of `LegendCommit`:

* `CountsMatchLedger`: the counters that transactions increment are the numbers
  of posts settled, however many runs and replays a post had.
* `LeaderHasMost`: the recorded leader has the recorded count and nobody has
  more.
* `TopUsersAreTop`: the rows that are merged and capped post by post are those
  a scan of all counts would find.
* `AwardsAreEarned` (a theorem, no run): an award, which a commit decides from
  the scope document and its few top rows, is true of the counts of all users:
  who is first, leads, overtook, rose in rank or is close.
* `FirstClaimIsFirst`: "first" is awarded to one post per scope, the one its
  permanent claim names.
* `StagePaysOnce`: a client's stage settles one post, also when two posts send
  it and when a cancel that had read it writes after the commit. (A post's own
  stage, made anew by each run without one, may settle another post too, whose
  client sends its id.)
* `ResultIsTrue`: a result that says `ready` or `none` is of a settled post and
  shows exactly its awards.
* `ImplementsLeaderboard`: refinement of the contract.

Properties of `VideoProcessing`:

* `NothingStranded`: once finalize has ended without a warning, a post that was
  not deleted is playable or its task is still held, however often runs failed,
  died or ran twice.
* `CompleteIsTrue`: a live post that calls its upgrade complete has it, though
  phase and variants come from different runs and snapshots.
* `OnlyEarlyUpgradeTakesStartup`: a playable post is made unplayable by one
  write only, that of a deferred job that read it before it was playable.
* `EventuallyPlayable`: after such a finalize the post becomes playable or is
  deleted.

`NothingStranded` and `EventuallyPlayable` speak of sources without an upgrade:
for the others the finding below is what happens.

Properties of `PostLikes`:

* `GateCounts`: the counter of an instance is the number of calls inside, and
  while calls queue, at least as many as the limit are in or on their way in,
  so no wake-up is lost. (That a newcomer may slip in between a wake-up and the
  woken call, and exceed the limit, is how the code is written; the model has
  it, and `GateCounts` allows it.)
* `NeverOvercounts`: the counter is never above the likes.
* `CountIsExact`: with one instance, no outlived lease and no unlike that threw
  or landed late, the counter is the number of likes; a like may do both. Outside
  these conditions it drifts down: an unlike trusts memory that another instance,
  a lost answer, or a batch that a dead process left behind, made stale.
* `AnswerIsTrue`: process-local, what a call asks for was so at some time while
  it was in flight, as long as every batch lands while its call waits for it
  (`Steady`). The condition is needed: between the batch of a like and its answer,
  a late unlike of the same viewer can land, and a second like that then joins is
  told `liked`. It takes four calls, one more than the run has, so for the run the
  condition makes no difference; the theorem needs it.
* `NobodyIsStranded`: whoever shares a promise shares that of a call at work;
  whoever queues is in the queue, once.
* `LockIsKeyed` (a theorem, no run): refinement of `KeyedSection`, by viewer
  under a coordinator and by viewer and instance without.

**Why the bounds are enough.** Two intents and two operations
are needed for one to take the other's, and no action relates three of any
kind; both compete for the one session, and that an intent is accepted on one
session only, of any number, is a theorem. One delete lets a replay bring the
post back, and its remains or its second document meet every later request; two
users let two requests of an intent count on different profiles. Two restarts let the second meet what the first left. Four sends let a
replay meet an operation that is being published, one that failed, one that was
cancelled and one that completed. The constants that bound behaviours are `MaxAttempts`, `MaxErased` and `MaxCrashes`, in
`VideoProcessing` `MaxUpgradeTasks`, in `PostLikes` `MaxCalls` and `MaxFaults`;
the theorems hold for every value of them.

The lock: three calls are the smallest number in which one can overtake another
that waits, and in which a late release can meet a third call's lease; no action
relates two keys. The persistence: a write in progress, one chained behind it
and one call that comes after a failure are three writers; the reader is the
second of two concurrent loads; a second restart meets the same file as the
first. The legends: three posts of two users make a tie and an overtaking; three
runs are finalize, its second run and a replay, or the runs of three posts; one
scope is enough because the transaction treats each scope of a post alike, from
documents of that scope. With two users the cap of the top users and the
threshold of "close to the leader" are scaled to 1, so that a row is dropped and
both sides of the threshold occur. The client's stage has a context and no
scopes, so what it pays for is counted in recomputed scopes, and what a post's
own stage pays for in persisted ones; which ids are sent with which post is
fixed in the instance and arbitrary in the theorems. Runs are symmetric.

The video: two workers are a run and one that overtakes it, of the same task or
of the other kind; a third would repeat one of the two. A run reads once and
writes from that, so a second queued upgrade task adds only another delivery of
what one task delivers any number of times. The likes: three calls are a like,
the opposite call and the repetition, and with a limit of one they are one
inside, one that waits and one that slips in; two instances remember different
things of one viewer; the second viewer shares the gates and the counter, and
not the section. One fault is enough for each condition of `Reliable` to fail by
itself: a crash in the commit of an unlike and a like after it are a late batch
that the counter does not survive. Instances and viewers are symmetric.

**Fairness.** Continuations and timers run (weak fairness of the steps of a
request, of a status read and of the jobs): that is the event loop. A client
that was given an operation polls it (weak fairness of `ClientPoll`): the
answer of finalize and of every status read tells it when. The cache deletes
do not fail for ever (strong fairness of `ApplyInvalidation`). No fairness is
assumed of what the user decides: sending finalize, cancel, retry.

For the lock: promises and timers run, `fn` ends, and the waiting time passes
for a call that waits. For the persistence: file operations end, in success or
in failure. No fairness is assumed of the lease's expiry or of restarts.
`LegendCommit` and `PostLikes` have none: a run may stop anywhere, and their
properties are safety. For `PostLikes` a call that waits cannot be promised an
end, since work is not bounded; `GateCounts` and `NobodyIsStranded` say instead
that there is always someone it waits for.

For the video: finalize goes on, a task is delivered as long as it is held, and
a worker takes its next step (weak fairness); the queue retries without end, so
of infinitely many runs that come to an await not every one dies or throws there
(strong fairness of the five steps of a fast-start run). No fairness is assumed
of the deferred job, which has to keep the promise of another, and of the author.

**Deadlock** checking is off: with its sends, calls or runs used up and nothing
queued, the system rests.

## Proofs

Every theorem holds for every value of the constants; the assumptions are
`ConstantsAssumption`, `LockAssumption`, `PersistenceAssumption`,
`LegendAssumption`, `StageAssumption`, `BoundAssumption`, `NoPostAssumption` and
`LikesAssumption`, which give the constants their types and say that calls and
posts, which are counted, are finitely many. `theorems` in `PROJECT.json` lists
the results.

### The control plane

`PostingOperations_proofs` proves that
`InductiveInvariant` is invariant, hence `TypeOK` and each safety invariant
above; that `CompletedUndoneOnlyByFinalize` holds; and that the control plane
implements `PublishIntent`.

The argument. None of the invariants is inductive alone. `PostBehindOperation`
needs to know, when a request marks its operation, that its post was written:
that is `RequestKeepsItsGround`, which in turn rests on `OneAcceptance` (the
request acts on the operation its key maps to, which never changes) and on
`made`, which, unlike the document, is never taken back. That a request about to
start jobs finds fewer starts than created documents follows from its own
create, whatever is deleted after it: only the request in flight adds to either
number. `CreatedOncePerDelete` ties the creates to the document and the deletes.
`TypeOK` needs `PollsLeft`: an
operation that is processing has a read left before the threshold, because
every way back to processing resets the counter. `SideEffectsOnce` needs
`JobsBehindPosts`, and `InvalidationRecordIsTrue` needs `PollersApplied`.
`InductiveInvariant` is their conjunction.

The proofs go by variable rather than by action: `Writers` says once which
actions write each variable, `ExistingOperationStep` and `NewOperationStep` say
what a step can do to an operation record, and the lemma of each invariant
combines those. The refinement maps an acceptance to `Accept`, the create to
`Publish`, a delete to `Withdraw`, a start of jobs (also one that throws half
way) to `StartJobs`, the count and the answer to theirs, everything else, an
unlike's merge among it, to a stutter.

### The lock

`OneLiveCallInside` follows from `LiveCallHoldsLease` where there is a lease and
from `ArrivalOrder` where there is none. For the first, a release compares the
token, so only an expiry takes a lease away, and the expiry marks the call.
`ArrivalOrder` is not inductive: that the promise a call waits for is that of
the call just before it must be known. `TicketsInOrder` says that arrivals are
numbered without gaps or repetition, `ChainInOrder` that the tail of a key has
the last number and that every call awaits its predecessor's promise;
`ModesApart` keeps the two mechanisms from meeting. `LockInvariant`, their
conjunction, is proved one lemma per part. `ImplementsSection` follows, since an
owner in the abstract section is a call inside that has not outlived its lease,
and a step changes at most one of them.

### The persistence

`AckedIsDurable` needs to know what a write that is still chained will put over
the file. `PayloadsGrow` says that what is durable, the payloads in the chain in
their order, and the state in memory are an increasing sequence, and that the
payload of a call has its change. `AckedIsVisible` over a restart needs
`SamplesAreFresh`: before a process has loaded, what a call has read is what the
file still holds. `UnreadableIsEmpty` says that a file that does not parse
counts for nothing. All of it is under `Quiet`: no accident so far. The finding
below is what happens without it.

### The legends

`UnsettledIsUncounted` says that the marker, the counts and the awards of a post
come in one step, `PaidStageIsUsed` that a client's stage in a marker is not staged
any more, `EmptyScopeIsEmpty` that a scope that counted no post is empty in all its
documents. With them a commit counts a post that was not counted before, and the
lemma `OneMorePost` (a finite set and one element more) turns each increment
into the cardinality that `CountsMatchLedger` speaks of. The refinement rests on
it: `LeaderIsOvertaken` shows that the comparison of counters in the code is the
comparison of numbers of posts in `Leaderboard`, and `CommitSettles` that a
commit is a `Settle` of the contract, an ineligible post's one with no scopes;
every other step stutters.

`TopUsersAreTop` says of a merge into a few kept rows that it loses nothing. The
rank of a user is one more than the number of users above; `Counts` gives the
numbers of all users, of which the scope keeps the rows of the first `Cap`.
Three facts carry the proof. When the author's count rises, every other rank
stays or gets worse, so the new top lies in the old one with the author added
(`TopAfterRise`). A part of the rows that contains the top has the same top
(`PartHasTheTop`): a row that was dropped has the full top above it
(`TopIsFull`, by the least rank that is out of the top, which `LeastNat` picks),
so no rank within the cap changes. And users that the order does not tell apart
share a rank. The ranks are numbers because posts are finitely many.
`AwardsAreEarned` follows: the kept rows have the ranks of all the users
(`CappedRank`), and the leader of the scope document has the most
(`LeaderHasMost`), so what a commit decides from these few rows is true of the
counts of everybody.

### The video

`Inv` adds to the properties what a run carries across its awaits. A task is
never lost because only a 200 removes it, and a 200 comes from a run that has
just made the post playable, or from one that found it completed, which
`DocumentIsSound` excludes: every write of a live document drops the status, and
nothing in reach of this pipeline sets `completed` on a native one.
`RunsAreSound` says that a run about to write has its variants, and that what it
read was sound then. `NoUpgradeNoTask` says that without an eligible source no
deferred task and no deferred run exists, and every replaced document is
playable. `MissingIsRemoved` keeps remains of deleted posts out of the way, and
`QueuedIsHeld` carries the task from its creation to the end of finalize.
`OnlyEarlyUpgradeTakesStartup` is then a case analysis of the writes.

### The likes

`NeverOvercounts` is inductive with the finiteness of `likes`: a batch that
raises the counter creates a document, one that deletes one lowers it.
`NobodyIsStranded` rests on `QueuesAreTrue` (a queue holds exactly the calls
that wait at it, each once, so waking the head wakes a waiter) and
`FollowersAreLed` (who shares a promise has exactly the leader of its key).
`CountIsExact` rests on three facts: `OwnersApart`, two live calls of a viewer
are not in the section together; `MemoryHasCaller`, an instance that remembers
something was called, so that with one instance there is one memory; and
`MemoryIsTrue`, what it remembers is liked, or is about to be forgotten by the
unlike that holds the section. With them an unlike that skips the check finds
its document, and the counter follows the set.
`GateCounts` is inductive with `QueuesAreTrue`: the head that a leaving call
wakes was at the gate, so one less inside is one more on its way in, and the
lemmas `OneMoreInside` and `LeaveCounts` do the two sums.
A batch that lands late (`LateBatch`) moves no call, so it disturbs only what
speaks of the store; that its call has begun (`LostHasCaller`) is what lets
`CountIsExact` tell whether it is an unlike.
`AnswerIsTrue` rests on `AllSeen`: a call in flight that has not seen what it
asks for does not have it (`Unseen`), a call whose batch was answered holds it
until it leaves, since `OwnersApart` keeps the others of its viewer out, and a
call that leaves well takes only calls along that have seen it, since nobody
joins while it settles (`Seen`).
`LockIsKeyed` is the composition with the lock: entering a section is an `Enter`
of the contract, since the guard looks at the owners of the same place
(`OneEnters`), and whatever else happens only ends ownerships (`OthersYield`); a
restart ends those of an instance together. A call never changes its viewer or
its instance on the way (`Kept`), which is what keeps the places apart.

### Only model-checked

The liveness properties (`AnsweredOperationSettles`, `CompletionIsInvalidated`,
`QueuedCountIsRun`, `CallsEnd`, `WaitersAreAnswered`, `EventuallyPlayable`): their
proofs need fairness and ENABLED, which the prover does not handle. Every safety
invariant, action property and refinement that a run checks is a theorem.
Two theorems state properties that have no run of their own, `AwardsAreEarned`
and `LockIsKeyed`.

## Findings

* **A cancelled operation makes progress without a retry.**
  `docs/surfaces/posting-operation-state-machine.md` line 81 says it does not.
  `markOperationCompleted` and `markOperationFailed` assign the state
  unconditionally; a replayed finalize in flight overwrites `cancelled`.
* **A clean restart can forget everything.** `docs/surfaces/posting-upload.md`
  line 126 says that the file keeps the state available across restarts. The
  first two calls of a process each load it; when one has loaded and started
  its write, which truncates the file, the other reads it empty and puts the
  empty state in use. `AckedSurvives` excludes files that are torn by a stop
  during a write or cannot be read, which lose the state too.
* **A ready legend result is lost.** The legends audit (lines 326 and 328) calls
  a retried finalize and a second worker run safe. They are, for the counts; but
  each sets the result to `pending` without awards before it finds the marker,
  then leaves it so: a client that polls after that waits for ever.
* **A playable video post is taken back.** The comment over the deferred job
  (`services/video/deferred-1080-upgrade.processor.ts` line 84) says that it
  does not change the URLs startup playback uses. Its task is created before
  the live post is written; a worker that picks it up early reads the document
  of finalize, and later replaces the live one without the startup variants.
* **An answer is stale.** `docs/mutations-idempotency-discovery.md` line 39 and
  `docs/mutations-invalidation.md` line 142 speak of requests in flight. With a
  coordinator a result answers for 2 s after its call has ended: like, unlike,
  like within that time ends with a client told `liked` and a post that is not.

Two more follow from the models and have no run of their own. The completion
invalidation is not one-time (`docs/mutations-invalidation.md` line 137): test,
deletes and record are separated by awaits (`posting-mutation.service.ts`
1141-1147), so two readers, or a restart, repeat it; the deletes are idempotent,
and `InvalidationRecordIsTrue` is what holds. Opposite mutations are not
serialized (line 143 there) when a call outlives its lease of 8 s
(`lib/mutation-lock.ts` 4, 17), which is neither renewed nor checked again;
in one process they are, by the theorem `ChainKeepsOrder`.

## Not modelled

Besides what each section above leaves out: media registration, achievements,
route claims, the older stage and publish routes, comments, the other social
mutations, the for-you feed, caches, request gates, analytics, the read surfaces
and the operator tooling. `components` in `PROJECT.json` gives each its reason:
most are projections of documents or text and geometry processing without
control of their own, and these are by far the largest part of the source.
Comments, media registration and the feed's serve state have control, and are
what the plan has left.

## Plan

Done: the control plane, the lock, the persistence, the legends, the video
pipeline, and likes with the dedupe and the concurrency limit. What is left, in
this order:

1. `PostingMedia`: registration, uploads, and what finalize reads of them; the
   media key that is looked up across sessions
   (`posting-mutation.repository.ts` 385).
2. Comments: the embedded array and the sub-documents that are written side by
   side.
3. The counters that a live video write takes back: the composition of
   `VideoProcessing` with `PostLikes`.
4. The serve state and the cursor of the for-you feed, the request gates.
