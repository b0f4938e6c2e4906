------------------------- MODULE PostingOperations -------------------------
(***************************************************************************)
(* The posting control plane: upload sessions, the finalize request with   *)
(* its publish flow, the status, cancel and retry requests, the background *)
(* completion and profile-count jobs, the author's delete of a post, and a  *)
(* restart of the process (posting-mutation.repository.ts,                 *)
(* posting-mutation.service.ts and post-mutation.repository.ts).           *)
(*                                                                         *)
(* A request is cut where the code awaits something slow: one action per   *)
(* stretch between two awaits.  A repository method changes the state in   *)
(* memory and queues its write in one stretch, so it is one action; the    *)
(* write itself is the subject of PostingPersistence.                      *)
(***************************************************************************)
EXTENDS Naturals, FiniteSets

CONSTANTS
    Viewers,
    Keys,          \* publish intents: one viewer's idempotency keys
    KeyViewer,     \* KeyViewer[k]: the viewer that owns intent k
    PostAs,        \* PostAs[k]: the users a request of intent k may be posted as
    ClientKeys,    \* client session keys
    Sessions,      \* identities of upload sessions
    Ops,           \* identities of posting operations
    NoViewer, NoSession, NoOp,
    NoKey,         \* no intent; also the empty postId, a post being named by its intent
    MaxAttempts,   \* MaxAttempts[k]: bound on the finalize requests of intent k
    MaxErased,     \* MaxErased[k]: bound on the deletes of the post of intent k
    MaxCrashes     \* bound on the restarts of the process

ASSUME ConstantsAssumption ==
    /\ KeyViewer \in [Keys -> Viewers] /\ PostAs \in [Keys -> SUBSET Viewers]
    /\ NoViewer \notin Viewers /\ NoSession \notin Sessions
    /\ NoOp \notin Ops /\ NoKey \notin Keys
    /\ MaxAttempts \in [Keys -> Nat] /\ MaxErased \in [Keys -> Nat] /\ MaxCrashes \in Nat

\* A posted operation is completed by its second status read.
CompleteAfterPolls == 2

(***************************************************************************)
(* Durable state: the persisted records, and what Firestore holds.         *)
(***************************************************************************)
VARIABLES
    session,     \* session[s]: [state, viewer]
    sessionOf,   \* sessionsByViewerKey
    lapsed,      \* sessions whose expiresAtMs has passed
    op,          \* operationsById
    opOf,        \* operationsByViewerIdempotency
    posts,       \* intents whose canonical post document exists now
    made,        \* made[k]: times a finalize request created the document
    erased,      \* erased[k]: times the document was deleted
    jobs,        \* jobs[k]: times the jobs of a new post were started
    counted      \* counted[<<k, v>>]: times post k was added to the counters of v

(***************************************************************************)
(* Process-local state, lost in a restart.                                 *)
(***************************************************************************)
VARIABLES
    fin,         \* fin[k]: the one finalize request of intent k in flight
    poll,        \* poll[o][w]: the status read of operation o in flight
    timer,       \* operations with a completion job queued (completionTimers)
    countTimer   \* countTimer[k]: the profile that the count job queued for post k is for

(***************************************************************************)
(* What the outside has seen, and the bounds.                              *)
(***************************************************************************)
VARIABLES
    known,       \* operations a finalize answer has named to the client
    applied,     \* operations whose completion invalidation has been applied
    attempts,    \* attempts[k]: finalize requests of intent k so far
    crashes

durable == <<session, sessionOf, lapsed, op, opOf>>
stored  == <<posts, made, erased, jobs, counted>>
local   == <<fin, poll, timer, countTimer>>
seen    == <<known, applied, attempts, crashes>>
vars    == <<session, sessionOf, lapsed, op, opOf, posts, made, erased, jobs, counted,
             fin, poll, timer, countTimer, known, applied, attempts, crashes>>

SessionStates == {"none", "open", "finalized", "expired"}
OpStates == {"none", "processing", "completed", "failed", "cancelled"}
FinPlaces == {"idle", "author", "publish", "enqueue", "mark", "rewards", "echo"}
PollPlaces == {"idle", "read", "deleting", "applied"}
\* Who reads an operation's status: the client's request, or the background job.
Pollers == {"client", "timer"}

SessionRecord == [state : SessionStates, viewer : Viewers \union {NoViewer}]
OpRecord == [state : OpStates, key : Keys \union {NoKey},
             session : Sessions \union {NoSession}, postId : Keys \union {NoKey}, pollCount : 0..CompleteAfterPolls,
             invalidated : BOOLEAN]
FinRecord == [place : FinPlaces, op : Ops \union {NoOp}, replayed : BOOLEAN,
              author : Viewers \union {NoViewer}]

NoFin == [place |-> "idle", op |-> NoOp, replayed |-> FALSE, author |-> NoViewer]
NoPolls == [o \in Ops |-> [w \in Pollers |-> "idle"]]

TypeOK ==
    /\ session \in [Sessions -> SessionRecord]
    /\ sessionOf \in [Viewers \X ClientKeys -> Sessions \union {NoSession}]
    /\ lapsed \subseteq Sessions
    /\ op \in [Ops -> OpRecord]
    /\ opOf \in [Keys -> Ops \union {NoOp}]
    /\ posts \subseteq Keys
    /\ made \in [Keys -> Nat]
    /\ erased \in [Keys -> Nat]
    /\ jobs \in [Keys -> Nat]
    /\ counted \in [Keys \X Viewers -> Nat]
    /\ fin \in [Keys -> FinRecord]
    /\ poll \in [Ops -> [Pollers -> PollPlaces]]
    /\ timer \subseteq Ops
    /\ countTimer \in [Keys -> Viewers \union {NoViewer}]
    /\ known \subseteq Ops
    /\ applied \subseteq Ops
    /\ attempts \in [Keys -> Nat]
    /\ crashes \in 0..MaxCrashes

Init ==
    /\ session = [s \in Sessions |-> [state |-> "none", viewer |-> NoViewer]]
    /\ sessionOf = [vc \in Viewers \X ClientKeys |-> NoSession]
    /\ lapsed = {}
    /\ op = [o \in Ops |-> [state |-> "none", key |-> NoKey, session |-> NoSession,
                            postId |-> NoKey, pollCount |-> 0, invalidated |-> FALSE]]
    /\ opOf = [k \in Keys |-> NoOp]
    /\ posts = {}
    /\ made = [k \in Keys |-> 0]
    /\ erased = [k \in Keys |-> 0]
    /\ jobs = [k \in Keys |-> 0]
    /\ counted = [kv \in Keys \X Viewers |-> 0]
    /\ fin = [k \in Keys |-> NoFin]
    /\ poll = NoPolls
    /\ timer = {}
    /\ countTimer = [k \in Keys |-> NoViewer]
    /\ known = {}
    /\ applied = {}
    /\ attempts = [k \in Keys |-> 0]
    /\ crashes = 0

-----------------------------------------------------------------------------
(***************************************************************************)
(* Upload sessions.                                                        *)
(***************************************************************************)

\* A session the client key still maps to is replayed while it can be finalized.
Replayable(s) == s # NoSession /\ s \notin lapsed /\ session[s].state = "open"

CreateUploadSession(v, c) ==
    /\ ~ Replayable(sessionOf[<<v, c>>])
    /\ \E s \in Sessions :
        /\ session[s].state = "none"
        /\ session' = [session EXCEPT
               ![s] = [state |-> "open", viewer |-> v]]
        /\ sessionOf' = [sessionOf EXCEPT ![<<v, c>>] = s]
    /\ UNCHANGED <<lapsed, op, opOf, stored, local, seen>>

\* The forty-five minutes of a session pass.
SessionLapses(s) ==
    /\ session[s].state # "none"
    /\ s \notin lapsed
    /\ lapsed' = lapsed \union {s}
    /\ UNCHANGED <<session, sessionOf, op, opOf, stored, local, seen>>

-----------------------------------------------------------------------------
(***************************************************************************)
(* The finalize request of intent k, on session s.                         *)
(***************************************************************************)

\* dedupeInFlight: a second request of the intent joins the one in flight.
RequestFinalize(k) ==
    /\ fin[k].place = "idle"
    /\ attempts[k] < MaxAttempts[k]
    /\ attempts' = [attempts EXCEPT ![k] = @ + 1]

AwaitAuthor(k, o, isReplay) ==
    fin' = [fin EXCEPT ![k] = [place |-> "author", op |-> o, replayed |-> isReplay,
                                author |-> NoViewer]]

FinalizeReplay(k) ==
    /\ RequestFinalize(k)
    /\ opOf[k] # NoOp
    /\ AwaitAuthor(k, opOf[k], TRUE)
    /\ UNCHANGED <<durable, stored, poll, timer, countTimer, known, applied, crashes>>

\* Mutant: the session may be finalized by another intent already.
FinalizeAcceptAnyState(k, s) ==
    /\ RequestFinalize(k)
    /\ opOf[k] = NoOp
    /\ session[s].state # "none"
    /\ session[s].viewer = KeyViewer[k]
    /\ s \notin lapsed
    /\ \E o \in Ops :
        /\ op[o].state = "none"
        /\ op' = [op EXCEPT ![o] = [state |-> "processing", key |-> k, session |-> s,
                                    postId |-> NoKey, pollCount |-> 0,
                                    invalidated |-> FALSE]]
        /\ opOf' = [opOf EXCEPT ![k] = o]
        /\ AwaitAuthor(k, o, FALSE)
    /\ session' = [session EXCEPT ![s].state = "finalized"]
    /\ UNCHANGED <<sessionOf, lapsed, stored, poll, timer, countTimer,
                   known, applied, crashes>>

FinalizeAccept(k, s) ==
    /\ RequestFinalize(k)
    /\ opOf[k] = NoOp
    /\ session[s].state = "open"
    /\ session[s].viewer = KeyViewer[k]
    /\ s \notin lapsed
    /\ \E o \in Ops :
        /\ op[o].state = "none"
        /\ op' = [op EXCEPT ![o] = [state |-> "processing", key |-> k, session |-> s,
                                    postId |-> NoKey, pollCount |-> 0,
                                    invalidated |-> FALSE]]
        /\ opOf' = [opOf EXCEPT ![k] = o]
        /\ AwaitAuthor(k, o, FALSE)
    /\ session' = [session EXCEPT ![s].state = "finalized"]
    /\ UNCHANGED <<sessionOf, lapsed, stored, poll, timer, countTimer,
                   known, applied, crashes>>

\* A lapsed session is marked expired whatever its state was, and refused.
FinalizeExpire(k, s) ==
    /\ RequestFinalize(k)
    /\ opOf[k] = NoOp
    /\ session[s].state # "none"
    /\ session[s].viewer = KeyViewer[k]
    /\ s \in lapsed
    /\ session' = [session EXCEPT ![s].state = "expired"]
    /\ UNCHANGED <<sessionOf, lapsed, op, opOf, stored, local, known, applied, crashes>>

\* resolveEffectivePostAuthor throws: the operation is left as it is.
AuthorRefused(k) ==
    /\ fin[k].place = "author"
    /\ fin' = [fin EXCEPT ![k] = NoFin]
    /\ UNCHANGED <<durable, stored, poll, timer, countTimer, seen>>

\* Mutant: every replay is taken for a completed one.
ReplayIsAlwaysDone(k) == fin[k].replayed

\* The replay of an operation that is completed by now publishes nothing,
\* whether or not its post still exists.
ReplayIsDone(k) ==
    LET o == fin[k].op IN
    fin[k].replayed /\ op[o].state = "completed" /\ op[o].postId # NoKey

AuthorResolved(k) ==
    /\ fin[k].place = "author"
    /\ \/ /\ ReplayIsDone(k)
          /\ timer' = timer \union {fin[k].op}
          /\ fin' = [fin EXCEPT ![k].place = "echo"]
       \/ /\ ~ ReplayIsDone(k)
          /\ \E v \in PostAs[k] :
                fin' = [fin EXCEPT ![k] = [@ EXCEPT !.place = "publish", !.author = v]]
          /\ UNCHANGED timer
    /\ UNCHANGED <<durable, stored, poll, countTimer, seen>>

\* postRef.create: there is no such document.  Whether there was one, and its
\* author deleted it, is not looked at.
CreatePost(k) ==
    /\ fin[k].place = "publish"
    /\ k \notin posts
    /\ posts' = posts \union {k}
    /\ made' = [made EXCEPT ![k] = @ + 1]
    /\ fin' = [fin EXCEPT ![k].place = "enqueue"]
    /\ UNCHANGED <<durable, erased, jobs, counted, poll, timer, countTimer, seen>>

\* scheduleFinalizeSupplementaryWrites: nothing while a job for the post is
\* queued, whichever profile that one is for.
QueueCount(k) ==
    countTimer' = [countTimer EXCEPT ![k] = IF @ = NoViewer THEN fin[k].author ELSE @]

\* Mutant: createdNewPost stays TRUE, and the jobs are started again.
PostAlreadyExistsStartsJobs(k) ==
    /\ fin[k].place = "publish"
    /\ k \in posts
    /\ QueueCount(k)
    /\ fin' = [fin EXCEPT ![k].place = "enqueue"]
    /\ UNCHANGED <<durable, stored, poll, timer, seen>>

\* postRef.create: ALREADY_EXISTS; only the profile-count job is scheduled.
PostAlreadyExists(k) ==
    /\ fin[k].place = "publish"
    /\ k \in posts
    /\ QueueCount(k)
    /\ fin' = [fin EXCEPT ![k].place = "mark"]
    /\ UNCHANGED <<durable, stored, poll, timer, seen>>

\* The audio, video and embedding jobs of a new post.
StartJobs(k) ==
    /\ fin[k].place = "enqueue"
    /\ jobs' = [jobs EXCEPT ![k] = @ + 1]
    /\ QueueCount(k)
    /\ fin' = [fin EXCEPT ![k].place = "mark"]
    /\ UNCHANGED <<durable, posts, made, erased, counted, poll, timer, seen>>

\* Mutant: marked completed at once, as the method is named, with no postId.
MarkOperationCompletedAtOnce(k) ==
    LET o == fin[k].op IN
    /\ fin[k].place = "mark"
    /\ op' = [op EXCEPT ![o].state = "completed"]
    /\ timer' = timer \union {o}
    /\ fin' = [fin EXCEPT ![k].place = "rewards"]
    /\ UNCHANGED <<session, sessionOf, lapsed, opOf, stored, poll, countTimer, seen>>

\* markOperationCompleted, whatever the operation's state has become.
MarkOperationCompleted(k) ==
    LET o == fin[k].op IN
    /\ fin[k].place = "mark"
    /\ op' = [op EXCEPT ![o].postId = k, ![o].state = "processing", ![o].pollCount = 0]
    /\ timer' = timer \union {o}
    /\ fin' = [fin EXCEPT ![k].place = "rewards"]
    /\ UNCHANGED <<session, sessionOf, lapsed, opOf, stored, poll, countTimer, seen>>

\* The publish flow throws before or after the post is created: the catch
\* block marks the operation failed, whatever its state has become.
PublishThrows(k) ==
    /\ fin[k].place \in {"publish", "enqueue", "mark", "rewards"}
    /\ op' = [op EXCEPT ![fin[k].op].state = "failed"]
    /\ \/ UNCHANGED jobs
       \/ /\ fin[k].place = "enqueue"    \* a job was started, a later call threw
          /\ jobs' = [jobs EXCEPT ![k] = @ + 1]
    /\ fin' = [fin EXCEPT ![k] = NoFin]
    /\ UNCHANGED <<session, sessionOf, lapsed, opOf, posts, made, erased, counted,
                   poll, timer, countTimer, seen>>

\* The echo of a completed operation is outside the try block.
EchoThrows(k) ==
    /\ fin[k].place = "echo"
    /\ fin' = [fin EXCEPT ![k] = NoFin]
    /\ UNCHANGED <<durable, stored, poll, timer, countTimer, seen>>

FinalizeAnswer(k) ==
    /\ fin[k].place \in {"rewards", "echo"}
    /\ known' = known \union {fin[k].op}
    /\ fin' = [fin EXCEPT ![k] = NoFin]
    /\ UNCHANGED <<durable, stored, poll, timer, countTimer, applied, attempts, crashes>>

-----------------------------------------------------------------------------
(***************************************************************************)
(* Status reads and the completion invalidation.                           *)
(***************************************************************************)

\* Mutant: a read counts as a poll before the post is written, and after completion.
ReadOperationAlwaysPolls(o) ==
    op' = [op EXCEPT ![o].pollCount = @ + 1,
                     ![o].state = IF op[o].pollCount + 1 >= CompleteAfterPolls
                                  THEN "completed" ELSE @]

\* repository.getPostingOperation: a read of a posted operation is a poll.
ReadOperation(o) ==
    IF op[o].state = "processing" /\ op[o].postId # NoKey
    THEN op' = [op EXCEPT ![o].pollCount = @ + 1,
                          ![o].state = IF op[o].pollCount + 1 >= CompleteAfterPolls
                                       THEN "completed" ELSE "processing"]
    ELSE UNCHANGED op

ClientPoll(v, o) ==
    /\ o \in known
    /\ KeyViewer[op[o].key] = v
    /\ poll[o]["client"] = "idle"
    /\ ReadOperation(o)
    /\ poll' = [poll EXCEPT ![o]["client"] = "read"]
    /\ UNCHANGED <<session, sessionOf, lapsed, opOf, stored, fin, timer, countTimer, seen>>

\* The background queue runs one job at a time.
BackgroundIdle == \A o \in Ops : poll[o]["timer"] = "idle"

TimerPoll(o) ==
    /\ o \in timer
    /\ BackgroundIdle
    /\ timer' = timer \ {o}
    /\ ReadOperation(o)
    /\ poll' = [poll EXCEPT ![o]["timer"] = "read"]
    /\ UNCHANGED <<session, sessionOf, lapsed, opOf, stored, fin, countTimer, seen>>

\* Mutant: the invalidation is skipped once a poller has applied it.
NeedsInvalidationUnlessApplied(o) == op[o].state = "completed" /\ o \notin applied

NeedsInvalidation(o) == op[o].state = "completed" /\ ~ op[o].invalidated

\* Mutant: an answered status job never leaves the background slot.
PollAnswerKeepsSlot(o, w) ==
    /\ poll[o][w] = "read"
    /\ ~ NeedsInvalidation(o)
    /\ poll' = [poll EXCEPT ![o]["client"] = "idle"]
    /\ UNCHANGED <<durable, stored, fin, timer, countTimer, seen>>

PollAnswer(o, w) ==
    /\ poll[o][w] = "read"
    /\ ~ NeedsInvalidation(o)
    /\ poll' = [poll EXCEPT ![o][w] = "idle"]
    /\ UNCHANGED <<durable, stored, fin, timer, countTimer, seen>>

\* The test of completionInvalidatedAtMs, before the first cache delete.
BeginInvalidation(o, w) ==
    /\ poll[o][w] = "read"
    /\ NeedsInvalidation(o)
    /\ poll' = [poll EXCEPT ![o][w] = "deleting"]
    /\ UNCHANGED <<durable, stored, fin, timer, countTimer, seen>>

\* invalidateEntitiesForMutation(posting.complete) has run to its end, whatever
\* has become of the operation since the test.
ApplyInvalidation(o, w) ==
    /\ poll[o][w] = "deleting"
    /\ applied' = applied \union {o}
    /\ poll' = [poll EXCEPT ![o][w] = "applied"]
    /\ UNCHANGED <<durable, stored, fin, timer, countTimer, known, attempts, crashes>>

\* A cache delete fails; the record is left for the next status read.
InvalidationThrows(o, w) ==
    /\ poll[o][w] = "deleting"
    /\ poll' = [poll EXCEPT ![o][w] = "idle"]
    /\ UNCHANGED <<durable, stored, fin, timer, countTimer, seen>>

\* Mutant: the record is written before the invalidation is applied.
MarkInvalidatedFirst(o, w) ==
    /\ poll[o][w] \in {"deleting", "applied"}
    /\ op' = [op EXCEPT ![o].invalidated = TRUE]
    /\ poll' = [poll EXCEPT ![o][w] = "idle"]
    /\ UNCHANGED <<session, sessionOf, lapsed, opOf, stored, fin, timer, countTimer, seen>>

MarkInvalidated(o, w) ==
    /\ poll[o][w] = "applied"
    /\ op' = [op EXCEPT ![o].invalidated = TRUE]
    /\ poll' = [poll EXCEPT ![o][w] = "idle"]
    /\ UNCHANGED <<session, sessionOf, lapsed, opOf, stored, fin, timer, countTimer, seen>>

-----------------------------------------------------------------------------
(***************************************************************************)
(* Cancel, retry, the profile-count job, and a restart.                    *)
(***************************************************************************)
\* Mutant: a completed operation can be cancelled.
CancelCompletedOperation(v, o) ==
    /\ o \in known
    /\ KeyViewer[op[o].key] = v
    /\ op[o].state # "cancelled"
    /\ op' = [op EXCEPT ![o].state = "cancelled"]
    /\ UNCHANGED <<session, sessionOf, lapsed, opOf, stored, local, seen>>

CancelOperation(v, o) ==
    /\ o \in known
    /\ KeyViewer[op[o].key] = v
    /\ op[o].state \in {"processing", "failed"}
    /\ op' = [op EXCEPT ![o].state = "cancelled"]
    /\ UNCHANGED <<session, sessionOf, lapsed, opOf, stored, local, seen>>

\* Mutant: a retry also forgets the post, as if it were to be published again.
RetryOperationForgetsPost(v, o) ==
    /\ o \in known
    /\ KeyViewer[op[o].key] = v
    /\ op[o].state \in {"failed", "cancelled"}
    /\ op' = [op EXCEPT ![o].state = "processing", ![o].pollCount = 0, ![o].postId = NoKey]
    /\ UNCHANGED <<session, sessionOf, lapsed, opOf, stored, local, seen>>

RetryOperation(v, o) ==
    /\ o \in known
    /\ KeyViewer[op[o].key] = v
    /\ op[o].state \in {"failed", "cancelled"}
    /\ op' = [op EXCEPT ![o].state = "processing", ![o].pollCount = 0]
    /\ UNCHANGED <<session, sessionOf, lapsed, opOf, stored, local, seen>>

\* Mutant: the user's post document is not looked at.
CountOnProfileAgain(k) ==
    /\ countTimer[k] # NoViewer
    /\ BackgroundIdle
    /\ countTimer' = [countTimer EXCEPT ![k] = NoViewer]
    /\ counted' = [counted EXCEPT ![<<k, countTimer[k]>>] = @ + 1]
    /\ UNCHANGED <<durable, posts, made, erased, jobs, fin, poll, timer, seen>>

\* One transaction: nothing if the user's post document exists, else the
\* counters are incremented and the document is written.  A job whose
\* transaction fails is not queued again.
CountOnProfile(k) ==
    /\ countTimer[k] # NoViewer
    /\ BackgroundIdle
    /\ countTimer' = [countTimer EXCEPT ![k] = NoViewer]
    /\ \/ UNCHANGED counted
       \/ /\ counted[<<k, countTimer[k]>>] = 0
          /\ counted' = [counted EXCEPT ![<<k, countTimer[k]>>] = @ + 1]
    /\ UNCHANGED <<durable, posts, made, erased, jobs, fin, poll, timer, seen>>

\* deletePost: the post document alone is deleted.  The operation, the jobs
\* and the counted profile's document are not touched.
DeletePost(k) ==
    /\ k \in posts
    /\ erased[k] < MaxErased[k]
    /\ posts' = posts \ {k}
    /\ erased' = [erased EXCEPT ![k] = @ + 1]
    /\ UNCHANGED <<durable, made, jobs, counted, local, seen>>

\* An unlike sets the post with merge and does not look whether there is one:
\* it leaves a document, without author or media, in the place of a deleted post.
LateMerge(k) ==
    /\ k \notin posts
    /\ made[k] > 0
    /\ posts' = posts \union {k}
    /\ UNCHANGED <<durable, made, erased, jobs, counted, local, seen>>

\* The process restarts: requests in flight and queued jobs are gone.
Crash ==
    /\ crashes < MaxCrashes
    /\ crashes' = crashes + 1
    /\ fin' = [k \in Keys |-> NoFin]
    /\ poll' = NoPolls
    /\ timer' = {}
    /\ countTimer' = [k \in Keys |-> NoViewer]
    /\ UNCHANGED <<durable, stored, known, applied, attempts>>

-----------------------------------------------------------------------------
\* A step of the finalize request of intent k that is in flight.
FinalizeStep(k) ==
    \/ AuthorRefused(k) \/ AuthorResolved(k)
    \/ CreatePost(k) \/ PostAlreadyExists(k) \/ StartJobs(k)
    \/ MarkOperationCompleted(k)
    \/ PublishThrows(k) \/ EchoThrows(k) \/ FinalizeAnswer(k)

PollStep(o, w) ==
    \/ PollAnswer(o, w) \/ BeginInvalidation(o, w)
    \/ ApplyInvalidation(o, w) \/ InvalidationThrows(o, w) \/ MarkInvalidated(o, w)

Next ==
    \/ \E v \in Viewers, c \in ClientKeys : CreateUploadSession(v, c)
    \/ \E s \in Sessions : SessionLapses(s)
    \/ \E k \in Keys :
        \/ FinalizeReplay(k)
        \/ \E s \in Sessions : FinalizeAccept(k, s) \/ FinalizeExpire(k, s)
        \/ FinalizeStep(k)
        \/ CountOnProfile(k)
        \/ DeletePost(k) \/ LateMerge(k)
    \/ \E o \in Ops :
        \/ \E v \in Viewers :
            ClientPoll(v, o) \/ CancelOperation(v, o) \/ RetryOperation(v, o)
        \/ TimerPoll(o)
        \/ \E w \in Pollers : PollStep(o, w)
    \/ Crash

Spec == Init /\ [][Next]_vars

\* The event loop runs every continuation and every timer, a client that was
\* given an operation keeps reading its status, and the cache does not fail
\* every time.
Fairness ==
    /\ \A k \in Keys : WF_vars(FinalizeStep(k)) /\ WF_vars(CountOnProfile(k))
    /\ \A o \in Ops :
        /\ WF_vars(\E v \in Viewers : ClientPoll(v, o))
        /\ WF_vars(TimerPoll(o))
        /\ \A w \in Pollers : WF_vars(PollStep(o, w))
        /\ SF_vars(\E w \in Pollers : ApplyInvalidation(o, w))

FairSpec == Spec /\ Fairness

-----------------------------------------------------------------------------
(***************************************************************************)
(* Safety.                                                                 *)
(***************************************************************************)
Exists(o) == op[o].state # "none"

\* Finalize accepts an intent once and a session once: every operation is the
\* one its idempotency key maps to, it was accepted on a session of the same
\* viewer that can take no other, and no two operations share a session
\* (repository.finalizePosting, under replays, expiry and restarts).
OneAcceptance ==
    /\ \A k \in Keys : opOf[k] # NoOp => Exists(opOf[k]) /\ op[opOf[k]].key = k
    /\ \A o \in Ops : Exists(o) =>
        /\ op[o].key \in Keys
        /\ opOf[op[o].key] = o
        /\ op[o].session \in Sessions
        /\ session[op[o].session].state \in {"finalized", "expired"}
        /\ session[op[o].session].viewer = KeyViewer[op[o].key]
    /\ \A o, p \in Ops :
        Exists(o) /\ Exists(p) /\ op[o].session = op[p].session => o = p

\* A post was written only behind an accepted operation, an operation only
\* ever names the post of its own intent, that post was written, and a completed
\* operation names one: "completed" is never reported for a post that was not
\* written, however often publishing failed or restarted.  (It may have been
\* deleted since.)
PostBehindOperation ==
    /\ \A k \in Keys : k \in posts => made[k] > 0
    /\ \A k \in Keys : made[k] > 0 => opOf[k] # NoOp
    /\ \A o \in Ops : op[o].postId # NoKey => op[o].postId = op[o].key /\ made[op[o].key] > 0
    /\ \A o \in Ops : op[o].state = "completed" => op[o].postId # NoKey

\* The client holds an operation id only once its post is published, so that a
\* retry or a status read of it can never wait for a post nobody is writing.
AnsweredIsPublished == \A o \in known : Exists(o) /\ op[o].postId # NoKey

\* What publishing a post sets off happens at most once, unless the post is
\* deleted in between: the requests of an intent create its document again only
\* after a delete, they start the media and embedding jobs at most once per
\* document they created, and a post is added once to the counters of a profile,
\* although every request may start the jobs and queues the count, and a deleted
\* post that a replay publishes again is not counted again.
CreatedOncePerDelete ==
    \A k \in Keys : made[k] <= erased[k] + (IF k \in posts THEN 1 ELSE 0)
JobsStartedOnce == \A k \in Keys : jobs[k] <= made[k]
CountedOnce ==
    \A k \in Keys, v \in Viewers :
        counted[<<k, v>>] <= 1 /\ (counted[<<k, v>>] > 0 => made[k] > 0)
SideEffectsOnce == CreatedOncePerDelete /\ JobsStartedOnce /\ CountedOnce

\* completionInvalidatedAtMs is set only after the completion invalidation has
\* really been applied: a restart between the two repeats it, never skips it.
InvalidationRecordIsTrue == \A o \in Ops : op[o].invalidated => o \in applied

\* What a finalize request in flight has already done holds until it ends,
\* whatever cancels, retries, polls and expiries come between its awaits: it
\* acts on the operation its key maps to, its post was written from the create
\* on, the jobs it is about to start were never started for the document it has
\* just created, and it answers only an operation that names its post.
RequestKeepsItsGround ==
    \A k \in Keys : fin[k].place # "idle" =>
        /\ opOf[k] \in Ops /\ fin[k].op = opOf[k]
        /\ fin[k].place \in {"enqueue", "mark", "rewards", "echo"} => made[k] > 0
        /\ fin[k].place = "enqueue" => jobs[k] < made[k]
        /\ fin[k].place \in {"rewards", "echo"} => op[fin[k].op].postId # NoKey

\* No client request and no background job takes an operation out of
\* "completed": only a finalize request of the same intent that was in flight
\* when it completed does.
CompletedUndoneOnlyByFinalize ==
    [][\A o \in Ops : op[o].state = "completed" /\ op'[o].state # "completed" =>
          \E k \in Keys : /\ fin[k].op = o /\ fin[k].place # "idle"
                          /\ op'[o].state \in {"processing", "failed"}]_vars

\* The rest of what makes the invariants above inductive: an operation that is
\* processing has a poll left, a counting job is for a post that was written, only
\* operations are invalidated, and a status read past its invalidation has
\* applied it.
PollsLeft == \A o \in Ops : op[o].state = "processing" => op[o].pollCount < CompleteAfterPolls
JobsBehindPosts == \A k \in Keys : countTimer[k] # NoViewer => made[k] > 0
PollersApplied ==
    /\ \A o \in applied : Exists(o)
    /\ \A o \in Ops, w \in Pollers :
        /\ poll[o][w] = "deleting" => Exists(o)
        /\ poll[o][w] = "applied" => o \in applied

InductiveInvariant ==
    /\ TypeOK /\ PollsLeft /\ JobsBehindPosts /\ PollersApplied
    /\ RequestKeepsItsGround /\ OneAcceptance /\ PostBehindOperation
    /\ AnsweredIsPublished /\ CreatedOncePerDelete /\ JobsStartedOnce /\ CountedOnce
    /\ InvalidationRecordIsTrue

\* The control plane implements the publish-intent contract.
Intent == INSTANCE PublishIntent WITH
    accepted <- [k \in Keys |-> IF opOf[k] = NoOp THEN NoSession ELSE op[opOf[k]].session],
    Profiles <- Viewers,
    published <- made,
    withdrawn <- erased,
    started <- jobs,
    counted <- {kv \in Keys \X Viewers : counted[kv] > 0},
    answered <- {k \in Keys : opOf[k] \in known}

\* Every step of the requests, jobs and restarts above is a step of the
\* contract or leaves it alone.
ImplementsPublishIntent == Intent!Spec

(***************************************************************************)
(* Liveness, under FairSpec.                                               *)
(***************************************************************************)

\* An operation the client was given does not stay "processing" while the
\* client polls: two reads complete it, unless it is cancelled or failed first.
AnsweredOperationSettles ==
    \A o \in Ops : (o \in known /\ op[o].state = "processing")
                     ~> (op[o].state # "processing")

\* The completion invalidation of an operation the client polls is recorded in
\* the end, whichever poller a restart interrupts.
CompletionIsInvalidated ==
    \A o \in Ops : (o \in known /\ op[o].state = "completed")
                     ~> (op[o].invalidated \/ op[o].state # "completed")

\* A counting job that is queued is run or lost in a restart: status jobs,
\* which share the one-at-a-time background queue, do not starve it.
QueuedCountIsRun ==
    \A k \in Keys : (countTimer[k] # NoViewer) ~> (countTimer[k] = NoViewer)

(***************************************************************************)
(* What the documentation says of the program, and the code does not do.   *)
(***************************************************************************)

\* docs/surfaces/posting-operation-state-machine.md: cancel "prevents further
\* progress until explicit retry": only RetryOperation leaves "cancelled".
CancelPreventsProgress ==
    [][\A o \in Ops : op[o].state = "cancelled" /\ op'[o].state # "cancelled" =>
          \E v \in Viewers : RetryOperation(v, o)]_vars
=============================================================================
