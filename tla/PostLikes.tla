----------------------------- MODULE PostLikes -----------------------------
(***************************************************************************)
(* Likes of one post, from the request to the document and its counter.    *)
(* A call passes the gates of PostMutationService: it shares the work of a *)
(* call with the same key (dedupeInFlight), waits for a slot of its        *)
(* instance (withConcurrencyLimit), and takes the section of its viewer    *)
(* and post (withMutationLock, here what KeyedSection promises of it).     *)
(* Then one batch writes the like and the counter, and the instance        *)
(* remembers what it did.                                                  *)
(*                                                                         *)
(* distributed: the coordinator holds leases and results for all the       *)
(* instances.  Otherwise every instance keeps its own, in memory.          *)
(***************************************************************************)
EXTENDS Integers, Sequences, FiniteSets

CONSTANTS
  Instances,  \* processes of the server
  Viewers,
  Limit,      \* calls of a kind that an instance works on together (8)
  MaxCalls,   \* bound: calls that arrive
  MaxFaults   \* bound: calls that fail, leases outlived, restarts

ASSUME LikesAssumption ==
  /\ Limit \in Nat \ {0} /\ MaxCalls \in Nat /\ MaxFaults \in Nat
  /\ Instances # {} /\ Viewers # {}

Calls == 1 .. MaxCalls
NoCall == 0
Kinds == {"like", "unlike"}
Keys == Viewers \X Kinds

VARIABLES
  distributed,
  call,      \* the calls, in the order of their arrival
  active,    \* activeByKey, by instance and kind
  waiting,   \* queueByKey
  memory,    \* likedViewers of each instance's mutationStateRepository
  lease,     \* the call that holds the dedupe lease of a key
  result,    \* the call whose result is stored for a key
  outlived,  \* calls whose lease on the section ran out while they worked
  adrift,    \* calls that were left by their process or answer, whose batch may still land
  late,      \* calls whose batch landed so
  likes,     \* viewers with a document in /posts/{postId}/likes
  likeCount, \* the counter in /posts/{postId}
  faults
gates == <<active, waiting>>
dedupe == <<lease, result>>
lost == <<adrift, late>>
store == <<likes, likeCount>>
vars == <<distributed, call, active, waiting, memory, lease, result, outlived,
          adrift, late, likes, likeCount, faults>>

Over == {"answered", "thrown", "gone"}
\* Where a call works on the post: it has the section.
Section == {"check", "commit", "return"}
\* Where it has a slot of its instance.
Slots == {"lock", "leave"} \union Section
\* Where it leads: later calls of its instance and key share its promise.
Leads == {"lookup", "lease", "poll", "gate", "woken", "publish", "release"} \union Slots

\* via: the work of its promise, the same under a dedupe lease, or a stored
\* result; ok: nothing threw; met: what the call asks for was so at some time
\* since it arrived; past: the stored result, when it arrived, of a call that
\* was over by then.
NewCall == [pc |-> "none", viewer |-> CHOOSE v \in Viewers : TRUE, kind |-> "like",
            at |-> CHOOSE i \in Instances : TRUE, via |-> "work", ok |-> TRUE,
            met |-> FALSE, past |-> NoCall]
CallRecords == [pc: {"none", "joined"} \union Leads \union Over, viewer: Viewers,
                kind: Kinds, at: Instances, via: {"work", "lease", "stored"},
                ok: BOOLEAN, met: BOOLEAN, past: Calls \union {NoCall}]
Key(c) == <<call[c].viewer, call[c].kind>>
Slot(c) == <<call[c].at, call[c].kind>>
InFlight(c) == call[c].pc \in Leads \union {"joined"}
Holds(liked, c) == (call[c].viewer \in liked) <=> (call[c].kind = "like")

TypeOK ==
  /\ distributed \in BOOLEAN
  /\ call \in [Calls -> CallRecords]
  /\ active \in [Instances \X Kinds -> Int]
  /\ waiting \in [Instances \X Kinds -> Seq(Calls)]
  /\ memory \in [Instances -> SUBSET Viewers]
  /\ lease \in [Keys -> Calls \union {NoCall}]
  /\ result \in [Keys -> Calls \union {NoCall}]
  /\ outlived \in SUBSET Calls
  /\ adrift \in SUBSET Calls /\ late \in SUBSET Calls
  /\ likes \in SUBSET Viewers
  /\ likeCount \in Int
  /\ faults \in 0 .. MaxFaults

Init ==
  /\ distributed \in BOOLEAN
  /\ call = [c \in Calls |-> NewCall]
  /\ active = [s \in Instances \X Kinds |-> 0]
  /\ waiting = [s \in Instances \X Kinds |-> <<>>]
  /\ memory = [i \in Instances |-> {}]
  /\ lease = [k \in Keys |-> NoCall] /\ result = [k \in Keys |-> NoCall]
  /\ outlived = {} /\ adrift = {} /\ late = {}
  /\ likes = {} /\ likeCount = 0
  /\ faults = 0
----------------------------------------------------------------------------
\* What goes wrong is bounded.
Fault == faults < MaxFaults /\ faults' = faults + 1

(* withConcurrencyLimit: enter at once below the limit, or else queue.     *)

EnterLimit(c, r) ==
  LET s == <<r.at, r.kind>> IN
  \/ /\ active[s] < Limit
     /\ call' = [call EXCEPT ![c] = [r EXCEPT !.pc = "lock"]]
     /\ active' = [active EXCEPT ![s] = @ + 1]
     /\ UNCHANGED waiting
  \/ /\ active[s] >= Limit
     /\ call' = [call EXCEPT ![c] = [r EXCEPT !.pc = "gate"]]
     /\ waiting' = [waiting EXCEPT ![s] = Append(@, c)]
     /\ UNCHANGED active

\* The promise of a waiting call was resolved; the call goes on a microtask
\* later, whatever the counter is by then.
Resume(c) ==
  /\ call[c].pc = "woken"
  /\ call' = [call EXCEPT ![c].pc = "lock"]
  /\ active' = [active EXCEPT ![Slot(c)] = @ + 1]
  /\ UNCHANGED <<distributed, waiting, memory, dedupe, outlived, lost, store, faults>>

\* Mutant: the slot passes to the call that waits, which takes one as well.
FreeSlotHandsOver(s) ==
  /\ active' = [active EXCEPT ![s] = IF waiting[s] = <<>> THEN @ - 1 ELSE @]
  /\ waiting' = [waiting EXCEPT ![s] = SubSeq(@, 2, Len(@))]

\* The finally block frees the slot and wakes the first call that waits.
FreeSlot(s) ==
  /\ active' = [active EXCEPT ![s] = @ - 1]
  /\ waiting' = [waiting EXCEPT ![s] = SubSeq(@, 2, Len(@))]
Woken(s) ==
  IF waiting[s] = <<>> THEN call ELSE [call EXCEPT ![Head(waiting[s])].pc = "woken"]
----------------------------------------------------------------------------
(* dedupeInFlight                                                          *)

PastResult(k) == IF result[k] # NoCall /\ call[result[k]].pc \in Over THEN result[k] ELSE NoCall

\* Without a coordinator a call that has left the section settles in the same
\* run of microtasks: no request arrives in between.
Settling(i) == ~ distributed /\ \E d \in Calls : call[d].pc = "leave" /\ call[d].at = i

\* A request: share the promise of a call in flight with the same key, or
\* begin with the stored results, or without a coordinator with the work.
Arrive(c, v, kind, i) ==
  LET r == [pc |-> "none", viewer |-> v, kind |-> kind, at |-> i, via |-> "work",
            ok |-> TRUE, met |-> (v \in likes) <=> (kind = "like"),
            past |-> PastResult(<<v, kind>>)]
      shared == \E d \in Calls : call[d].pc \in Leads /\ call[d].at = i /\ Key(d) = <<v, kind>>
  IN /\ call[c].pc = "none" /\ \A d \in 1 .. c - 1 : call[d].pc # "none"
     /\ ~ Settling(i)
     /\ \/ /\ shared
           /\ call' = [call EXCEPT ![c] = [r EXCEPT !.pc = "joined"]]
           /\ UNCHANGED gates
        \/ /\ ~ shared /\ distributed
           /\ call' = [call EXCEPT ![c] = [r EXCEPT !.pc = "lookup"]]
           /\ UNCHANGED gates
        \/ ~ shared /\ ~ distributed /\ EnterLimit(c, r)
     /\ UNCHANGED <<distributed, memory, dedupe, outlived, lost, store, faults>>

Sharing(c) == {d \in Calls : \/ d = c
                             \/ /\ call[d].pc = "joined"
                                /\ Slot(d) = Slot(c) /\ Key(d) = Key(c)}

\* Mutant: an error is not shared.
SettledAlone(c, calls) ==
  [d \in Calls |-> IF d \in Sharing(c) /\ (d = c \/ calls[c].ok)
                   THEN [calls[d] EXCEPT !.pc = IF calls[c].ok THEN "answered" ELSE "thrown",
                                         !.ok = calls[c].ok]
                   ELSE calls[d]]

\* The promise of a leader settles, and with it the calls that share it.
Settled(c, calls) ==
  [d \in Calls |-> IF d \in Sharing(c)
                   THEN [calls[d] EXCEPT !.pc = IF calls[c].ok THEN "answered" ELSE "thrown",
                                         !.ok = calls[c].ok]
                   ELSE calls[d]]

\* A stored result is the answer, whether its maker is still in flight or not.
Reuse(c) ==
  LET maker == result[Key(c)] IN
  /\ maker # NoCall
  /\ call' = Settled(c, [d \in Calls |->
       IF d \in Sharing(c)
       THEN [call[d] EXCEPT !.via = "stored", !.past = IF @ = maker THEN @ ELSE NoCall]
       ELSE call[d]])
  /\ UNCHANGED <<distributed, gates, memory, dedupe, outlived, lost, store, faults>>

LookupHit(c) == call[c].pc = "lookup" /\ Reuse(c)
PollHit(c) == call[c].pc = "poll" /\ Reuse(c)

LookupMiss(c) ==
  /\ call[c].pc = "lookup" /\ result[Key(c)] = NoCall
  /\ call' = [call EXCEPT ![c].pc = "lease"]
  /\ UNCHANGED <<distributed, gates, memory, dedupe, outlived, lost, store, faults>>

AcquireLease(c) ==
  /\ call[c].pc = "lease" /\ lease[Key(c)] = NoCall
  /\ lease' = [lease EXCEPT ![Key(c)] = c]
  /\ EnterLimit(c, [call[c] EXCEPT !.via = "lease"])
  /\ UNCHANGED <<distributed, memory, result, outlived, lost, store, faults>>

LeaseIsTaken(c) ==
  /\ call[c].pc = "lease" /\ lease[Key(c)] # NoCall
  /\ call' = [call EXCEPT ![c].pc = "poll"]
  /\ UNCHANGED <<distributed, gates, memory, dedupe, outlived, lost, store, faults>>

\* After 3 s without a result the call does the work itself.
PollGivesUp(c) ==
  /\ call[c].pc = "poll"
  /\ EnterLimit(c, call[c])
  /\ UNCHANGED <<distributed, memory, dedupe, outlived, lost, store, faults>>

Publish(c) ==
  /\ call[c].pc = "publish"
  /\ result' = [result EXCEPT ![Key(c)] = c]
  /\ call' = [call EXCEPT ![c].pc = "release"]
  /\ UNCHANGED <<distributed, gates, memory, lease, outlived, lost, store, faults>>

ReleaseLease(c) ==
  /\ call[c].pc = "release"
  /\ lease' = [lease EXCEPT ![Key(c)] = IF @ = c THEN NoCall ELSE @]
  /\ call' = Settled(c, call)
  /\ UNCHANGED <<distributed, gates, memory, result, outlived, lost, store, faults>>

\* The time to live passes: 5 s, too short for slow work.
LeaseExpires(k) ==
  /\ lease[k] # NoCall
  /\ IF InFlight(lease[k]) THEN Fault ELSE UNCHANGED faults
  /\ lease' = [lease EXCEPT ![k] = NoCall]
  /\ UNCHANGED <<distributed, call, gates, memory, result, outlived, lost, store>>

ResultExpires(k) ==
  /\ result[k] # NoCall
  /\ result' = [result EXCEPT ![k] = NoCall]
  /\ UNCHANGED <<distributed, call, gates, memory, lease, outlived, lost, store, faults>>
----------------------------------------------------------------------------
(* withMutationLock and the repository                                     *)

\* The calls that own the section that c asks for.
Owners(c) == {d \in Calls \ outlived : /\ call[d].pc \in Section
                                       /\ call[d].viewer = call[c].viewer
                                       /\ distributed \/ call[d].at = call[c].at}

\* Mutant: no lock.
EnterSectionUnlocked(c) ==
  /\ call[c].pc = "lock"
  /\ call' = [call EXCEPT ![c].pc =
                IF call[c].kind = "like" \/ call[c].viewer \in memory[call[c].at]
                THEN "commit" ELSE "check"]
  /\ UNCHANGED <<distributed, gates, memory, dedupe, outlived, lost, store, faults>>

\* A like writes; an unlike writes if the instance remembers the like, and
\* looks for the like document otherwise.
EnterSection(c) ==
  /\ call[c].pc = "lock" /\ Owners(c) = {}
  /\ call' = [call EXCEPT ![c].pc =
                IF call[c].kind = "like" \/ call[c].viewer \in memory[call[c].at]
                THEN "commit" ELSE "check"]
  /\ UNCHANGED <<distributed, gates, memory, dedupe, outlived, lost, store, faults>>

\* A lease of 8 s, and work without a bound.
Outlive(c) ==
  /\ Fault
  /\ distributed
  /\ call[c].pc \in Section /\ c \notin outlived
  /\ outlived' = outlived \union {c}
  /\ UNCHANGED <<distributed, call, gates, memory, dedupe, lost, store>>

\* mutation_lock_timeout after 6 s.
LockTimeout(c) ==
  /\ Fault
  /\ distributed
  /\ call[c].pc = "lock"
  /\ call' = [call EXCEPT ![c].pc = "leave", ![c].ok = FALSE]
  /\ UNCHANGED <<distributed, gates, memory, dedupe, outlived, lost, store>>

\* Without a like document there is nothing to do, and memory stays as it is.
CheckLike(c) ==
  /\ call[c].pc = "check"
  /\ call' = [call EXCEPT ![c].pc = IF call[c].viewer \in likes THEN "commit" ELSE "leave"]
  /\ UNCHANGED <<distributed, gates, memory, dedupe, outlived, lost, store, faults>>

\* Mutant: the like document is set, not created.
WriteBatchSets(c) ==
  LET v == call[c].viewer IN
  \/ /\ call[c].kind = "like"
     /\ likes' = likes \union {v} /\ likeCount' = likeCount + 1
  \/ /\ call[c].kind = "unlike"
     /\ likes' = likes \ {v} /\ likeCount' = likeCount - 1

\* One batch.  The like document must not exist, or nothing of it is written;
\* an unlike deletes the document, if there is one, and lowers the counter.
WriteBatch(c) ==
  LET v == call[c].viewer IN
  \/ /\ call[c].kind = "like" /\ v \in likes
     /\ UNCHANGED store
  \/ /\ call[c].kind = "like" /\ v \notin likes
     /\ likes' = likes \union {v} /\ likeCount' = likeCount + 1
  \/ /\ call[c].kind = "unlike"
     /\ likes' = likes \ {v} /\ likeCount' = likeCount - 1

\* What every call in flight has seen after the batch of c.
Observed(c, pc) ==
  [d \in Calls |-> [call[d] EXCEPT !.pc = IF d = c THEN pc ELSE @,
                                   !.met = @ \/ (InFlight(d) /\ Holds(likes', d))]]

Commit(c) ==
  /\ call[c].pc = "commit"
  /\ WriteBatch(c)
  /\ call' = Observed(c, "return")
  /\ UNCHANGED <<distributed, gates, memory, dedupe, outlived, lost, faults>>

\* The store takes the batch and its answer is lost; or it has not taken it by
\* then, and takes it later or never.
CommitThrows(c) ==
  /\ Fault
  /\ call[c].pc = "commit"
  /\ \/ WriteBatch(c) /\ UNCHANGED adrift
     \/ adrift' = adrift \union {c} /\ UNCHANGED store
  /\ call' = [Observed(c, "leave") EXCEPT ![c].ok = FALSE]
  /\ UNCHANGED <<distributed, gates, memory, dedupe, outlived, late>>

\* A batch whose call is not waiting for it any more.
LateBatch(c) ==
  /\ c \in adrift
  /\ WriteBatch(c)
  /\ call' = Observed(c, call[c].pc)
  /\ adrift' = adrift \ {c} /\ late' = late \union {c}
  /\ UNCHANGED <<distributed, gates, memory, dedupe, outlived, faults>>

CheckThrows(c) ==
  /\ Fault
  /\ call[c].pc = "check"
  /\ call' = [call EXCEPT ![c].pc = "leave", ![c].ok = FALSE]
  /\ UNCHANGED <<distributed, gates, memory, dedupe, outlived, lost, store>>

\* Mutant: the unlike is not remembered.
ReturnRemembersLikes(c) ==
  LET v == call[c].viewer IN
  /\ call[c].pc = "return"
  /\ memory' = [memory EXCEPT ![call[c].at] =
                  IF call[c].kind = "like" THEN @ \union {v} ELSE @]
  /\ call' = [call EXCEPT ![c].pc = "leave"]
  /\ UNCHANGED <<distributed, gates, dedupe, outlived, lost, store, faults>>

\* Mutant: another name is remembered than the viewer's.
ReturnRemembersInstance(c) ==
  LET v == call[c].at IN
  /\ call[c].pc = "return"
  /\ memory' = [memory EXCEPT ![call[c].at] =
                  IF call[c].kind = "like" THEN @ \union {v} ELSE @ \ {v}]
  /\ call' = [call EXCEPT ![c].pc = "leave"]
  /\ UNCHANGED <<distributed, gates, dedupe, outlived, lost, store, faults>>

\* The answer of the batch: remember it, leave the section.
Return(c) ==
  LET v == call[c].viewer IN
  /\ call[c].pc = "return"
  /\ memory' = [memory EXCEPT ![call[c].at] =
                  IF call[c].kind = "like" THEN @ \union {v} ELSE @ \ {v}]
  /\ call' = [call EXCEPT ![c].pc = "leave"]
  /\ UNCHANGED <<distributed, gates, dedupe, outlived, lost, store, faults>>

\* Free the slot.  A call with a lease publishes its result, or only releases
\* the lease; otherwise the promise settles.
Leave(c) ==
  LET calls == Woken(Slot(c)) IN
  /\ call[c].pc = "leave"
  /\ FreeSlot(Slot(c))
  /\ call' = IF call[c].via = "lease"
             THEN [calls EXCEPT ![c].pc = IF call[c].ok THEN "publish" ELSE "release"]
             ELSE Settled(c, calls)
  /\ UNCHANGED <<distributed, memory, dedupe, outlived, lost, store, faults>>
----------------------------------------------------------------------------
(* A restart forgets what the instance keeps in memory.  Its leases run    *)
(* out; that of a section is taken to end with the call that held it.  A   *)
(* batch on its way is left to itself.                                     *)

Crash(i) ==
  /\ Fault
  /\ call' = [c \in Calls |-> IF call[c].at = i /\ InFlight(c)
                              THEN [call[c] EXCEPT !.pc = "gone"] ELSE call[c]]
  /\ active' = [s \in DOMAIN active |-> IF s[1] = i THEN 0 ELSE active[s]]
  /\ waiting' = [s \in DOMAIN waiting |-> IF s[1] = i THEN <<>> ELSE waiting[s]]
  /\ memory' = [memory EXCEPT ![i] = {}]
  /\ adrift' = adrift \union {c \in Calls : call[c].at = i /\ call[c].pc = "commit"}
  /\ UNCHANGED <<distributed, dedupe, outlived, late, store>>
----------------------------------------------------------------------------
Dedupe(c) ==
  \/ LookupHit(c) \/ LookupMiss(c) \/ AcquireLease(c) \/ LeaseIsTaken(c)
  \/ PollHit(c) \/ PollGivesUp(c) \/ Publish(c) \/ ReleaseLease(c)
Work(c) ==
  \/ EnterSection(c) \/ LockTimeout(c) \/ CheckLike(c) \/ CheckThrows(c)
  \/ Commit(c) \/ CommitThrows(c) \/ Return(c)
Step(c) == Resume(c) \/ Dedupe(c) \/ Work(c) \/ Leave(c)

Next ==
  \/ \E c \in Calls : \/ Step(c) \/ Outlive(c) \/ LateBatch(c)
                      \/ \E v \in Viewers, kind \in Kinds, i \in Instances : Arrive(c, v, kind, i)
  \/ \E k \in Keys : LeaseExpires(k) \/ ResultExpires(k)
  \/ \E i \in Instances : Crash(i)

Spec == Init /\ [][Next]_vars
----------------------------------------------------------------------------
OneInstance == \A c, d \in Calls : "none" \notin {call[c].pc, call[d].pc} => call[c].at = call[d].at

\* Slots are counted and no wake-up is lost: the counter of an instance is
\* the number of calls inside, and while calls queue, at least as many as the
\* limit are inside or on their way in.
GateCounts ==
  \A s \in Instances \X Kinds :
    LET at(places) == Cardinality({c \in Calls : Slot(c) = s /\ call[c].pc \in places})
    IN /\ active[s] = at(Slots)
       /\ waiting[s] # <<>> => at(Slots) + at({"woken"}) >= Limit

\* The counter of a post is never above its likes, whatever runs twice,
\* outlives its lease, throws, dies or lands late.
NeverOvercounts == likeCount <= Cardinality(likes)

\* One instance, no lease outlived, and no unlike that threw or landed late.
Reliable ==
  /\ OneInstance /\ outlived = {}
  /\ \A c \in Calls : call[c].kind = "unlike" => call[c].ok /\ c \notin late

\* One instance that memory serves well keeps the counter exact: only an
\* unlike whose answer was lost or whose batch landed after the end of its
\* process, or a lease that was outlived, makes it drift.
CountIsExact == Reliable => likeCount = Cardinality(likes)

\* One instance, and every batch landed while its call waited for it.
Steady == OneInstance /\ late = {}

\* Without a coordinator an instance answers no call with work that was undone
\* before the call arrived: what it asks for was so while it was in flight,
\* unless a batch that was left behind undid it.
AnswerIsTrue ==
  ~ distributed /\ Steady =>
    \A c \in Calls : call[c].pc = "answered" => call[c].met

\* Nobody waits for nothing: a call that shares a promise shares that of a
\* call that is still at work, and a queued call is in the queue of its slot,
\* once; so whoever fails or dies takes its followers along.
NobodyIsStranded ==
  \A c \in Calls :
    /\ call[c].pc = "joined" =>
         \E d \in Calls : call[d].pc \in Leads /\ Slot(d) = Slot(c) /\ Key(d) = Key(c)
    /\ call[c].pc = "gate" <=> \E n \in DOMAIN waiting[Slot(c)] : waiting[Slot(c)][n] = c

\* "dedupe for identical in-flight requests": a call that is answered by one
\* that was over when it arrived is at least answered with the truth.
DedupedInFlight ==
  \A c \in Calls : call[c].via = "stored" /\ call[c].past # NoCall => call[c].met

\* The lock of a viewer's calls is used as KeyedSection says: by the viewer
\* alone under a coordinator, by viewer and instance without.
Site(c) == IF distributed THEN CHOOSE i \in Instances : TRUE ELSE call[c].at
Owned == [k \in Viewers \X Instances |->
            {c \in Calls \ outlived : call[c].pc \in Section /\ <<call[c].viewer, Site(c)>> = k}]
Lock == INSTANCE KeyedSection WITH Keys <- Viewers \X Instances, owners <- Owned

\* Calls pass their sections one at a time, whoever joins, throws, outlives a
\* lease or dies: the gates compose with what the lock promises.
LockIsKeyed == Lock!Spec

\* What makes CountIsExact inductive: owners of a section are apart, what an
\* instance remembers was written, or is about to be forgotten, and a batch
\* that relies on it finds the like document.
OwnersApart ==
  \A c, d \in Calls \ outlived :
    /\ {call[c].pc, call[d].pc} \subseteq Section
    /\ call[c].viewer = call[d].viewer
    /\ distributed \/ call[c].at = call[d].at
    => c = d
MemoryHasCaller ==
  \A i \in Instances : memory[i] # {} => \E c \in Calls : call[c].pc # "none" /\ call[c].at = i
LostHasCaller == \A c \in adrift \union late : call[c].pc # "none"
NothingFailedYet == \A c \in Calls : call[c].pc \in {"none", "joined"} => call[c].ok
Returning(c, kind) == call[c].pc = "return" /\ call[c].kind = kind
MemoryIsTrue ==
  Reliable =>
    /\ \A i \in Instances : \A v \in memory[i] :
         v \in likes \/ \E c \in Calls : Returning(c, "unlike") /\ call[c].viewer = v
    /\ \A c \in Calls : /\ call[c].pc = "commit" /\ call[c].kind = "unlike" => call[c].viewer \in likes
                        /\ Returning(c, "like") => call[c].viewer \in likes
=============================================================================
