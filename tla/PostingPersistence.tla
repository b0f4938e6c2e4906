------------------------- MODULE PostingPersistence -------------------------
(***************************************************************************)
(* PostingStatePersistence (repositories/mutations/                        *)
(* posting-state.persistence.ts): one JSON state in memory, loaded from a  *)
(* file by the first call that needs it, changed by mutate, and written    *)
(* whole to the file by a chain of writes, one at a time.                  *)
(*                                                                         *)
(* A call is a getState or, for Writers, a mutate.  What a mutate changes  *)
(* is abstracted to the fact that it is in the state: a state is the set   *)
(* of the calls whose change it holds.                                     *)
(***************************************************************************)
EXTENDS Naturals, Sequences

CONSTANTS Calls,       \* calls of the persistence, over all processes
          Writers,     \* those that are calls of mutate
          MaxCrashes   \* bound on restarts of the process

ASSUME PersistenceAssumption == Writers \subseteq Calls /\ MaxCrashes \in Nat

VARIABLES
    loaded,      \* this.loaded
    own,         \* the maps of a state parsed from the file
    shared,      \* the maps of EMPTY_STATE, which every empty state shares
    aliased,     \* this.state has the maps of EMPTY_STATE
    queue,       \* the writes chained in writeTail: who waits, and the payload
    writing,     \* writeFile has truncated the file for the first of them
    poisoned,    \* writeTail is rejected
    pc,          \* where each call is
    sample,      \* sample[c]: what readFile found for call c
    disk,        \* the file
    crashes      \* restarts so far

\* What the properties observe; no guard reads them.
VARIABLES
    acked,       \* calls of mutate that have returned
    kept,        \* those that had when the last restart came
    accidents    \* what has gone wrong with the file or its load, ever

memory == <<loaded, own, shared, aliased>>
chain == <<queue, writing, poisoned>>
persistenceVars ==
    <<loaded, own, shared, aliased, queue, writing, poisoned, pc, sample, disk,
      crashes, acked, kept, accidents>>

answers == <<acked, kept>>

\* A file that is missing, cut off or unreadable holds nothing that parses.
Files == [whole : BOOLEAN, content : SUBSET Writers]
Unreadable == [whole |-> FALSE, content |-> {}]
Whole(s) == [whole |-> TRUE, content |-> s]

\* A write in the chain.
Writes == [call : Writers, payload : SUBSET Writers]

Accidents == {"torn", "misread", "overlap"}
Places == {"idle", "reading", "read", "saving", "done", "thrown", "gone"}

\* this.state, and what the file holds once the write in progress succeeds.
Mem == IF aliased THEN shared ELSE own
Durable == IF writing THEN Head(queue).payload ELSE disk.content

\* The calls that wait for a write.
Waiting == {queue[i].call : i \in DOMAIN queue}

TypeOK ==
    /\ loaded \in BOOLEAN /\ aliased \in BOOLEAN
    /\ writing \in BOOLEAN /\ poisoned \in BOOLEAN
    /\ own \subseteq Writers /\ shared \subseteq Writers /\ acked \subseteq Writers
    /\ kept \subseteq acked
    /\ queue \in Seq(Writes)
    /\ pc \in [Calls -> Places]
    /\ sample \in [Calls -> Files]
    /\ disk \in Files
    /\ crashes \in 0 .. MaxCrashes
    /\ accidents \subseteq Accidents
    \* Only a process that has loaded writes, and none writes after a failure.
    /\ writing => queue # << >>
    /\ ~ loaded \/ poisoned => queue = << >>

Init ==
    /\ loaded = FALSE /\ own = {} /\ shared = {} /\ aliased = TRUE
    /\ queue = << >> /\ writing = FALSE /\ poisoned = FALSE
    /\ pc = [c \in Calls |-> "idle"]
    /\ sample = [c \in Calls |-> Unreadable]
    /\ disk = Unreadable
    /\ crashes = 0 /\ acked = {} /\ kept = {} /\ accidents = {}

Goto(c, place) == pc' = [pc EXCEPT ![c] = place]

-----------------------------------------------------------------------------
(***************************************************************************)
(* Loading.  A call that finds the state not loaded reads the file, also   *)
(* when another one is reading it already.                                 *)
(***************************************************************************)

BeginLoad(c) ==
    /\ pc[c] = "idle" /\ ~ loaded
    /\ Goto(c, "reading")
    /\ UNCHANGED <<memory, chain, sample, disk, crashes, answers, accidents>>

ReadFile(c) ==
    /\ pc[c] = "reading"
    /\ \/ sample' = [sample EXCEPT ![c] = disk] /\ UNCHANGED accidents
       \/ /\ sample' = [sample EXCEPT ![c] = Unreadable]
          /\ accidents' = accidents \union {"misread"}
    /\ Goto(c, "read")
    /\ UNCHANGED <<memory, chain, disk, crashes, answers>>

(***************************************************************************)
(* A call goes on with the state s in use, its maps those of EMPTY_STATE   *)
(* or its own: a getState returns, a mutate changes the state and waits    *)
(* for its write, which a rejected chain never makes.                      *)
(***************************************************************************)
ChangeState(c, s, alias) ==
    LET t == IF c \in Writers THEN s \union {c} ELSE s
    IN  /\ shared' = IF alias THEN t ELSE shared
        /\ own' = IF alias THEN own ELSE t
        /\ aliased' = alias

\* Mutant: persist is not awaited.
PersistUnawaited(c, s) ==
    IF c \notin Writers THEN Goto(c, "done") /\ UNCHANGED <<queue, acked>>
    ELSE IF poisoned THEN Goto(c, "thrown") /\ UNCHANGED <<queue, acked>>
    ELSE /\ queue' = Append(queue, [call |-> c, payload |-> s \union {c}])
         /\ Goto(c, "saving")
         /\ acked' = acked \union {c}

\* Mutant: a write does not wait for the writes before it.
PersistUnchained(c, s) ==
    IF c \notin Writers THEN Goto(c, "done") /\ UNCHANGED <<queue, acked>>
    ELSE IF poisoned THEN Goto(c, "thrown") /\ UNCHANGED <<queue, acked>>
    ELSE /\ queue' = IF writing THEN Append(queue, [call |-> c, payload |-> s \union {c}])
                     ELSE <<[call |-> c, payload |-> s \union {c}]>> \o queue
         /\ Goto(c, "saving")
         /\ UNCHANGED acked

\* The payload is made now; the write comes when its turn comes.
Persist(c, s) ==
    IF c \notin Writers THEN Goto(c, "done") /\ UNCHANGED <<queue, acked>>
    ELSE IF poisoned THEN Goto(c, "thrown") /\ UNCHANGED <<queue, acked>>
    ELSE /\ queue' = Append(queue, [call |-> c, payload |-> s \union {c}])
         /\ Goto(c, "saving")
         /\ UNCHANGED acked

\* Mutant: the version that persist writes is not one that the load accepts.
StateReadUnversioned(c) == shared

\* The state that the load of call c puts in use.
StateRead(c) == IF sample[c].whole THEN sample[c].content ELSE shared

FinishLoad(c) ==
    /\ pc[c] = "read"
    /\ loaded' = TRUE
    /\ ChangeState(c, StateRead(c), ~ sample[c].whole)
    /\ Persist(c, StateRead(c))
    /\ accidents' = IF loaded /\ StateRead(c) # Mem
                    THEN accidents \union {"overlap"} ELSE accidents
    /\ UNCHANGED <<writing, poisoned, sample, disk, crashes, kept>>

\* The state is loaded: the call goes on in the same turn.
CallLoaded(c) ==
    /\ pc[c] = "idle" /\ loaded
    /\ ChangeState(c, Mem, aliased)
    /\ Persist(c, Mem)
    /\ UNCHANGED <<loaded, writing, poisoned, sample, disk, crashes, kept, accidents>>

-----------------------------------------------------------------------------
(***************************************************************************)
(* Writing.                                                                *)
(***************************************************************************)

\* writeFile opens the file, which empties it.
StartWrite ==
    /\ queue # << >> /\ ~ writing /\ ~ poisoned
    /\ writing' = TRUE
    /\ disk' = Unreadable
    /\ UNCHANGED <<memory, queue, poisoned, pc, sample, crashes, answers, accidents>>

FinishWrite ==
    /\ writing
    /\ writing' = FALSE
    /\ disk' = Whole(Head(queue).payload)
    /\ queue' = Tail(queue)
    /\ Goto(Head(queue).call, "done")
    /\ acked' = acked \union {Head(queue).call}
    /\ UNCHANGED <<memory, poisoned, sample, crashes, kept, accidents>>

\* What a failed mkdir, open, write or close leaves of the file.
FileAfterFailure ==
    IF ~ writing THEN UNCHANGED <<disk, accidents>>
    ELSE \/ disk' = Whole(Head(queue).payload) /\ UNCHANGED accidents
         \/ disk' = Unreadable /\ accidents' = accidents \union {"torn"}

\* Mutant: the writes chained behind the failed one are forgotten.
FailWriteOfOneCall ==
    /\ queue # << >> /\ ~ poisoned
    /\ FileAfterFailure
    /\ writing' = FALSE /\ poisoned' = TRUE
    /\ Goto(Head(queue).call, "thrown")
    /\ queue' = Tail(queue)
    /\ UNCHANGED <<memory, sample, crashes, answers>>

\* The chain is rejected, and stays so: the write's own call throws, the calls
\* chained behind it throw, and their changes stay in memory.
FailWrite ==
    /\ queue # << >> /\ ~ poisoned
    /\ FileAfterFailure
    /\ writing' = FALSE /\ poisoned' = TRUE
    /\ pc' = [c \in Calls |-> IF c \in Waiting THEN "thrown" ELSE pc[c]]
    /\ queue' = << >>
    /\ UNCHANGED <<memory, sample, crashes, answers>>

\* The process stops and another one starts; the file is what it was.
Crash ==
    /\ crashes < MaxCrashes
    /\ crashes' = crashes + 1
    /\ loaded' = FALSE /\ own' = {} /\ shared' = {} /\ aliased' = TRUE
    /\ queue' = << >> /\ writing' = FALSE /\ poisoned' = FALSE
    /\ pc' = [c \in Calls |-> IF pc[c] \in {"reading", "read", "saving"} THEN "gone" ELSE pc[c]]
    /\ accidents' = IF writing THEN accidents \union {"torn"} ELSE accidents
    /\ kept' = acked
    /\ UNCHANGED <<sample, disk, acked>>

-----------------------------------------------------------------------------
Next ==
    \/ \E c \in Calls : BeginLoad(c) \/ ReadFile(c) \/ FinishLoad(c) \/ CallLoaded(c)
    \/ StartWrite \/ FinishWrite \/ FailWrite
    \/ Crash

Spec == Init /\ [][Next]_persistenceVars

\* File operations end and their continuations run.
Fairness ==
    /\ \A c \in Calls : WF_persistenceVars(ReadFile(c) \/ FinishLoad(c))
    /\ WF_persistenceVars(StartWrite) /\ WF_persistenceVars(FinishWrite \/ FailWrite)

FairSpec == Spec /\ Fairness

-----------------------------------------------------------------------------
\* Nothing has happened to the file, and no load has replaced a state in use.
Quiet == accidents = {}

\* A change that mutate has answered is in the file, or in the payload that is
\* being written over it: later payloads, restarts before the truncation and
\* failed writes included.
AckedIsDurable == Quiet => acked \subseteq Durable

\* A change that mutate has answered is in the state that calls see, in this
\* process and in the next ones.
AckedIsVisible == Quiet /\ loaded => acked \subseteq Mem

\* The file does not go back: each write holds what the one before it held.
DurableGrows == [][accidents' = {} => Durable \subseteq Durable']_persistenceVars

\* Every call ends, also those chained behind a write that fails.
WaitersAreAnswered ==
    \A c \in Calls : (pc[c] \in {"reading", "read", "saving"}) ~> (pc[c] \in {"done", "thrown", "gone"})

\* The rest of what makes these inductive: the payloads of the chain grow, from
\* what is durable to what is in memory, and what was read before the state is
\* loaded is what the file still holds.
PayloadsGrow ==
    Quiet =>
        /\ loaded => Durable \subseteq Mem
        /\ \A i \in DOMAIN queue :
            /\ Durable \subseteq queue[i].payload
            /\ queue[i].payload \subseteq Mem
            /\ queue[i].call \in queue[i].payload
            /\ \A j \in DOMAIN queue : i <= j => queue[i].payload \subseteq queue[j].payload

SamplesAreFresh ==
    Quiet /\ ~ loaded =>
        /\ shared = {}
        /\ \A c \in Calls : pc[c] = "read" => sample[c] = disk

UnreadableIsEmpty ==
    /\ ~ disk.whole => disk = Unreadable
    /\ \A c \in Calls : ~ sample[c].whole => sample[c] = Unreadable

PersistenceInvariant ==
    /\ TypeOK /\ UnreadableIsEmpty
    /\ AckedIsDurable /\ AckedIsVisible /\ PayloadsGrow /\ SamplesAreFresh

\* docs/surfaces/posting-upload.md: the file "keeps operation/session state
\* available across server restarts": as long as every file operation succeeds
\* and no process stops during a write, a process has what earlier ones answered.
AckedSurvives == loaded /\ accidents \subseteq {"overlap"} => kept \subseteq Mem
=============================================================================
