---------------------- MODULE PostLikesAnswers_proofs ----------------------
(***************************************************************************)
(* Without a coordinator, what an answer says was so while its call was in *)
(* flight, for any number of calls and faults.                             *)
(***************************************************************************)
EXTENDS PostLikes_proofs

\* Only a coordinator takes a call there.
Remote == {"lookup", "lease", "poll", "publish", "release"}

\* What the calls of a server without a coordinator have seen.
Unseen(c) == InFlight(c) /\ ~ call[c].met => ~ Holds(likes, c)
Local(c) == call[c].pc \notin Remote /\ call[c].via = "work"
Checks(c) == call[c].pc = "check" => call[c].kind = "unlike"
Seen(c) == /\ call[c].pc = "return" => Holds(likes, c)
           /\ call[c].pc = "leave" /\ call[c].ok => \A d \in Sharing(c) : call[d].met
           /\ call[c].pc = "answered" => call[c].met
AllSeen == /\ outlived = {}
           /\ \A c \in Calls : Unseen(c) /\ Local(c) /\ Checks(c)
           /\ Steady => \A c \in Calls : Seen(c)

Same(d) == /\ call'[d].viewer = call[d].viewer /\ call'[d].kind = call[d].kind
           /\ call'[d].at = call[d].at /\ call'[d].via = call[d].via
           /\ call'[d].met = call[d].met

\* A call that goes on without a new sight, and without an end.
Mild(d) == /\ Same(d)
           /\ InFlight(d)' => InFlight(d)
           /\ call'[d].pc = "joined" => call[d].pc = "joined"
           /\ call'[d].pc = "return" => call[d].pc = "return"
           /\ call'[d].pc = "leave" /\ call'[d].ok => call[d].pc = "leave" /\ call[d].ok
           /\ call'[d].pc = "answered" => call[d].pc = "answered"
           /\ call'[d].pc = "check" => call[d].kind = "unlike"
           /\ call'[d].pc \notin Remote

LEMMA LocalPlaces ==
  /\ {"gate", "woken", "lock", "leave", "check", "commit", "return"} \subseteq Leads
  /\ Leads \ Remote = {"gate", "woken", "lock", "leave", "check", "commit", "return"}
  /\ {"answered", "thrown", "gone", "none", "joined"} \intersect Leads = {}
BY Places DEF Remote

LEMMA MildCall ==
  ASSUME AllSeen, NEW d \in Calls, call'[d] = call[d]
  PROVE  Mild(d)
BY DEF Mild, Same, AllSeen, Local, Checks, InFlight

\* Sharing the promise of a call depends on what stays of it.
LEMMA SharingStays ==
  ASSUME NEW c \in Calls, NEW d \in Calls, Same(c), Same(d), d \in Sharing(c)',
         call'[d].pc = "joined" => call[d].pc = "joined"
  PROVE  d \in Sharing(c)
BY DEF Sharing, Same, Slot, Key

LEMMA SameHolds ==
  ASSUME NEW d \in Calls, Same(d), UNCHANGED likes
  PROVE  Holds(likes, d)' = Holds(likes, d)
BY DEF Same, Holds

LEMMA SteadyBefore ==
  ASSUME Kept, Steady' PROVE Steady
BY DEF Steady, OneInstance, Kept, Carries

LEMMA MildSeen ==
  ASSUME AllSeen, NEW c \in Calls, Mild(c), UNCHANGED likes,
         \A d \in Calls : Same(d) /\ (call'[d].pc = "joined" => call[d].pc = "joined"),
         Seen(c)
  PROVE  Seen(c)'
<1>1. call'[c].pc = "return" => Holds(likes, c)'
  BY SameHolds DEF Seen, Mild
<1>2. ASSUME call'[c].pc = "leave", call'[c].ok, NEW d \in Sharing(c)' PROVE call'[d].met
  <2>1. d \in Calls
    BY DEF Sharing
  <2>2. d \in Sharing(c)
    BY <2>1, SharingStays
  <2> QED
    BY <1>2, <2>1, <2>2 DEF Seen, Mild, Same
<1>3. call'[c].pc = "answered" => call'[c].met
  BY DEF Seen, Mild, Same
<1> QED
  BY <1>1, <1>2, <1>3 DEF Seen

LEMMA MildRest ==
  ASSUME AllSeen, NEW c \in Calls, Mild(c), UNCHANGED likes
  PROVE  Unseen(c)' /\ Local(c)' /\ Checks(c)'
<1>1. Unseen(c)'
  BY SameHolds DEF AllSeen, Unseen, Mild, Same
<1> QED
  BY <1>1 DEF AllSeen, Local, Checks, Mild, Same

LEMMA MildStep ==
  ASSUME AllSeen, Kept, \A d \in Calls : Mild(d), UNCHANGED <<likes, outlived>>
  PROVE  AllSeen'
<1>1. \A c \in Calls : Unseen(c)' /\ Local(c)' /\ Checks(c)'
  BY MildRest
<1>2. ASSUME Steady', NEW c \in Calls PROVE Seen(c)'
  BY <1>2, SteadyBefore, MildSeen DEF AllSeen, Mild
<1> QED
  BY <1>1, <1>2 DEF AllSeen

\* A call that arrives has seen what is so then; it joins nobody who settles.
LEMMA BeginSeen ==
  ASSUME AllSeen, Kept, NEW c \in Calls, NEW i \in Instances,
         call[c].pc = "none", call'[c].pc \in {"joined", "lock", "gate"},
         call'[c].at = i, call'[c].via = "work", call'[c].met <=> Holds(likes, c)',
         \A d \in Calls : ~ (call[d].pc = "leave" /\ call[d].at = i),
         \A d \in Calls \ {c} : call'[d] = call[d], UNCHANGED <<likes, outlived>>
  PROVE  AllSeen'
<1>1. \A d \in Calls \ {c} : Mild(d)
  BY MildCall
<1>2. Unseen(c)' /\ Local(c)' /\ Checks(c)'
  BY DEF Unseen, Local, Checks, Remote
<1>3. ASSUME NEW d \in Calls \ {c} PROVE Unseen(d)' /\ Local(d)' /\ Checks(d)'
  BY <1>1, MildRest
<1>4. ASSUME Steady', NEW e \in Calls PROVE Seen(e)'
  <2>1. CASE e = c
    BY <2>1 DEF Seen
  <2>2. CASE e # c
    <3>1. Seen(e)
      BY <1>4, SteadyBefore DEF AllSeen
    <3>2. call'[e] = call[e] /\ Holds(likes, e)' = Holds(likes, e)
      BY <2>2 DEF Holds
    <3>3. ASSUME call'[e].pc = "leave", call'[e].ok, NEW d \in Sharing(e)' PROVE call'[d].met
      <4>1. d \in Calls /\ d # c
        BY <3>2, <3>3 DEF Sharing, Slot
      <4>2. call'[d] = call[d] /\ d \in Sharing(e)
        BY <2>2, <4>1, <1>1, <3>3, SharingStays DEF Mild
      <4> QED
        BY <3>1, <3>2, <3>3, <4>2 DEF Seen
    <3> QED
      BY <3>1, <3>2, <3>3 DEF Seen
  <2> QED
    BY <2>1, <2>2
<1> QED
  BY <1>2, <1>3, <1>4 DEF AllSeen

LEMMA ArriveSeen ==
  ASSUME TypeOK, AllSeen, Kept, ~ distributed, NEW c \in Calls, NEW v \in Viewers,
         NEW kind \in Kinds, NEW i \in Instances, Arrive(c, v, kind, i)
  PROVE  AllSeen'
<1> DEFINE r == [pc |-> "none", viewer |-> v, kind |-> kind, at |-> i, via |-> "work",
                 ok |-> TRUE, met |-> (v \in likes) <=> (kind = "like"),
                 past |-> PastResult(<<v, kind>>)]
<1>t. call \in Histories
  BY DEF TypeOK, Histories
<1>1. PICK pc \in {"joined", "lock", "gate"} : call' = [call EXCEPT ![c] = [r EXCEPT !.pc = pc]]
  BY DEF Arrive, EnterLimit
<1>2. /\ call'[c].pc = pc /\ call'[c].viewer = v /\ call'[c].kind = kind /\ call'[c].at = i
      /\ call'[c].via = "work" /\ call'[c].met = ((v \in likes) <=> (kind = "like"))
      /\ \A d \in Calls \ {c} : call'[d] = call[d]
  BY <1>t, <1>1 DEF Histories
<1>3. /\ call[c].pc = "none" /\ UNCHANGED <<likes, outlived>>
      /\ \A d \in Calls : ~ (call[d].pc = "leave" /\ call[d].at = i)
  BY DEF Arrive, store, Settling
<1>4. call'[c].met <=> Holds(likes, c)'
  BY <1>2, <1>3 DEF Holds
<1> QED
  BY <1>2, <1>3, <1>4, BeginSeen

\* What a batch shows to the calls in flight.
LEMMA CommitView ==
  ASSUME TypeOK, NEW c \in Calls, Commit(c) \/ CommitThrows(c), NEW d \in Calls
  PROVE  /\ call'[d].viewer = call[d].viewer /\ call'[d].kind = call[d].kind
         /\ call'[d].at = call[d].at /\ call'[d].via = call[d].via
         /\ call'[d].met = (call[d].met \/ (InFlight(d) /\ Holds(likes', d)))
         /\ d # c => call'[d].pc = call[d].pc /\ call'[d].ok = call[d].ok
         /\ Holds(likes, d)' <=> Holds(likes', d)
<1>t. call \in Histories
  BY DEF TypeOK, Histories
<1>1. \A pc \in {"return", "leave"} :
        /\ Observed(c, pc)[d].viewer = call[d].viewer /\ Observed(c, pc)[d].kind = call[d].kind
        /\ Observed(c, pc)[d].at = call[d].at /\ Observed(c, pc)[d].via = call[d].via
        /\ Observed(c, pc)[d].met = (call[d].met \/ (InFlight(d) /\ Holds(likes', d)))
        /\ Observed(c, pc)[d].ok = call[d].ok
        /\ d # c => Observed(c, pc)[d].pc = call[d].pc
  BY <1>t DEF Observed, Histories, CallRecords
<1>2. /\ Observed(c, "leave") \in Histories
      /\ call' = Observed(c, "return") \/ call' = [Observed(c, "leave") EXCEPT ![c].ok = FALSE]
  BY ObservedType, Places DEF Commit, CommitThrows
<1>3. /\ call'[d].viewer = call[d].viewer /\ call'[d].kind = call[d].kind
      /\ call'[d].at = call[d].at /\ call'[d].via = call[d].via
      /\ call'[d].met = (call[d].met \/ (InFlight(d) /\ Holds(likes', d)))
      /\ d # c => call'[d].pc = call[d].pc /\ call'[d].ok = call[d].ok
  BY <1>1, <1>2 DEF Histories, CallRecords
<1> QED
  BY <1>3 DEF Holds

LEMMA BatchHolds ==
  ASSUME TypeOK, NEW c \in Calls, WriteBatch(c) \/ UNCHANGED store, NEW d \in Calls
  PROVE  /\ call[d].viewer # call[c].viewer => (Holds(likes', d) <=> Holds(likes, d))
         /\ WriteBatch(c) => Holds(likes', c)
BY DEF WriteBatch, Holds, store, TypeOK, CallRecords, Kinds

LEMMA CommitSeen ==
  ASSUME TypeOK, AllSeen, Kept, OwnersApart, NEW c \in Calls, Commit(c) \/ CommitThrows(c)
  PROVE  AllSeen'
<1>v. \A d \in Calls :
        /\ call'[d].viewer = call[d].viewer /\ call'[d].kind = call[d].kind
        /\ call'[d].at = call[d].at /\ call'[d].via = call[d].via
        /\ call'[d].met = (call[d].met \/ (InFlight(d) /\ Holds(likes', d)))
        /\ d # c => call'[d].pc = call[d].pc /\ call'[d].ok = call[d].ok
        /\ Holds(likes, d)' <=> Holds(likes', d)
  BY CommitView
<1>c. /\ call[c].pc = "commit" /\ outlived' = outlived
      /\ WriteBatch(c) \/ UNCHANGED store
      /\ call'[c].pc = "return" \/ (call'[c].pc = "leave" /\ ~ call'[c].ok)
      /\ call'[c].pc = "return" => WriteBatch(c)
  <2>1. CASE Commit(c)
    BY <2>1, CommitEffect DEF Commit
  <2>2. CASE CommitThrows(c)
    BY <2>2, CommitEffect DEF CommitThrows
  <2> QED
    BY <2>1, <2>2
<1>f. InFlight(c) /\ \A d \in Calls : InFlight(d)' => InFlight(d)
  BY <1>v, <1>c, LocalPlaces DEF InFlight
<1>1. ASSUME NEW d \in Calls PROVE Unseen(d)' /\ Local(d)' /\ Checks(d)'
  <2>1. Unseen(d)'
    BY <1>v, <1>f DEF Unseen
  <2>2. Local(d)'
    BY <1>v, <1>c DEF AllSeen, Local, Remote
  <2>3. Checks(d)'
    BY <1>v, <1>c DEF AllSeen, Checks
  <2> QED
    BY <2>1, <2>2, <2>3
<1>2. ASSUME Steady', NEW e \in Calls PROVE Seen(e)'
  <2>o. Steady /\ Seen(e)
    BY <1>2, SteadyBefore DEF AllSeen
  <2>1. ASSUME call'[e].pc = "return" PROVE Holds(likes, e)'
    <3>1. CASE e = c
      BY <1>v, <1>c, <2>1, <3>1, BatchHolds
    <3>2. CASE e # c
      <4>1. call[e].pc = "return" /\ call[e].at = call[c].at
        BY <1>v, <1>c, <2>1, <2>o, <3>2 DEF Steady, OneInstance
      <4>2. call[e].viewer # call[c].viewer
        BY <1>c, <3>2, <4>1 DEF OwnersApart, AllSeen, Section
      <4> QED
        BY <1>v, <1>c, <2>o, <4>1, <4>2, BatchHolds DEF Seen
    <3> QED
      BY <3>1, <3>2
  <2>2. ASSUME call'[e].pc = "leave", call'[e].ok, NEW d \in Sharing(e)' PROVE call'[d].met
    <3>1. e # c /\ d \in Calls
      BY <1>c, <2>2 DEF Sharing
    <3>2. d \in Sharing(e)
      BY <1>v, <1>c, <2>2, <3>1 DEF Sharing, Slot, Key
    <3> QED
      BY <1>v, <2>o, <2>2, <3>1, <3>2 DEF Seen
  <2>3. ASSUME call'[e].pc = "answered" PROVE call'[e].met
    BY <1>v, <1>c, <2>o, <2>3 DEF Seen
  <2> QED
    BY <2>1, <2>2, <2>3 DEF Seen
<1> QED
  BY <1>c, <1>1, <1>2 DEF AllSeen

\* A batch that lands late shows itself to the calls in flight, and the server is
\* not steady any more.
LEMMA LateBatchSeen ==
  ASSUME TypeOK, AllSeen, NEW c \in Calls, LateBatch(c)
  PROVE  AllSeen'
<1>1. PICK p \in {"none", "joined"} \union Leads \union Over : p = call[c].pc
  BY DEF TypeOK, CallRecords
<1>2. call' = Observed(c, p) /\ c \in late' /\ UNCHANGED outlived
  BY <1>1 DEF LateBatch
<1>3. ASSUME NEW d \in Calls
      PROVE  /\ call'[d].viewer = call[d].viewer /\ call'[d].kind = call[d].kind
             /\ call'[d].via = call[d].via /\ call'[d].pc = call[d].pc
             /\ call'[d].met = (call[d].met \/ (InFlight(d) /\ Holds(likes', d)))
  <2>1. /\ Observed(c, p)[d].viewer = call[d].viewer
        /\ Observed(c, p)[d].kind = call[d].kind /\ Observed(c, p)[d].via = call[d].via
        /\ Observed(c, p)[d].met = (call[d].met \/ (InFlight(d) /\ Holds(likes', d)))
        /\ Observed(c, p)[d].pc = IF d = c THEN p ELSE call[d].pc
    BY <1>3, ObservedEffect
  <2> QED
    BY <1>1, <1>2, <2>1
<1>4. ASSUME NEW d \in Calls PROVE Unseen(d)' /\ Local(d)' /\ Checks(d)'
  BY <1>3 DEF AllSeen, Unseen, Local, Checks, InFlight, Holds
<1> QED
  BY <1>2, <1>4 DEF AllSeen, Steady

\* A call that ends well leaves with what it asks for: so does who shares it.
LEMMA EndSeen ==
  ASSUME AllSeen, Kept, NEW c \in Calls, InFlight(c), call[c].pc # "joined",
         Steady => Holds(likes, c), call'[c].pc = "leave", Same(c),
         \A d \in Calls \ {c} : call'[d] = call[d], UNCHANGED <<likes, outlived>>
  PROVE  AllSeen'
<1>1. \A d \in Calls \ {c} : Mild(d)
  BY MildCall
<1>s. \A d \in Calls : Same(d) /\ (call'[d].pc = "joined" => call[d].pc = "joined")
  BY <1>1 DEF Mild
<1>2. Unseen(c)' /\ Local(c)' /\ Checks(c)'
  BY SameHolds DEF AllSeen, Unseen, Local, Checks, Remote, Same
<1>3. ASSUME NEW d \in Calls \ {c} PROVE Unseen(d)' /\ Local(d)' /\ Checks(d)'
  BY <1>1, MildRest
<1>4. ASSUME Steady', NEW e \in Calls PROVE Seen(e)'
  <2>o. Steady
    BY <1>4, SteadyBefore
  <2>1. CASE e # c
    BY <1>1, <1>s, <2>o, <2>1, MildSeen DEF AllSeen
  <2>2. CASE e = c
    <3>1. ASSUME NEW d \in Sharing(c)' PROVE call'[d].met
      <4>1. d \in Calls /\ d \in Sharing(c)
        BY <1>s, <3>1, SharingStays DEF Sharing
      <4>2. InFlight(d) /\ Holds(likes, d)
        BY <2>o, <4>1 DEF Sharing, Key, Holds, InFlight
      <4> QED
        BY <1>s, <4>1, <4>2 DEF AllSeen, Unseen, Same
    <3> QED
      BY <2>2, <3>1 DEF Seen
  <2> QED
    BY <2>1, <2>2
<1> QED
  BY <1>2, <1>3, <1>4 DEF AllSeen

LEMMA LeaveSeen ==
  ASSUME TypeOK, QueuesAreTrue, AllSeen, Kept, NEW c \in Calls, Leave(c)
  PROVE  AllSeen'
<1> DEFINE s == Slot(c)
           woken == Woken(s)
<1>s. s \in Instances \X Kinds
  BY SlotAndKeyType DEF TypeOK, Histories
<1>t. woken \in Histories /\ call \in Histories
  BY <1>s, WokenType DEF TypeOK, Histories
<1>h. waiting[s] # <<>> => Head(waiting[s]) \in Calls /\ call[Head(waiting[s])].pc = "gate"
  BY <1>s, HeadWaits
<1>w. \A d \in Calls :
        /\ woken[d].viewer = call[d].viewer /\ woken[d].kind = call[d].kind
        /\ woken[d].at = call[d].at /\ woken[d].via = call[d].via
        /\ woken[d].ok = call[d].ok /\ woken[d].met = call[d].met
        /\ \/ woken[d].pc = call[d].pc
           \/ woken[d].pc = "woken" /\ call[d].pc = "gate"
  <2> HIDE DEF s
  <2> QED
    BY <1>t, <1>h DEF Woken, Histories, CallRecords
<1>1. call[c].pc = "leave" /\ UNCHANGED <<likes, outlived>> /\ call' = Settled(c, woken)
  BY DEF Leave, store, AllSeen, Local
<1> HIDE DEF woken, s
<1>2. ASSUME NEW d \in Sharing(c)
      PROVE  /\ d \in Calls /\ Same(d) /\ call'[d].pc \in {"answered", "thrown"}
             /\ call'[d].pc = "answered" => call[c].ok
  <2>1. d \in Calls /\ c \in Calls
    BY <1>2 DEF Sharing
  <2>2. call'[d] = [woken[d] EXCEPT !.pc = IF woken[c].ok THEN "answered" ELSE "thrown",
                                    !.ok = woken[c].ok]
    BY <1>1, <1>2, <2>1 DEF Settled
  <2>3. /\ call'[d].viewer = woken[d].viewer /\ call'[d].kind = woken[d].kind
        /\ call'[d].at = woken[d].at /\ call'[d].via = woken[d].via
        /\ call'[d].met = woken[d].met
        /\ call'[d].pc = IF woken[c].ok THEN "answered" ELSE "thrown"
    BY <1>t, <2>1, <2>2 DEF Histories, CallRecords
  <2> QED
    BY <1>w, <2>1, <2>3 DEF Same
<1>3. ASSUME NEW d \in Calls \ Sharing(c) PROVE Mild(d)
  <2>1. call'[d] = woken[d]
    BY <1>1, <1>3 DEF Settled
  <2> QED
    BY <1>w, <2>1, LocalPlaces DEF Mild, Same, AllSeen, Local, Checks, InFlight, Remote
<1>a. \A d \in Calls : Same(d) /\ (call'[d].pc = "joined" => call[d].pc = "joined")
  BY <1>2, <1>3 DEF Mild
<1>4. ASSUME NEW d \in Calls PROVE Unseen(d)' /\ Local(d)' /\ Checks(d)'
  <2>1. CASE d \in Sharing(c)
    BY <1>2, <2>1, LocalPlaces DEF AllSeen, Unseen, Local, Checks, InFlight, Remote, Same
  <2>2. CASE d \notin Sharing(c)
    BY <1>1, <1>3, <2>2, MildRest
  <2> QED
    BY <2>1, <2>2
<1>5. ASSUME Steady', NEW e \in Calls PROVE Seen(e)'
  <2>o. Seen(e) /\ Seen(c)
    BY <1>5, SteadyBefore DEF AllSeen
  <2>1. CASE e \in Sharing(c)
    BY <1>1, <1>2, <2>o, <2>1 DEF Seen, Same
  <2>2. CASE e \notin Sharing(c)
    BY <1>1, <1>3, <1>a, <2>o, <2>2, MildSeen
  <2> QED
    BY <2>1, <2>2
<1> QED
  BY <1>1, <1>4, <1>5 DEF AllSeen

\* The other steps of a call on its own.
LEMMA MoveMild ==
  ASSUME TypeOK, AllSeen, NEW c \in Calls, NEW pc \in {"lock", "commit", "check", "leave"},
         InFlight(c), call[c].pc # "joined", pc = "check" => call[c].kind = "unlike",
         \/ pc # "leave" /\ call' = [call EXCEPT ![c].pc = pc]
         \/ call' = [call EXCEPT ![c].pc = pc, ![c].ok = FALSE]
  PROVE  \A d \in Calls : Mild(d)
<1>t. call \in Histories
  BY DEF TypeOK, Histories
<1>1. \A d \in Calls \ {c} : Mild(d)
  <2>1. \A d \in Calls \ {c} : call'[d] = call[d]
    BY <1>t DEF Histories
  <2> QED
    BY <2>1, MildCall
<1>2. Same(c) /\ call'[c].pc = pc /\ (pc = "leave" => ~ call'[c].ok)
  BY <1>t DEF Histories, CallRecords, Same
<1>3. Mild(c)
  BY <1>2 DEF Mild, Remote, Same
<1> QED
  BY <1>1, <1>3

LEMMA WorkSeen ==
  ASSUME TypeOK, AllSeen, Kept, OwnersApart, NEW c \in Calls, Work(c) \/ Resume(c)
  PROVE  AllSeen'
<1>t. call \in Histories
  BY DEF TypeOK, Histories
<1>l. {"woken", "lock", "check", "return"} \subseteq Leads
  BY LocalPlaces
<1>1. CASE Resume(c)
  BY <1>l, <1>1, MoveMild, MildStep DEF Resume, InFlight, store
<1>2. CASE EnterSection(c)
  <2>1. PICK pc \in {"commit", "check"} :
          call' = [call EXCEPT ![c].pc = pc] /\ (pc = "check" => call[c].kind # "like")
    BY <1>2 DEF EnterSection
  <2>2. call[c].kind \in {"like", "unlike"}
    BY <1>t DEF Histories, CallRecords, Kinds
  <2>3. \A d \in Calls : Mild(d)
    BY <1>l, <1>2, <2>1, <2>2, MoveMild DEF EnterSection, InFlight
  <2> QED
    BY <1>2, <2>3, MildStep DEF EnterSection, store
<1>3. CASE LockTimeout(c) \/ CheckThrows(c)
  <2>1. \A d \in Calls : Mild(d)
    BY <1>l, <1>3, MoveMild DEF LockTimeout, CheckThrows, InFlight
  <2> QED
    BY <1>3, <2>1, MildStep DEF LockTimeout, CheckThrows, store
<1>4. CASE CheckLike(c) /\ call[c].viewer \in likes
  <2>1. \A d \in Calls : Mild(d)
    BY <1>l, <1>4, MoveMild DEF CheckLike, InFlight
  <2> QED
    BY <1>4, <2>1, MildStep DEF CheckLike, store
<1>5. CASE Return(c) \/ (CheckLike(c) /\ call[c].viewer \notin likes)
  <2>1. call' = [call EXCEPT ![c].pc = "leave"] /\ UNCHANGED <<likes, outlived>>
    BY <1>5 DEF Return, CheckLike, store
  <2>2. call'[c].pc = "leave" /\ Same(c) /\ \A d \in Calls \ {c} : call'[d] = call[d]
    BY <1>t, <2>1 DEF Histories, CallRecords, Same
  <2>3. InFlight(c) /\ call[c].pc # "joined"
    BY <1>l, <1>5 DEF Return, CheckLike, InFlight
  <2>4. Steady => Holds(likes, c)
    BY <1>5 DEF AllSeen, Seen, Checks, Return, CheckLike, Holds
  <2> QED
    BY <2>1, <2>2, <2>3, <2>4, EndSeen
<1> QED
  BY <1>1, <1>2, <1>3, <1>4, <1>5, CommitSeen DEF Work

LEMMA SeenStep ==
  ASSUME TypeOK, QueuesAreTrue, AllSeen, Kept, OwnersApart, ~ distributed, [Next]_vars
  PROVE  AllSeen'
<1>1. ASSUME NEW c \in Calls, Dedupe(c) PROVE FALSE
  BY <1>1 DEF AllSeen, Local, Remote, Dedupe, LookupHit, LookupMiss, AcquireLease, LeaseIsTaken,
    PollHit, PollGivesUp, Publish, ReleaseLease
<1>2. ASSUME NEW c \in Calls, Step(c) PROVE AllSeen'
  BY <1>1, <1>2, WorkSeen, LeaveSeen DEF Step
<1>3. ASSUME NEW c \in Calls, Outlive(c) PROVE FALSE
  BY <1>3 DEF Outlive
<1>4. CASE UNCHANGED vars \/ \E k \in Keys : LeaseExpires(k) \/ ResultExpires(k)
  <2>1. UNCHANGED <<call, likes, outlived>>
    BY <1>4 DEF vars, LeaseExpires, ResultExpires, store
  <2> QED
    <3>1. \A d \in Calls : Mild(d)
      BY <2>1, MildCall
    <3> QED
      BY <2>1, <3>1, MildStep
<1>5. ASSUME NEW i \in Instances, Crash(i) PROVE AllSeen'
  <2>1. \A d \in Calls : call'[d] = IF call[d].at = i /\ InFlight(d)
                                    THEN [call[d] EXCEPT !.pc = "gone"] ELSE call[d]
    BY <1>5 DEF Crash
  <2>2. \A d \in Calls : call[d] \in CallRecords
    BY DEF TypeOK
  <2>3. ASSUME NEW d \in Calls PROVE Mild(d)
    <3>1. CASE call[d].at = i /\ InFlight(d)
      <4>1. call'[d] = [call[d] EXCEPT !.pc = "gone"]
        BY <2>1, <3>1
      <4>2. Same(d) /\ call'[d].pc = "gone"
        BY <2>2, <4>1 DEF CallRecords, Same
      <4> QED
        BY <4>2, LocalPlaces DEF Mild, InFlight, Remote
    <3>2. CASE ~ (call[d].at = i /\ InFlight(d))
      BY <2>1, <3>2, MildCall
    <3> QED
      BY <3>1, <3>2
  <2> QED
    BY <1>5, <2>3, MildStep DEF Crash, store
<1> QED
  BY <1>2, <1>3, <1>4, <1>5, ArriveSeen, LateBatchSeen DEF Next

LEMMA SeenInit == ASSUME Init PROVE AllSeen
<1>1. \A c \in Calls : call[c].pc = "none" /\ call[c].via = "work"
  BY DEF Init, NewCall
<1> QED
  BY <1>1, LocalPlaces DEF Init, AllSeen, Unseen, Local, Checks, Seen, InFlight, Remote

LEMMA SameCoordinator == ASSUME [Next]_vars PROVE distributed' = distributed
<1>1. ASSUME NEW c \in Calls, Dedupe(c) PROVE distributed' = distributed
  BY <1>1 DEF Dedupe, LookupHit, LookupMiss, AcquireLease, LeaseIsTaken, PollHit, PollGivesUp,
    Publish, ReleaseLease, Reuse
<1>2. ASSUME NEW c \in Calls, Work(c) PROVE distributed' = distributed
  BY <1>2 DEF Work, EnterSection, LockTimeout, CheckLike, CheckThrows, Commit, CommitThrows, Return
<1>3. ASSUME NEW c \in Calls, Resume(c) \/ Leave(c) \/ Outlive(c) PROVE distributed' = distributed
  BY <1>3 DEF Resume, Leave, Outlive
<1>4. ASSUME NEW c \in Calls, NEW v \in Viewers, NEW kind \in Kinds, NEW i \in Instances,
             Arrive(c, v, kind, i)
      PROVE  distributed' = distributed
  BY <1>4 DEF Arrive
<1>5. ASSUME NEW k \in Keys, LeaseExpires(k) \/ ResultExpires(k) PROVE distributed' = distributed
  BY <1>5 DEF LeaseExpires, ResultExpires
<1>6. ASSUME NEW i \in Instances, Crash(i) PROVE distributed' = distributed
  BY <1>6 DEF Crash
<1>7. ASSUME NEW c \in Calls, LateBatch(c) PROVE distributed' = distributed
  BY <1>7 DEF LateBatch
<1>8. CASE UNCHANGED vars
  BY <1>8 DEF vars
<1> QED
  BY <1>1, <1>2, <1>3, <1>4, <1>5, <1>6, <1>7, <1>8 DEF Next, Step

\* Without a coordinator one instance answers a call only with what was so while
\* the call was in flight: a promise that is shared is never one whose work was
\* undone before, whatever throws and however often the instance restarts, as
\* long as no batch that was left behind lands later.
THEOREM AnswersAreTrue == Spec => []AnswerIsTrue
<1> DEFINE Held == NothingFailedYet /\ QueuesAreTrue /\ FollowersAreLed
           Told == OwnersApart /\ (~ distributed => AllSeen)
<1>1. TypeOK /\ Held /\ Told /\ [Next]_vars => Told'
  <2> SUFFICES ASSUME TypeOK, Held, Told, [Next]_vars PROVE Told'
    OBVIOUS
  <2>1. Kept
    BY NothingFailedStep, LateGrows DEF Kept
  <2> QED
    BY <2>1, OwnersStep, SeenStep, SameCoordinator
<1>2. Init => Told
  BY ExactInit, SeenInit
<1>3. Told => AnswerIsTrue
  BY DEF AllSeen, Seen, AnswerIsTrue
<1>4. Spec => []Held
  BY CallsAreHeldAlways
<1> HIDE DEF Held, Told
<1> QED
  BY <1>1, <1>2, <1>3, <1>4, TypeCorrectness, PTL DEF Spec
=============================================================================
