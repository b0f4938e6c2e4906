--------------------------- MODULE PublishIntent ---------------------------
(***************************************************************************)
(* What the posting control plane promises of a publish intent, whatever   *)
(* happens to the requests that carry it: an intent (one viewer and one    *)
(* idempotency key) is accepted once, on an upload session no other intent *)
(* uses; only an accepted intent is published, and published again only    *)
(* when its post was withdrawn; its background jobs start at most once per *)
(* publication; a published intent is counted once on a profile, and only  *)
(* a published one is answered.  PostingOperations implements it.          *)
(***************************************************************************)
EXTENDS Naturals

CONSTANTS Keys,       \* publish intents: (viewer, idempotency key) pairs
          Profiles,   \* users on whose profile a post may be counted
          Sessions,   \* upload sessions
          NoSession   \* the session of an intent that is not accepted

VARIABLES accepted,   \* accepted[k]: the session intent k was accepted on
          published,  \* published[k]: times the post of intent k was published
          withdrawn,  \* withdrawn[k]: times it was deleted
          started,    \* started[k]: times its media and embedding jobs were started
          counted,    \* the intents and profiles counted
          answered    \* intents the client holds an operation for

intentVars == <<accepted, published, withdrawn, started, counted, answered>>

Init ==
    /\ accepted = [k \in Keys |-> NoSession]
    /\ published = [k \in Keys |-> 0]
    /\ withdrawn = [k \in Keys |-> 0]
    /\ started = [k \in Keys |-> 0]
    /\ counted = {}
    /\ answered = {}

\* The first finalize of an intent takes a session nobody else has taken.
Accept(k, s) ==
    /\ accepted[k] = NoSession
    /\ \A other \in Keys : accepted[other] # s
    /\ accepted' = [accepted EXCEPT ![k] = s]
    /\ UNCHANGED <<published, withdrawn, started, counted, answered>>

Publish(k) ==
    /\ accepted[k] # NoSession
    /\ published[k] <= withdrawn[k]
    /\ published' = [published EXCEPT ![k] = @ + 1]
    /\ UNCHANGED <<accepted, withdrawn, started, counted, answered>>

Withdraw(k) ==
    /\ published[k] > 0
    /\ withdrawn' = [withdrawn EXCEPT ![k] = @ + 1]
    /\ UNCHANGED <<accepted, published, started, counted, answered>>

StartJobs(k) ==
    /\ started[k] < published[k]
    /\ started' = [started EXCEPT ![k] = @ + 1]
    /\ UNCHANGED <<accepted, published, withdrawn, counted, answered>>

CountOnProfile(k, p) ==
    /\ published[k] > 0
    /\ <<k, p>> \notin counted
    /\ counted' = counted \union {<<k, p>>}
    /\ UNCHANGED <<accepted, published, withdrawn, started, answered>>

\* A finalize request is answered with the operation and its post.
Answer(k) ==
    /\ published[k] > 0
    /\ answered' = answered \union {k}
    /\ UNCHANGED <<accepted, published, withdrawn, started, counted>>

Next ==
    \E k \in Keys :
        \/ \E s \in Sessions : Accept(k, s)
        \/ Publish(k)
        \/ Withdraw(k)
        \/ StartJobs(k)
        \/ \E p \in Profiles : CountOnProfile(k, p)
        \/ Answer(k)

Spec == Init /\ [][Next]_intentVars
=============================================================================
