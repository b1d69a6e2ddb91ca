--------------------------- MODULE EndpointBuffer ---------------------------
(***************************************************************************)
(* How gateways hand the requests of an endpoint to its containers.  Every *)
(* gateway keeps the waiting requests in a buffer and a list of ready      *)
(* containers.  A container serves at most MaxTokens requests at a time;   *)
(* its tokens are a counter in Redis, which all gateways use.  A request   *)
(* being served has a heartbeat key; when it expires, because the gateway  *)
(* has died, the others give its token back.                               *)
(*                                                                         *)
(* Redis commands are atomic; a sequence of them is not.                   *)
(***************************************************************************)
EXTENDS Integers, FiniteSets, Sequences

CONSTANTS
  Requests, Containers, Gateways,
  MaxTokens,      \* requests a container serves at a time
  BufferSize,     \* capacity of a gateway's buffer
  MaxDebt,        \* how far below zero a counter falls because INCR fails (bound)
  Scenarios,      \* the gateways that run at first and what may go wrong: [up, faults]
  None            \* no container, no gateway

\* ttl    the TTL of a token counter runs out
\* late   a heartbeat is written after its request ended
\* redis  a Redis command fails
\* crash  a gateway dies
\* unready  no container passes the health check
PossibleFaults == {"ttl", "late", "redis", "crash", "unready"}

ASSUME ConstantsAssumption ==
  /\ MaxTokens \in Nat \ {0}
  /\ BufferSize \in Nat \ {0}
  /\ MaxDebt \in Nat
  /\ \A k \in Scenarios : k.up \subseteq Gateways /\ k.faults \subseteq PossibleFaults
  /\ None \notin Containers \cup Gateways
  /\ IsFiniteSet(Requests)

VARIABLES
  buffer,    \* buffer[g]: the requests waiting in the ring buffer of g
  first,     \* first[g]: the head of availableContainers, or None
  counter,   \* counter[c]: the token counter of c, a set: empty if there is none
  volatile,  \* volatile[c]: the counter has a TTL
  req,       \* req[r]: see Phases
  home,      \* home[r]: the gateway that received r
  on,        \* on[r]: the container chosen for r
  key,       \* key[r]: the heartbeat key of r exists
  beat,      \* beat[r]: the heartbeat goroutine of r
  expired,   \* expired[g]: expired heartbeats g has not heard of yet
  gone,      \* requests whose client has gone, and whose task is cancelled
  up,        \* gateways that run
  faults     \* what may go wrong, chosen at the start

vars == <<buffer, first, counter, volatile, req, home, on, key, beat, expired,
          gone, up, faults>>

(***************************************************************************)
(* new        not received yet                                             *)
(* waiting    in a buffer, or dropped from it                              *)
(* popped     in handleRequest                                             *)
(* picked     a container is chosen, DECR is outstanding                   *)
(* refused    there was no token, INCR is outstanding                      *)
(* granted    there was a token, EXPIRE is outstanding                     *)
(* serving    forwarded to the container                                   *)
(* releasing  served, INCR is outstanding                                  *)
(* deleting   DEL of the heartbeat key is outstanding                      *)
(* closing    the done channel is to be closed                             *)
(* over       dropped, or answered                                         *)
(***************************************************************************)
Phases == {"new", "waiting", "popped", "picked", "refused", "granted",
           "serving", "releasing", "deleting", "closing", "over"}

Buffer(g) == INSTANCE BoundedDeque WITH queue <- buffer[g], Values <- Requests,
                                        Size <- BufferSize

Init ==
  /\ buffer = [g \in Gateways |-> <<>>]
  /\ first = [g \in Gateways |-> None]
  /\ counter = [c \in Containers |-> {}]
  /\ volatile = [c \in Containers |-> FALSE]
  /\ home = [r \in Requests |-> None]
  /\ on = [r \in Requests |-> None]
  /\ key = [r \in Requests |-> FALSE]
  /\ beat = [r \in Requests |-> "off"]
  /\ expired = [g \in Gateways |-> {}]
  /\ gone = {}
  /\ req = [r \in Requests |-> "new"]
  /\ \E k \in Scenarios : up = k.up /\ faults = k.faults

redisVars == <<counter, volatile>>
heartVars == <<key, beat, expired>>

Advance(r, from, to) ==
  /\ req[r] = from
  /\ home[r] \in up
  /\ req' = [req EXCEPT ![r] = to]

-----------------------------------------------------------------------------
(* Redis                                                                   *)

\* The number a missing counter counts as.
Tokens(c) == IF counter[c] = {} THEN 0 ELSE CHOOSE n \in counter[c] : TRUE

\* INCR and DECR create a missing counter, without a TTL.
Add(c, n) ==
  /\ counter' = [counter EXCEPT ![c] = {Tokens(c) + n}]
  /\ UNCHANGED volatile

TokensRunOut(c) ==
  /\ "ttl" \in faults
  /\ volatile[c]
  /\ counter' = [counter EXCEPT ![c] = {}]
  /\ volatile' = [volatile EXCEPT ![c] = FALSE]
  /\ UNCHANGED <<buffer, first, req, home, on, heartVars, gone, up, faults>>

-----------------------------------------------------------------------------
(* Receiving and buffering                                                 *)

\* ForwardRequest; a full buffer drops its oldest request.
ForwardRequest(r, g) ==
  /\ req[r] = "new"
  /\ g \in up
  /\ req' = [req EXCEPT ![r] = "waiting"]
  /\ home' = [home EXCEPT ![r] = g]
  /\ buffer' = [buffer EXCEPT ![g] = Append(Buffer(g)!Room, r)]
  /\ UNCHANGED <<first, redisVars, on, heartVars, gone, up, faults>>

\* The context of the client's request is done: ForwardRequest cancels the task,
\* unless the request was forwarded, when handleHttpRequest does.
ClientGoes(r) ==
  /\ req[r] \notin {"new", "over"}
  /\ r \notin gone
  /\ gone' = gone \cup {r}
  /\ UNCHANGED <<buffer, first, redisVars, req, home, on, heartVars, up, faults>>

\* One round of discoverContainers: counters that are missing are created, for good,
\* and any container that is ready may come first.
DiscoverContainers(g) ==
  /\ g \in up
  /\ counter' = [c \in Containers |-> IF counter[c] = {} THEN {MaxTokens}
                                                         ELSE counter[c]]
  /\ \E c \in Containers \cup {None} :
       /\ c = None => "unready" \in faults
       /\ first' = [first EXCEPT ![g] = c]
  /\ UNCHANGED <<buffer, volatile, req, home, on, heartVars, gone, up, faults>>

\* processRequests.
ProcessRequests(g) ==
  /\ g \in up
  /\ first[g] # None
  /\ buffer[g] # <<>>
  /\ LET r == Head(buffer[g])
     IN  req' = [req EXCEPT ![r] = IF r \in gone THEN "over" ELSE "popped"]
  /\ buffer' = [buffer EXCEPT ![g] = Tail(@)]
  /\ UNCHANGED <<first, redisVars, home, on, heartVars, gone, up, faults>>

\* The request goes back to the front of the buffer; when that is full it takes the
\* place of the oldest one.
PushBack(r) ==
  LET g == home[r]
  IN  buffer' = [buffer EXCEPT ![g] = <<r>> \o Buffer(g)!Room]

-----------------------------------------------------------------------------
(* Taking and giving back tokens                                           *)

\* handleRequest up to acquireRequestToken.
PickContainer(r) ==
  /\ Advance(r, "popped", "picked")
  /\ first[home[r]] # None
  /\ on' = [on EXCEPT ![r] = first[home[r]]]
  /\ UNCHANGED <<buffer, first, redisVars, home, heartVars, gone, up, faults>>

NoContainer(r) ==
  /\ Advance(r, "popped", "waiting")
  /\ first[home[r]] = None
  /\ PushBack(r)
  /\ UNCHANGED <<first, redisVars, home, on, heartVars, gone, up, faults>>

\* Mutant: the count is tested and not taken.
AcquireTests(r) ==
  /\ Advance(r, "picked", IF Tokens(on[r]) > 0 THEN "granted" ELSE "refused")
  /\ Add(on[r], IF Tokens(on[r]) > 0 THEN 0 ELSE -1)
  /\ UNCHANGED <<buffer, first, home, on, heartVars, gone, up, faults>>

Acquire(r) ==
  /\ Advance(r, "picked", IF Tokens(on[r]) - 1 < 0 THEN "refused" ELSE "granted")
  /\ Add(on[r], -1)
  /\ UNCHANGED <<buffer, first, home, on, heartVars, gone, up, faults>>

\* DECR fails.
AcquireFails(r) ==
  /\ "redis" \in faults
  /\ Advance(r, "picked", "waiting")
  /\ PushBack(r)
  /\ UNCHANGED <<first, redisVars, home, on, heartVars, gone, up, faults>>

\* Mutant: the request is not put back.
RefusedForgets(r) ==
  /\ Advance(r, "refused", "waiting")
  /\ Add(on[r], 1)
  /\ UNCHANGED <<buffer, first, home, on, heartVars, gone, up, faults>>

\* "just reverse the operation"
Refused(r) ==
  /\ Advance(r, "refused", "waiting")
  /\ Add(on[r], 1)
  /\ PushBack(r)
  /\ UNCHANGED <<first, home, on, heartVars, gone, up, faults>>

\* INCR fails, which nobody notices.
RefusedFails(r) ==
  /\ "redis" \in faults
  /\ Advance(r, "refused", "waiting")
  /\ Tokens(on[r]) >= -MaxDebt
  /\ PushBack(r)
  /\ UNCHANGED <<first, redisVars, home, on, heartVars, gone, up, faults>>

Granted(r) ==
  /\ Advance(r, "granted", "serving")
  /\ volatile' = [volatile EXCEPT ![on[r]] = counter[on[r]] # {}]
  /\ UNCHANGED <<buffer, first, counter, home, on, heartVars, gone, up, faults>>

\* Mutant: the request is put back, and served all the same.
GrantFailsGoesOn(r) ==
  /\ "redis" \in faults
  /\ Advance(r, "granted", "serving")
  /\ PushBack(r)
  /\ UNCHANGED <<first, redisVars, home, on, heartVars, gone, up, faults>>

\* EXPIRE fails: the request is put back, the token is not.
GrantFails(r) ==
  /\ "redis" \in faults
  /\ Advance(r, "granted", "waiting")
  /\ PushBack(r)
  /\ UNCHANGED <<first, redisVars, home, on, heartVars, gone, up, faults>>

\* The request is answered, or not; then the token is given back.
Serve(r) ==
  /\ Advance(r, "serving", "releasing")
  /\ UNCHANGED <<buffer, first, redisVars, home, on, heartVars, gone, up, faults>>

\* releaseRequestToken: INCR and EXPIRE, then DEL of the heartbeat.
Release(r) ==
  /\ Advance(r, "releasing", "deleting")
  /\ counter' = [counter EXCEPT ![on[r]] = {Tokens(on[r]) + 1}]
  /\ volatile' = [volatile EXCEPT ![on[r]] = TRUE]
  /\ UNCHANGED <<buffer, first, home, on, heartVars, gone, up, faults>>

\* INCR fails, and the rest is left out.  The heartbeat will expire.
ReleaseFails(r) ==
  /\ "redis" \in faults
  /\ Advance(r, "releasing", "closing")
  /\ UNCHANGED <<buffer, first, redisVars, home, on, heartVars, gone, up, faults>>

\* EXPIRE fails after INCR.
ReleaseTorn(r) ==
  /\ "redis" \in faults
  /\ Advance(r, "releasing", "closing")
  /\ Add(on[r], 1)
  /\ UNCHANGED <<buffer, first, home, on, heartVars, gone, up, faults>>

DeleteHeartbeat(r) ==
  /\ Advance(r, "deleting", "closing")
  /\ key' = [key EXCEPT ![r] = FALSE]
  /\ UNCHANGED <<buffer, first, redisVars, home, on, beat, expired, gone, up, faults>>

CloseDone(r) ==
  /\ Advance(r, "closing", "over")
  /\ UNCHANGED <<buffer, first, redisVars, home, on, heartVars, gone, up, faults>>

-----------------------------------------------------------------------------
(* Heartbeats                                                              *)

\* handleHttpRequest starts the goroutine.
StartBeating(r) ==
  /\ req[r] = "serving"
  /\ beat[r] = "off"
  /\ beat' = [beat EXCEPT ![r] = "on"]
  /\ UNCHANGED <<buffer, first, redisVars, req, home, on, key, expired, gone, up, faults>>

\* SET, first without a test, then at every tick until the request is over.
Beat(r) ==
  /\ beat[r] = "on"
  /\ home[r] \in up
  /\ req[r] \in {"serving", "releasing"} \/ "late" \in faults
  /\ ~key[r]
  /\ key' = [key EXCEPT ![r] = TRUE]
  /\ UNCHANGED <<buffer, first, redisVars, req, home, on, beat, expired, gone, up, faults>>

StopBeating(r) ==
  /\ beat[r] = "on"
  /\ req[r] = "over" \/ r \in gone
  /\ beat' = [beat EXCEPT ![r] = "done"]
  /\ UNCHANGED <<buffer, first, redisVars, req, home, on, key, expired, gone, up, faults>>

\* The key is renewed well before it expires, as long as the goroutine runs, and a
\* request that ends is released well before it expires.
HeartbeatExpires(r) ==
  /\ key[r]
  /\ home[r] \notin up \/ (beat[r] = "done" /\ req[r] = "over")
  /\ key' = [key EXCEPT ![r] = FALSE]
  /\ expired' = [g \in Gateways |-> IF g \in up THEN expired[g] \cup {r} ELSE {}]
  /\ UNCHANGED <<buffer, first, redisVars, req, home, on, beat, gone, up, faults>>

\* handleHeartbeatEvents.
HandleExpired(r, g) ==
  /\ r \in expired[g]
  /\ expired' = [expired EXCEPT ![g] = @ \ {r}]
  /\ counter' = [counter EXCEPT ![on[r]] = {Tokens(on[r]) + 1}]
  /\ volatile' = [volatile EXCEPT ![on[r]] = TRUE]
  /\ key' = [key EXCEPT ![r] = FALSE]
  /\ UNCHANGED <<buffer, first, req, home, on, beat, gone, up, faults>>

\* INCR fails, and the expiry is forgotten.
HandleExpiredFails(r, g) ==
  /\ "redis" \in faults
  /\ r \in expired[g]
  /\ expired' = [expired EXCEPT ![g] = @ \ {r}]
  /\ UNCHANGED <<buffer, first, redisVars, req, home, on, key, beat, gone, up, faults>>

CrashGateway(g) ==
  /\ "crash" \in faults
  /\ up \ {g} # {}
  /\ g \in up
  /\ up' = up \ {g}
  /\ buffer' = [buffer EXCEPT ![g] = <<>>]
  /\ expired' = [expired EXCEPT ![g] = {}]
  /\ req' = [r \in Requests |-> IF home[r] = g THEN "over" ELSE req[r]]
  /\ UNCHANGED <<first, redisVars, home, on, key, beat, gone, faults>>

-----------------------------------------------------------------------------

RequestNext(r) ==
  \/ \E g \in Gateways : ForwardRequest(r, g) \/ HandleExpired(r, g)
                         \/ HandleExpiredFails(r, g)
  \/ ClientGoes(r) \/ PickContainer(r) \/ NoContainer(r) \/ Acquire(r)
  \/ AcquireFails(r) \/ Refused(r) \/ RefusedFails(r) \/ Granted(r) \/ GrantFails(r)
  \/ Serve(r) \/ Release(r) \/ ReleaseFails(r) \/ ReleaseTorn(r)
  \/ DeleteHeartbeat(r) \/ CloseDone(r) \/ StartBeating(r) \/ Beat(r)
  \/ StopBeating(r) \/ HeartbeatExpires(r)

Next ==
  \/ \E r \in Requests : RequestNext(r)
  \/ \E g \in Gateways : DiscoverContainers(g) \/ ProcessRequests(g) \/ CrashGateway(g)
  \/ \E c \in Containers : TokensRunOut(c)

Spec == Init /\ [][Next]_vars

\* Goroutines keep running; containers answer, are found ready again and again, and
\* are not always lost from the list when a request has just been popped.  Clients,
\* crashes and expiry are not fair.
FairSpec ==
  /\ Spec
  /\ \A g \in Gateways :
       /\ SF_vars(DiscoverContainers(g) /\ first'[g] # None)
       /\ SF_vars(ProcessRequests(g))
  /\ \A r \in Requests :
       /\ SF_vars(PickContainer(r)) /\ WF_vars(NoContainer(r))
       /\ WF_vars(Acquire(r) \/ AcquireFails(r))
       /\ WF_vars(Refused(r) \/ RefusedFails(r))
       /\ WF_vars(Granted(r) \/ GrantFails(r)) /\ WF_vars(Serve(r))
       /\ WF_vars(Release(r) \/ ReleaseFails(r) \/ ReleaseTorn(r))
       /\ WF_vars(DeleteHeartbeat(r)) /\ WF_vars(CloseDone(r))

-----------------------------------------------------------------------------
(* Properties                                                              *)

TypeOK ==
  /\ buffer \in [Gateways -> Seq(Requests)]
  /\ \A g \in Gateways : Len(buffer[g]) <= BufferSize
  /\ first \in [Gateways -> Containers \cup {None}]
  /\ counter \in [Containers -> SUBSET Int]
  /\ volatile \in [Containers -> BOOLEAN]
  /\ req \in [Requests -> Phases]
  /\ home \in [Requests -> Gateways \cup {None}]
  /\ on \in [Requests -> Containers \cup {None}]
  /\ key \in [Requests -> BOOLEAN]
  /\ beat \in [Requests -> {"off", "on", "done"}]
  /\ expired \in [Gateways -> SUBSET Requests]
  /\ gone \subseteq Requests
  /\ up \subseteq Gateways
  /\ faults \in SUBSET PossibleFaults

Serving(c) == {r \in Requests : on[r] = c /\ req[r] \in {"serving", "releasing"}}

\* No container serves more requests than it has tokens, however the DECRs and INCRs
\* of the gateways' acquireRequestToken and releaseRequestToken interleave.
NoOverload ==
  faults \subseteq {"unready"} => \A c \in Containers : Cardinality(Serving(c)) <= MaxTokens

\* A request is in one place, in a buffer or with one goroutine, however often it is
\* put back: it is forwarded once, and its done channel is closed once.
HandledOnce ==
  \A r \in Requests :
    LET copies == {gi \in Gateways \X (1 .. BufferSize) :
                     gi[2] <= Len(buffer[gi[1]]) /\ buffer[gi[1]][gi[2]] = r}
    IN  /\ Cardinality(copies) <= 1
        /\ copies # {} => req[r] = "waiting"

\* A request in the buffer of a running gateway is served, unless more have come to the
\* gateway than the buffer holds: tokens that others took by mistake are reversed, and the
\* buffer gives everyone a turn.
Served ==
  \A r \in Requests, g \in Gateways :
    faults \subseteq {"unready"} /\ r \in {buffer[g][i] : i \in DOMAIN buffer[g]}
      ~> \/ req[r] \in {"serving", "over"}
         \/ Cardinality({q \in Requests : home[q] = g}) > BufferSize

\* What discoverContainers takes for granted: the tokens that are missing from the
\* counter are requests in flight, so there are never more requests in flight.
TokensCountInFlight ==
  \A c \in Containers :
    faults \subseteq {"unready"} /\ counter[c] # {} => Cardinality(Serving(c)) <= MaxTokens - Tokens(c)
=============================================================================
