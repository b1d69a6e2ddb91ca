------------------------- MODULE EndpointBufferProofs -------------------------
(***************************************************************************)
(* A request is in one place under every fault; and as long as nothing     *)
(* fails, the counter of a container is its tokens less the requests that  *)
(* have taken one.  And RingBuffer is a bounded queue, for every capacity. *)
(***************************************************************************)
EXTENDS EndpointBuffer, RingBuffer, FiniteSetTheorems, SequenceTheorems, TLAPS

Elems(s) == {s[i] : i \in 1 .. Len(s)}

Distinct(s) == \A i, j \in 1 .. Len(s) : s[i] = s[j] => i = j

Typed ==
  /\ buffer \in [Gateways -> Seq(Requests)]
  /\ first \in [Gateways -> Containers \cup {None}]
  /\ counter \in [Containers -> SUBSET Int]
  /\ req \in [Requests -> Phases]
  /\ home \in [Requests -> Gateways \cup {None}]
  /\ on \in [Requests -> Containers \cup {None}]
  /\ key \in [Requests -> BOOLEAN]
  /\ expired \in [Gateways -> SUBSET Requests]
  /\ up \subseteq Gateways

\* What is in a buffer waits, at its own gateway, and is there once.
Queued ==
  \A g \in Gateways :
    /\ Distinct(buffer[g])
    /\ \A r \in Elems(buffer[g]) : req[r] = "waiting" /\ home[r] = g

-----------------------------------------------------------------------------
(* Pushing and popping                                                     *)

\* Making room keeps a sequence distinct and adds nothing.
LEMMA RoomFacts ==
  ASSUME Typed, NEW g \in Gateways
  PROVE  /\ Buffer(g)!Room \in Seq(Requests)
         /\ Elems(Buffer(g)!Room) \subseteq Elems(buffer[g])
         /\ Distinct(buffer[g]) => Distinct(Buffer(g)!Room)
<1>. DEFINE s == buffer[g]
<1>1. s \in Seq(Requests)
  BY DEF Typed
<1>2. Buffer(g)!Room = IF Len(s) = BufferSize THEN Tail(s) ELSE s
  BY DEF Buffer!Room
<1>3. CASE Len(s) = BufferSize
  <2>1. Buffer(g)!Room = Tail(s) /\ s # <<>>
    BY <1>1, <1>2, <1>3, ConstantsAssumption, ZenonT(60)
  <2>2. /\ Tail(s) \in Seq(Requests) /\ Len(Tail(s)) = Len(s) - 1
        /\ \A i \in 1 .. Len(s) - 1 : Tail(s)[i] = s[i + 1]
    BY <1>1, <2>1
  <2>. QED
    BY <1>1, <2>1, <2>2 DEF Elems, Distinct
<1>4. CASE Len(s) # BufferSize
  BY <1>1, <1>2, <1>4, ZenonT(60)
<1>. QED
  BY <1>3, <1>4, ZenonT(60)

\* Pushing a new value at either end keeps a sequence distinct.
LEMMA Pushed ==
  ASSUME NEW s \in Seq(Requests), NEW r \in Requests, Distinct(s), r \notin Elems(s),
         NEW t, t = Append(s, r) \/ t = <<r>> \o s
  PROVE  t \in Seq(Requests) /\ Distinct(t) /\ Elems(t) \subseteq Elems(s) \cup {r}
<1>1. CASE t = Append(s, r)
  <2>1. /\ t \in Seq(Requests) /\ Len(t) = Len(s) + 1
        /\ \A i \in 1 .. Len(s) : t[i] = s[i]
        /\ t[Len(s) + 1] = r
    BY <1>1
  <2>. QED
    BY <2>1, SMTT(60) DEF Elems, Distinct
<1>2. CASE t = <<r>> \o s
  <2>1. /\ t \in Seq(Requests) /\ Len(t) = Len(s) + 1
        /\ \A i \in 1 .. Len(s) : t[i + 1] = s[i]
        /\ t[1] = r
    BY <1>2
  <2>2. \A i \in 1 .. Len(t) : i = 1 \/ (i - 1 \in 1 .. Len(s) /\ t[i] = s[i - 1])
    BY <2>1, SMTT(60)
  <2>3. Elems(t) \subseteq Elems(s) \cup {r}
    BY <2>2, <2>1, SMTT(60) DEF Elems
  <2>4. ASSUME NEW i \in 1 .. Len(t), NEW j \in 1 .. Len(t), t[i] = t[j] PROVE i = j
    <3>1. (i = 1 /\ t[i] = r) \/ (i - 1 \in 1 .. Len(s) /\ t[i] = s[i - 1] /\ t[i] # r)
      BY <2>1, <2>2, ZenonT(60) DEF Elems
    <3>2. (j = 1 /\ t[j] = r) \/ (j - 1 \in 1 .. Len(s) /\ t[j] = s[j - 1] /\ t[j] # r)
      BY <2>1, <2>2 DEF Elems
    <3>3. CASE t[i] = r
      BY <2>4, <3>1, <3>2, <3>3, ZenonT(60)
    <3>4. CASE t[i] # r
      <4>1. i - 1 \in 1 .. Len(s) /\ j - 1 \in 1 .. Len(s) /\ s[i - 1] = s[j - 1]
        BY <2>4, <3>1, <3>2, <3>4, ZenonT(60)
      <4>. QED
        BY <4>1, SMTT(60) DEF Distinct
    <3>. QED
      BY <3>3, <3>4, Zenon
  <2>. QED
    BY <2>1, <2>3, <2>4, ZenonT(60) DEF Distinct
<1>. QED
  BY <1>1, <1>2

\* A request that is not waiting moves on, and is in no buffer before or after.
LEMMA Moved ==
  ASSUME Typed, Queued, NEW r \in Requests, req[r] # "waiting", NEW p,
         req' = [req EXCEPT ![r] = p], UNCHANGED <<buffer, home>>
  PROVE  Queued'
  BY DEF Typed, Queued

\* A request that is not waiting is put back into the buffer of its gateway.
LEMMA PutBack ==
  ASSUME Typed, Queued, NEW r \in Requests, req[r] # "waiting",
         req' = [req EXCEPT ![r] = "waiting"], home[r] \in up, UNCHANGED home, PushBack(r)
  PROVE  Queued' /\ buffer' \in [Gateways -> Seq(Requests)]
<1>. DEFINE g == home[r]
            t == <<r>> \o Buffer(g)!Room
<1>1. g \in Gateways /\ buffer' = [buffer EXCEPT ![g] = t]
  BY DEF Typed, PushBack
<1>2. /\ Buffer(g)!Room \in Seq(Requests) /\ Distinct(Buffer(g)!Room)
      /\ Elems(Buffer(g)!Room) \subseteq Elems(buffer[g])
  BY <1>1, RoomFacts, Zenon DEF Queued
<1>3. r \notin Elems(Buffer(g)!Room)
  BY <1>1, <1>2, Zenon DEF Queued
<1>4. t \in Seq(Requests) /\ Distinct(t) /\ Elems(t) \subseteq Elems(buffer[g]) \cup {r}
  <2>1. /\ t \in Seq(Requests) /\ Distinct(t)
        /\ Elems(t) \subseteq Elems(Buffer(g)!Room) \cup {r}
    BY <1>2, <1>3, Pushed, ZenonT(60)
  <2>. QED
    BY <1>2, <2>1
<1>. HIDE DEF t
<1>5. /\ buffer'[g] = t
      /\ \A f \in Gateways \ {g} : buffer'[f] = buffer[f]
      /\ \A q \in Requests : req'[q] = IF q = r THEN "waiting" ELSE req[q]
  BY <1>1, Zenon DEF Typed
<1>6. ASSUME NEW f \in Gateways
      PROVE  /\ Distinct(buffer'[f])
             /\ \A q \in Elems(buffer'[f]) : req'[q] = "waiting" /\ home[q] = f
  <2>1. \A q \in Elems(buffer[f]) : q \in Requests
    BY DEF Typed, Elems
  <2>2. CASE f = g
    BY <1>4, <1>5, <2>1, <2>2 DEF Queued
  <2>3. CASE f # g
    BY <1>5, <2>1, <2>3 DEF Queued
  <2>. QED
    BY <2>2, <2>3
<1>. QED
  BY <1>1, <1>4, <1>6, ZenonT(60) DEF Queued, Typed

\* A new request goes to the end of the buffer of the gateway that received it.
LEMMA ForwardQueued ==
  ASSUME Typed, Queued, NEW r \in Requests, NEW g \in Gateways, ForwardRequest(r, g)
  PROVE  Queued' /\ buffer' \in [Gateways -> Seq(Requests)]
<1>. DEFINE t == Append(Buffer(g)!Room, r)
<1>1. /\ Buffer(g)!Room \in Seq(Requests) /\ Distinct(Buffer(g)!Room)
      /\ Elems(Buffer(g)!Room) \subseteq Elems(buffer[g])
  BY RoomFacts DEF Queued
<1>2. r \notin Elems(Buffer(g)!Room) /\ \A f \in Gateways : r \notin Elems(buffer[f])
  BY <1>1 DEF Queued, ForwardRequest
<1>3. t \in Seq(Requests) /\ Distinct(t) /\ Elems(t) \subseteq Elems(buffer[g]) \cup {r}
  BY <1>1, <1>2, Pushed, ZenonT(60)
<1>4. buffer' = [buffer EXCEPT ![g] = t]
  BY DEF ForwardRequest
<1>. HIDE DEF t
<1>5. /\ buffer'[g] = t
      /\ \A f \in Gateways \ {g} : buffer'[f] = buffer[f]
      /\ \A q \in Requests : /\ req'[q] = IF q = r THEN "waiting" ELSE req[q]
                             /\ home'[q] = IF q = r THEN g ELSE home[q]
  BY <1>4 DEF Typed, ForwardRequest
<1>6. ASSUME NEW f \in Gateways
      PROVE  /\ Distinct(buffer'[f])
             /\ \A q \in Elems(buffer'[f]) : req'[q] = "waiting" /\ home'[q] = f
  <2>1. \A q \in Elems(buffer[f]) : q \in Requests
    BY DEF Typed, Elems
  <2>2. CASE f = g
    BY <1>2, <1>3, <1>5, <2>1, <2>2, ZenonT(60) DEF Queued
  <2>3. CASE f # g
    BY <1>2, <1>5, <2>1, <2>3, ZenonT(60) DEF Queued
  <2>. QED
    BY <2>2, <2>3, Zenon
<1>. QED
  BY <1>3, <1>4, <1>6, Zenon DEF Queued, Typed

\* processRequests takes the first request out of the buffer.
LEMMA ProcessQueued ==
  ASSUME Typed, Queued, NEW g \in Gateways, ProcessRequests(g)
  PROVE  /\ Queued' /\ buffer' \in [Gateways -> Seq(Requests)]
         /\ \E r \in Requests, p \in {"over", "popped"} :
              req[r] = "waiting" /\ req' = [req EXCEPT ![r] = p]
<1>. DEFINE s == buffer[g]
            r == Head(s)
<1>1. s \in Seq(Requests) /\ s # <<>> /\ buffer' = [buffer EXCEPT ![g] = Tail(s)]
  BY DEF Typed, ProcessRequests
<1>2. /\ Tail(s) \in Seq(Requests) /\ Len(Tail(s)) = Len(s) - 1
      /\ \A i \in 1 .. Len(s) - 1 : Tail(s)[i] = s[i + 1]
      /\ r = s[1] /\ r \in Requests /\ Len(s) >= 1
  BY <1>1
<1>3. r \in Elems(s) /\ req[r] = "waiting" /\ home[r] = g
  BY <1>1, <1>2 DEF Elems, Queued
<1>4. Distinct(s)
  BY DEF Queued
<1>5. Distinct(Tail(s)) /\ Elems(Tail(s)) \subseteq Elems(s) \ {r}
  BY <1>1, <1>2, <1>4 DEF Distinct, Elems
<1>6. PICK p \in {"over", "popped"} : req' = [req EXCEPT ![r] = p]
  BY Zenon DEF ProcessRequests
<1>. HIDE DEF r
<1>7. /\ buffer'[g] = Tail(s) /\ UNCHANGED home
      /\ \A f \in Gateways \ {g} : buffer'[f] = buffer[f]
      /\ \A q \in Requests \ {r} : req'[q] = req[q]
  BY <1>1, <1>2, <1>6, ZenonT(60) DEF Typed, ProcessRequests
<1>8. ASSUME NEW f \in Gateways
      PROVE  /\ Distinct(buffer'[f])
             /\ \A q \in Elems(buffer'[f]) : req'[q] = "waiting" /\ home'[q] = f
  <2>1. \A q \in Elems(buffer[f]) : q \in Requests
    BY DEF Typed, Elems
  <2>2. CASE f = g
    BY <1>5, <1>7, <2>1, <2>2, ZenonT(60) DEF Queued
  <2>3. CASE f # g
    BY <1>3, <1>7, <2>1, <2>3, SMTT(60) DEF Queued
  <2>. QED
    BY <2>2, <2>3, Zenon
<1>. QED
  BY <1>1, <1>2, <1>3, <1>6, <1>8, Zenon DEF Queued, Typed

\* A crashed gateway loses its buffer, and its requests are over.
LEMMA CrashQueued ==
  ASSUME Typed, Queued, NEW g \in Gateways, CrashGateway(g)
  PROVE  Queued' /\ buffer' \in [Gateways -> Seq(Requests)]
<1>1. /\ buffer'[g] = <<>> /\ UNCHANGED home
      /\ \A f \in Gateways \ {g} : buffer'[f] = buffer[f]
      /\ \A q \in Requests : home[q] # g => req'[q] = req[q]
  BY DEF Typed, CrashGateway
<1>2. buffer' \in [Gateways -> Seq(Requests)]
  BY DEF Typed, CrashGateway
<1>3. ASSUME NEW f \in Gateways
      PROVE  /\ Distinct(buffer'[f])
             /\ \A q \in Elems(buffer'[f]) : req'[q] = "waiting" /\ home'[q] = f
  <2>1. \A q \in Elems(buffer[f]) : q \in Requests
    BY DEF Typed, Elems
  <2>2. CASE f = g
    BY <1>1, <2>2, SMTT(60) DEF Distinct, Elems
  <2>3. CASE f # g
    BY <1>1, <2>1, <2>3, ZenonT(60) DEF Queued
  <2>. QED
    BY <2>2, <2>3, Zenon
<1>. QED
  BY <1>2, <1>3, Zenon DEF Queued

-----------------------------------------------------------------------------

\* Nothing is buffered at first.
LEMMA InitTyped == Init => Typed /\ Queued
<1>. SUFFICES ASSUME Init PROVE Typed /\ Queued
  OBVIOUS
<1>1. <<>> \in Seq(Requests) /\ Elems(<<>>) = {} /\ Distinct(<<>>)
  BY DEF Elems, Distinct
<1>. QED
  BY <1>1, ConstantsAssumption, Zenon DEF Init, Typed, Queued, Phases

\* RingCounters that move no request.
Still(r) ==
  \/ ClientGoes(r) \/ StartBeating(r) \/ Beat(r) \/ StopBeating(r) \/ HeartbeatExpires(r)
  \/ \E g \in Gateways : HandleExpired(r, g) \/ HandleExpiredFails(r, g)

\* RingCounters of a request between the buffer and the end.
Moves(r) ==
  \/ PickContainer(r) \/ Acquire(r) \/ Granted(r) \/ Serve(r) \/ Release(r) \/ ReleaseFails(r)
  \/ ReleaseTorn(r) \/ DeleteHeartbeat(r) \/ CloseDone(r)

\* RingCounters that put a request back.
Returns(r) ==
  \/ NoContainer(r) \/ AcquireFails(r) \/ Refused(r) \/ RefusedFails(r) \/ GrantFails(r)

\* Counters only ever hold numbers.
LEMMA TokensInt ==
  ASSUME Typed, NEW c \in Containers
  PROVE  Tokens(c) \in Int
  BY DEF Typed, Tokens

\* Every step of a request keeps the types, and the buffers as they should be.
LEMMA StillTyped ==
  ASSUME Typed, Queued, NEW r \in Requests, Still(r)
  PROVE  Typed' /\ Queued'
<1>. USE DEF redisVars, heartVars
<1>1. UNCHANGED <<buffer, req, home, on, first, up>>
  BY Zenon
  DEF Still, ClientGoes, StartBeating, Beat, StopBeating, HeartbeatExpires, HandleExpired,
       HandleExpiredFails
<1>2. Queued'
  BY <1>1, Zenon DEF Queued
<1>3. key' \in [Requests -> BOOLEAN] /\ expired' \in [Gateways -> SUBSET Requests]
  <2>1. CASE ClientGoes(r) \/ StartBeating(r) \/ Beat(r) \/ StopBeating(r)
    BY <2>1, Zenon DEF ClientGoes, StartBeating, Beat, StopBeating, Typed
  <2>2. CASE HeartbeatExpires(r)
    <3>1. key' = [key EXCEPT ![r] = FALSE]
          /\ expired' = [g \in Gateways |-> IF g \in up THEN expired[g] \cup {r} ELSE {}]
      BY <2>2 DEF HeartbeatExpires
    <3>. QED
      BY <3>1, Zenon DEF Typed
  <2>3. ASSUME NEW g \in Gateways, HandleExpired(r, g) \/ HandleExpiredFails(r, g)
        PROVE  <1>3!1 /\ <1>3!2
    <3>1. key' \in {key, [key EXCEPT ![r] = FALSE]} /\ expired' = [expired EXCEPT ![g] = @ \ {r}]
      BY <2>3, Zenon DEF HandleExpired, HandleExpiredFails
    <3>. QED
      BY <3>1, Zenon DEF Typed
  <2>. QED
    BY <2>1, <2>2, <2>3, Zenon DEF Still
<1>4. counter' \in [Containers -> SUBSET Int]
  <2>1. ASSUME NEW g \in Gateways, HandleExpired(r, g)
        PROVE  counter' \in [Containers -> SUBSET Int]
    <3>1. counter' = [counter EXCEPT ![on[r]] = {Tokens(on[r]) + 1}]
      BY <2>1, Zenon DEF HandleExpired
    <3>2. on[r] \in Containers => Tokens(on[r]) + 1 \in Int
      BY TokensInt
    <3>. QED
      BY <3>1, <3>2, Zenon DEF Typed
  <2>. QED
    BY <2>1 DEF Still, ClientGoes, StartBeating, Beat, StopBeating, HeartbeatExpires,
                HandleExpiredFails, Typed
<1>. QED
  BY <1>1, <1>2, <1>3, <1>4, Zenon DEF Typed

\* A request moves on.
LEMMA MovesTyped ==
  ASSUME Typed, Queued, NEW r \in Requests, Moves(r)
  PROVE  Typed' /\ Queued'
<1>. USE DEF redisVars, heartVars
<1>1. /\ UNCHANGED <<buffer, home, first, up, expired>>
      /\ req[r] # "waiting" /\ \E p \in Phases : req' = [req EXCEPT ![r] = p]
  BY DEF Moves, PickContainer, Acquire, Granted, Serve, Release, ReleaseFails, ReleaseTorn,
         DeleteHeartbeat, CloseDone, Advance, Phases
<1>2. Queued'
  BY <1>1, Moved, Zenon
<1>3. req' \in [Requests -> Phases]
  BY <1>1, Zenon DEF Typed
<1>4. on' \in [Requests -> Containers \cup {None}]
  <2>1. CASE PickContainer(r)
    BY <2>1, Zenon DEF PickContainer, Advance, Typed
  <2>. QED
    BY <2>1, Zenon
    DEF Moves, Acquire, Granted, Serve, Release, ReleaseFails, ReleaseTorn, DeleteHeartbeat,
         CloseDone, Typed
<1>5. counter' \in [Containers -> SUBSET Int]
  <2>1. ASSUME NEW n \in {-1, 1}, counter' = [counter EXCEPT ![on[r]] = {Tokens(on[r]) + n}]
        PROVE  counter' \in [Containers -> SUBSET Int]
    <3>1. on[r] \in Containers => Tokens(on[r]) + n \in Int
      BY TokensInt
    <3>. QED
      BY <2>1, <3>1, Zenon DEF Typed
  <2>2. CASE Acquire(r) \/ Release(r) \/ ReleaseTorn(r)
    BY <2>1, <2>2, Zenon DEF Acquire, Release, ReleaseTorn, Add
  <2>. QED
    BY <2>2 DEF Moves, PickContainer, Granted, Serve, ReleaseFails, DeleteHeartbeat, CloseDone,
                Typed
<1>6. key' \in [Requests -> BOOLEAN]
  <2>1. key' = key \/ key' = [key EXCEPT ![r] = FALSE]
    BY Zenon
    DEF Moves, PickContainer, Acquire, Granted, Serve, Release, ReleaseFails, ReleaseTorn,
         DeleteHeartbeat, CloseDone
  <2>. QED
    BY <2>1, ZenonT(60) DEF Typed
<1>. QED
  BY <1>1, <1>2, <1>3, <1>4, <1>5, <1>6, ZenonT(60) DEF Typed

\* A request is put back.
LEMMA ReturnsTyped ==
  ASSUME Typed, Queued, NEW r \in Requests, Returns(r)
  PROVE  Typed' /\ Queued'
<1>. USE DEF redisVars, heartVars
<1>1. /\ UNCHANGED <<home, first, up, expired, on, key>>
      /\ req[r] # "waiting" /\ req' = [req EXCEPT ![r] = "waiting"]
      /\ home[r] \in up /\ PushBack(r)
  BY DEF Returns, NoContainer, AcquireFails, Refused, RefusedFails, GrantFails, Advance
<1>2. Queued' /\ buffer' \in [Gateways -> Seq(Requests)]
  BY <1>1, PutBack, Zenon
<1>3. req' \in [Requests -> Phases]
  BY <1>1, Zenon DEF Typed, Phases
<1>4. counter' \in [Containers -> SUBSET Int]
  <2>1. CASE Refused(r)
    <3>1. on[r] \in Containers => Tokens(on[r]) + 1 \in Int
      BY TokensInt
    <3>. QED
      BY <2>1, <3>1, Zenon DEF Refused, Add, Typed
  <2>. QED
    BY <2>1 DEF Returns, NoContainer, AcquireFails, RefusedFails, GrantFails, Typed
<1>. QED
  BY <1>1, <1>2, <1>3, <1>4, Zenon DEF Typed

\* A gateway receives a request, finds containers, takes a request or dies; a counter ends.
LEMMA GatewayTyped ==
  ASSUME Typed, Queued,
         \/ \E r \in Requests, g \in Gateways : ForwardRequest(r, g)
         \/ \E g \in Gateways : DiscoverContainers(g) \/ ProcessRequests(g) \/ CrashGateway(g)
         \/ \E c \in Containers : TokensRunOut(c)
  PROVE  Typed' /\ Queued'
<1>. USE DEF redisVars, heartVars
<1>1. ASSUME NEW r \in Requests, NEW g \in Gateways, ForwardRequest(r, g)
      PROVE  Typed' /\ Queued'
  BY <1>1, ForwardQueued, ZenonT(60) DEF ForwardRequest, Typed, Phases
<1>2. ASSUME NEW g \in Gateways, DiscoverContainers(g) PROVE Typed' /\ Queued'
  <2>1. MaxTokens \in Int
    BY ConstantsAssumption, SMTT(60)
  <2>2. UNCHANGED <<buffer, req, home, on, key, expired, up>>
    BY <1>2, Zenon DEF DiscoverContainers
  <2>3. counter' \in [Containers -> SUBSET Int] /\ first' \in [Gateways -> Containers \cup {None}]
    BY <1>2, <2>1, Zenon DEF DiscoverContainers, Typed
  <2>. QED
    BY <2>2, <2>3, Zenon DEF Typed, Queued
<1>3. ASSUME NEW g \in Gateways, ProcessRequests(g) PROVE Typed' /\ Queued'
  <2>1. UNCHANGED <<first, counter, home, on, key, expired, up>>
    BY <1>3 DEF ProcessRequests
  <2>2. Queued' /\ buffer' \in [Gateways -> Seq(Requests)] /\ req' \in [Requests -> Phases]
    BY <1>3, ProcessQueued, ZenonT(60) DEF Typed, Phases
  <2>. QED
    BY <2>1, <2>2, Zenon DEF Typed
<1>4. ASSUME NEW g \in Gateways, CrashGateway(g) PROVE Typed' /\ Queued'
  <2>1. UNCHANGED <<first, counter, home, on, key>> /\ up' \subseteq Gateways
    BY <1>4, Zenon DEF CrashGateway, Typed
  <2>2. req' \in [Requests -> Phases] /\ expired' \in [Gateways -> SUBSET Requests]
    BY <1>4, Zenon DEF CrashGateway, Typed, Phases
  <2>. QED
    BY <1>4, <2>1, <2>2, CrashQueued, Zenon DEF Typed
<1>5. ASSUME NEW c \in Containers, TokensRunOut(c) PROVE Typed' /\ Queued'
  BY <1>5, Zenon DEF TokensRunOut, Typed, Queued
<1>. QED
  BY <1>1, <1>2, <1>3, <1>4, <1>5, Zenon

\* Every step keeps the types and the buffers.
LEMMA StepTyped == Typed /\ Queued /\ [Next]_vars => Typed' /\ Queued'
<1>. SUFFICES ASSUME Typed, Queued, [Next]_vars PROVE Typed' /\ Queued'
  OBVIOUS
<1>1. CASE UNCHANGED vars
  BY <1>1, Zenon DEF vars, Typed, Queued
<1>2. ASSUME NEW r \in Requests, RequestNext(r) PROVE Typed' /\ Queued'
  BY <1>2, StillTyped, MovesTyped, ReturnsTyped, GatewayTyped, Zenon
     DEF RequestNext, Still, Moves, Returns
<1>3. CASE \/ \E g \in Gateways : DiscoverContainers(g) \/ ProcessRequests(g) \/ CrashGateway(g)
           \/ \E c \in Containers : TokensRunOut(c)
  BY <1>3, GatewayTyped, Zenon
<1>. QED
  BY <1>1, <1>2, <1>3, Zenon DEF Next

\* Whatever fails, a request is in one buffer or with one goroutine, so that processRequests,
\* handleRequest and the paths that put a request back never make two of it.
THEOREM RequestHandledOnce == Spec => []HandledOnce
<1>1. Typed /\ Queued => HandledOnce
  <2>. SUFFICES ASSUME Typed, Queued, NEW r \in Requests
                PROVE  LET copies == {gi \in Gateways \X (1 .. BufferSize) :
                                        gi[2] <= Len(buffer[gi[1]]) /\ buffer[gi[1]][gi[2]] = r}
                       IN  /\ Cardinality(copies) <= 1
                           /\ copies # {} => req[r] = "waiting"
    BY Zenon DEF HandledOnce
  <2>. DEFINE copies == {gi \in Gateways \X (1 .. BufferSize) :
                           gi[2] <= Len(buffer[gi[1]]) /\ buffer[gi[1]][gi[2]] = r}
  <2>1. \A a \in copies : /\ a = <<a[1], a[2]>> /\ a[1] \in Gateways
                          /\ a[2] \in 1 .. Len(buffer[a[1]]) /\ buffer[a[1]][a[2]] = r
    BY ConstantsAssumption, SMTT(60) DEF Typed
  <2>2. \A a \in copies : r \in Elems(buffer[a[1]])
    BY <2>1, Zenon DEF Elems
  <2>3. \A a \in copies : home[r] = a[1] /\ req[r] = "waiting"
    BY <2>1, <2>2, SMTT(60) DEF Queued
  <2>4. \A a, b \in copies : a[1] = b[1] /\ a[2] = b[2]
    BY <2>1, <2>3, SMTT(60) DEF Queued, Distinct
  <2>5. \A a, b \in copies : a = b
    BY <2>1, <2>4, SMTT(60)
  <2>6. copies = {} \/ \E a : copies = {a}
    BY <2>5, SMTT(60)
  <2>7. Cardinality(copies) = 0 \/ Cardinality(copies) = 1
    BY <2>6, FS_EmptySet, FS_Singleton, ZenonT(60)
  <2>. QED
    BY <2>3, <2>7, SMTT(60)
<1>. QED
  BY <1>1, InitTyped, StepTyped, PTL, Zenon DEF Spec

-----------------------------------------------------------------------------
(* Tokens                                                                  *)

\* Nothing fails but that containers are not ready.
Calm == faults \subseteq {"unready"}

Taken == {"refused", "granted", "serving", "releasing"}
Given == {"granted", "serving", "releasing"}

\* The requests that have decremented the counter of c, and those that found a token.
Holders(c) == {r \in Requests : on[r] = c /\ req[r] \in Taken}
Grantees(c) == {r \in Requests : on[r] = c /\ req[r] \in Given}

\* A container nobody knows has no counter; any other counter is the tokens not taken.
Counters ==
  \A c \in Containers :
    /\ counter[c] = {} => /\ \A g \in Gateways : first[g] # c
                          /\ \A r \in Requests : on[r] # c
    /\ counter[c] # {} => counter[c] = {MaxTokens - Cardinality(Holders(c))}
    /\ Cardinality(Grantees(c)) <= MaxTokens

\* A heartbeat key exists only while its request is served, and so never expires.
Beats ==
  /\ \A g \in Gateways : expired[g] = {}
  /\ \A r \in Requests : /\ key[r] => req[r] \in {"serving", "releasing", "deleting"}
                         /\ req[r] # "new" => home[r] \in up
                         /\ req[r] \in Taken \cup {"picked"} => on[r] \in Containers

IndInv == Typed /\ Queued /\ (Calm => Counters /\ Beats)

\* There are finitely many requests to count.
LEMMA Countable ==
  ASSUME NEW c
  PROVE  /\ IsFiniteSet(Holders(c)) /\ Cardinality(Holders(c)) \in Nat
         /\ IsFiniteSet(Grantees(c)) /\ Cardinality(Grantees(c)) \in Nat
         /\ Cardinality(Grantees(c)) <= Cardinality(Holders(c))
<1>1. Holders(c) \subseteq Requests /\ Grantees(c) \subseteq Holders(c)
  BY Zenon DEF Holders, Grantees, Taken, Given
<1>2. IsFiniteSet(Holders(c))
  BY <1>1, ConstantsAssumption, FS_Subset, Zenon
<1>. QED
  BY <1>1, <1>2, FS_Subset, FS_CardinalityType, Zenon

\* What a counter holds is its number of tokens.
LEMMA TokensValue ==
  ASSUME Typed, Counters, NEW c \in Containers, counter[c] # {}
  PROVE  Tokens(c) = MaxTokens - Cardinality(Holders(c))
<1>. DEFINE k == MaxTokens - Cardinality(Holders(c))
<1>1. counter[c] = {k}
  BY Zenon DEF Counters
<1>. HIDE DEF k
<1>2. Tokens(c) \in {k}
  BY <1>1, Zenon DEF Tokens
<1>. QED
  BY <1>2, Zenon DEF k

\* Where nobody takes a token or gives one back, the counters stay right.
LEMMA Kept ==
  ASSUME Typed, Counters, UNCHANGED <<counter, first>>,
         \A c \in Containers : Holders(c)' = Holders(c) /\ Grantees(c)' = Grantees(c),
         \A r \in Requests, c \in Containers : on'[r] = c => on[r] = c \/ counter[c] # {}
  PROVE  Counters'
  BY Zenon DEF Counters

\* So with a request that moves without a token, or from grant to release.
LEMMA MovedKept ==
  ASSUME Typed, Counters, UNCHANGED <<counter, first, on>>,
         NEW r \in Requests, NEW p, req' = [req EXCEPT ![r] = p],
         (req[r] \notin Taken /\ p \notin Taken) \/ (req[r] \in Given /\ p \in Given)
  PROVE  Counters'
<1>1. \A q \in Requests : req'[q] = IF q = r THEN p ELSE req[q]
  BY Zenon DEF Typed
<1>2. \A q \in Requests : /\ req'[q] \in Taken <=> req[q] \in Taken
                          /\ req'[q] \in Given <=> req[q] \in Given
  BY <1>1, Zenon DEF Taken, Given
<1>3. \A c \in Containers : Holders(c)' = Holders(c) /\ Grantees(c)' = Grantees(c)
  BY <1>2, Zenon DEF Holders, Grantees
<1>. QED
  BY <1>3, Kept, Zenon

\* releaseRequestToken, and the reversal of a decrement: one holder less, one token more.
LEMMA GivenBack ==
  ASSUME Typed, Counters, UNCHANGED <<first, on>>, NEW r \in Requests, NEW p,
         req[r] \in Taken, p \notin Taken, req' = [req EXCEPT ![r] = p], on[r] \in Containers,
         counter' = [counter EXCEPT ![on[r]] = {Tokens(on[r]) + 1}]
  PROVE  Counters'
<1>0. PICK d \in Containers : d = on[r]
  OBVIOUS
<1>1. \A q \in Requests : req'[q] = IF q = r THEN p ELSE req[q]
  BY Zenon DEF Typed
<1>2. p \notin Given
  BY Zenon DEF Taken, Given
<1>3. \A c \in Containers \ {d} : /\ Holders(c)' = Holders(c) /\ Grantees(c)' = Grantees(c)
                                  /\ counter'[c] = counter[c]
  BY <1>0, <1>1, Zenon DEF Holders, Grantees, Typed
<1>4. /\ r \in Holders(d) /\ Holders(d)' = Holders(d) \ {r} /\ Grantees(d)' \subseteq Grantees(d)
      /\ counter'[d] = {Tokens(d) + 1} /\ counter[d] # {}
  BY <1>0, <1>1, <1>2, ZenonT(60) DEF Holders, Grantees, Typed, Counters
<1>5. Tokens(d) = MaxTokens - Cardinality(Holders(d))
  BY <1>4, TokensValue, Zenon
<1>6. /\ Cardinality(Holders(d)') = Cardinality(Holders(d)) - 1
      /\ Cardinality(Grantees(d)') <= Cardinality(Grantees(d))
      /\ Cardinality(Grantees(d)') \in Nat
  BY <1>4, Countable, FS_RemoveElement, FS_Subset, FS_CardinalityType, ZenonT(60)
<1>7. counter'[d] = {MaxTokens - Cardinality(Holders(d)')}
  BY <1>4, <1>5, <1>6, Countable, ConstantsAssumption, SMTT(60)
<1>8. Cardinality(Grantees(d)') <= MaxTokens
  BY <1>6, Countable, ConstantsAssumption, SMTT(60) DEF Counters
<1>9. ASSUME NEW c \in Containers
      PROVE  /\ counter'[c] = {} => /\ \A g \in Gateways : first'[g] # c
                                    /\ \A q \in Requests : on'[q] # c
             /\ counter'[c] # {} => counter'[c] = {MaxTokens - Cardinality(Holders(c)')}
             /\ Cardinality(Grantees(c)') <= MaxTokens
  <2>1. CASE c = d
    BY <1>7, <1>8, <2>1, ZenonT(60)
  <2>2. CASE c # d
    BY <1>3, <2>2, ZenonT(60) DEF Counters
  <2>. QED
    BY <2>1, <2>2, Zenon
<1>. QED
  BY <1>9, Zenon DEF Counters

\* acquireRequestToken: one holder more, one token less; and with a token left, a grant.
LEMMA AcquireCounters ==
  ASSUME Typed, Counters, NEW r \in Requests, on[r] \in Containers, Acquire(r)
  PROVE  Counters'
<1>0. PICK d \in Containers : d = on[r]
  OBVIOUS
<1>. DEFINE p == IF Tokens(d) - 1 < 0 THEN "refused" ELSE "granted"
<1>1. /\ \A q \in Requests : req'[q] = IF q = r THEN p ELSE req[q]
      /\ req[r] = "picked" /\ UNCHANGED <<first, on>>
      /\ counter' = [counter EXCEPT ![d] = {Tokens(d) + (-1)}]
  BY <1>0, Zenon DEF Acquire, Advance, Add, Typed
<1>2. p \in Taken /\ (p \in Given => Tokens(d) - 1 >= 0 \/ Tokens(d) \notin Int)
  BY DEF Taken, Given
<1>. HIDE DEF p
<1>3. \A c \in Containers \ {d} : /\ Holders(c)' = Holders(c) /\ Grantees(c)' = Grantees(c)
                                  /\ counter'[c] = counter[c]
  BY <1>0, <1>1, ZenonT(60) DEF Holders, Grantees, Typed
<1>4. /\ r \notin Holders(d) /\ Holders(d)' = Holders(d) \cup {r}
      /\ p \in Given \/ Grantees(d)' = Grantees(d)
      /\ counter'[d] = {Tokens(d) + (-1)} /\ counter[d] # {}
  <2>1. r \notin Holders(d) /\ r \notin Grantees(d)
    BY <1>1, Zenon DEF Holders, Grantees, Taken, Given
  <2>2. Holders(d)' = Holders(d) \cup {r}
    BY <1>0, <1>1, <1>2, Zenon DEF Holders
  <2>3. p \in Given \/ Grantees(d)' = Grantees(d)
    BY <1>0, <1>1, <2>1, Zenon DEF Grantees
  <2>4. counter'[d] = {Tokens(d) + (-1)} /\ counter[d] # {}
    BY <1>0, <1>1, Zenon DEF Typed, Counters
  <2>. QED
    BY <2>1, <2>2, <2>3, <2>4, ZenonT(60)
<1>5. Tokens(d) = MaxTokens - Cardinality(Holders(d))
  BY <1>4, TokensValue, Zenon
<1>6. Cardinality(Holders(d)') = Cardinality(Holders(d)) + 1
  BY <1>4, Countable, FS_AddElement, ZenonT(60)
<1>7. counter'[d] = {MaxTokens - Cardinality(Holders(d)')}
  BY <1>4, <1>5, <1>6, Countable, ConstantsAssumption, SMTT(60)
<1>8. Cardinality(Grantees(d)') <= MaxTokens
  <2>1. CASE p \in Given
    <3>1. Cardinality(Grantees(d)') \in Nat
          /\ Cardinality(Grantees(d)') <= Cardinality(Holders(d)')
      <4>1. Grantees(d)' \subseteq Holders(d)'
        BY Zenon DEF Holders, Grantees, Taken, Given
      <4>2. IsFiniteSet(Holders(d)')
        BY <1>4, Countable, FS_AddElement, SMTT(60)
      <4>. QED
        BY <4>1, <4>2, FS_Subset, FS_CardinalityType, ZenonT(60)
    <3>. QED
      BY <1>2, <1>5, <1>6, <2>1, <3>1, Countable, ConstantsAssumption, SMTT(60)
  <2>2. CASE Grantees(d)' = Grantees(d)
    BY <2>2, Zenon DEF Counters
  <2>. QED
    BY <1>4, <2>1, <2>2, ZenonT(60)
<1>9. ASSUME NEW c \in Containers
      PROVE  /\ counter'[c] = {} => /\ \A g \in Gateways : first'[g] # c
                                    /\ \A q \in Requests : on'[q] # c
             /\ counter'[c] # {} => counter'[c] = {MaxTokens - Cardinality(Holders(c)')}
             /\ Cardinality(Grantees(c)') <= MaxTokens
  <2>1. CASE c = d
    BY <1>7, <1>8, <2>1, ZenonT(60)
  <2>2. CASE c # d
    BY <1>1, <1>3, <2>2, ZenonT(60) DEF Counters
  <2>. QED
    BY <2>1, <2>2, ZenonT(60)
<1>. QED
  BY <1>9, Zenon DEF Counters

\* requestTokens creates a counter with all tokens, for a container nobody has used.
LEMMA DiscoverCounters ==
  ASSUME Typed, Counters, NEW g \in Gateways, DiscoverContainers(g)
  PROVE  Counters'
<1>1. /\ UNCHANGED <<req, on>>
      /\ \A c \in Containers : counter'[c] = IF counter[c] = {} THEN {MaxTokens} ELSE counter[c]
      /\ first' \in [Gateways -> Containers \cup {None}]
  BY Zenon DEF DiscoverContainers, Typed
<1>2. \A c \in Containers : Holders(c)' = Holders(c) /\ Grantees(c)' = Grantees(c)
  BY <1>1, Zenon DEF Holders, Grantees
<1>3. \A c \in Containers : counter'[c] # {}
  BY <1>1, Zenon
<1>4. ASSUME NEW c \in Containers
      PROVE  counter'[c] = {MaxTokens - Cardinality(Holders(c))}
  <2>1. CASE counter[c] = {}
    <3>1. Holders(c) = {}
      BY <2>1, ZenonT(60) DEF Counters, Holders
    <3>2. Cardinality(Holders(c)) = 0
      BY <3>1, FS_EmptySet, Zenon
    <3>. QED
      BY <1>1, <2>1, <3>2, ConstantsAssumption, SMTT(60)
  <2>2. CASE counter[c] # {}
    BY <1>1, <2>2, Zenon DEF Counters
  <2>. QED
    BY <2>1, <2>2, Zenon
<1>. QED
  BY <1>2, <1>3, <1>4, ZenonT(60) DEF Counters

\* What every step of a request keeps of its heartbeat, its gateway and its container.
LEMMA BeatsKept ==
  ASSUME Typed, Beats, UNCHANGED <<expired, up>>, NEW r \in Requests,
         \A q \in Requests \ {r} : /\ key'[q] = key[q] /\ req'[q] = req[q]
                                   /\ home'[q] = home[q] /\ on'[q] = on[q],
         key'[r] => req'[r] \in {"serving", "releasing", "deleting"},
         req'[r] # "new" => home'[r] \in up,
         req'[r] \in Taken \cup {"picked"} => on'[r] \in Containers
  PROVE  Beats'
  BY Zenon DEF Beats

\* A step of a request keeps counters and heartbeats.
LEMMA RequestTokens ==
  ASSUME IndInv, Calm, NEW r \in Requests, RequestNext(r)
  PROVE  Counters' /\ Beats'
<1>. Typed /\ Counters /\ Beats
  BY DEF IndInv
<1>. USE DEF redisVars, heartVars
<1>1. "redis" \notin faults /\ "late" \notin faults
  BY Zenon DEF Calm
<1>2. /\ ~AcquireFails(r) /\ ~RefusedFails(r) /\ ~GrantFails(r) /\ ~ReleaseFails(r)
      /\ ~ReleaseTorn(r) /\ \A g \in Gateways : ~HandleExpiredFails(r, g)
  BY <1>1, Zenon
  DEF AcquireFails, RefusedFails, GrantFails, ReleaseFails, ReleaseTorn, HandleExpiredFails
<1>3. ~HeartbeatExpires(r) /\ \A g \in Gateways : ~HandleExpired(r, g)
  BY Zenon DEF Beats, HeartbeatExpires, HandleExpired
<1>4. /\ req[r] \in Phases
      /\ key[r] => req[r] \in {"serving", "releasing", "deleting"}
      /\ req[r] # "new" => home[r] \in up
      /\ req[r] \in Taken \cup {"picked"} => on[r] \in Containers
  BY DEF Beats, Typed
<1>5. ASSUME NEW g \in Gateways, ForwardRequest(r, g) PROVE Counters' /\ Beats'
  <2>1. /\ req[r] = "new" /\ req' = [req EXCEPT ![r] = "waiting"] /\ g \in up
        /\ home' = [home EXCEPT ![r] = g]
        /\ UNCHANGED <<first, counter, on, key, expired, up>>
    BY <1>5, Zenon DEF ForwardRequest
  <2>2. Counters'
    BY <2>1, MovedKept, ZenonT(60) DEF Taken
  <2>3. Beats'
    BY <1>4, <2>1, BeatsKept, ZenonT(60) DEF Typed, Taken
  <2>. QED
    BY <2>2, <2>3, Zenon
<1>6. CASE ClientGoes(r) \/ StartBeating(r) \/ StopBeating(r)
  <2>1. UNCHANGED <<first, counter, on, key, expired, up, req, home>>
    BY <1>6, Zenon DEF ClientGoes, StartBeating, StopBeating
  <2>. QED
    BY <2>1, ZenonT(60) DEF Counters, Beats, Holders, Grantees
<1>7. CASE Beat(r)
  <2>1. /\ UNCHANGED <<first, counter, on, expired, up, req, home>>
        /\ key' = [key EXCEPT ![r] = TRUE] /\ req[r] \in {"serving", "releasing"}
    BY <1>1, <1>7, Zenon DEF Beat
  <2>2. Counters'
    BY <2>1, ZenonT(60) DEF Counters, Holders, Grantees
  <2>3. Beats'
    BY <1>4, <2>1, BeatsKept, ZenonT(60) DEF Typed
  <2>. QED
    BY <2>2, <2>3, ZenonT(60)
<1>8. CASE PickContainer(r)
  <2>1. /\ req[r] = "popped" /\ req' = [req EXCEPT ![r] = "picked"] /\ home[r] \in up
        /\ first[home[r]] # None /\ on' = [on EXCEPT ![r] = first[home[r]]]
        /\ UNCHANGED <<first, counter, home, key, expired, up>>
    BY <1>8, Zenon DEF PickContainer, Advance
  <2>2. first[home[r]] \in Containers /\ counter[first[home[r]]] # {}
    BY <2>1, ZenonT(60) DEF Typed, Counters
  <2>3. \A q \in Requests : /\ req'[q] = IF q = r THEN "picked" ELSE req[q]
                            /\ on'[q] = IF q = r THEN first[home[r]] ELSE on[q]
    BY <2>1, Zenon DEF Typed
  <2>4. \A c \in Containers : Holders(c)' = Holders(c) /\ Grantees(c)' = Grantees(c)
    BY <2>1, SMTT(60) DEF Holders, Grantees, Taken, Given
  <2>5. Counters'
    BY <2>1, <2>2, <2>3, <2>4, Kept, ZenonT(60)
  <2>6. Beats'
    BY <1>4, <2>1, <2>2, <2>3, BeatsKept, ZenonT(60) DEF Typed
  <2>. QED
    BY <2>5, <2>6
<1>9. CASE Acquire(r)
  <2>1. \E p \in {"refused", "granted"} : req' = [req EXCEPT ![r] = p]
    BY <1>9, ZenonT(60) DEF Acquire, Advance
  <2>2. req[r] = "picked" /\ UNCHANGED <<home, on, key, expired, up>>
    BY <1>9, Zenon DEF Acquire, Advance
  <2>3. Counters'
    BY <1>4, <1>9, <2>2, AcquireCounters, Zenon
  <2>4. Beats'
    BY <1>4, <2>1, <2>2, BeatsKept, ZenonT(60) DEF Typed
  <2>. QED
    BY <2>3, <2>4
<1>10. ASSUME NEW p, req' = [req EXCEPT ![r] = p], UNCHANGED <<first, counter, home, on, expired, up>>,
              \/ req[r] = "popped" /\ p = "waiting" /\ UNCHANGED key
              \/ req[r] = "granted" /\ p = "serving" /\ UNCHANGED key
              \/ req[r] = "serving" /\ p = "releasing" /\ UNCHANGED key
              \/ req[r] = "deleting" /\ p = "closing" /\ key' = [key EXCEPT ![r] = FALSE]
              \/ req[r] = "closing" /\ p = "over" /\ UNCHANGED key
       PROVE  Counters' /\ Beats'
  <2>1. (req[r] \notin Taken /\ p \notin Taken) \/ (req[r] \in Given /\ p \in Given)
    BY <1>10, Zenon DEF Taken, Given
  <2>2. Counters'
    BY <1>10, <2>1, MovedKept, Zenon
  <2>3. Beats'
    BY <1>4, <1>10, BeatsKept, ZenonT(60) DEF Typed, Taken
  <2>. QED
    BY <2>2, <2>3
<1>11. CASE NoContainer(r) \/ Granted(r) \/ Serve(r) \/ DeleteHeartbeat(r) \/ CloseDone(r)
  BY <1>10, <1>11, Zenon DEF NoContainer, Granted, Serve, DeleteHeartbeat, CloseDone, Advance
<1>12. ASSUME NEW p, req' = [req EXCEPT ![r] = p], UNCHANGED <<first, home, on, key, expired, up>>,
              \/ req[r] = "refused" /\ p = "waiting"
              \/ req[r] = "releasing" /\ p = "deleting",
              counter' = [counter EXCEPT ![on[r]] = {Tokens(on[r]) + 1}]
       PROVE  Counters' /\ Beats'
  <2>1. req[r] \in Taken /\ p \notin Taken
    BY <1>12, Zenon DEF Taken
  <2>2. Counters'
    BY <1>4, <1>12, <2>1, GivenBack, ZenonT(60)
  <2>3. Beats'
    BY <1>4, <1>12, <2>1, BeatsKept, ZenonT(60) DEF Typed
  <2>. QED
    BY <2>2, <2>3
<1>13. CASE Refused(r) \/ Release(r)
  BY <1>12, <1>13, ZenonT(60) DEF Refused, Release, Advance, Add
<1>. QED
  BY <1>2, <1>3, <1>5, <1>6, <1>7, <1>8, <1>9, <1>11, <1>13, ZenonT(60) DEF RequestNext

\* So does every step.
LEMMA StepIndInv == IndInv /\ [Next]_vars => IndInv'
<1>. SUFFICES ASSUME IndInv, [Next]_vars PROVE IndInv'
  OBVIOUS
<1>. USE DEF redisVars, heartVars
<1>1. Typed' /\ Queued'
  BY StepTyped, Zenon DEF IndInv
<1>. SUFFICES ASSUME Calm' PROVE Counters' /\ Beats'
  BY <1>1, Zenon DEF IndInv
<1>2. UNCHANGED faults
  <2>1. ASSUME NEW r \in Requests, RequestNext(r) PROVE UNCHANGED faults
    BY <2>1, ZenonT(60) DEF RequestNext, ForwardRequest, HandleExpired, HandleExpiredFails, ClientGoes,
         PickContainer, NoContainer, Acquire, AcquireFails, Refused, RefusedFails, Granted,
         GrantFails, Serve, Release, ReleaseFails, ReleaseTorn, DeleteHeartbeat, CloseDone,
         StartBeating, Beat, StopBeating, HeartbeatExpires
  <2>. QED
    BY <2>1, ZenonT(60)
    DEF Next, DiscoverContainers, ProcessRequests, CrashGateway, TokensRunOut, vars
<1>3. Calm /\ Typed /\ Queued /\ Counters /\ Beats
  BY <1>2, ZenonT(60) DEF Calm, IndInv
<1>4. CASE UNCHANGED vars
  BY <1>3, <1>4, ZenonT(60) DEF vars, Counters, Beats, Holders, Grantees
<1>5. ASSUME NEW r \in Requests, RequestNext(r) PROVE Counters' /\ Beats'
  BY <1>3, <1>5, RequestTokens, ZenonT(60)
<1>6. ASSUME NEW g \in Gateways, DiscoverContainers(g) PROVE Counters' /\ Beats'
  <2>1. UNCHANGED <<expired, key, req, home, up, on>>
    BY <1>6, ZenonT(60) DEF DiscoverContainers
  <2>. QED
    BY <1>3, <1>6, <2>1, DiscoverCounters, ZenonT(60) DEF Beats
<1>7. ASSUME NEW g \in Gateways, ProcessRequests(g) PROVE Counters' /\ Beats'
  <2>1. PICK r \in Requests, p \in {"over", "popped"} :
               req[r] = "waiting" /\ req' = [req EXCEPT ![r] = p]
    BY <1>3, <1>7, ProcessQueued, ZenonT(60)
  <2>2. UNCHANGED <<first, counter, home, on, key, expired, up>>
    BY <1>7, ZenonT(60) DEF ProcessRequests
  <2>3. Counters'
    BY <1>3, <2>1, <2>2, MovedKept, ZenonT(60) DEF Taken
  <2>4. /\ key[r] => req[r] \in {"serving", "releasing", "deleting"}
        /\ home[r] \in up
    BY <1>3, <2>1, ZenonT(60) DEF Beats
  <2>5. Beats'
    BY <1>3, <2>1, <2>2, <2>4, BeatsKept, ZenonT(60) DEF Typed, Taken
  <2>. QED
    BY <2>3, <2>5, ZenonT(60)
<1>8. (\A g \in Gateways : ~CrashGateway(g)) /\ (\A c \in Containers : ~TokensRunOut(c))
  BY <1>3, ZenonT(60) DEF Calm, CrashGateway, TokensRunOut
<1>. QED
  BY <1>4, <1>5, <1>6, <1>7, <1>8, ZenonT(60) DEF Next

\* At the start no counter is known, no request has a gateway.
LEMMA InitIndInv == Init => IndInv
<1>. SUFFICES ASSUME Init PROVE IndInv
  OBVIOUS
<1>1. Typed /\ Queued
  BY InitTyped, Zenon
<1>2. /\ \A g \in Gateways : first[g] = None /\ expired[g] = {}
      /\ \A c \in Containers : counter[c] = {}
      /\ \A r \in Requests : req[r] = "new" /\ on[r] = None /\ ~key[r]
  BY Zenon DEF Init, redisVars, heartVars
<1>3. ASSUME NEW c \in Containers PROVE Cardinality(Grantees(c)) <= MaxTokens
  <2>1. Grantees(c) = {}
    BY <1>2, Zenon DEF Grantees, Given
  <2>2. Cardinality(Grantees(c)) = 0
    BY <2>1, FS_EmptySet, ZenonT(60)
  <2>. QED
    BY <2>2, ConstantsAssumption, SMTT(60)
<1>4. Counters
  BY <1>2, <1>3, ConstantsAssumption, Zenon DEF Counters
<1>5. Beats
  BY <1>2, Zenon DEF Beats, Taken
<1>. QED
  BY <1>1, <1>4, <1>5, Zenon DEF IndInv

\* So the invariant holds throughout.
LEMMA AlwaysIndInv == Spec => []IndInv
  BY InitIndInv, StepIndInv, PTL, Zenon DEF Spec

\* The requests a container serves found a token, and hold it.
LEMMA ServingHolds ==
  ASSUME NEW c
  PROVE  /\ Cardinality(Serving(c)) \in Nat
         /\ Cardinality(Serving(c)) <= Cardinality(Grantees(c))
         /\ Cardinality(Serving(c)) <= Cardinality(Holders(c))
<1>1. Serving(c) \subseteq Grantees(c) /\ Serving(c) \subseteq Holders(c)
  BY Zenon DEF Serving, Grantees, Holders, Given, Taken
<1>2. IsFiniteSet(Grantees(c)) /\ IsFiniteSet(Holders(c))
  BY Countable
<1>. QED
  BY <1>1, <1>2, FS_Subset, FS_CardinalityType, ZenonT(60)

\* However many gateways forward however many requests, and however their DECR, INCR
\* and EXPIRE calls interleave, a container never serves more requests than the tokens
\* it started with (acquireRequestToken, releaseRequestToken): as long as Redis
\* answers, counters outlive their requests and no gateway crashes.
THEOREM ContainerNotOverloaded == Spec => []NoOverload
<1>1. IndInv => NoOverload
  <2>. SUFFICES ASSUME IndInv, Calm, NEW c \in Containers
                PROVE  Cardinality(Serving(c)) <= MaxTokens
    BY Zenon DEF NoOverload, Calm
  <2>1. Cardinality(Grantees(c)) <= MaxTokens
    BY Zenon DEF IndInv, Counters
  <2>. QED
    BY <2>1, ServingHolds, Countable, ConstantsAssumption, SMTT(60)
<1>. QED
  BY <1>1, AlwaysIndInv, PTL, Zenon

\* In the same circumstances the tokens missing from a container's counter cover the
\* requests it serves, which is what discoverContainers takes for granted when it
\* reports MaxTokens minus the counter as the requests in flight.
THEOREM CounterCoversInFlight == Spec => []TokensCountInFlight
<1>1. IndInv => TokensCountInFlight
  <2>. SUFFICES ASSUME IndInv, Calm, NEW c \in Containers, counter[c] # {}
                PROVE  Cardinality(Serving(c)) <= MaxTokens - Tokens(c)
    BY Zenon DEF TokensCountInFlight, Calm
  <2>1. Tokens(c) = MaxTokens - Cardinality(Holders(c))
    BY TokensValue DEF IndInv
  <2>. QED
    BY <2>1, ServingHolds, Countable, ConstantsAssumption, SMTT(60)
<1>. QED
  BY <1>1, AlwaysIndInv, PTL

-----------------------------------------------------------------------------
(* The ring buffer is a bounded queue                                      *)

\* Going around the ring at most once.
Wrap(x) == IF x >= Size THEN x - Size ELSE x

\* Counters are at most one turn ahead, so the remainder is a subtraction.
LEMMA ModIsWrap ==
  ASSUME NEW x \in 0 .. 2 * Size - 1
  PROVE  x % Size = Wrap(x) /\ x % Size \in Slots
<1>1. CASE x < Size
  BY <1>1, SizeAssumption DEF Wrap, Slots
<1>2. CASE x >= Size
  <2>1. x - Size \in 0 .. Size - 1
    BY <1>2, SizeAssumption
  <2>2. x % Size = x - Size
    BY <1>2, <2>1, SizeAssumption
  <2> QED BY <1>2, <2>1, <2>2, SizeAssumption DEF Wrap, Slots
<1> QED BY <1>1, <1>2, SizeAssumption

\* The slot s is among the count slots from the head on.
InUse(s) == IF s >= head THEN s - head < count ELSE s + Size - head < count

\* The inductive invariant, without remainders.
RingInv ==
  /\ RingTypeOK
  /\ tail = Wrap(head + count)
  /\ \A s \in Slots : (ring[s] # Nil) <=> InUse(s)

\* The first value is at the head.
LEMMA FirstSlot ==
  ASSUME NEW h \in Slots
  PROVE  Wrap(h + 1 - 1) = h
<1>1. h \in Int /\ h < Size
  BY SizeAssumption DEF Slots
<1>2. h + 1 - 1 = h
  BY <1>1
<1>3. Wrap(h) = h
  BY <1>1, SizeAssumption DEF Wrap
<1> QED BY <1>2, <1>3

\* The slots of the values, without remainders.
LEMMA SlotIsWrap ==
  ASSUME head \in Slots, count \in 0 .. Size, NEW i \in 1 .. count
  PROVE  Slot(i) = Wrap(head + i - 1) /\ Slot(i) \in Slots
<1>1. head + i - 1 \in 0 .. 2 * Size - 1
  BY SizeAssumption DEF Slots
<1> QED BY <1>1, ModIsWrap DEF Slot

\* The invariant gives the type and the consistency of head, tail and count.
LEMMA RingInvConsistent == RingInv => RingTypeOK /\ Consistent
<1> SUFFICES ASSUME RingInv PROVE Consistent
  BY DEF RingInv
<1>1. head \in Slots /\ count \in 0 .. Size
  BY DEF RingInv, RingTypeOK
<1>2. tail = (head + count) % Size
  <2>1. head + count \in 0 .. 2 * Size - 1
    BY <1>1, SizeAssumption DEF Slots
  <2> QED BY <2>1, ModIsWrap DEF RingInv
<1>3. ASSUME NEW s \in Slots
      PROVE  InUse(s) <=> s \in {Slot(i) : i \in 1 .. count}
  <2>1. ASSUME InUse(s) PROVE s \in {Slot(i) : i \in 1 .. count}
    <3> DEFINE i == IF s >= head THEN s - head + 1 ELSE s + Size - head + 1
    <3>1. i \in 1 .. count /\ s = Wrap(head + i - 1)
      BY <1>1, <2>1, SizeAssumption DEF InUse, Wrap, Slots
    <3> QED BY <1>1, <3>1, SlotIsWrap
  <2>2. ASSUME NEW i \in 1 .. count, s = Slot(i) PROVE InUse(s)
    <3>1. s = Wrap(head + i - 1)
      BY <1>1, <2>2, SlotIsWrap
    <3> QED BY <1>1, <3>1, SizeAssumption DEF InUse, Wrap, Slots
  <2> QED BY <2>1, <2>2
<1> QED BY <1>2, <1>3 DEF RingInv, Consistent

\* The remainders the operations compute are in range.
LEMMA RingCounters ==
  ASSUME RingTypeOK
  PROVE  /\ (head + 1) % Size = Wrap(head + 1)
         /\ (tail + 1) % Size = Wrap(tail + 1)
         /\ (head - 1 + Size) % Size = Wrap(head - 1 + Size)
<1>1. /\ head + 1 \in 0 .. 2 * Size - 1
      /\ tail + 1 \in 0 .. 2 * Size - 1
      /\ head - 1 + Size \in 0 .. 2 * Size - 1
  BY SizeAssumption DEF RingTypeOK, Slots
<1> QED BY <1>1, ModIsWrap

\* A new ring buffer satisfies the invariant.
LEMMA InitRingInv == RingInit => RingInv
<1> SUFFICES ASSUME RingInit PROVE RingInv
  OBVIOUS
<1>1. RingTypeOK
  BY SizeAssumption DEF RingInit, RingTypeOK, Slots
<1>2. tail = Wrap(head + count)
  BY SizeAssumption DEF RingInit, Wrap
<1>3. \A s \in Slots : (ring[s] # Nil) <=> InUse(s)
  BY SizeAssumption DEF RingInit, InUse, Slots
<1> QED BY <1>1, <1>2, <1>3 DEF RingInv

\* Push, PushPriority and Pop keep the invariant.
LEMMA StepRingInv == RingInv /\ [RingNext]_ringVars => RingInv'
<1> SUFFICES ASSUME RingInv, [RingNext]_ringVars PROVE RingInv'
  OBVIOUS
<1>1. /\ ring \in [Slots -> Values \cup {Nil}]
      /\ head \in Slots /\ tail \in Slots /\ count \in 0 .. Size
      /\ tail = Wrap(head + count)
      /\ \A s \in Slots : (ring[s] # Nil) <=> InUse(s)
  BY DEF RingInv, RingTypeOK
<1>2. /\ (head + 1) % Size = Wrap(head + 1)
      /\ (tail + 1) % Size = Wrap(tail + 1)
      /\ (head - 1 + Size) % Size = Wrap(head - 1 + Size)
  BY RingCounters DEF RingInv
<1>3. ASSUME NEW v \in Values, Push(v) PROVE RingInv'
  <2>1. RingTypeOK'
    BY <1>1, <1>2, <1>3, SizeAssumption, SMTT(60) DEF Push, RingTypeOK, Wrap, Slots
  <2>2. (tail = Wrap(head + count))'
    BY <1>1, <1>2, <1>3, SizeAssumption DEF Push, Wrap, Slots
  <2>3. ASSUME NEW s \in Slots PROVE ((ring[s] # Nil) <=> InUse(s))'
    <3>1. ring'[s] = IF s = tail THEN v ELSE ring[s]
      BY <1>1, <1>3 DEF Push
    <3>2. InUse(s)' <=> s = tail \/ InUse(s)
      BY <1>1, <1>2, <1>3, SizeAssumption DEF Push, InUse, Wrap, Slots
    <3> QED BY <1>1, <3>1, <3>2, NilAssumption
  <2> QED BY <2>1, <2>2, <2>3 DEF RingInv
<1>4. ASSUME NEW v \in Values, PushPriority(v) PROVE RingInv'
  <2>1. RingTypeOK'
    BY <1>1, <1>2, <1>4, SizeAssumption DEF PushPriority, RingTypeOK, Wrap, Slots
  <2>2. (tail = Wrap(head + count))'
    <3>1. CASE count = Size
      BY <1>1, <1>4, <3>1 DEF PushPriority, Wrap
    <3>2. CASE count # Size
      <4>1. head' = Wrap(head - 1 + Size) /\ count' = count + 1 /\ tail' = tail
        BY <1>2, <1>4, <3>2 DEF PushPriority
      <4> QED BY <1>1, <3>2, <4>1, SizeAssumption DEF Wrap, Slots
    <3> QED BY <3>1, <3>2
  <2>3. ASSUME NEW s \in Slots PROVE ((ring[s] # Nil) <=> InUse(s))'
    <3>1. ring'[s] = IF s = head' THEN v ELSE ring[s]
      BY <1>1, <1>4 DEF PushPriority
    <3>2. InUse(s)' <=> s = head' \/ InUse(s)
      BY <1>1, <1>2, <1>4, SizeAssumption, SMTT(60) DEF PushPriority, InUse, Wrap, Slots
    <3> QED BY <1>1, <3>1, <3>2, NilAssumption
  <2> QED BY <2>1, <2>2, <2>3 DEF RingInv
<1>5. ASSUME Pop PROVE RingInv'
  <2>1. RingTypeOK'
    BY <1>1, <1>2, <1>5, SizeAssumption DEF Pop, RingTypeOK, Wrap, Slots
  <2>2. (tail = Wrap(head + count))'
    BY <1>1, <1>2, <1>5, SizeAssumption, SMTT(60) DEF Pop, Wrap, Slots
  <2>3. ASSUME NEW s \in Slots PROVE ((ring[s] # Nil) <=> InUse(s))'
    <3>1. ring'[s] = IF s = head THEN Nil ELSE ring[s]
      BY <1>1, <1>5 DEF Pop
    <3>2. InUse(s)' <=> s # head /\ InUse(s)
      BY <1>1, <1>2, <1>5, SizeAssumption, SMTT(60) DEF Pop, InUse, Wrap, Slots
    <3> QED BY <1>1, <3>1, <3>2
  <2> QED BY <2>1, <2>2, <2>3 DEF RingInv
<1>6. CASE UNCHANGED ringVars
  BY <1>6 DEF RingInv, RingTypeOK, InUse, Wrap, ringVars
<1> QED BY <1>3, <1>4, <1>5, <1>6 DEF RingNext

\* Whatever the capacity, the counters stay consistent and the slots in use are
\* those that hold a value.
THEOREM BufferConsistent == RingSpec => []Consistent
<1>1. RingSpec => []RingInv
  BY InitRingInv, StepRingInv, PTL DEF RingSpec
<1> QED BY <1>1, RingInvConsistent, PTL

\* Push and Pop never leave a counter outside the ring, whatever the capacity.
THEOREM RingTypeCorrect == RingSpec => []RingTypeOK
<1>1. RingSpec => []RingInv
  BY InitRingInv, StepRingInv, PTL DEF RingSpec
<1> QED BY <1>1, RingInvConsistent, PTL

\* The contents are a sequence of values.
ContentsFacts ==
  /\ head \in Slots /\ tail \in Slots /\ count \in 0 .. Size
  /\ Contents \in Seq(Values)
  /\ Len(Contents) = count
  /\ \A i \in 1 .. count : /\ Contents[i] = ring[Wrap(head + i - 1)]
                            /\ Wrap(head + i - 1) \in Slots

\* What the ring holds, read from head on, is a sequence of count values.
LEMMA ContentsLemma == RingInv => ContentsFacts
<1> SUFFICES ASSUME RingInv PROVE ContentsFacts
  OBVIOUS
<1>1. /\ ring \in [Slots -> Values \cup {Nil}]
      /\ head \in Slots /\ tail \in Slots /\ count \in 0 .. Size
  BY DEF RingInv, RingTypeOK
<1>2. ASSUME NEW i \in 1 .. count
      PROVE  /\ Slot(i) = Wrap(head + i - 1)
             /\ Wrap(head + i - 1) \in Slots
             /\ ring[Slot(i)] \in Values
  <2>1. Slot(i) = Wrap(head + i - 1) /\ Slot(i) \in Slots
    BY <1>1, SlotIsWrap
  <2>2. InUse(Slot(i))
    BY <1>1, <2>1, SizeAssumption DEF InUse, Wrap, Slots
  <2>3. ring[Slot(i)] # Nil
    BY <2>1, <2>2 DEF RingInv
  <2> QED BY <1>1, <2>1, <2>3
<1>3. Contents \in [1 .. count -> Values]
  BY <1>2 DEF Contents
<1>4. count \in Nat
  BY <1>1, SizeAssumption
<1>5. Contents \in Seq(Values) /\ Len(Contents) = count
  BY <1>3, <1>4
<1>6. \A i \in 1 .. count : Contents[i] = ring[Slot(i)]
  BY DEF Contents
<1> QED BY <1>1, <1>2, <1>5, <1>6 DEF ContentsFacts

\* Every step of the ring is a step of the bounded queue on its contents.
LEMMA StepSimulation == RingInv /\ RingInv' /\ [RingNext]_ringVars => [Deque!Next]_Contents
<1> SUFFICES ASSUME RingInv, RingInv', [RingNext]_ringVars PROVE [Deque!Next]_Contents
  OBVIOUS
<1>1. ContentsFacts
  BY ContentsLemma
<1>2. ContentsFacts'
  BY ContentsLemma, PTL
<1>3. ring \in [Slots -> Values \cup {Nil}] /\ tail = Wrap(head + count)
  BY DEF RingInv, RingTypeOK
<1>4. /\ (head + 1) % Size = Wrap(head + 1)
      /\ (head - 1 + Size) % Size = Wrap(head - 1 + Size)
  BY RingCounters DEF RingInv
<1> DEFINE room == IF count = Size THEN Tail(Contents) ELSE Contents
<1>5. room = Deque!Room
  BY <1>1 DEF Deque!Room, ContentsFacts
<1>6. /\ room \in Seq(Values)
      /\ Len(room) = IF count = Size THEN count - 1 ELSE count
      /\ \A i \in 1 .. Len(room) :
           room[i] = IF count = Size THEN Contents[i + 1] ELSE Contents[i]
  <2>1. CASE count = Size
    <3>1. Contents # <<>>
      BY <1>1, <2>1, SizeAssumption DEF ContentsFacts
    <3> QED BY <1>1, <2>1, <3>1, HeadTailProperties DEF ContentsFacts
  <2>2. CASE count # Size
    BY <1>1, <2>2 DEF ContentsFacts
  <2> QED BY <2>1, <2>2
<1> HIDE DEF room
<1>7. ASSUME NEW v \in Values, Push(v) PROVE Deque!PushBack(v)
  <2>1. /\ Append(room, v) \in Seq(Values)
        /\ Len(Append(room, v)) = Len(room) + 1
        /\ \A i \in 1 .. Len(room) : Append(room, v)[i] = room[i]
        /\ Append(room, v)[Len(room) + 1] = v
    BY <1>6
  <2>2. /\ count' = Len(room) + 1
        /\ head' = IF count = Size THEN Wrap(head + 1) ELSE head
        /\ ring' = [ring EXCEPT ![tail] = v]
    BY <1>1, <1>4, <1>6, <1>7, SizeAssumption DEF Push, ContentsFacts
  <2>3. ASSUME NEW i \in 1 .. count' PROVE Contents'[i] = Append(room, v)[i]
    <3>1. Contents'[i] = ring'[Wrap(head' + i - 1)] /\ Wrap(head' + i - 1) \in Slots
      BY <1>2 DEF ContentsFacts, Wrap
    <3>2. CASE i = count'
      <4>1. Wrap(head' + i - 1) = tail
        BY <1>1, <1>3, <1>6, <2>2, <3>2, SizeAssumption DEF ContentsFacts, Wrap, Slots
      <4> QED BY <1>1, <1>3, <2>1, <2>2, <3>1, <3>2, <4>1 DEF ContentsFacts
    <3>3. CASE i # count'
      <4>1. i \in 1 .. Len(room)
        BY <1>6, <2>2, <3>3, <1>1, SizeAssumption DEF ContentsFacts
      <4>2. Wrap(head' + i - 1) # tail
        BY <1>1, <1>3, <1>6, <2>2, <4>1, SizeAssumption DEF ContentsFacts, Wrap, Slots
      <4>3. room[i] = ring[Wrap(head' + i - 1)]
        <5>1. CASE count = Size
          <6>1. i + 1 \in 1 .. count /\ Wrap(head + (i + 1) - 1) = Wrap(head' + i - 1)
            BY <1>1, <1>6, <2>2, <4>1, <5>1, SizeAssumption DEF ContentsFacts, Wrap, Slots
          <6> QED BY <1>1, <1>6, <4>1, <5>1, <6>1 DEF ContentsFacts
        <5>2. CASE count # Size
          BY <1>1, <1>6, <2>2, <4>1, <5>2 DEF ContentsFacts
        <5> QED BY <5>1, <5>2
      <4>4. ring'[Wrap(head' + i - 1)] = ring[Wrap(head' + i - 1)]
        BY <1>3, <2>2, <3>1, <4>2
      <4> QED BY <2>1, <3>1, <4>1, <4>3, <4>4
    <3> QED BY <3>2, <3>3, Zenon
  <2>4. Contents' = Append(room, v)
    BY <1>2, <2>1, <2>2, <2>3, SeqEqual DEF ContentsFacts
  <2> QED BY <1>5, <2>4 DEF Deque!PushBack
<1>8. ASSUME NEW v \in Values, PushPriority(v) PROVE Deque!PushFront(v)
  <2>1. /\ <<v>> \o room \in Seq(Values)
        /\ Len(<<v>> \o room) = Len(room) + 1
        /\ (<<v>> \o room)[1] = v
        /\ \A i \in 2 .. Len(room) + 1 : (<<v>> \o room)[i] = room[i - 1]
    <3>1. <<v>> \in Seq(Values) /\ Len(<<v>>) = 1 /\ <<v>>[1] = v
      OBVIOUS
    <3> QED BY <1>6, <3>1, ConcatProperties
  <2>2. /\ count' = Len(room) + 1
        /\ head' = IF count = Size THEN head ELSE Wrap(head - 1 + Size)
        /\ ring' = [ring EXCEPT ![head'] = v]
    BY <1>1, <1>4, <1>6, <1>8, SizeAssumption DEF PushPriority, ContentsFacts
  <2>3. ASSUME NEW i \in 1 .. count' PROVE Contents'[i] = (<<v>> \o room)[i]
    <3>1. Contents'[i] = ring'[Wrap(head' + i - 1)] /\ Wrap(head' + i - 1) \in Slots
      BY <1>2 DEF ContentsFacts, Wrap
    <3>2. CASE i = 1
      <4>1. Wrap(head' + i - 1) = head'
        <5>1. head' \in Slots
          BY <1>2 DEF ContentsFacts
        <5> QED BY <3>2, <5>1, FirstSlot
      <4> QED BY <1>2, <1>3, <2>1, <2>2, <3>1, <3>2, <4>1 DEF ContentsFacts
    <3>3. CASE i # 1
      <4>1. i - 1 \in 1 .. Len(room) /\ i \in 2 .. Len(room) + 1
        BY <1>6, <2>2, <3>3, <1>1, SizeAssumption DEF ContentsFacts
      <4>2. Wrap(head' + i - 1) # head'
        BY <1>1, <1>2, <1>6, <2>2, <4>1, SizeAssumption DEF ContentsFacts, Wrap, Slots
      <4>3. room[i - 1] = ring[Wrap(head' + i - 1)]
        <5>1. CASE count = Size
          <6>1. i \in 1 .. count /\ head' = head
            BY <1>1, <1>6, <2>2, <4>1, <5>1, SizeAssumption DEF ContentsFacts
          <6>2. room[i - 1] = Contents[i]
            BY <1>6, <4>1, <5>1
          <6> QED BY <1>1, <6>1, <6>2 DEF ContentsFacts
        <5>2. CASE count # Size
          <6>1. i - 1 \in 1 .. count /\ Wrap(head + (i - 1) - 1) = Wrap(head' + i - 1)
            BY <1>1, <1>6, <2>2, <4>1, <5>2, SizeAssumption DEF ContentsFacts, Wrap, Slots
          <6> QED BY <1>1, <1>6, <4>1, <5>2, <6>1 DEF ContentsFacts
        <5> QED BY <5>1, <5>2
      <4>4. ring'[Wrap(head' + i - 1)] = ring[Wrap(head' + i - 1)]
        BY <1>3, <2>2, <3>1, <4>2
      <4> QED BY <2>1, <3>1, <4>1, <4>3, <4>4
    <3> QED BY <3>2, <3>3, Zenon
  <2>4. Contents' = <<v>> \o room
    BY <1>2, <2>1, <2>2, <2>3, SeqEqual DEF ContentsFacts
  <2> QED BY <1>5, <2>4 DEF Deque!PushFront
<1>9. ASSUME Pop PROVE Deque!PopFront
  <2>1. Contents # <<>>
    BY <1>1, <1>9 DEF Pop, ContentsFacts
  <2>2. /\ Tail(Contents) \in Seq(Values)
        /\ Len(Tail(Contents)) = count - 1
        /\ \A i \in 1 .. count - 1 : Tail(Contents)[i] = Contents[i + 1]
    BY <1>1, <2>1, HeadTailProperties DEF ContentsFacts
  <2>3. /\ count' = count - 1 /\ head' = Wrap(head + 1)
        /\ ring' = [ring EXCEPT ![head] = Nil]
    BY <1>4, <1>9 DEF Pop
  <2>4. ASSUME NEW i \in 1 .. count' PROVE Contents'[i] = Tail(Contents)[i]
    <3>1. Contents'[i] = ring'[Wrap(head' + i - 1)] /\ Wrap(head' + i - 1) \in Slots
      BY <1>2, Zenon DEF ContentsFacts, Wrap
    <3>2. /\ i + 1 \in 1 .. count
          /\ Wrap(head + (i + 1) - 1) = Wrap(head' + i - 1)
          /\ Wrap(head' + i - 1) # head
      BY <1>1, <2>3, SizeAssumption DEF ContentsFacts, Wrap, Slots
    <3>3. Contents[i + 1] = ring[Wrap(head' + i - 1)]
      BY <1>1, <3>2 DEF ContentsFacts
    <3>4. ring'[Wrap(head' + i - 1)] = ring[Wrap(head' + i - 1)]
      BY <1>3, <2>3, <3>1, <3>2
    <3>5. Tail(Contents)[i] = Contents[i + 1]
      BY <2>2, <2>3
    <3> QED BY <3>1, <3>3, <3>4, <3>5, Zenon
  <2>5. Contents' = Tail(Contents)
    BY <1>2, <2>2, <2>3, <2>4, SeqEqual DEF ContentsFacts
  <2> QED BY <2>1, <2>5 DEF Deque!PopFront
<1>10. CASE UNCHANGED ringVars
  BY <1>10 DEF ringVars, Contents, Slot
<1> QED BY <1>7, <1>8, <1>9, <1>10 DEF RingNext, Deque!Next

\* The ring buffer implements the bounded queue, whatever its capacity and whatever
\* is pushed.
THEOREM RingRefinement == RingSpec => RefinesDeque
<1>1. RingInit => Deque!Init
  <2> SUFFICES ASSUME RingInit PROVE Contents = <<>>
    BY DEF Deque!Init
  <2>1. RingInv
    BY InitRingInv
  <2>2. Contents \in Seq(Values) /\ Len(Contents) = 0
    BY <2>1, ContentsLemma DEF ContentsFacts, RingInit
  <2> QED BY <2>2, EmptySeq
<1>2. RingSpec => []RingInv
  BY InitRingInv, StepRingInv, PTL DEF RingSpec
<1> QED BY <1>1, <1>2, StepSimulation, PTL DEF RingSpec, RefinesDeque, Deque!Spec

=============================================================================
