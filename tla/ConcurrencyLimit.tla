-------------------------- MODULE ConcurrencyLimit --------------------------
(***************************************************************************)
(* Admission of container requests against the concurrency limit of their  *)
(* workspace (Scheduler.Run up to addRequestToBacklog).  The limit is a    *)
(* row of the database with a copy in Redis, which schedulers fill and the *)
(* API overwrites.  The use is the sum over the container states of the    *)
(* workspace; it is read and a state is written under a Redis lock.        *)
(***************************************************************************)
EXTENDS Integers, FiniteSets

CONSTANTS
  Requests,      \* containers of one workspace; an ended one may be run anew
  Need,          \* Need[r][k]: GPUs and cpu r asks for
  Limits,        \* limits an administrator may set
  MaxUpdates,    \* bound on the changes of the limit
  Scenarios,     \* sets of faults that may occur together, see PossibleFaults
  NoLimit        \* no row, no copy

Kinds == {"gpu", "cpu"}

\* busy    the retries for the lock run out
\* expire  the TTL of the lock runs out while it is held
\* lasting EXPIRE on the copy of the limit fails, or its caller dies before it
\* skip    a container whose state cannot be read is left out of the sum
\* revive  a late update by the worker turns STOPPING into RUNNING
PossibleFaults == {"busy", "expire", "lasting", "skip", "revive"}

ASSUME LimitAssumption ==
  /\ IsFiniteSet(Requests)
  /\ Need \in [Requests -> [Kinds -> Nat]]
  /\ Limits \subseteq [Kinds -> Nat]
  /\ NoLimit \notin Limits
  /\ MaxUpdates \in Nat
  /\ Scenarios \subseteq SUBSET PossibleFaults

VARIABLES
  limit,    \* the row of the database
  cache,    \* the copy in Redis
  fading,   \* the copy has a TTL
  recache,  \* limits API calls have stored and not copied yet
  updates,  \* changes of the limit so far
  lock,     \* who holds the lock: a set of at most one request
  stage,    \* stage[r]: see Stages
  quota,    \* quota[r]: the limit Run got for r
  used,     \* used[r]: the use r's Run has read
  state,    \* state[r]: the status of r's container state
  faults    \* the faults that may occur in this behaviour

vars == <<limit, cache, fading, recache, updates, lock, stage, quota, used, state, faults>>

limitVars == <<limit, cache, fading, recache, updates>>
runVars == <<lock, stage, quota, used, state>>

(***************************************************************************)
(* new        Run has not been called                                      *)
(* missed     no copy, the row was read, the copy is to be filled          *)
(* priced     the limit is known, the lock is to be obtained               *)
(* entered    past the lock                                                *)
(* measured   the use is known                                             *)
(* admitted   the state is written, the request goes to the backlog        *)
(* refused    throttled, or an error                                       *)
(***************************************************************************)
Stages == {"new", "missed", "priced", "entered", "measured", "admitted", "refused"}

Nothing == [k \in Kinds |-> 0]

Init ==
  /\ limit \in Limits \cup {NoLimit}
  /\ cache = NoLimit
  /\ fading = FALSE
  /\ recache = {}
  /\ updates = 0
  /\ lock = {}
  /\ stage = [r \in Requests |-> "new"]
  /\ quota = [r \in Requests |-> NoLimit]
  /\ used = [r \in Requests |-> Nothing]
  /\ state = [r \in Requests |-> "none"]
  /\ faults \in Scenarios

-----------------------------------------------------------------------------
(* The limit                                                               *)

\* CreateConcurrencyLimit and RevertConcurrencyLimit store the row, then the copy.
SetLimit(l) ==
  /\ updates < MaxUpdates
  /\ updates' = updates + 1
  /\ limit' = l
  /\ recache' = recache \cup {l}
  /\ UNCHANGED <<cache, fading, runVars, faults>>

\* SetConcurrencyLimitByWorkspaceId: HSET, which keeps a TTL, and EXPIRE.
Copy(l) == cache' = l /\ fading' = TRUE

CopyFails(l) ==
  /\ cache' = cache \/ ("lasting" \in faults /\ cache' = l)
  /\ fading' = fading

Recache(l) ==
  /\ l \in recache
  /\ recache' = recache \ {l}
  /\ Copy(l)
  /\ UNCHANGED <<limit, updates, runVars, faults>>

\* The call fails, or the gateway ends.
RecacheFails(l) ==
  /\ l \in recache
  /\ recache' = recache \ {l}
  /\ CopyFails(l)
  /\ UNCHANGED <<limit, updates, runVars, faults>>

\* DeleteConcurrencyLimit: ToSlice(nil) panics, so the copy stays.
DeleteLimit ==
  /\ updates < MaxUpdates
  /\ limit # NoLimit
  /\ updates' = updates + 1
  /\ limit' = NoLimit
  /\ UNCHANGED <<cache, fading, recache, runVars, faults>>

CacheExpires ==
  /\ fading
  /\ cache' = NoLimit
  /\ fading' = FALSE
  /\ UNCHANGED <<limit, recache, updates, runVars, faults>>

-----------------------------------------------------------------------------
(* Run and getConcurrencyLimit                                             *)

\* Run for a container whose last Run is over: not while it is PENDING or RUNNING.
RunAgain(r) ==
  /\ stage[r] \in {"admitted", "refused"}
  /\ state[r] # "active"
  /\ stage' = [stage EXCEPT ![r] = "new"]
  /\ quota' = [quota EXCEPT ![r] = NoLimit]
  /\ used' = [used EXCEPT ![r] = Nothing]
  /\ UNCHANGED <<limitVars, lock, state, faults>>

CacheHit(r) ==
  /\ stage[r] = "new"
  /\ cache # NoLimit
  /\ quota' = [quota EXCEPT ![r] = cache]
  /\ stage' = [stage EXCEPT ![r] = "priced"]
  /\ UNCHANGED <<limitVars, lock, used, state, faults>>

\* HGETALL finds nothing, then the row is read; without a row nothing is copied.
CacheMiss(r) ==
  /\ stage[r] = "new"
  /\ cache = NoLimit
  /\ quota' = [quota EXCEPT ![r] = limit]
  /\ stage' = [stage EXCEPT ![r] = IF limit = NoLimit THEN "priced" ELSE "missed"]
  /\ UNCHANGED <<limitVars, lock, used, state, faults>>

\* Mutant: the copy is kept for good.
FillCacheForGood(r) ==
  /\ stage[r] = "missed"
  /\ cache' = quota[r]
  /\ fading' = FALSE
  /\ stage' = [stage EXCEPT ![r] = "priced"]
  /\ UNCHANGED <<limit, recache, updates, lock, quota, used, state, faults>>

FillCache(r) ==
  /\ stage[r] = "missed"
  /\ Copy(quota[r])
  /\ stage' = [stage EXCEPT ![r] = "priced"]
  /\ UNCHANGED <<limit, recache, updates, lock, quota, used, state, faults>>

\* Redis or the database fails, up to Obtain.
LookupFails(r) ==
  /\ \/ stage[r] \in {"new", "priced"} /\ UNCHANGED <<cache, fading>>
     \/ stage[r] = "missed" /\ CopyFails(quota[r])
  /\ stage' = [stage EXCEPT ![r] = "refused"]
  /\ UNCHANGED <<limit, recache, updates, lock, quota, used, state, faults>>

-----------------------------------------------------------------------------
(* SetContainerStateWithConcurrencyLimit                                   *)

\* Mutant: the lock is not exclusive.
ObtainShared(r) ==
  /\ stage[r] = "priced"
  /\ lock' = lock \cup {r}
  /\ stage' = [stage EXCEPT ![r] = "entered"]
  /\ UNCHANGED <<limitVars, quota, used, state, faults>>

Obtain(r) ==
  /\ stage[r] = "priced"
  /\ lock = {}
  /\ lock' = {r}
  /\ stage' = [stage EXCEPT ![r] = "entered"]
  /\ UNCHANGED <<limitVars, quota, used, state, faults>>

\* ErrNotObtained is not an error: the caller goes on without the lock.
NotObtained(r) ==
  /\ "busy" \in faults
  /\ stage[r] = "priced"
  /\ lock # {}
  /\ stage' = [stage EXCEPT ![r] = "entered"]
  /\ UNCHANGED <<limitVars, lock, quota, used, state, faults>>

LockExpires ==
  /\ "expire" \in faults
  /\ lock # {}
  /\ lock' = {}
  /\ UNCHANGED <<limitVars, stage, quota, used, state, faults>>

\* The containers that count: listed, and not STOPPING.
Counted == {r \in Requests : state[r] = "active"}

\* The sum over S, counted as the units its members ask for.
Units(S, k) == UNION {{r} \X (1 .. Need[r][k]) : r \in S}

Total(S) == [k \in Kinds |-> Cardinality(Units(S, k))]

Measure(r) ==
  /\ stage[r] = "entered"
  /\ quota[r] # NoLimit
  /\ \E S \in SUBSET Counted :
       /\ S = Counted \/ "skip" \in faults
       /\ used' = [used EXCEPT ![r] = Total(S)]
  /\ stage' = [stage EXCEPT ![r] = "measured"]
  /\ UNCHANGED <<limitVars, lock, quota, state, faults>>

Exceeds(r) == \E k \in Kinds : used[r][k] + Need[r][k] > quota[r][k]

\* The deferred Release: by token, so it takes no one else's lock.
Leave(r, to) ==
  /\ lock' = lock \ {r}
  /\ stage' = [stage EXCEPT ![r] = to]

Throttle(r) ==
  /\ stage[r] = "measured"
  /\ Exceeds(r)
  /\ Leave(r, "refused")
  /\ UNCHANGED <<limitVars, quota, used, state, faults>>

\* Without a quota there is nothing to measure.
MayEnter(r) ==
  \/ stage[r] = "measured" /\ ~Exceeds(r)
  \/ stage[r] = "entered" /\ quota[r] = NoLimit

\* SetContainerState: the state counts once it is in the index of the workspace,
\* which is its last command.
Admit(r) ==
  /\ MayEnter(r)
  /\ state' = [state EXCEPT ![r] = "active"]
  /\ Leave(r, "admitted")
  /\ UNCHANGED <<limitVars, quota, used, faults>>

\* A command of Redis fails, before it takes effect or, for the last one, after.
AdmitFails(r) ==
  /\ stage[r] \in {"entered", "measured"}
  /\ \/ state' = state
     \/ MayEnter(r) /\ state' = [state EXCEPT ![r] = "active"]
  /\ Leave(r, "refused")
  /\ UNCHANGED <<limitVars, quota, used, faults>>

\* The container is stopped, or its state is deleted or expires.
ContainerEnds(r) ==
  /\ \/ state[r] = "active" /\ state' = [state EXCEPT ![r] = "stopping"]
     \/ state[r] # "none" /\ state' = [state EXCEPT ![r] = "none"]
  /\ UNCHANGED <<limitVars, lock, stage, quota, used, faults>>

\* UpdateContainerStatus writes the status its caller read the need for.
LateRunning(r) ==
  /\ "revive" \in faults
  /\ state[r] = "stopping"
  /\ state' = [state EXCEPT ![r] = "active"]
  /\ UNCHANGED <<limitVars, lock, stage, quota, used, faults>>

-----------------------------------------------------------------------------

Run(r) ==
  \/ RunAgain(r) \/ CacheHit(r) \/ CacheMiss(r) \/ FillCache(r) \/ LookupFails(r)
  \/ Obtain(r) \/ NotObtained(r) \/ Measure(r) \/ Throttle(r) \/ Admit(r) \/ AdmitFails(r)

Next ==
  \/ \E l \in Limits : SetLimit(l) \/ Recache(l) \/ RecacheFails(l)
  \/ DeleteLimit \/ CacheExpires \/ LockExpires
  \/ \E r \in Requests : Run(r) \/ ContainerEnds(r) \/ LateRunning(r)

Spec == Init /\ [][Next]_vars

\* Redis removes a key whose TTL is over; no one need do anything else.
FairSpec == Spec /\ WF_vars(CacheExpires)

-----------------------------------------------------------------------------
(* Properties                                                              *)

TypeOK ==
  /\ limit \in Limits \cup {NoLimit}
  /\ cache \in Limits \cup {NoLimit}
  /\ fading \in BOOLEAN
  /\ recache \subseteq Limits
  /\ updates \in 0 .. MaxUpdates
  /\ lock \subseteq Requests /\ Cardinality(lock) <= 1
  /\ stage \in [Requests -> Stages]
  /\ quota \in [Requests -> Limits \cup {NoLimit}]
  /\ used \in [Requests -> [Kinds -> Nat]]
  /\ state \in [Requests -> {"none", "active", "stopping"}]
  /\ faults \in Scenarios

Within(use, l) == \A k \in Kinds : use[k] <= l[k]

\* A step in which an admission under a quota keeps within it.
KeepsQuota ==
  \A r \in Requests :
    /\ stage[r] = "measured"
    /\ state[r] # "active"
    /\ state'[r] = "active"
    => Within(Total(Counted'), quota[r])

\* "to prevent simultaneous requests from exceeding the quota": when
\* SetContainerStateWithConcurrencyLimit adds a container under a quota, the
\* containers that count, with it, are within that quota.
WithinQuota == [][KeepsQuota]_vars

\* The same as far as the code ensures it: the lock is obtained and held until
\* the state is written, the sum is complete, and no container comes back.
AdmittedWithinQuota == [][faults \subseteq {"lasting"} => KeepsQuota]_vars

\* A changed limit reaches every later Run: once the limit no longer changes, the
\* copy is current or absent from some time on, although schedulers and API calls
\* may copy values they read before, and a deletion leaves the copy in place.
LimitTakesEffect ==
  "lasting" \notin faults => <>[](cache \in {limit, NoLimit})

=============================================================================
