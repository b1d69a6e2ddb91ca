--------------------------- MODULE WorkerCapacity ---------------------------
(***************************************************************************)
(* Capacity accounting of workers: the worker records that                 *)
(* pkg/repository/worker_redis.go keeps in Redis, and the schedulers,      *)
(* gateways and workers that read and update them concurrently.            *)
(*                                                                         *)
(* Every read-modify-write of a record runs under the record's own Redis   *)
(* lock, so it is one action here.  A step that fails because the lock was *)
(* not obtained or Redis returned an error is the ...Fails disjunct of the *)
(* operation.  What is NOT atomic is kept apart: the snapshot a scheduler  *)
(* takes in selectWorker and the update it bases on it; the gateway's      *)
(* GetWorkerById and the update it bases on it; the capacity update and    *)
(* the RPUSH of ScheduleContainerRequest.  The resource version is what    *)
(* ties the two halves together.                                           *)
(*                                                                         *)
(* cpu stands for cpu and memory, which the code treats alike (signed, and *)
(* both checked for going negative).  gpu is unsigned and wraps.           *)
(***************************************************************************)
EXTENDS Integers, FiniteSets, Sequences

CONSTANTS
  Workers,       \* worker ids; each is generated afresh, hence added once
  Requests,      \* container requests
  Cpu,           \* Cpu[r]: cpu a request asks for
  Gpu,           \* Gpu[r]: GPUs a request asks for, 0 for none
  TotalCpu,      \* TotalCpu[w]: cpu a worker is created with
  TotalGpu,      \* TotalGpu[w]: GPU count a worker is created with
  GpuWorkers,    \* workers of pools that have a GPU type
  UintModulus,   \* 2^32 in the code, the modulus of FreeGpuCount
  MaxVersion,    \* bound on the ResourceVersion reached by status updates
  NoWorker       \* "no worker chosen"

ASSUME RequestsAssumption ==
  /\ IsFiniteSet(Requests)
  /\ Cpu \in [Requests -> Nat \ {0}]
  /\ Gpu \in [Requests -> Nat]

ASSUME WorkersAssumption ==
  /\ NoWorker \notin Workers
  /\ GpuWorkers \subseteq Workers
  /\ TotalCpu \in [Workers -> Nat]
  /\ TotalGpu \in [Workers -> 0 .. UintModulus - 1]

ASSUME BoundsAssumption ==
  /\ UintModulus \in Nat \ {0}
  /\ MaxVersion \in Nat

VARIABLES
  record,  \* record[w]: the hash at the worker's state key
  added,   \* workers AddWorker has been called for
  stage,   \* stage[r]: how far the request has come, see Stages
  snap,    \* snap[r]: worker chosen for r, and the version last read for it
  queue,   \* queue[w]: the Redis list of requests pushed to the worker
  outlived, \* history: requests with a snapshot of a record that is gone
  misled   \* history: workers charged on the strength of such a snapshot

history == <<outlived, misled>>
vars == <<record, added, stage, snap, queue, outlived, misled>>

Statuses == {"", "pending", "available", "disabled"}

(***************************************************************************)
(* backlog   waiting to be scheduled (backlog, backoff or in-hand)         *)
(* selected  a scheduler holds a snapshot of the chosen worker             *)
(* charged   capacity removed from the record, RPUSH outstanding           *)
(* queued    in the worker's list                                          *)
(* hosted    popped by the worker: starting or running                     *)
(* completed cleared on the worker, waiting in completedRequests           *)
(* returning the gateway has read the record to add the capacity back      *)
(* orphaned  the same, for a worker process that has died meanwhile        *)
(* done      capacity given back                                           *)
(* lost      dropped: the capacity is not given back                       *)
(***************************************************************************)
Stages == {"backlog", "selected", "charged", "queued", "hosted",
           "completed", "returning", "orphaned", "done", "lost"}

\* HGETALL of a missing key decodes to the zero Worker.
ZeroWorker == [exists |-> FALSE, status |-> "", cpu |-> 0, gpu |-> 0,
               isGpu |-> FALSE, ver |-> 0]

Records == [exists : BOOLEAN, status : Statuses, cpu : Int,
            gpu : 0 .. UintModulus - 1, isGpu : BOOLEAN, ver : Nat]

Snapshots == [worker : Workers \cup {NoWorker}, ver : Nat, isGpu : BOOLEAN]

NoSnapshot == [worker |-> NoWorker, ver |-> 0, isGpu |-> FALSE]

Init ==
  /\ record = [w \in Workers |-> ZeroWorker]
  /\ added = {}
  /\ stage = [r \in Requests |-> "backlog"]
  /\ snap = [r \in Requests |-> NoSnapshot]
  /\ queue = [w \in Workers |-> <<>>]
  /\ outlived = {}
  /\ misled = {}

-----------------------------------------------------------------------------
(* Requests whose capacity is taken out of the record of w, and the part of *)
(* them that uses the worker's resources.                                  *)

Charged(w) == {r \in Requests : /\ snap[r].worker = w
                                /\ stage[r] \in {"charged", "queued", "hosted",
                                                 "completed", "returning",
                                                 "orphaned"}}

Placed(w) == {r \in Requests : /\ snap[r].worker = w
                               /\ stage[r] \in {"charged", "queued", "hosted"}}

\* The sum of demand[r] over r \in S, counted as a set of resource units.
Units(demand, S) == UNION {{r} \X (1 .. demand[r]) : r \in S}

Load(demand, S) == Cardinality(Units(demand, S))

-----------------------------------------------------------------------------
(* The scheduler                                                           *)

\* filterWorkersByResources on one worker.
Fits(rec, r) ==
  /\ rec.cpu >= Cpu[r]
  /\ rec.status # "disabled"
  /\ (Gpu[r] > 0) = rec.isGpu
  /\ rec.gpu >= Gpu[r]

\* selectWorker picks one of the workers that fit; scores and pool flags only
\* narrow the choice.
SelectWorker(r, w) ==
  /\ stage[r] = "backlog"
  /\ Fits(record[w], r)
  /\ stage' = [stage EXCEPT ![r] = "selected"]
  /\ snap' = [snap EXCEPT ![r] = [worker |-> w, ver |-> record[w].ver,
                                  isGpu |-> record[w].isGpu]]
  /\ UNCHANGED <<record, added, queue, history>>

NewRecord(w) ==
  [exists |-> TRUE, status |-> "pending", cpu |-> TotalCpu[w],
   gpu |-> TotalGpu[w], isGpu |-> w \in GpuWorkers, ver |-> 0]

\* The pool sizer adds a worker ahead of demand.
AddWorker(w) ==
  /\ w \notin added
  /\ added' = added \cup {w}
  /\ record' = [record EXCEPT ![w] = NewRecord(w)]
  /\ UNCHANGED <<stage, snap, queue, history>>

\* No worker fits: the scheduler's goroutine adds one, at least as large as the
\* request, and goes on with the Worker value AddWorker filled in, whose version
\* is 0.
AddWorkerForRequest(r, w) ==
  /\ stage[r] = "backlog"
  /\ w \notin added
  /\ TotalCpu[w] >= Cpu[r]
  /\ TotalGpu[w] >= Gpu[r]
  /\ added' = added \cup {w}
  /\ record' = [record EXCEPT ![w] = NewRecord(w)]
  /\ stage' = [stage EXCEPT ![r] = "selected"]
  /\ snap' = [snap EXCEPT ![r] = [worker |-> w, ver |-> 0,
                                  isGpu |-> w \in GpuWorkers]]
  /\ UNCHANGED <<queue, history>>

-----------------------------------------------------------------------------
(* UpdateWorkerCapacity                                                    *)

\* The GPU part of an update applies when request.Gpu, copied from the chosen
\* worker by scheduleRequest, is not empty.
GpuDemand(r) == IF snap[r].isGpu THEN Gpu[r] ELSE 0

AddCapacity(rec, r) ==
  [rec EXCEPT !.exists = TRUE,
              !.cpu = rec.cpu + Cpu[r],
              !.gpu = (rec.gpu + GpuDemand(r)) % UintModulus,
              !.ver = rec.ver + 1]

RemoveCapacity(rec, r) ==
  [rec EXCEPT !.exists = TRUE,
              !.cpu = rec.cpu - Cpu[r],
              !.gpu = (rec.gpu - GpuDemand(r)) % UintModulus,
              !.ver = rec.ver + 1]

\* Mutant: no optimistic check.
VersionUnchecked(rec, r) == TRUE

\* The optimistic check against the version the caller read.
VersionMatches(rec, r) == rec.ver = snap[r].ver

\* Mutant: the record may go negative.
OutOfCapacityUnchecked(rec) == FALSE

\* "unable to schedule container, worker out of cpu, memory, or gpu": the gpu
\* count is unsigned, its comparison with zero never holds.
OutOfCapacity(rec) == rec.cpu < 0

\* The first half of ScheduleContainerRequest.
Charge(r) ==
  LET w == snap[r].worker IN
  /\ stage[r] = "selected"
  /\ VersionMatches(record[w], r)
  /\ ~OutOfCapacity(RemoveCapacity(record[w], r))
  /\ record' = [record EXCEPT ![w] = RemoveCapacity(record[w], r)]
  /\ stage' = [stage EXCEPT ![r] = "charged"]
  /\ outlived' = outlived \ {r}
  /\ misled' = IF r \in outlived THEN misled \cup {w} ELSE misled
  /\ UNCHANGED <<added, snap, queue>>

\* Stale version, out of capacity, lock not obtained, or a Redis error: the
\* request goes back to the backlog.
ChargeFails(r) ==
  /\ stage[r] = "selected"
  /\ stage' = [stage EXCEPT ![r] = "backlog"]
  /\ outlived' = outlived \ {r}
  /\ UNCHANGED <<record, added, snap, queue, misled>>

\* The second half of ScheduleContainerRequest: RPUSH.
PushRequest(r) ==
  LET w == snap[r].worker IN
  /\ stage[r] = "charged"
  /\ queue' = [queue EXCEPT ![w] = Append(@, r)]
  /\ stage' = [stage EXCEPT ![r] = "queued"]
  /\ UNCHANGED <<record, added, snap, history>>

\* RPUSH failed: the request is retried, the capacity stays taken.
PushRequestFails(r) ==
  /\ stage[r] = "charged"
  /\ stage' = [stage EXCEPT ![r] = "backlog"]
  /\ UNCHANGED <<record, added, snap, queue, history>>

-----------------------------------------------------------------------------
(* The worker                                                              *)

\* GetNextContainerRequest pops the list and sends the request down the
\* worker's stream; a request whose Send fails is gone.
GetNextContainerRequest(w) ==
  /\ queue[w] # <<>>
  /\ queue' = [queue EXCEPT ![w] = Tail(@)]
  /\ \E s \in {"hosted", "lost"} :
       stage' = [stage EXCEPT ![Head(queue[w])] = s]
  /\ UNCHANGED <<record, added, snap, history>>

\* clearContainer: the request is put on completedRequests.
ClearContainer(r) ==
  /\ stage[r] = "hosted"
  /\ stage' = [stage EXCEPT ![r] = "completed"]
  /\ UNCHANGED <<record, added, snap, queue, history>>

\* manageWorkerCapacity, one goroutine, takes a request off the channel and
\* calls the gateway, whose UpdateWorkerCapacity handler reads the record it will
\* base the update on.
ReadForReturn(r) ==
  LET w == snap[r].worker IN
  /\ stage[r] = "completed"
  /\ \A q \in Requests : stage[q] = "returning" => snap[q].worker # w
  /\ record[w].exists
  /\ stage' = [stage EXCEPT ![r] = "returning"]
  /\ snap' = [snap EXCEPT ![r].ver = record[w].ver]
  /\ UNCHANGED <<record, added, queue, history>>

\* What a worker process that ends takes with it.
Abandoned(w) == {r \in Requests : /\ snap[r].worker = w
                                  /\ stage[r] \in {"hosted", "completed"}}

\* Mutant: a missing record is an error like any other, and retried.
ReturnNotFoundRetried(r) == FALSE

\* The record is gone: manageWorkerCapacity ends and cancels the worker.
ReturnNotFound(r) ==
  LET w == snap[r].worker IN
  /\ stage[r] = "completed"
  /\ \A q \in Requests : stage[q] = "returning" => snap[q].worker # w
  /\ ~record[w].exists
  /\ stage' = [q \in Requests |-> IF q \in Abandoned(w) THEN "lost" ELSE stage[q]]
  /\ UNCHANGED <<record, added, snap, queue, history>>

\* Mutant: the request is put back on the channel after a success too.
ReturnCapacityRequeues(r) ==
  LET w == snap[r].worker IN
  /\ stage[r] = "returning"
  /\ VersionMatches(record[w], r)
  /\ record[w].ver < MaxVersion
  /\ record' = [record EXCEPT ![w] = AddCapacity(record[w], r)]
  /\ stage' = [stage EXCEPT ![r] = "completed"]
  /\ UNCHANGED <<added, snap, queue, history>>

ReturnCapacity(r) ==
  LET w == snap[r].worker IN
  /\ stage[r] \in {"returning", "orphaned"}
  /\ VersionMatches(record[w], r)
  /\ record' = [record EXCEPT ![w] = AddCapacity(record[w], r)]
  /\ stage' = [stage EXCEPT ![r] = "done"]
  /\ UNCHANGED <<added, snap, queue, history>>

\* Stale version, lock not obtained or a Redis error: manageWorkerCapacity puts
\* the request back on the channel and tries again, if it is still there.
ReturnFails(r) ==
  /\ \/ /\ stage[r] = "returning"
        /\ stage' = [stage EXCEPT ![r] = "completed"]
     \/ /\ stage[r] = "orphaned"
        /\ stage' = [stage EXCEPT ![r] = "lost"]
  /\ UNCHANGED <<record, added, snap, queue, history>>

\* The worker process dies; the pod restarts it under the same worker id with
\* no memory of its containers.  A call the gateway is handling goes on.
CrashWorker(w) ==
  LET calling == {r \in Requests : snap[r].worker = w /\ stage[r] = "returning"}
  IN /\ Abandoned(w) \cup calling # {}
     /\ stage' = [r \in Requests |-> CASE r \in Abandoned(w) -> "lost"
                                       [] r \in calling -> "orphaned"
                                       [] OTHER -> stage[r]]
     /\ UNCHANGED <<record, added, snap, queue, history>>

-----------------------------------------------------------------------------
(* Status updates, removal and expiry                                      *)

\* Mutant: a status update leaves the version alone.
UpdateWorkerStatusUnversioned(w, status) ==
  /\ record[w].ver < MaxVersion
  /\ record' = [record EXCEPT ![w].exists = TRUE, ![w].status = status]
  /\ UNCHANGED <<added, stage, snap, queue, history>>

\* ToggleWorkerAvailable, cordon and uncordon.  A missing record is read as the
\* zero Worker and written back: its versions start again from 0.
UpdateWorkerStatus(w, status) ==
  /\ record[w].ver < MaxVersion
  /\ record' = [record EXCEPT ![w].exists = TRUE,
                              ![w].status = status,
                              ![w].ver = @ + 1]
  /\ UNCHANGED <<added, stage, snap, queue, history>>

\* The requests of schedulers between selectWorker and UpdateWorkerCapacity for w.
Holders(w) == {r \in Requests : stage[r] = "selected" /\ snap[r].worker = w}

\* The worker's shutdown, or the pool cleaner: the list is deleted too.
RemoveWorker(w) ==
  LET pushed == {queue[w][i] : i \in DOMAIN queue[w]} IN
  /\ record[w].exists
  /\ record' = [record EXCEPT ![w] = ZeroWorker]
  /\ queue' = [queue EXCEPT ![w] = <<>>]
  /\ stage' = [r \in Requests |-> IF r \in pushed THEN "lost" ELSE stage[r]]
  /\ outlived' = outlived \cup Holders(w)
  /\ UNCHANGED <<added, snap, misled>>

\* The TTL of the state key runs out; the list has none.
ExpireWorker(w) ==
  /\ record[w].exists
  /\ record' = [record EXCEPT ![w] = ZeroWorker]
  /\ outlived' = outlived \cup Holders(w)
  /\ UNCHANGED <<added, stage, snap, queue, misled>>

-----------------------------------------------------------------------------

RequestNext(r) ==
  \/ \E w \in Workers : SelectWorker(r, w) \/ AddWorkerForRequest(r, w)
  \/ Charge(r)
  \/ ChargeFails(r)
  \/ PushRequest(r)
  \/ PushRequestFails(r)
  \/ ClearContainer(r)
  \/ ReadForReturn(r)
  \/ ReturnNotFound(r)
  \/ ReturnCapacity(r)
  \/ ReturnFails(r)

WorkerNext(w) ==
  \/ AddWorker(w)
  \/ GetNextContainerRequest(w)
  \/ CrashWorker(w)
  \/ \E status \in {"available", "disabled"} : UpdateWorkerStatus(w, status)
  \/ RemoveWorker(w)
  \/ ExpireWorker(w)

Next == (\E r \in Requests : RequestNext(r)) \/ (\E w \in Workers : WorkerNext(w))

Spec == Init /\ [][Next]_vars

\* The worker's capacity loop keeps running and serves its channel in order; an
\* attempt that can go through is not passed over for ever by version conflicts
\* and Redis errors.
FairSpec ==
  /\ Spec
  /\ \A r \in Requests : /\ SF_vars(ReadForReturn(r) \/ ReturnNotFound(r))
                         /\ WF_vars(ReturnFails(r))
                         /\ SF_vars(ReturnCapacity(r))

-----------------------------------------------------------------------------
(* Properties                                                              *)

TypeOK ==
  /\ record \in [Workers -> Records]
  /\ added \subseteq Workers
  /\ stage \in [Requests -> Stages]
  /\ snap \in [Requests -> Snapshots]
  /\ queue \in [Workers -> Seq(Requests)]
  /\ outlived \subseteq Requests
  /\ misled \subseteq Workers

\* Schedulers racing for the same worker, and workers giving capacity back,
\* never place more cpu and memory on a worker than it has, whatever becomes of
\* its record: a charge that leaves less than nothing is refused.
NoOvercommit == \A w \in Workers : Load(Cpu, Placed(w)) <= TotalCpu[w]

\* The same for GPUs, although UpdateWorkerCapacity cannot detect a shortage: what
\* rules it out is the version.  Not so once a scheduler has charged the worker on a
\* snapshot that outlived its record, whose versions have since been counted anew.
NoGpuOvercommit ==
  \A w \in Workers \ misled :
    Load(Gpu, {r \in Placed(w) : snap[r].isGpu}) <= TotalGpu[w]

\* Capacity is never removed from the record of a cordoned worker, even by a
\* scheduler that chose the worker before it was cordoned, as long as the record
\* it chose is there.
CordonedNotCharged ==
  [][\A r \in Requests \ outlived :
       stage[r] = "selected" /\ stage'[r] = "charged"
         => record[snap[r].worker].status # "disabled"]_vars

\* The unsigned GPU count never wraps below zero in the life of a record.
GpuNeverWraps ==
  [][\A r \in Requests \ outlived :
       stage[r] = "selected" /\ stage'[r] = "charged"
         => record[snap[r].worker].gpu >= GpuDemand(r)]_vars

\* Capacity of a finished container is given back, or its worker is gone,
\* however often the update runs into version conflicts.
CapacityReturned ==
  \A r \in Requests : stage[r] = "completed" ~> stage[r] \in {"done", "lost"}

-----------------------------------------------------------------------------
(* The inductive invariant behind NoOvercommit, NoGpuOvercommit,           *)
(* CordonedNotCharged and GpuNeverWraps.                                   *)

GpuCharged(w) == {r \in Charged(w) : snap[r].isGpu}

\* A list holds the requests pushed to its worker, each once.
QueuesConsistent ==
  \A w \in Workers :
    /\ \A i \in DOMAIN queue[w] : /\ stage[queue[w][i]] = "queued"
                                  /\ snap[queue[w][i]].worker = w
    /\ \A i, j \in DOMAIN queue[w] : queue[w][i] = queue[w][j] => i = j

\* Requests are only ever assigned to workers that were added, and a record
\* that is missing, or was never added, offers nothing.
OnlyAddedWorkers ==
  /\ \A r \in Requests :
       /\ stage[r] # "backlog" => snap[r].worker # NoWorker
       /\ snap[r].worker # NoWorker => snap[r].worker \in added
  /\ \A w \in Workers :
       /\ w \notin added => record[w].cpu = 0 /\ record[w].gpu = 0
       /\ ~record[w].exists => record[w] = ZeroWorker

\* What a record advertises as free is backed by the worker: together with what
\* requests hold it stays within the total, across failed pushes, lost
\* requests, crashes, removals and expiries.
FreeCapacityBacked ==
  \A w \in Workers :
    /\ record[w].cpu >= 0
    /\ record[w].cpu + Load(Cpu, Charged(w)) <= TotalCpu[w]
    /\ w \notin misled => record[w].gpu + Load(Gpu, GpuCharged(w)) <= TotalGpu[w]

\* While a record lives, the version a scheduler read is never ahead of it, and as
\* long as the two agree the record still offers what the scheduler saw.
SnapshotsSound ==
  \A r \in Requests \ outlived :
    LET rec == record[snap[r].worker] IN
    stage[r] = "selected" =>
      /\ rec.exists
      /\ snap[r].ver <= rec.ver
      /\ snap[r].ver = rec.ver => /\ rec.gpu >= GpuDemand(r)
                                 /\ rec.status # "disabled"

\* A record from which capacity was taken has been updated since it was added, so
\* an update based on it cannot be mistaken for one of a missing record.
HeldRecordsVersioned ==
  \A r \in Requests :
    /\ stage[r] \in {"returning", "orphaned"} => snap[r].ver > 0
    /\ \A w \in Workers : r \in Charged(w) /\ record[w].exists => record[w].ver > 0

\* The record keeping of schedulers, gateways and workers taken together.
Accounting == /\ TypeOK
              /\ QueuesConsistent
              /\ OnlyAddedWorkers
              /\ FreeCapacityBacked
              /\ SnapshotsSound
              /\ HeldRecordsVersioned

=============================================================================
