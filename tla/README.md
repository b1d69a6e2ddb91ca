# A TLA+ verification of beta9

beta9 runs user code in containers on demand.  A *gateway* takes requests (HTTP to
endpoints, tasks, SDK calls), keeps for every deployed *stub* as many containers as its
load asks for, and sizes the pools of workers.  A *scheduler* places container requests
on *workers*, and a worker starts, watches and clears the containers.  Any number of
gateways and workers run at once.  They share Redis (worker records, container states,
queues, counters, locks, events) and a Postgres database.  Almost every hard question
about the code is about two of these processes acting on the same Redis keys, or about
one of them dying between two commands.

All paths below are relative to `src/pkg/`.

## How to run

    tlc -config WorkerCapacity.cfg MCWorkerCapacity         # one run; PROJECT.json lists them
    tlapm WorkerCapacityProofs.tla                          # one module of proofs

## Parts of the system

| Part | Code | Modules |
|---|---|---|
| Worker records and capacity | `repository/worker_redis.go`, `worker/worker.go` | `WorkerCapacity` |
| Worker pools, worker index, machines | `scheduler/pool_*.go`, `worker_redis.go`, `provider_redis.go` | `WorkerPool` |
| Scheduler's request path | `scheduler/scheduler.go`, `backlog.go` | `ContainerLifecycle` |
| Container state in Redis | `repository/container_redis.go` | `ContainerLifecycle`, `ConcurrencyLimit` |
| Containers on a worker | `worker/worker.go`, `lifecycle.go` | `ContainerLifecycle` |
| Concurrency limits | `container_redis.go`, `workspace_redis.go`, `api/v1/concurrencylimit.go` | `ConcurrencyLimit` |
| GPU devices | `worker/nvidia.go`, `gpu_info.go` | `GpuAssignment` |
| Task dispatcher, task queue | `task/dispatch.go`, `task_redis.go`, `abstractions/taskqueue/` | `TaskDispatch` |
| Autoscaled instances | `abstractions/common/instance.go`, `autoscaler.go`, `abstractions/taskqueue/` | `AutoscaledInstance` |
| Endpoint buffer and tokens | `abstractions/endpoint/buffer.go` | `EndpointBuffer` |
| Ring buffer | `abstractions/common/ring_buffer.go` | `RingBuffer`, `BoundedDeque` |

How they meet: an endpoint's or a queue's load reaches `AutoscaledInstance`, whose
containers are the requests of `ContainerLifecycle`; before it enters the backlog a
request passes `ConcurrencyLimit`, and its attempts to be placed are `WorkerCapacity`,
over the workers `WorkerPool` provides.  Each module takes its neighbours as steps that
may succeed or fail.  `EndpointBuffer` is composed with `BoundedDeque`, which `RingBuffer`
implements.

`PROJECT.json` has the complete list of parts, the source of every definition (`map`) and
the hazards each part is exposed to.

## The modules

In all of them a Redis command, or a sequence of commands that nothing can come between
because all other users of the keys take the same lock, is one action; everything between
two actions may be interleaved with anything else.  An
error of a command is a disjunct or an action of its own (`...Fails`).  Names follow
the code; a name that does not is explained where it is defined.  Mutated versions
of a definition stand next to it, marked *Mutant*; no specification uses them.

Faults are named strings.  Which of them may occur is chosen in the initial state, from
the constant `Scenarios` or `Configs`, so that one run covers behaviours with and without
each fault and a property can say which faults it tolerates.  A property that excludes a
fault says so in its definition; what happens with the fault is under *Deviations*.

### WorkerCapacity

A worker's record holds its free capacity, its status and a resource version.
`selectWorker` reads the record, and `UpdateWorkerCapacity` later changes it under a
lock if the version is still the one read.  `stage[r]` follows a request from the
backlog through selection, charge, the `RPUSH`, the worker and back; `snap[r]` is the
scheduler's or gateway's copy.  Actions: adding, cordoning, enabling, removing,
expiring and crashing workers; charging, pushing, popping, completing and returning
capacity, each with its failures; a request lost between charge and push.  `cpu`
stands for cpu and memory, which the code treats alike; the GPU count is unsigned and
wraps at `UintModulus`, so the test for a negative count can never detect a shortage
of GPUs.  A record may expire at any time and be written again, with versions counted
from the start; two history variables remember who has a snapshot of a record that is
gone (`outlived`) and which workers were charged on the strength of one (`misled`).

### WorkerPool

A worker is a Kubernetes job, a state in Redis with a time to live, and an entry of the
index the state is found by; the three are written one after the other and disappear
apart.  Every gateway runs a sizer (`sizer[g]`, step by step: lock, list, decide, create
the job, index, state), the health monitor, which may mark the pool degraded and cordon
its pending workers, and the cleaner.  Listing the workers prunes index entries without a
state.  An external pool places its workers on machines, one machine lock at a time.
A worker has one unit of capacity that is free or taken; a container that was slow to start
(`slow`) may make the pool degraded for as long as it runs, because the latency of running
containers is part of the average.

### ContainerLifecycle

One container from `Run` until its state is gone: the scheduler's goroutines with
retries and back-off, the state hash with its id, status and TTL, the stop event, the
worker's loop with `containerLock`, `spawn`, the two goroutines that write the status
(`starter`, `ticker`), `clearContainer`, the grace period, crash and shutdown of the
worker.  Scheduling attempts succeed or fail freely here, and a mount may fail, the
container's own or that of another container of the worker (`NeighbourMountFails`), which
leaves `containerLock` locked.

### ConcurrencyLimit

Admission against the quota of a workspace: the limit is a row with a copy in Redis;
the copy is written by schedulers that missed it and by API calls; the use is the sum
over container states, read and extended under a Redis lock.  The lock may not be obtained
(`busy`) or expire (`expire`), `EXPIRE` may not be reached (`lasting`), a state may be
unreadable (`skip`), a late write may turn STOPPING into RUNNING (`revive`).

### GpuAssignment

`chooseDevices` under its mutex, `UnassignGPUDevices` without it, and the scheduler's
count of free GPUs, tied together by the life of the containers.

### TaskDispatch

A task is a row of the database, an entry with its indexes and its claim in Redis, and a
message of the queue's list; no lock covers the three.  `put[t]`, `stop[t]` and `act[a]`
hold how far a put, a user's stop, and the call of a runner or a monitor have come.
Runners pop, claim, run, beat and complete; on every gateway a monitor lists the tasks,
fetches copies of their entries, and retries or cancels from those copies under a retry
lock that a dead gateway leaves behind.  A runner's monitor stream is a thread of its own
(`streams`): `monitor_task.cancel()` does not stop a thread that runs, so the stream of an
earlier task (`own` is false) goes on, beats, and may time out, complete the task or end
the process, until it finds the task without a claim.

### AutoscaledInstance

The instances of one deployed task queue, one in the memory of each gateway: created on
demand, reloaded by events, sampled by the autoscaler, scaled by the monitor under a Redis
lock (`h[x]` is where a gateway's monitor or a warm-up is in `HandleScalingEvent`), and
cancelled when nothing is wanted.  A dead instance may still scale until it is forgotten, and
a handler that was at work for it goes on beside its successor (`of` is what it knows of
`IsActive`).  Containers start, poll (which makes an instance on the gateway they poll), run
tasks, keep warm, exit or fail, with their gateway too; events of containers may never arrive.
A task that a crash or a stop catches between its pop and its claim is `lost` until it expires.
Users stop and start the deployment through its row and an event.

### EndpointBuffer

Gateways, each with its buffer of waiting requests and its list of ready containers, share
a token counter per container.  Acquiring, refusing, granting, serving, releasing and the
heartbeat are separate steps, because they are separate commands; `DECR`, `INCR` and
`EXPIRE` may fail one by one, counters may expire, gateways may crash.

### RingBuffer and BoundedDeque

`RingBuffer` is the code: slots, `head`, `tail`, `count`.  `BoundedDeque` is what its
users rely on: a sequence of at most `Size` values, where a push at the back of a full
queue drops the oldest value.  `RefinesDeque` relates them.

## What is checked

Passing runs:

| Run | Shows |
|---|---|
| `capacity` | No worker is given more cpu and memory than it has, whatever becomes of its record.  As long as nobody uses a snapshot that outlived its record, it is not given more GPUs either, is not charged after a cordon, and its unsigned GPU count never wraps, which the version check alone ensures.  Capacity of a finished container is given back, or its worker is gone.  Also the inductive invariant `Accounting`. |
| `pool` | Machines are not overfilled; the sizers of several gateways exceed the minimum by at most one worker for each other gateway; no job or state of a dead worker stays; and a pool does not stay without a usable worker, unless a container that was slow to start runs on: with refused jobs, stuck pods, crashes, silent workers, cordons, failover and lost machines. |
| `lifecycle` | A request is in one place at a time, is completed at most once, is reported running only once spawned, and is never listed again after its state was deleted; it leaves the scheduler; a container whose state says stopping is stopped, and an ended container leaves nothing behind, unless a failed mount has left `containerLock` locked. |
| `limit` | An admission never exceeds the quota it was tested against, as long as the lock holds; a changed or deleted limit takes effect in the end, through the TTL of the copy. |
| `gpu` | No device is assigned twice, and a container the scheduler has placed finds its devices.  Also the inductive invariant `GpuIndInv`. |
| `tasks` | A task runs in one place and is retried within its policy, as long as its runner's stream and the monitors keep up and no second monitor meets a crash, a stop or a timeout (`Orderly`); without those three it is known to the monitors or in somebody's hands while its row says it is in flight; and, under all the faults of the run, a task of the index does not stay in flight, unless the stream of an earlier run keeps its heartbeat alive for ever. |
| `autoscale` | Two gateways and a warm-up that scale a stub keep it within its maximum while the lock holds; a stopped deployment loses its containers, those started meanwhile included, if the event is not lost; a stub without tasks scales to zero, with crashes, refused stops and late writes, although container events may never arrive; and a task is run or expires, or waits with no instance on any gateway, which takes a stub without a minimum, failed containers, a crash or a stop. |
| `endpoint` | While Redis answers and counters live, no container serves more requests than it has tokens, the counter accounts for those in flight, and a buffered request is served; under every fault a request is never in two places. |
| `ring_buffer` | The ring is a bounded double-ended queue. |

Runs in which TLC finds the code at odds with its own comments; each is a finding in
`PROJECT.json`:

| Run | What happens |
|---|---|
| `lifecycle_stop_lost` | `starter` writes RUNNING over a STOPPING it did not see; a container that ignores SIGTERM is never killed. |
| `limit_not_obtained` | Who does not get the lock goes on without it, and the quota is exceeded. |
| `task_retried_twice` | Two monitors that both saw a task without a heartbeat retry it one after the other, each on its own copy of the count, and the task is queued more often than its policy allows. |

### Deviations without a run

Met while modelling; each is described with its hazard in `PROJECT.json` or follows from
the definitions named.

- A reply lost after `UpdateWorkerCapacity` makes the worker return capacity twice
  (`worker/worker.go:620`).  `WorkerCapacity` has only calls that fail without effect.
- A record that is written again after it expired counts its versions anew.  A scheduler with
  a snapshot of the old record may find its version there once more, and then charges a
  cordoned worker or wraps the GPU count (`repository/worker_redis.go:464`).  Cpu and memory
  are signed and protected by their test.
- A failed mount leaves `containerLock` locked (`worker/worker.go:432`): no later request is
  handled, no container of the worker is killed or cleared, and the loop no longer tests for
  the shutdown signal.
- An orphaned container is killed once; if the kill comes before the runtime runs it,
  nothing kills it later.
- `DECR` recreates an expired token counter below zero, where it stays
  (`abstractions/endpoint/buffer.go:316`); a heartbeat written after the release, and a
  crash with several survivors, give a token back twice.
- The last task of a queue without a minimum can stay there: an instance is cancelled on a
  sample older than the put (`abstractions/common/instance.go:246`).
- `IsActive` of a live instance is only ever cleared (`instance.go:276`): a deployment that
  is stopped and started again stays inactive on gateways whose instance lived through both.
- Cordoning an expired worker leaves a state without pool and capacity
  (`repository/worker_redis.go:107`); a cordon of a pending worker is undone when it comes
  up; listing can prune the entry of a worker whose state is just being written.  All of
  these pass with time, as `Reclaimed` and `Supplied` show.
- A container that was slow to start and runs on stays in the average latency
  (`scheduler/pool_health.go:158`): the pool may stay degraded, and its sizer rest, as long.
- The goroutine that hands container events to instances blocks for ever when the instance's
  monitor has returned (`abstractions/common/instance.go:174`).  Runners that poll make up
  for the instances it no longer creates, as `ScaledToZero` shows.
- On a queue with a timeout the stream of an earlier run may time out while the task is in the
  queue again or runs again; its `Complete` deletes the state of that task, and it ends its
  process with whatever that is running.  `NotLost` is therefore stated without timeouts.
- Without a timeout such a stream may keep the heartbeat of a task alive whose later runner
  has crashed: the claim of the dead runner keeps the stream going, and the stream keeps
  monitors from retrying the task.  `Resolved` excludes it (`Lingers`).
- A stop next to two monitors does what a crash does in `task_retried_twice`: the stop deletes
  the claim, `RetryTask` writes the entry back, the runner's stream no longer beats, and both
  monitors fetch copies from which they retry, one after the other.  With two retries allowed
  the task then runs in two places (a behaviour of 48 states); with one it does not.
- Deleting a concurrency limit panics after the row is gone, so that the copy stays in force
  until its TTL is over (`api/v1/concurrencylimit.go:102`).

### Bounds

- `WorkerCapacity`: three requests on one worker give a charge, a stale charge and a
  return.  Two of them exceed its GPUs and not its cpu, two its cpu and not its GPUs.
  `MaxVersion` bounds only the versions reached by status updates; three are enough for a
  cordon and its reversal between a read and an update.  `UintModulus` is 8, above every
  sum that occurs.  Records of different workers are independent, and the proof is for
  any number of them.
- `WorkerPool`: three workers, so that two sizers may overshoot a minimum of two; one
  machine with room for two, or with one GPU.  `most` bounds the faults of a behaviour, one
  or two; ids of workers of which nothing is left are used again, so that behaviours go on
  for ever.
- `ContainerLifecycle`: containers share only `containerLock` and the loop, so the run has
  one, and what another one can do to it, a lock that stays taken, is an action; its safety properties are proved for any number.  `MaxRetryCount` of 3 lets a retry
  fail both before and after a worker is added.  `lifecycle_stop_lost` looks only at
  behaviours in which no event is lost and no read fails (`NothingFails`).
- `ConcurrencyLimit`: two containers, which exceed one limit by GPUs and cpu and the
  other by cpu only.  `MaxUpdates` bounds the changes of the limit: 2, so that two API
  calls overlap.  A container is run again without bound.
- `GpuAssignment`: three devices, four containers, one of which needs two devices.
- `TaskDispatch`: one task, two runners and two monitors to race for it; one retry allowed;
  one crash.  Tasks share the list and the runners' processes: that a stream of one task ends
  the runner of another is not in the run, where the other is the same task's next run.  Its
  safety properties are proved without bounds, for any number of tasks.
- `AutoscaledInstance`: up to two gateways, one warm-up, two containers, and stubs with and
  without a minimum, with up to three tasks; one fault per behaviour, and a stop with a
  restart or a lost event.  `ScaleBacklog` is 2, the channel and its blocked sender.
- `EndpointBuffer`: one token and one container make every second request contend,
  from the same gateway or from two.  `MaxDebt` bounds how often a failing `INCR` leaves
  the counter too low.  Two requests never overflow a buffer of two; what an overflow does
  to the buffer is `RingBuffer`'s subject, and `HandledOnce` is proved for any size.
- `RingBuffer`: three slots and four values wrap around, overwrite, and keep a slot
  between head and tail.  The proof has no bound.

Deadlock is not checked where a system may stop because all requests are over; it is
checked for `RingBuffer`.

### Fairness

- `capacity`: the worker's capacity loop never ends, and takes requests from a
  channel in order, so weak fairness for its steps; strong fairness for reading and
  updating, because version conflicts and errors come and go.
- `pool`: the loops of sizer, monitor and cleaner, starting and leaving workers, TTLs nobody
  renews; strong fairness for finding a worker, which pruning may interrupt but not for ever.
  Faults are not fair, except that a machine that was lost registers again.
- `lifecycle` and `lifecycle_stop_lost`: goroutines that are ready run; Go's
  mutexes are starvation free, so strong fairness where `containerLock` is needed; a
  TTL nobody renews runs out.  Containers, crashes, clients and the delivery of events
  are not fair.
- `limit`: only the expiry of the copy.
- `tasks`: calls that have begun, the monitors' ticks, handlers (they return, fail or time
  out), the streams, of earlier runs too, with their timeouts, and TTLs.  Puts, stops, crashes and lapses are not fair.
- `autoscale`: the loops of a gateway and of a runner, which polls as long as it has no task,
  but not the container events; TTLs, containers that are told to stop
  and calls that have begun; strong fairness for the monitor taking a scale event, for which
  it needs the Redis lock: monitors try every second and hold it for a few calls only.
- `endpoint`: the loops of a gateway; strong fairness for finding a container ready, which a
  container that answers is again and again, for taking a request from the buffer and for
  picking a container for it.

## What is proved

With TLAPS, for all values of the constants that satisfy the named assumptions.  None of
the invariants below is inductive as the run states it; what each strengthening adds is
the reason the code is right.

`WorkerCapacityProofs`: `NoOvercommit`, `NoGpuOvercommit`, `CordonedNotCharged`,
`GpuNeverWraps` and `TypeOK`, all from the invariant `Accounting`.  `NoOvercommit` speaks
of containers on the worker, while the code decides on a number in a record;
`FreeCapacityBacked` ties them: what a record offers, plus what requests hold, is within
the total.  To keep it, the update must not be applied to a missing record that reads as
zeros (`OnlyAddedWorkers`, `HeldRecordsVersioned`), and each request must be in one list
once (`QueuesConsistent`).  The GPU count is not protected by a test; `SnapshotsSound`
replaces it: while version and snapshot agree, the record still offers what the scheduler
saw.  That holds of snapshots whose record has lived since, so what rests on it is proved
for those (`outlived`) and for workers never charged on another (`misled`); `NoOvercommit`
rests on the test alone and needs neither.  The load of a set of requests is the cardinality of a set of units, so that adding
and removing a request follow from the library's facts on cardinality, without induction.
Assumptions: finitely many requests, each with some cpu; totals are naturals, and GPU
totals below the modulus.  `MaxVersion` is arbitrary.

`ContainerLifecycleProofs`: `TypeOK` (with the bound on retries), `OneCopy`,
`CompletedOnce`, `RunningWasSpawned` and `NeverListedAgain`, for any number of containers on
the worker.  `Sound(c)` adds to them that a back-off is pending only below the retry limit,
that a clear is pending only for a finalized container that was not completed before, and
that no goroutine watches a container that was not spawned.  `NeverListedAgain` is an action
property: of all writers of the hash only `Run` sets the id.

`ConcurrencyLimitProofs`: `TypeOK`, and `AdmittedWithinQuota`, for any number of requests, any needs and
limits.  `Measured`: whoever is past the lock holds it, and what it has measured stays an
upper bound on the use, because without the lock containers can only end.  The sum is again
a number of units.

`WorkerCapacityProofs` also has the GPU devices of `GpuAssignment`.  `Exclusive`, from
`GpuIndInv`: whoever is choosing holds the mutex, and everything allocated meanwhile is among
what it has seen, because only deletions can happen without the mutex.  `NeverShort`, from
`Counting`: the scheduler's free count and the demand of the containers it has placed make up
the devices, a container has no more devices than it was charged for, and none when its GPUs
are credited; so whoever chooses found room when it looked.  A demand is again a set of
units.  Assumptions: finitely many devices, with integer indexes.

`WorkerPoolProofs`: `MachineFits`, for any number of gateways, workers and machines.
`CreatingSafely`: a gateway that creates a worker on a machine has the machine's lock, has
the worker's id for itself, and has left room for it until the state is written.
`Overshoot`, from `Steady`: while nothing takes from the pool or cordons in it, every worker
of the pool is free and counted (`Calm`), and the workers of the pool plus those being created
are within the bound (`Limited`): a sizer that starts to create has counted less than the
minimum, and the others create one each at most.  Assumptions: finitely many workers and
gateways, and at least one gateway up; with none, and a minimum of 0, the bound would be -1.

`TaskDispatchProofs`: what each step does to its task, and that it leaves every other task
alone (`Elsewhere`), so that the invariants are about one task; and `NotLost`, from `Kept`: a
task is with the put, in the queue or with one runner (`Single`), a claim belongs to a runner
at work, a runner with a task keeps entry and heartbeat alive (`Tended`), so no monitor ever
gets to work on it, and whoever may delete the state has the final row written before or is
about to.  `ExitSound` adds that without stops and timeouts no stream, whatever its age, is
about to complete a task or to end its runner.

`TaskDispatchOnceProofs`: `OneRunner` and `RetriesBounded`, for any number of tasks, gateways,
runners and retries.  `Core(t)`: the put, a message, a runner or a retry has t, one of them at
a time (`Single`); whoever runs t has every copy a monitor holds covered by a heartbeat
(`Attends`); and entry, holders and copies that may lead to a retry count every retry made
(`Counted`).  With one monitor this is inductive; with two, `Together` adds that nothing
but the runner's own calls retries, as without crashes, stops and timeouts a runner's task is
always attended (`ExitSound` is part of both).  Assumptions on the constants: `None` is no task, status or number, and no runner is
a gateway.

`AutoscaledInstanceProofs`: `TypeOK`, and `WithinMax`, for any number of gateways, warm-ups and
containers.  Whoever is at a scaling event holds the lock (`Exclusive`), and the containers
there are, plus those it may still start, are within the limit (`Bounded`).

`EndpointBufferProofs`: `HandledOnce`, for any number of gateways and requests, any size of
the buffers and all faults: the waiting requests are exactly those in the buffers, each in
the one of its gateway and once (`Queued`).  `NoOverload` and `TokensCountInFlight`, without
the faults they exclude: a counter that exists is the tokens less the requests that have
decremented it (`Counters`), those included that were refused and have not yet given back,
and no heartbeat outlives its request (`Beats`).

`EndpointBufferProofs` also has the ring: `RingTypeOK`, `Consistent`, and that `RingBuffer`
implements `BoundedDeque`, for every capacity.

Every invariant and action property of the passing runs is proved.  Only model-checked is
liveness, which needs fairness and is out of the prover's reach: `CapacityReturned`; `Served`
of endpoints; `Resolved`, `StopEnforced` and `Reclaimed` of containers; `LimitTakesEffect`;
`Reclaimed` and `Supplied` of pools; `Resolved` of tasks; `Drained`, `ScaledToZero` and
`Served` of stubs.

## What is not modelled

- Formatting and decoding of records, wording of errors, logging, metrics, events for
  users.
- Redis locks themselves (`common/redis.go`).  `WorkerCapacity` and `WorkerPool`'s machine
  locks take one to be held for as long as its call lasts; `ConcurrencyLimit`,
  `AutoscaledInstance` and the sizers have its expiry as a fault.
- The event bus's claims and resends; an event is delivered at most once, or never.
- `GpuAssignment` takes the runtime to return when the process has ended.
- Image builds in `handleContainerRequest` and `checkForStoppedBuilds`, and the set-up of
  file systems, networks and devices in `spawn`.
- The lists and addresses by which gateways find containers; `EndpointBuffer` has a
  container found or not found.  Proxying a request is one step.
- The instances of endpoints and pods, whose handlers are those of `AutoscaledInstance` with
  other samples and other containers to spare; the function client of the dispatcher.
- Provisioning and reconciling machines, which are calls of cloud APIs; the agent on a
  machine, the model registry and the inference router, which keep their state in one
  process; pods' proxies, bots, the worker's network and storage.  Their hazards are listed in
  `PROJECT.json` where the code has one; they are the next parts to model.
- Images, checkpoints, runtimes, volumes, authentication, the SDK: input and output, or one
  command per operation.
