------------------------------ MODULE WorkerPool ------------------------------
(***************************************************************************)
(* Keeping a pool of workers.  Every gateway runs the pool's sizer, which  *)
(* adds a worker when the free capacity of the pool falls below the        *)
(* configured minimum; a health monitor, which marks the pool degraded and *)
(* cordons its pending workers; and a cleaner, which deletes the jobs of   *)
(* workers without state.  A worker is a Kubernetes job, a state in Redis  *)
(* with a time to live, and an entry of the index the state is found by;   *)
(* the three are written one after the other and disappear apart.  The     *)
(* workers of an external pool are placed on its machines.                 *)
(*                                                                         *)
(* A worker has one unit of capacity, or all of a machine with one GPU.    *)
(* What charges and returns capacity is the subject of WorkerCapacity.     *)
(***************************************************************************)
EXTENDS Integers, FiniteSets

CONSTANTS
  Gateways,
  Workers,      \* worker ids; the id of a worker of which nothing is left is used again
  Machines,     \* the machines of an external pool, provisioned by hand
  Capacity,     \* what each machine has room for
  MaxPending,   \* Failover.MaxPendingWorkers
  MinMachines,  \* Failover.MinMachinesAvailable
  Configs,      \* [external, failover, oneGpu, min, up, load, faults, most]: the mode of the
                \* pool, whether failover is enabled, whether its machines have one GPU, the
                \* sizer's minimum of free capacity; the gateways there are, how many containers
                \* are scheduled, the faults that may occur, see PossibleFaults, and how many
  None

\* refused   the cluster refuses a job
\* stuck     a pod stays pending
\* crash     a worker process dies and is started again in its pod
\* silent    the keep-alives of a worker fail for longer than its state lives
\* slow      a container takes longer than MaxSchedulingLatencyMs to start
\* machine   a machine is not ready for a while
\* lapse     the sizer's lock expires while its holder is at work
\* admin     an administrator cordons or uncordons a worker
\* late      a worker comes up later than WorkerStateTtlS after a write of its state
\* race      another process meets a worker that is not yet fully added
PossibleFaults ==
  {"refused", "stuck", "crash", "silent", "slow", "machine", "lapse", "admin", "late", "race"}

ASSUME PoolAssumption ==
  /\ {Capacity, MaxPending} \subseteq Nat \ {0}
  /\ MinMachines \in Nat
  /\ \A k \in Configs : /\ {k.external, k.failover, k.oneGpu} \subseteq BOOLEAN
                         /\ {k.min, k.load, k.most} \subseteq Nat
                         /\ k.up \subseteq Gateways /\ k.up # {}
                         /\ k.faults \subseteq PossibleFaults
  /\ IsFiniteSet(Workers) /\ IsFiniteSet(Gateways)
  /\ None \notin Gateways \cup Machines \cup Workers

VARIABLES
  pod,          \* pod[w]: the pod of w's job
  place,        \* place[w]: the machine w's job was created on
  state,        \* state[w]: w's state in Redis, or None
  index,        \* the workers in the index
  sizer,        \* sizer[g]: where g's sizer is
  sizerLock,    \* the holder of the pool's sizer lock
  machineLock,  \* machineLock[m]: the holder of m's lock
  ready,        \* the machines that are ready
  pool,         \* the status in the pool's state in Redis, or None
  mon,          \* where the health monitor is
  clean,        \* where the cleaner is
  admin,        \* the administrator's request, or None
  load,         \* containers still to be scheduled
  cfg, faultCount

work == <<pod, place, state, index>>
sizing == <<sizer, sizerLock, machineLock>>
upkeep == <<pool, mon, clean, admin>>
setup == <<ready, load, cfg>>
vars == <<pod, place, state, index, sizer, sizerLock, machineLock, ready, pool, mon, clean,
          admin, load, cfg, faultCount>>

\* "stuck" is pending for longer than the age limit, "terminating" was told to stop
Pods == {"none", "pending", "stuck", "running", "terminating"}
\* A state is real when it was written by AddWorker: one that UpdateWorkerStatus wrote for a
\* worker that had none names no pool and no machine and has no capacity.  It is slow while the
\* container on it is one that was slow to start.
States == [status : {"pending", "available", "disabled"}, real : BOOLEAN, free : BOOLEAN,
           slow : BOOLEAN]
Blank(status) == [status |-> status, real |-> FALSE, free |-> FALSE, slow |-> FALSE]
Sizers == [pc : {"idle", "assign", "create", "index", "state", "occupy"},
           phase : {"add", "occupy"}, todo : SUBSET Machines,
           w : Workers \cup {None}, m : Machines \cup {None}]
Idle == [pc |-> "idle", phase |-> "add", todo |-> {}, w |-> None, m |-> None]

TypeOK ==
  /\ pod \in [Workers -> Pods]
  /\ place \in [Workers -> Machines \cup {None}]
  /\ state \in [Workers -> States \cup {None}]
  /\ index \in SUBSET Workers
  /\ sizer \in [Gateways -> Sizers]
  /\ sizerLock \in Gateways \cup {None}
  /\ machineLock \in [Machines -> Gateways \cup {None}]
  /\ ready \in SUBSET Machines
  /\ pool \in {"healthy", "degraded", None}
  /\ mon \in [pc : {"idle", "cordon", "update", "set"}, status : {"healthy", "degraded"},
              todo : SUBSET Workers]
  /\ clean \in [w : Workers \cup {None}, todo : SUBSET {"state", "job"}]
  /\ admin \in [w : Workers, status : {"available", "disabled"}] \cup {None}
  /\ load \in Nat
  /\ cfg \in Configs
  /\ faultCount \in 0..cfg.most

Init ==
  /\ pod = [w \in Workers |-> "none"]
  /\ place = [w \in Workers |-> None]
  /\ state = [w \in Workers |-> None]
  /\ index = {}
  /\ sizer = [g \in Gateways |-> Idle]
  /\ sizerLock = None
  /\ machineLock = [m \in Machines |-> None]
  /\ ready = Machines
  /\ pool = None
  /\ mon = [pc |-> "idle", status |-> "healthy", todo |-> {}]
  /\ clean = [w |-> None, todo |-> {}]
  /\ admin = None
  /\ cfg \in Configs
  /\ load = cfg.load
  /\ faultCount = 0

Fault(f) ==
  /\ f \in cfg.faults
  /\ faultCount < cfg.most
  /\ faultCount' = faultCount + 1

\* The races with AddWorker are a matter of milliseconds: they happen, not every time.
Racing(b) == IF b THEN Fault("race") ELSE UNCHANGED faultCount

-----------------------------------------------------------------------------
(* The workers' states and their index in Redis *)

\* AddWorker holds the worker's lock from the index to the state.  The lock's other holders
\* are single steps.
Adding(w) == \E g \in Gateways : sizer[g].pc = "state" /\ sizer[g].w = w

\* getWorkers returns what the index leads to and takes out of it what leads nowhere.  Its
\* round trips are one step: a worker added between them is as one added after them.
Found == {w \in index : state[w] # None}
GetWorkers == index' = Found /\ Racing(\E w \in index : Adding(w) /\ state[w] = None)

\* GetAllWorkersInPool and GetAllWorkersOnMachine compare the names in the state.
InPool == {w \in Found : state[w].real}
OnMachine(m) == {w \in InPool : place[w] = m}

\* UpdateWorkerStatus does not look whether the worker exists: it writes a state with nothing
\* but a status for one that does not.
UpdateWorkerStatus(w, status) ==
  /\ ~Adding(w)
  /\ state' = [state EXCEPT ![w] = IF @ = None
                                   THEN Blank(status)
                                   ELSE [@ EXCEPT !.status = status]]

\* RemoveWorker leaves the index alone when there is no state.
RemoveWorker(w) ==
  /\ ~Adding(w)
  /\ index' = IF state[w] = None THEN index ELSE index \ {w}
  /\ state' = [state EXCEPT ![w] = None]

-----------------------------------------------------------------------------
(* The sizer *)

Fresh(w) ==
  /\ pod[w] = "none" /\ state[w] = None /\ w \notin index
  /\ \A g \in Gateways : sizer[g].w # w
  /\ w \notin mon.todo /\ clean.w # w
  /\ admin # None => admin.w # w

FreeCapacityAvailable == Cardinality({w \in InPool : state[w].free /\ state[w].status = "available"})

\* A worker that is not up yet counts with what it will have, a cordoned one does not count.
FreeCapacity == Cardinality({w \in InPool : state[w].free /\ state[w].status # "disabled"})

\* ListAllMachines passes over a machine whose lock is taken.
Unlocked == {m \in ready : machineLock[m] = None}

\* addWorkerIfNeeded, up to the cluster.  The sizer does nothing while the pool has no state
\* or is degraded.
Tick(g) ==
  /\ g \in cfg.up
  /\ sizer[g].pc = "idle"
  /\ pool = "healthy"
  /\ GetWorkers
  /\ \/ /\ FreeCapacity < cfg.min /\ ~cfg.external
        /\ \E w \in Workers : /\ Fresh(w)
                              /\ sizer' = [sizer EXCEPT ![g].pc = "create", ![g].w = w]
     \/ /\ FreeCapacity < cfg.min /\ cfg.external
        /\ sizer' = [sizer EXCEPT ![g].pc = "assign", ![g].todo = Unlocked]
     \/ /\ FreeCapacity >= cfg.min /\ cfg.external
        /\ sizer' = [sizer EXCEPT ![g].pc = "occupy"]
     \/ /\ FreeCapacity >= cfg.min /\ ~cfg.external
        /\ UNCHANGED sizer
  /\ UNCHANGED <<pod, place, state, sizerLock, machineLock, upkeep, setup>>

\* A gateway that does not get the sizer lock leaves the machines to the one that has it.
OccupyAvailableMachines(g) ==
  /\ sizer[g].pc = "occupy"
  /\ \/ /\ sizerLock = None
        /\ sizerLock' = g
        /\ sizer' = [sizer EXCEPT ![g] = [Idle EXCEPT !.pc = "assign", !.phase = "occupy",
                                                      !.todo = Unlocked]]
     \/ /\ sizerLock # None
        /\ sizer' = [sizer EXCEPT ![g] = Idle]
        /\ UNCHANGED sizerLock
  /\ UNCHANGED <<work, machineLock, upkeep, setup, faultCount>>

Size == IF cfg.oneGpu THEN Capacity ELSE 1
Remaining(m) == Capacity - Size * Cardinality(OnMachine(m))

\* Mutant of Assign: the machine's lock is not taken.
AssignUnlocked(g, m) ==
  /\ sizer[g].pc = "assign" /\ m \in sizer[g].todo
  /\ GetWorkers
  /\ \/ /\ Remaining(m) >= 1
        /\ \E w \in Workers :
             /\ Fresh(w)
             /\ sizer' = [sizer EXCEPT ![g].pc = "create", ![g].w = w, ![g].m = m]
     \/ /\ Remaining(m) < 1
        /\ sizer' = [sizer EXCEPT ![g].todo = @ \ {m}]
  /\ UNCHANGED <<pod, place, state, sizerLock, machineLock, upkeep, setup>>

\* attemptToAssignWorkerToMachine, up to the cluster: the machine's lock is kept while the
\* worker is created.  A machine whose lock is taken is passed over.
Assign(g, m) ==
  /\ sizer[g].pc = "assign" /\ m \in sizer[g].todo
  /\ \/ /\ machineLock[m] # None
        /\ sizer' = [sizer EXCEPT ![g].todo = @ \ {m}]
        /\ UNCHANGED <<index, machineLock, faultCount>>
     \/ /\ machineLock[m] = None /\ Remaining(m) >= 1
        /\ GetWorkers
        /\ \E w \in Workers :
             /\ Fresh(w)
             /\ sizer' = [sizer EXCEPT ![g].pc = "create", ![g].w = w, ![g].m = m]
        /\ machineLock' = [machineLock EXCEPT ![m] = g]
     \/ /\ machineLock[m] = None /\ Remaining(m) < 1
        /\ GetWorkers
        /\ sizer' = [sizer EXCEPT ![g].todo = @ \ {m}]
        /\ UNCHANGED machineLock
  /\ UNCHANGED <<pod, place, state, sizerLock, upkeep, setup>>

\* No machine is left to try.  A pool of machines that are provisioned by hand cannot
\* provision another: AddWorker fails, and the sizer goes on to occupy the machines.
AssignDone(g) ==
  /\ sizer[g].pc = "assign" /\ sizer[g].todo = {}
  /\ \/ /\ sizer[g].phase = "add"
        /\ sizer' = [sizer EXCEPT ![g] = [Idle EXCEPT !.pc = "occupy"]]
        /\ UNCHANGED sizerLock
     \/ /\ sizer[g].phase = "occupy"
        /\ sizer' = [sizer EXCEPT ![g] = Idle]
        /\ sizerLock' = IF sizerLock = g THEN None ELSE sizerLock
  /\ UNCHANGED <<work, machineLock, upkeep, setup, faultCount>>

\* The job is in the cluster before the worker has a state.
CreateJob(g) ==
  /\ sizer[g].pc = "create"
  /\ pod' = [pod EXCEPT ![sizer[g].w] = "pending"]
  /\ place' = [place EXCEPT ![sizer[g].w] = sizer[g].m]
  /\ sizer' = [sizer EXCEPT ![g].pc = "index"]
  /\ UNCHANGED <<state, index, sizerLock, machineLock, upkeep, setup, faultCount>>

\* The machine's lock is released, and its holder goes on: with the next machine when it
\* occupies them all or its attempt failed.
Unlock(g) ==
  machineLock' = [m \in Machines |-> IF m = sizer[g].m THEN None ELSE machineLock[m]]
Continue(g) ==
  sizer' = [sizer EXCEPT ![g].pc = "assign", ![g].todo = @ \ {sizer[g].m},
                         ![g].w = None, ![g].m = None]

CreateRefused(g) ==
  /\ sizer[g].pc = "create"
  /\ Fault("refused")
  /\ Unlock(g)
  /\ IF cfg.external THEN Continue(g) ELSE sizer' = [sizer EXCEPT ![g] = Idle]
  /\ UNCHANGED <<work, sizerLock, upkeep, setup>>

\* AddWorker puts the worker into the index, and then writes its state.
AddIndex(g) ==
  /\ sizer[g].pc = "index"
  /\ index' = index \cup {sizer[g].w}
  /\ sizer' = [sizer EXCEPT ![g].pc = "state"]
  /\ UNCHANGED <<pod, place, state, sizerLock, machineLock, upkeep, setup, faultCount>>

AddState(g) ==
  /\ sizer[g].pc = "state"
  /\ state' = [state EXCEPT ![sizer[g].w] = [Blank("pending") EXCEPT !.real = TRUE, !.free = TRUE]]
  /\ Unlock(g)
  /\ IF ~cfg.external
     THEN sizer' = [sizer EXCEPT ![g] = Idle]
     ELSE IF sizer[g].phase = "add"
     THEN sizer' = [sizer EXCEPT ![g] = [Idle EXCEPT !.pc = "occupy"]]
     ELSE Continue(g)
  /\ UNCHANGED <<pod, place, index, sizerLock, upkeep, setup, faultCount>>

SizerLockExpires ==
  /\ sizerLock # None
  /\ Fault("lapse")
  /\ sizerLock' = None
  /\ UNCHANGED <<work, sizer, machineLock, upkeep, setup>>

-----------------------------------------------------------------------------
(* The health monitor.  The pool's state lock has the gateways' monitors take turns. *)

Previous == IF pool = None THEN "healthy" ELSE pool

\* getPoolState, and updatePoolStatus up to the cordoning.
Degraded ==
  \/ Cardinality({w \in InPool : state[w].status = "pending"}) >= MaxPending
  \/ cfg.external /\ Cardinality(ready) < MinMachines

CheckStatus(status) ==
  mon' = [mon EXCEPT !.status = status,
                     !.pc = IF cfg.failover /\ status = "degraded" /\ Previous # status
                            THEN "cordon" ELSE "set"]

CheckHealth ==
  /\ mon.pc = "idle"
  /\ GetWorkers
  /\ CheckStatus(IF Degraded THEN "degraded" ELSE "healthy")
  /\ UNCHANGED <<pod, place, state, sizing, pool, clean, admin, setup>>

\* The scheduling latency is the average over the active containers, running ones included:
\* a container that was slow to start weighs in as long as it runs, and the others may or may
\* not outweigh it.
SlowContainer == \E w \in InPool : state[w].slow

CheckHealthSlow ==
  /\ mon.pc = "idle"
  /\ SlowContainer
  /\ GetWorkers
  /\ CheckStatus("degraded")
  /\ UNCHANGED <<pod, place, state, sizing, pool, clean, admin, setup>>

\* CordonAllPendingWorkersInPool reads the workers once and updates one after the other.
CordonAllPending ==
  /\ mon.pc = "cordon"
  /\ GetWorkers
  /\ mon' = [mon EXCEPT !.pc = "update",
                        !.todo = {w \in InPool : state[w].status = "pending"}]
  /\ UNCHANGED <<pod, place, state, sizing, pool, clean, admin, setup>>

Cordon(w) ==
  /\ mon.pc = "update" /\ w \in mon.todo
  /\ UpdateWorkerStatus(w, "disabled")
  /\ mon' = [mon EXCEPT !.todo = @ \ {w}]
  /\ UNCHANGED <<pod, place, index, sizing, pool, clean, admin, setup, faultCount>>

\* Mutant of SetPoolState: a degraded pool stays degraded.
SetPoolStateOnce ==
  /\ mon.pc = "set" \/ (mon.pc = "update" /\ mon.todo = {})
  /\ pool' = IF pool = "degraded" THEN pool ELSE mon.status
  /\ mon' = [mon EXCEPT !.pc = "idle"]
  /\ UNCHANGED <<work, sizing, clean, admin, setup, faultCount>>

SetPoolState ==
  /\ mon.pc = "set" \/ (mon.pc = "update" /\ mon.todo = {})
  /\ pool' = mon.status
  /\ mon' = [mon EXCEPT !.pc = "idle"]
  /\ UNCHANGED <<work, sizing, clean, admin, setup, faultCount>>

-----------------------------------------------------------------------------
(* The cleaner.  Its lock has the gateways take turns. *)

Reachable(w) == place[w] = None \/ place[w] \in ready

\* Mutant of Find: only the jobs of workers that were up are looked at.
FindStaleOnly(w) ==
  /\ clean.w = None
  /\ Reachable(w)
  /\ pod[w] = "running" /\ state[w] = None /\ ~Adding(w)
  /\ Racing(\E g \in Gateways : sizer[g].w = w)
  /\ clean' = [w |-> w, todo |-> {"state", "job"}]
  /\ UNCHANGED <<work, sizing, pool, mon, admin, setup>>

\* Clean finds a job to delete: deleteStaleJob, for a pod whose worker has no state, and
\* deletePendingJob, for a pod that is pending for too long.
Find(w) ==
  /\ clean.w = None
  /\ Reachable(w)
  /\ \/ pod[w] \in {"pending", "stuck", "running"} /\ state[w] = None /\ ~Adding(w)
     \/ pod[w] = "stuck"
  /\ Racing(\E g \in Gateways : sizer[g].w = w)
  /\ clean' = [w |-> w, todo |-> {"state", "job"}]
  /\ UNCHANGED <<work, sizing, pool, mon, admin, setup>>

CleanDone(todo) == IF todo = {} THEN [w |-> None, todo |-> {}] ELSE [clean EXCEPT !.todo = todo]

\* deleteWorkerResources does the two at once.
CleanState ==
  /\ "state" \in clean.todo
  /\ RemoveWorker(clean.w)
  /\ clean' = CleanDone(clean.todo \ {"state"})
  /\ UNCHANGED <<pod, place, sizing, pool, mon, admin, setup, faultCount>>

CleanJob ==
  /\ "job" \in clean.todo
  /\ pod' = [pod EXCEPT ![clean.w] = IF @ = "running" THEN "terminating"
                                     ELSE IF @ = "terminating" THEN @ ELSE "none"]
  /\ clean' = CleanDone(clean.todo \ {"job"})
  /\ UNCHANGED <<place, state, index, sizing, pool, mon, admin, setup, faultCount>>

-----------------------------------------------------------------------------
(* The workers *)

\* startup toggles the worker available.
Startup(w) ==
  /\ pod[w] = "pending"
  /\ UpdateWorkerStatus(w, "available")
  /\ Racing(\E g \in Gateways : sizer[g].w = w)
  /\ pod' = [pod EXCEPT ![w] = "running"]
  /\ UNCHANGED <<place, index, sizing, upkeep, setup>>

InUse(w) == state[w] # None /\ state[w].real /\ ~state[w].free

\* A worker shuts down when it was told to, or was without a container for long enough.  It
\* removes itself; that it is not found is no error to it.
Shutdown(w) ==
  /\ pod[w] = "terminating" \/ (pod[w] = "running" /\ ~InUse(w))
  /\ RemoveWorker(w)
  /\ pod' = [pod EXCEPT ![w] = "none"]
  /\ UNCHANGED <<place, sizing, upkeep, setup, faultCount>>

\* The state of a worker that sends no keep-alives expires.  A worker that is not up has
\* CleanupPendingWorkerAgeLimit from AddWorker, as has its pod; any other write of the state
\* cuts that to WorkerStateTtlS.
Expire(w) ==
  /\ state[w] # None
  /\ \/ pod[w] \in {"none", "stuck"} /\ UNCHANGED faultCount
     \/ pod[w] = "pending" /\ state[w].status # "pending" /\ Fault("late")
     \/ pod[w] = "running" /\ Fault("silent")
  /\ state' = [state EXCEPT ![w] = None]
  /\ UNCHANGED <<pod, place, index, sizing, upkeep, setup>>

\* The job restarts a worker that fails, under the same id.
Crash(w) ==
  /\ pod[w] = "running"
  /\ Fault("crash")
  /\ pod' = [pod EXCEPT ![w] = "pending"]
  /\ UNCHANGED <<place, state, index, sizing, upkeep, setup>>

Stuck(w) ==
  /\ pod[w] = "pending"
  /\ Fault("stuck")
  /\ pod' = [pod EXCEPT ![w] = "stuck"]
  /\ UNCHANGED <<place, state, index, sizing, upkeep, setup>>

\* A container is scheduled on a worker, and ends.
Schedule(w) ==
  /\ load > 0
  /\ w \in InPool /\ state[w].free /\ state[w].status # "disabled"
  /\ load' = load - 1
  /\ state' = [state EXCEPT ![w].free = FALSE]
  /\ UNCHANGED <<pod, place, index, sizing, upkeep, ready, cfg, faultCount>>

SlowStart(w) ==
  /\ InUse(w)
  /\ Fault("slow")
  /\ state' = [state EXCEPT ![w].slow = TRUE]
  /\ UNCHANGED <<pod, place, index, sizing, upkeep, setup>>

ContainerEnds(w) ==
  /\ InUse(w)
  /\ state' = [state EXCEPT ![w].free = TRUE, ![w].slow = FALSE]
  /\ UNCHANGED <<pod, place, index, sizing, upkeep, setup, faultCount>>

-----------------------------------------------------------------------------
(* Machines and the administrator *)

MachineLost(m) ==
  /\ m \in ready
  /\ Fault("machine")
  /\ ready' = ready \ {m}
  /\ UNCHANGED <<work, sizing, upkeep, load, cfg>>

MachineBack(m) ==
  /\ m \notin ready
  /\ ready' = ready \cup {m}
  /\ UNCHANGED <<work, sizing, upkeep, load, cfg, faultCount>>

\* CordonWorker and UncordonWorker look the worker up, and then update its status.
AdminLooksUp(w, status) ==
  /\ admin = None
  /\ state[w] # None /\ ~Adding(w)
  /\ Fault("admin")
  /\ admin' = [w |-> w, status |-> status]
  /\ UNCHANGED <<work, sizing, pool, mon, clean, setup>>

AdminUpdates ==
  /\ admin # None
  /\ UpdateWorkerStatus(admin.w, admin.status)
  /\ admin' = None
  /\ UNCHANGED <<pod, place, index, sizing, pool, mon, clean, setup, faultCount>>

-----------------------------------------------------------------------------
SizerStep(g) ==
  \/ Tick(g)
  \/ OccupyAvailableMachines(g)
  \/ \E m \in Machines : Assign(g, m)
  \/ AssignDone(g)
  \/ CreateJob(g)
  \/ CreateRefused(g)
  \/ AddIndex(g)
  \/ AddState(g)

MonitorStep ==
  \/ CheckHealth
  \/ CheckHealthSlow
  \/ CordonAllPending
  \/ \E w \in Workers : Cordon(w)
  \/ SetPoolState

WorkerStep(w) ==
  \/ Startup(w)
  \/ Shutdown(w)
  \/ Expire(w)
  \/ Crash(w)
  \/ Stuck(w)
  \/ Schedule(w)
  \/ SlowStart(w)
  \/ ContainerEnds(w)

AdminStep ==
  \/ \E w \in Workers, s \in {"available", "disabled"} : AdminLooksUp(w, s)
  \/ AdminUpdates

Next ==
  \/ \E g \in Gateways : SizerStep(g)
  \/ SizerLockExpires
  \/ MonitorStep
  \/ \E w \in Workers : Find(w)
  \/ CleanState
  \/ CleanJob
  \/ \E w \in Workers : WorkerStep(w)
  \/ \E m \in Machines : MachineLost(m) \/ MachineBack(m)
  \/ AdminStep

Spec == Init /\ [][Next]_vars

\* The sizer, the monitor and the cleaner are loops over tickers, and the cleaner comes to
\* every job in each round.  A pod that is not stuck starts, a worker without containers
\* shuts down and a state without keep-alives expires after the time the code gives them; a
\* machine that lost its keep-alives registers again.
FairSpec ==
  /\ Spec
  /\ \A g \in Gateways : WF_vars(SizerStep(g))
  /\ WF_vars(MonitorStep)
  /\ \A w \in Workers : /\ SF_vars(Find(w))
                        /\ WF_vars(Startup(w))
                        /\ WF_vars(Shutdown(w))
                        /\ WF_vars(Expire(w) /\ UNCHANGED faultCount)
  /\ WF_vars(CleanState)
  /\ WF_vars(CleanJob)
  /\ WF_vars(AdminUpdates)
  /\ \A m \in Machines : WF_vars(MachineBack(m))

-----------------------------------------------------------------------------
(* Properties *)

\* The workers found on a machine do not need more than the machine has: the gateways add
\* workers to a machine under its lock, after they have subtracted the workers on it.
MachineFits == \A m \in Machines : Size * Cardinality(OnMachine(m)) <= Capacity

\* A pool that nothing else takes from or cordons in is never given more than one worker per
\* gateway above its minimum: what a sizer does not see is at most what the sizers of the
\* other gateways are adding.
Overshoot ==
  ~cfg.external /\ ~cfg.failover /\ cfg.load = 0 /\ cfg.faults \subseteq {"refused", "race"}
    => FreeCapacity <= cfg.min + Cardinality(cfg.up) - 1

Leaked(w) == (pod[w] = "none") # (state[w] = None)

\* Neither a job without a state nor a state without a job lasts: the cleaner deletes the
\* one, and the other expires.
Reclaimed == \A w \in Workers : Leaked(w) ~> ~Leaked(w)

\* The workers that can take a container: up, found, and with room.
Usable == {w \in InPool : pod[w] = "running" /\ state[w].free /\ state[w].status # "disabled"}

\* A worker that can take a container comes up again and again, as workers without containers
\* leave: no pending, cordoned or forgotten worker, and no degraded status that such a worker
\* or a lost machine brought about, keeps the sizer from adding one for ever.  What does is a
\* container that was slow to start and goes on running: the pool may stay degraded as long.
Supplied == []<>(cfg.min > 0 => Usable # {} \/ SlowContainer)
=============================================================================
