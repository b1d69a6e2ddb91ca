-------------------------- MODULE AutoscaledInstance --------------------------
(***************************************************************************)
(* Scaling the containers of one stub, a deployed task queue.  Every       *)
(* gateway that has to do with the stub keeps an instance of it in memory: *)
(* its autoscaler samples the tasks in flight every second and sends the   *)
(* number of containers it wants to the instance's monitor, which under a  *)
(* Redis lock starts or stops containers, and cancels the instance when    *)
(* nothing is wanted and nothing runs.  Instances appear on demand: for a  *)
(* put, a retry, an event of a container, a reload, a warm-up.  Users stop *)
(* and start the deployment through its row and a reload event.            *)
(***************************************************************************)
EXTENDS Integers, Sequences, FiniteSets

CONSTANTS
  Gateways,
  Warmups,          \* warm-up requests, each handled by some gateway
  Containers,       \* container ids; the id of a container that is gone is used again
  Configs,          \* [min, max, per, up, puts, faults]: the stub's MinContainers,
                    \* MaxContainers and TasksPerContainer; the gateways there are; how many
                    \* tasks are put and warm-ups asked for; the faults that may occur, see
                    \* PossibleFaults
  Threshold,        \* FailedContainerThreshold
  ScaleBacklog,     \* scale events sent and not taken: ScaleEventChan and a blocked sender
  MaxFaults,        \* bound on the faults of a behaviour
  None

\* stop      users stop the deployment
\* restart   and start it again
\* lost      a gateway does not receive a reload event
\* lapse     the instance lock expires while its holder is at work
\* crash     a gateway crashes and starts again
\* refused   the scheduler refuses to run or to stop a container
\* fail      a container exits with an error
\* revive    a container's worker reports it running after it was told to stop
PossibleFaults == {"stop", "restart", "lost", "lapse", "crash", "refused", "fail", "revive"}

ASSUME AutoscaleAssumption ==
  /\ \A k \in Configs : /\ {k.min, k.max, k.per, k.puts} \subseteq Nat
                         /\ k.per > 0
                         /\ k.up \subseteq Gateways
                         /\ k.faults \subseteq PossibleFaults
  /\ {Threshold, ScaleBacklog} \subseteq Nat \ {0}
  /\ MaxFaults \in Nat
  /\ Gateways \cap Warmups = {}
  /\ None \notin Gateways \cup Warmups \cup {"PENDING", "RUNNING", "STOPPING"}
  /\ IsFiniteSet(Containers) /\ IsFiniteSet(Gateways)

\* HandleScalingEvent runs in a gateway's monitor or in the handler of a warm-up.
Handlers == Gateways \cup Warmups

VARIABLES
  active,     \* the deployment's row
  api,        \* progress of the user's stop or start of the deployment
  reload,     \* gateways a reload event is on its way to
  noticed,    \* gateways an event of a deleted container may be on its way to
  inst,       \* inst[g]: the stub's entry of g's instance map: None, "live", "dead"
  isActive,   \* isActive[g]: IsActive of that instance
  scale,      \* scale[g]: scale events sent to its monitor
  ignoring,   \* gateways whose monitor ignores scale events after a refusal
  h,          \* h[x]: the scaling event handler x is at: see Handler
  lock,       \* the holder of the instance lock
  status,     \* status[c]: the state of container c in Redis
  warm,       \* containers with a keep-warm lock
  runner,     \* runner[c]: what c does with the queue: see Runner
  queue,      \* tasks in the queue
  puts,       \* puts[g]: a put on g has indexed its task and not pushed it
  putCount,
  retry,      \* claimed tasks whose container is gone, to be retried
  lost,       \* tasks indexed, and neither queued nor claimed by anybody: they expire
  failed,     \* containers of the stub with an exit code of an error
  cfg, faultCount

row == <<active, api, reload>>
map == <<inst, isActive, scale, ignoring>>
scaling == <<h, lock>>
cont == <<status, warm, runner, failed, noticed>>
tasks == <<queue, puts, putCount, retry, lost>>
setup == <<cfg, faultCount>>
vars == <<active, api, reload, noticed, inst, isActive, scale, ignoring, h, lock,
          status, warm, runner, queue, puts, putCount, retry, lost, failed, cfg, faultCount>>

Statuses == {"PENDING", "RUNNING", "STOPPING"}

\* free     waiting for work
\* taking   the processing lock is set, nothing popped yet
\* popped   a task popped and not claimed yet
\* running  the task is claimed, its running lock set
\* broken   its gateway crashed during a pop: it is about to exit with an error
Runner == {"free", "taking", "popped", "running", "broken"}
Processing == {"popped", "running"}

\* at: the gateway; n: containers left to start or stop; victims: containers to stop;
\* of: its instance is the one in the map, or one forgotten since with its IsActive
Idle == [pc |-> "idle", at |-> None, n |-> 0, victims |-> {}, of |-> "map"]

Count(s) == Cardinality({c \in Containers : status[c] = s})
Alive == {c \in Containers : status[c] # None}
Holding == {c \in Containers : runner[c] \in Processing}

TasksInFlight ==
  queue + retry + lost + Cardinality(Holding) + Cardinality({g \in Gateways : puts[g]})

\* Init of the controller loads the active deployments with a minimum.
Loaded == IF active /\ cfg.min > 0 THEN "live" ELSE None

Init ==
  /\ cfg \in Configs
  /\ active = TRUE
  /\ api = "idle"
  /\ reload = {}
  /\ noticed = {}
  /\ inst = [g \in Gateways |-> IF g \in cfg.up THEN Loaded ELSE None]
  /\ isActive = [g \in Gateways |-> TRUE]
  /\ scale = [g \in Gateways |-> <<>>]
  /\ ignoring = {}
  /\ h = [x \in Handlers |-> Idle]
  /\ lock = None
  /\ status = [c \in Containers |-> None]
  /\ warm = {}
  /\ runner = [c \in Containers |-> "free"]
  /\ queue = 0
  /\ puts = [g \in Gateways |-> FALSE]
  /\ putCount = 0
  /\ retry = 0
  /\ lost = 0
  /\ failed = 0
  /\ faultCount = 0

Fault(f) ==
  /\ f \in cfg.faults
  /\ faultCount < MaxFaults
  /\ faultCount' = faultCount + 1
  /\ UNCHANGED cfg

(***************************************************************************)
(* Instances.                                                              *)
(***************************************************************************)

\* getOrCreateQueueInstance: the entry of the map, live or dead, else a new instance, which
\* NewAutoscaledInstance syncs with the row.
GetOrCreate(g) ==
  IF inst[g] = None
  THEN /\ inst' = [inst EXCEPT ![g] = "live"]
       /\ isActive' = [isActive EXCEPT ![g] = active]
       /\ UNCHANGED <<scale, ignoring>>
  ELSE UNCHANGED map

\* The goroutine that waits for the instance's context deletes the entry, and the instance's
\* channels with it.  Handlers that are at work for the instance go on beside its successor.
Forget(g) ==
  /\ inst[g] = "dead"
  /\ inst' = [inst EXCEPT ![g] = None]
  /\ isActive' = [isActive EXCEPT ![g] = TRUE]
  /\ scale' = [scale EXCEPT ![g] = <<>>]
  /\ ignoring' = ignoring \ {g}
  /\ h' = [x \in Handlers |->
            IF h[x].at = g /\ h[x].of = "map"
            THEN [h[x] EXCEPT !.of = IF isActive[g] THEN "active" ELSE "inactive"]
            ELSE h[x]]
  /\ UNCHANGED <<row, lock, cont, tasks, setup>>

\* IsActive of the instance handler x works for.
IsActive(x) == IF h[x].of = "map" THEN isActive[h[x].at] ELSE h[x].of = "active"

\* Mutant of Reload: an instance that exists is not synced.
ReloadNoSync(g) ==
  /\ g \in reload
  /\ reload' = reload \ {g}
  /\ GetOrCreate(g)
  /\ UNCHANGED <<active, api, scaling, cont, tasks, setup>>

\* Load after a reload event: the instance and a Sync, which only ever clears IsActive.
Reload(g) ==
  /\ g \in reload
  /\ reload' = reload \ {g}
  /\ IF inst[g] = None
     THEN GetOrCreate(g)
     ELSE /\ isActive' = [isActive EXCEPT ![g] = @ /\ active]
          /\ UNCHANGED <<inst, scale, ignoring>>
  /\ UNCHANGED <<active, api, scaling, cont, tasks, setup>>

ReloadLost(g) ==
  /\ g \in reload
  /\ Fault("lost")
  /\ reload' = reload \ {g}
  /\ UNCHANGED <<active, api, map, scaling, cont, tasks>>

\* The key events of a container's state: a container that is there has its state written
\* again and again, a deleted one's once.  The goroutine that handles the events of all
\* stubs blocks for ever when it sends to an instance whose monitor has returned: an
\* event may never get here.
ContainerEvent(g) ==
  /\ g \in noticed \/ Alive # {}
  /\ inst[g] = None
  /\ noticed' = noticed \ {g}
  /\ GetOrCreate(g)
  /\ UNCHANGED <<row, scaling, status, warm, runner, failed, tasks, setup>>

\* The sample and what taskQueueScaleFunc and ConsumeScaleResult make of it.
DesiredContainers(inFlight) ==
  LET wanted == (inFlight + cfg.per - 1) \div cfg.per
      capped == IF wanted < cfg.max THEN wanted ELSE cfg.max
  IN IF capped > cfg.min THEN capped ELSE cfg.min

\* The autoscaler and the monitor may find a tick or an event beside the instance's end,
\* and take that first: a dead instance may scale until it is forgotten.
Sample(g) ==
  /\ inst[g] # None
  /\ Len(scale[g]) < ScaleBacklog
  /\ scale' = [scale EXCEPT ![g] = Append(@, DesiredContainers(TasksInFlight))]
  /\ UNCHANGED <<row, inst, isActive, ignoring, scaling, cont, tasks, setup>>

(***************************************************************************)
(* HandleScalingEvent, by a handler x for the instance of its gateway.     *)
(***************************************************************************)

\* The monitor takes a scale event it ignores, or finds the lock taken.  The monitor of a
\* new instance waits here for its predecessor's last handler: it would find the lock taken.
SkipEvent(g) ==
  /\ inst[g] # None
  /\ h[g] = Idle
  /\ scale[g] # <<>>
  /\ g \in ignoring \/ lock # None
  /\ scale' = [scale EXCEPT ![g] = Tail(@)]
  /\ UNCHANGED <<row, inst, isActive, ignoring, scaling, cont, tasks, setup>>

Acquire(x, g, desired) ==
  /\ lock = None
  /\ lock' = x
  /\ h' = [h EXCEPT ![x] = [pc |-> "state", at |-> g, n |-> desired, victims |-> {},
                               of |-> "map"]]

TakeEvent(g) ==
  /\ inst[g] # None
  /\ h[g] = Idle
  /\ scale[g] # <<>>
  /\ g \notin ignoring
  /\ Acquire(g, g, Head(scale[g]))
  /\ scale' = [scale EXCEPT ![g] = Tail(@)]
  /\ UNCHANGED <<row, inst, isActive, ignoring, cont, tasks, setup>>

\* Warmup: the instance, and a scaling event for one container; an error if the lock is
\* taken.
Warmup(w, g) ==
  /\ h[w] = Idle
  /\ putCount < cfg.puts
  /\ putCount' = putCount + 1
  /\ GetOrCreate(g)
  /\ \/ Acquire(w, g, 1)
     \/ lock # None /\ UNCHANGED scaling
  /\ UNCHANGED <<row, cont, queue, puts, retry, lost, setup>>

\* Mutant of Unneeded: whether containers are wanted is not asked.
UnneededWhenEmpty(desired) == Alive = {}

\* Nothing wanted and nothing pending, running or stopping: the instance is cancelled.
Unneeded(desired) == desired = 0 /\ Alive = {}

\* What the handler decides from State(), the threshold and IsActive: cancel the instance,
\* start or stop containers, or nothing.
Decide(x, current) ==
  LET desired == IF failed >= Threshold \/ ~IsActive(x) THEN 0 ELSE h[x].n
      cancel == Unneeded(desired)
      pc == IF ~cancel /\ desired > current THEN "start"
            ELSE IF ~cancel /\ desired < current THEN "list" ELSE "release"
  IN /\ h[x].pc = "state"
     /\ inst' = [inst EXCEPT ![h[x].at] = IF cancel /\ h[x].of = "map" THEN "dead" ELSE @]
     /\ h' = [h EXCEPT ![x].pc = pc,
                       ![x].n = IF pc = "start" THEN desired - current
                                ELSE IF pc = "list" THEN current - desired ELSE 0]
     /\ UNCHANGED <<row, isActive, scale, ignoring, lock, cont, tasks, setup>>

\* Mutant of ReadState: containers that do not run yet are not counted.
ReadStateRunning(x) == Decide(x, Count("RUNNING"))

ReadState(x) == Decide(x, Count("RUNNING") + Count("PENDING"))

\* One round of startContainers: the keep-warm lock, then Scheduler.Run.
StartContainer(x, c) ==
  /\ h[x].pc = "start"
  /\ status[c] = None
  /\ \A y \in Handlers : c \notin h[y].victims
  /\ warm' = warm \cup {c}
  /\ status' = [status EXCEPT ![c] = "PENDING"]
  /\ h' = [h EXCEPT ![x].n = @ - 1, ![x].pc = IF h[x].n = 1 THEN "release" ELSE @]
  /\ UNCHANGED <<row, map, lock, runner, failed, noticed, tasks, setup>>

\* Scheduler.Run fails, here for the workspace's concurrency limit: the loop ends, and a
\* monitor ignores scale events for a while.
StartRefused(x) ==
  /\ h[x].pc = "start"
  /\ Fault("refused")
  /\ h' = [h EXCEPT ![x].pc = "release"]
  /\ ignoring' = IF x \in Gateways THEN ignoring \cup {x} ELSE ignoring
  /\ UNCHANGED <<row, inst, isActive, scale, lock, cont, tasks>>

StopIgnoring(g) ==
  /\ g \in ignoring
  /\ ignoring' = ignoring \ {g}
  /\ UNCHANGED <<row, inst, isActive, scale, scaling, cont, tasks, setup>>

\* stoppableContainers reads the containers and their keep-warm locks ...
ListContainers(x) ==
  /\ h[x].pc = "list"
  /\ h' = [h EXCEPT ![x].pc = "filter",
                    ![x].victims = {c \in Containers : /\ status[c] = "RUNNING"
                                                       /\ IsActive(x) => c \notin warm}]
  /\ UNCHANGED <<row, map, lock, cont, tasks, setup>>

\* ... then their processing locks and the running locks of their tasks.
FilterContainers(x) ==
  /\ h[x].pc = "filter"
  /\ h' = [h EXCEPT ![x].pc = "stop",
                    ![x].victims = {c \in @ : IsActive(x) => runner[c] = "free"}]
  /\ UNCHANGED <<row, map, lock, cont, tasks, setup>>

\* Scheduler.Stop: the status, if the container still has a state.
Stopped(C) == [c \in Containers |-> IF c \in C /\ status[c] # None THEN "STOPPING" ELSE status[c]]

\* One round of stopContainers, or its end.
StopContainer(x) ==
  /\ h[x].pc = "stop"
  /\ \/ /\ h[x].n = 0 \/ h[x].victims = {}
        /\ h' = [h EXCEPT ![x].pc = "release", ![x].victims = {}]
        /\ UNCHANGED status
     \/ /\ h[x].n > 0
        /\ \E c \in h[x].victims :
             /\ status' = Stopped({c})
             /\ h' = [h EXCEPT ![x].n = @ - 1, ![x].victims = @ \ {c}]
  /\ UNCHANGED <<row, map, lock, warm, runner, failed, noticed, tasks, setup>>

StopRefused(x) ==
  /\ h[x].pc = "stop" /\ h[x].n > 0 /\ h[x].victims # {}
  /\ Fault("refused")
  /\ h' = [h EXCEPT ![x].pc = "release", ![x].victims = {}]
  /\ UNCHANGED <<row, map, lock, cont, tasks>>

\* The deferred Release gives up the lock if it is still the handler's.
Release(x) ==
  /\ h[x].pc = "release"
  /\ lock' = IF lock = x THEN None ELSE lock
  /\ h' = [h EXCEPT ![x] = Idle]
  /\ UNCHANGED <<row, map, cont, tasks, setup>>

\* The lock's TTL of 10 s ends: its holder died or, with the fault, is slow.
LockExpires ==
  /\ lock # None
  /\ lock' = None
  /\ \/ h[lock] = Idle /\ UNCHANGED setup
     \/ h[lock] # Idle /\ Fault("lapse")
  /\ UNCHANGED <<row, map, h, cont, tasks>>

(***************************************************************************)
(* Containers and their runners, and the tasks.  How a container is        *)
(* scheduled, run and stopped is the subject of ContainerLifecycle, how a  *)
(* task is claimed and retried that of TaskDispatch.                       *)
(***************************************************************************)

ContainerStarts(c) ==
  /\ status[c] = "PENDING"
  /\ status' = [status EXCEPT ![c] = "RUNNING"]
  /\ UNCHANGED <<row, map, scaling, warm, runner, failed, noticed, tasks, setup>>

\* The container's state and keys are gone, and so is its hold on a task.  Its pop is cut
\* off before the claim or after it.
Remove(c) ==
  /\ status' = [status EXCEPT ![c] = None]
  /\ warm' = warm \ {c}
  /\ runner' = [runner EXCEPT ![c] = "free"]
  /\ \/ /\ runner[c] \in Processing
        /\ retry' = retry + 1
        /\ UNCHANGED lost
     \/ /\ runner[c] = "popped"
        /\ lost' = lost + 1
        /\ UNCHANGED retry
     \/ /\ runner[c] \notin Processing
        /\ UNCHANGED <<retry, lost>>
  /\ noticed' = cfg.up
  /\ UNCHANGED <<row, map, scaling, queue, puts, putCount>>

ContainerGone(c) ==
  /\ status[c] = "STOPPING"
  /\ Remove(c)
  /\ UNCHANGED <<failed, setup>>

ContainerFails(c) ==
  /\ status[c] \in {"PENDING", "RUNNING"}
  /\ Fault("fail")
  /\ Remove(c)
  /\ failed' = failed + 1

\* The runner's pop failed with its gateway: the worker process exits with an error, and
\* its container with it.
RunnerExits(c) ==
  /\ runner[c] = "broken"
  /\ Remove(c)
  /\ failed' = failed + 1
  /\ UNCHANGED setup

ExitCodeExpires ==
  /\ failed > 0
  /\ failed' = failed - 1
  /\ UNCHANGED <<row, map, scaling, status, warm, runner, noticed, tasks, setup>>

Revive(c) ==
  /\ status[c] = "STOPPING"
  /\ Fault("revive")
  /\ status' = [status EXCEPT ![c] = "RUNNING"]
  /\ UNCHANGED <<row, map, scaling, warm, runner, failed, noticed, tasks>>

KeepWarmExpires(c) ==
  /\ c \in warm
  /\ warm' = warm \ {c}
  /\ UNCHANGED <<row, map, scaling, status, runner, failed, noticed, tasks, setup>>

\* Mutant of TaskQueuePop: only the gateway's queue client is used.
TaskQueuePopNoInstance(c, g) ==
  /\ status[c] \in {"RUNNING", "STOPPING"}
  /\ runner[c] = "free"
  /\ queue > 0
  /\ runner' = [runner EXCEPT ![c] = "taking"]
  /\ UNCHANGED <<row, map, scaling, status, warm, failed, noticed, tasks, setup>>

\* A runner without a task polls a gateway, which gets or creates the instance; nothing
\* more without work, else the processing lock first ...
TaskQueuePop(c, g) ==
  /\ status[c] \in {"RUNNING", "STOPPING"}
  /\ runner[c] = "free"
  /\ GetOrCreate(g)
  /\ runner' = [runner EXCEPT ![c] = IF queue > 0 THEN "taking" ELSE @]
  /\ UNCHANGED <<row, scaling, status, warm, failed, noticed, tasks, setup>>

\* Mutant of PopTask: another runner's pop between the length and LPOP is not expected.
PopTaskUnchecked(c) ==
  /\ runner[c] = "taking"
  /\ runner' = [runner EXCEPT ![c] = "popped"]
  /\ queue' = queue - 1
  /\ UNCHANGED <<row, map, scaling, status, warm, failed, noticed, puts, putCount, retry, lost, setup>>

\* ... then LPOP, which may find the list empty ...
PopTask(c) ==
  /\ runner[c] = "taking"
  /\ runner' = [runner EXCEPT ![c] = IF queue > 0 THEN "popped" ELSE "free"]
  /\ queue' = IF queue > 0 THEN queue - 1 ELSE 0
  /\ UNCHANGED <<row, map, scaling, status, warm, failed, noticed, puts, putCount, retry, lost, setup>>

\* ... and the running lock and the claim.
ClaimTask(c) ==
  /\ runner[c] = "popped"
  /\ runner' = [runner EXCEPT ![c] = "running"]
  /\ UNCHANGED <<row, map, scaling, status, warm, failed, noticed, tasks, setup>>

\* TaskQueueComplete: keep warm, and release the running lock.
CompleteTask(c) ==
  /\ runner[c] = "running"
  /\ warm' = warm \cup {c}
  /\ runner' = [runner EXCEPT ![c] = "free"]
  /\ UNCHANGED <<row, map, scaling, status, failed, noticed, tasks, setup>>

\* put gets the instance and indexes the task; Execute gets it again and pushes the task.
PutIndex(g) ==
  /\ ~puts[g]
  /\ putCount < cfg.puts
  /\ putCount' = putCount + 1
  /\ puts' = [puts EXCEPT ![g] = TRUE]
  /\ GetOrCreate(g)
  /\ UNCHANGED <<row, scaling, cont, queue, retry, lost, setup>>

PutPush(g) ==
  /\ puts[g]
  /\ puts' = [puts EXCEPT ![g] = FALSE]
  /\ queue' = queue + 1
  /\ GetOrCreate(g)
  /\ UNCHANGED <<row, scaling, cont, putCount, retry, lost, setup>>

RetryTask(g) ==
  /\ retry > 0
  /\ retry' = retry - 1
  /\ queue' = queue + 1
  /\ GetOrCreate(g)
  /\ UNCHANGED <<row, scaling, cont, puts, putCount, lost, setup>>

\* The dispatcher ends a task that nobody has claimed when its policy expires.
TaskExpires ==
  /\ lost > 0
  /\ lost' = lost - 1
  /\ UNCHANGED <<row, map, scaling, cont, queue, puts, putCount, retry, setup>>

(***************************************************************************)
(* The deployment, and gateways that crash.                                *)
(***************************************************************************)

\* stopDeployments: stop what is there, then the row, then the reload event.
StopContainers ==
  /\ "stop" \in cfg.faults /\ api = "idle"
  /\ api' = "stopped"
  /\ status' = Stopped(Containers)
  /\ UNCHANGED <<active, reload, map, scaling, warm, runner, failed, noticed, tasks, setup>>

DisableDeployment ==
  /\ api = "stopped"
  /\ api' = "disabled"
  /\ active' = FALSE
  /\ UNCHANGED <<reload, map, scaling, cont, tasks, setup>>

\* StartDeployment: the row, then the reload event.
StartDeployment ==
  /\ "restart" \in cfg.faults /\ api = "off"
  /\ api' = "enabled"
  /\ active' = TRUE
  /\ UNCHANGED <<reload, map, scaling, cont, tasks, setup>>

SendReload ==
  /\ api \in {"disabled", "enabled"}
  /\ api' = IF api = "disabled" THEN "off" ELSE "on"
  /\ reload' = cfg.up
  /\ UNCHANGED <<active, map, scaling, cont, tasks, setup>>

\* A crash loses the gateway's instances, its handlers, the put and the pops it was at, and
\* the events sent to it.  The tasks of these calls are in nobody's hands, and the runners
\* of these pops exit.
Crash(g) ==
  /\ Fault("crash")
  /\ inst' = [inst EXCEPT ![g] = Loaded]
  /\ isActive' = [isActive EXCEPT ![g] = active]
  /\ scale' = [scale EXCEPT ![g] = <<>>]
  /\ ignoring' = ignoring \ {g}
  /\ h' = [x \in Handlers |-> IF x = g \/ h[x].at = g THEN Idle ELSE h[x]]
  /\ reload' = reload \ {g}
  /\ noticed' = noticed \ {g}
  /\ puts' = [puts EXCEPT ![g] = FALSE]
  /\ \E pops \in SUBSET {c \in Containers : /\ status[c] \in {"RUNNING", "STOPPING"}
                                           /\ runner[c] \in {"free", "taking", "popped"}} :
       /\ runner' = [c \in Containers |-> IF c \in pops THEN "broken" ELSE runner[c]]
       /\ lost' = lost + Cardinality({c \in pops : runner[c] = "popped"})
                       + (IF puts[g] THEN 1 ELSE 0)
  /\ UNCHANGED <<active, api, lock, status, warm, failed, queue, putCount, retry>>

Handle(x) ==
  \/ ReadState(x)
  \/ \E c \in Containers : StartContainer(x, c)
  \/ ListContainers(x)
  \/ FilterContainers(x)
  \/ StopContainer(x)
  \/ Release(x)

ContainerStep(c) ==
  \/ ContainerStarts(c)
  \/ ContainerGone(c)
  \/ KeepWarmExpires(c)
  \/ \E g \in cfg.up : TaskQueuePop(c, g)
  \/ PopTask(c)
  \/ ClaimTask(c)
  \/ CompleteTask(c)
  \/ RunnerExits(c)

GatewayStep(g) ==
  \/ Forget(g)
  \/ Reload(g)
  \/ Sample(g)
  \/ SkipEvent(g)
  \/ StopIgnoring(g)
  \/ ContainerEvent(g)
  \/ PutPush(g)

Next ==
  \/ \E x \in Handlers : Handle(x) \/ StartRefused(x) \/ StopRefused(x)
  \/ \E c \in Containers : ContainerStep(c) \/ ContainerFails(c) \/ Revive(c)
  \/ \E g \in cfg.up :
       GatewayStep(g) \/ TakeEvent(g) \/ ReloadLost(g) \/ PutIndex(g) \/ RetryTask(g) \/ Crash(g)
  \/ \E w \in Warmups, g \in cfg.up : Warmup(w, g)
  \/ LockExpires
  \/ ExitCodeExpires
  \/ TaskExpires
  \/ StopContainers
  \/ DisableDeployment
  \/ StartDeployment
  \/ SendReload

Spec == Init /\ [][Next]_vars

\* Goroutines run on, containers start, work and go, runners poll, TTLs end; events of
\* containers may never arrive.  Acquiring the lock needs
\* strong fairness: monitors try every second and hold it for a few calls, so none finds
\* it taken for ever.
FairSpec ==
  /\ Spec
  /\ \A x \in Handlers : WF_vars(Handle(x))
  /\ \A c \in Containers : /\ WF_vars(ContainerStarts(c))
                           /\ WF_vars(ContainerGone(c))
                           /\ WF_vars(KeepWarmExpires(c))
                           /\ WF_vars(\/ \E g \in cfg.up : TaskQueuePop(c, g)
                                      \/ PopTask(c) \/ ClaimTask(c) \/ CompleteTask(c)
                                      \/ RunnerExits(c))
  /\ \A g \in Gateways : /\ WF_vars(Forget(g))
                         /\ WF_vars(Reload(g))
                         /\ WF_vars(Sample(g))
                         /\ WF_vars(StopIgnoring(g))
                         /\ WF_vars(PutPush(g))
                         /\ SF_vars(TakeEvent(g))
  /\ WF_vars(\E g \in cfg.up : RetryTask(g))
  /\ WF_vars(LockExpires /\ h[lock] = Idle)
  /\ WF_vars(ExitCodeExpires)
  /\ WF_vars(TaskExpires)
  /\ WF_vars(DisableDeployment)
  /\ WF_vars(SendReload)

TypeOK ==
  /\ active \in BOOLEAN
  /\ {reload, noticed, ignoring} \subseteq SUBSET Gateways
  /\ inst \in [Gateways -> {None, "live", "dead"}]
  /\ isActive \in [Gateways -> BOOLEAN]
  /\ scale \in [Gateways -> Seq(Nat)]
  /\ h \in [Handlers -> [pc : {"idle", "state", "start", "list", "filter", "stop", "release"},
                         at : Gateways \cup {None}, n : Nat, victims : SUBSET Containers,
                         of : {"map", "active", "inactive"}]]
  /\ lock \in Handlers \cup {None}
  /\ status \in [Containers -> Statuses \cup {None}]
  /\ warm \subseteq Containers
  /\ runner \in [Containers -> Runner]
  /\ {queue, putCount, retry, lost, failed, faultCount} \subseteq Nat
  /\ puts \in [Gateways -> BOOLEAN]

\* The maximum, or a larger minimum.  A warm-up asks for one container even if that is zero.
Limit == LET most == IF cfg.max > cfg.min THEN cfg.max ELSE cfg.min
         IN IF most > 0 THEN most ELSE 1

\* However many gateways scale the stub, and with warm-ups in between, it never has more
\* containers pending or running than its limit: what State() counted stays true until the
\* lock is released.  Not promised when the lock expires under its holder or a worker
\* overwrites STOPPING.
WithinMax ==
  cfg.faults \cap {"lapse", "revive"} = {} => Count("PENDING") + Count("RUNNING") <= Limit

\* A deployment that stays stopped loses its containers for good, those included that a
\* gateway started while stopDeployments was listing: every gateway learns of the row
\* from the reload event, from a new instance's Sync or from its own restart.
Drained ==
  <>[](active \/ Alive = {} \/ "lost" \in cfg.faults)

\* Without a minimum and without tasks the stub scales to zero: no container is left
\* behind by a crashed gateway, a refused stop, a late status or a cancelled instance.
\* Events of the container may never arrive; its polls bring an instance back.
ScaledToZero ==
  <>[](cfg.min = 0 /\ TasksInFlight = 0 => Alive = {})

\* Instances may be cancelled while there are tasks.
MayBeCancelled == cfg.min = 0 \/ cfg.faults \cap {"stop", "fail", "crash"} # {}

\* No task stays behind that somebody looks after: every task is run, or expires because a
\* crash or a stop caught it between a pop and its claim, or waits with no instance on any
\* gateway, which takes a stub without a minimum, failed containers or a stop.  Containers
\* that are stopped while their runner pops do not keep a task from being run.
Served ==
  <>[](TasksInFlight = 0 \/ (MayBeCancelled /\ \A g \in cfg.up : inst[g] = None))

=============================================================================
