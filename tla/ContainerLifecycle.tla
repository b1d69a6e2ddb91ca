------------------------- MODULE ContainerLifecycle -------------------------
(***************************************************************************)
(* The life of a container: the request on its way through the scheduler,  *)
(* the state hash the scheduler and the worker keep for it in Redis, and   *)
(* the worker that starts, watches, stops and clears it.                   *)
(*                                                                         *)
(* Operations of the container repository run under the container's Redis  *)
(* lock and are atomic; reads and the writes based on them are not.        *)
(* Capacity is the subject of WorkerCapacity: here an attempt to schedule  *)
(* may succeed or fail.  All containers meet on one worker, so that they   *)
(* share its containerLock and its request loop.  Of further containers on *)
(* the worker only what they can do to these is modelled: they may leave   *)
(* the lock taken.  Image builds are left out.                             *)
(***************************************************************************)
EXTENDS Naturals, FiniteSets

CONSTANTS
  Containers,     \* container ids, fresh for every request
  MaxRetryCount,  \* maxScheduleRetryCount
  MountMayFail,   \* TRUE if some workspace has storage of its own
  TtlRunsOut,     \* FALSE if everything happens well within the TTLs
  Idle            \* the worker's loop has no request in hand

ASSUME ConstantsAssumption ==
  /\ Idle \notin Containers
  /\ MaxRetryCount \in Nat \ {0}
  /\ MountMayFail \in BOOLEAN
  /\ TtlRunsOut \in BOOLEAN

VARIABLES
  place,    \* place[c]: where copies of the request are, see Places
  retries,  \* retries[c]: RetryCount of the request
  late,     \* late[c]: maxScheduleRetryDuration has passed
  failed,   \* failed[c]: the request status was set to failed
  stopped,  \* stopped[c]: Stop was called
  state,    \* state[c]: the container's state hash
  events,   \* events[c]: stop events on the event bus
  worker,   \* "up", "cancelled" (shutting down) or "down"
  lock,     \* the worker's containerLock, see Holders
  main,     \* the request in the hands of the worker's loop
  inst,     \* inst[c]: the worker's container instance, see Phases
  clears,   \* clears[c]: clearContainer calls waiting for the lock
  completed,\* completed[c]: times the request was put on completedRequests
  starter,  \* starter[c]: the goroutine that sets the status to running
  ticker,   \* ticker[c]: the goroutine updateContainerStatus
  stopChan, \* stopChan[c]: what stopContainerChan holds for c
  reaper    \* reaper[c]: a goroutine waits out the termination grace period

schedulerVars == <<place, retries, late, failed>>
loopVars == <<worker, lock, main>>
watchVars == <<starter, ticker, stopChan, reaper>>
vars == <<place, retries, late, failed, stopped, state, events, worker, lock,
          main, inst, clears, completed, starter, ticker, stopChan, reaper>>

(***************************************************************************)
(* new        Run was not called yet                                       *)
(* admitted   the state is written, the first Push is outstanding          *)
(* backlog    in the sorted set                                            *)
(* inhand     popped by a scheduler                                        *)
(* adding     in the goroutine that adds a worker                          *)
(* assigning  a worker is chosen, the state's GPU is to be written         *)
(* charging   ScheduleContainerRequest is outstanding                      *)
(* backoff    in the goroutine that sleeps before the next Push            *)
(* giveup     to be failed: the state is to be deleted                     *)
(* failing    the request status is to be written                          *)
(* queued     in the worker's list or stream                               *)
(***************************************************************************)
Places == {"new", "admitted", "backlog", "inhand", "adding", "assigning",
           "charging", "backoff", "giveup", "failing", "queued"}

(***************************************************************************)
(* none       never started here                                           *)
(* starting   in RunContainer                                              *)
(* spawning   in spawn, before the runtime runs it                         *)
(* running    the runtime runs it                                          *)
(* exited     it ended, or could not be started                            *)
(* finalized  clearContainer was called                                    *)
(* cleared    in the grace period before it is deleted                     *)
(* deleting   the instance is deleted, the state is not yet                *)
(* gone       over                                                         *)
(***************************************************************************)
Phases == {"none", "starting", "spawning", "running", "exited", "finalized",
           "cleared", "deleting", "gone"}

Status == {"", "PENDING", "RUNNING", "STOPPING"}

Signals == {"term", "kill"}

\* "main" and "starter": the request loop or a status goroutine is inside its
\* critical section; "leaked": nobody will ever unlock.
Holders == {"free", "main", "starter", "leaked"}

\* id: the hash has its container_id, without which no listing shows it;
\* ttl: the key expires.
States == [exists : BOOLEAN, id : BOOLEAN, status : Status, ttl : BOOLEAN]

Missing == [exists |-> FALSE, id |-> FALSE, status |-> "", ttl |-> FALSE]

Instance(c) == inst[c] \in {"starting", "spawning", "running", "exited",
                            "finalized", "cleared"}

Init ==
  /\ place = [c \in Containers |-> {"new"}]
  /\ retries = [c \in Containers |-> 0]
  /\ late = [c \in Containers |-> FALSE]
  /\ failed = [c \in Containers |-> FALSE]
  /\ stopped = [c \in Containers |-> FALSE]
  /\ state = [c \in Containers |-> Missing]
  /\ events = [c \in Containers |-> {}]
  /\ worker = "up"
  /\ lock = "free"
  /\ main = Idle
  /\ inst = [c \in Containers |-> "none"]
  /\ clears = [c \in Containers |-> 0]
  /\ completed = [c \in Containers |-> 0]
  /\ starter = [c \in Containers |-> "off"]
  /\ ticker = [c \in Containers |-> "off"]
  /\ stopChan = [c \in Containers |-> {}]
  /\ reaper = [c \in Containers |-> FALSE]

-----------------------------------------------------------------------------
(* The container repository                                                *)

SetContainerState ==
  [exists |-> TRUE, id |-> TRUE, status |-> "PENDING", ttl |-> TRUE]

\* Mutant: a missing hash is written with its id.
UpdateContainerStatusWithId(st, status) ==
  [exists |-> TRUE, id |-> TRUE, status |-> status, ttl |-> TRUE]

\* Mutant: the TTL is not set again.
UpdateContainerStatusNoTtl(st, status) ==
  [st EXCEPT !.exists = TRUE, !.status = status, !.ttl = @ /\ st.status = "PENDING"]

\* Read, change the status, write back and set the TTL: of a missing hash the
\* zero value is written back.
UpdateContainerStatus(st, status) ==
  [st EXCEPT !.exists = TRUE, !.status = status, !.ttl = TRUE]

\* Mutant: a container with a worker counts as running.
UpdateAssignedContainerGPURuns(st) == [st EXCEPT !.exists = TRUE, !.status = "RUNNING"]

\* The same for the GPU, but the TTL is not touched.
UpdateAssignedContainerGPU(st) == [st EXCEPT !.exists = TRUE]

\* The TTL runs out.  Before a worker has the request the TTL is that of a pending
\* container, which is no shorter than maxScheduleRetryDuration; later the worker
\* renews it, unless its calls fail.
Expire(c) ==
  /\ TtlRunsOut
  /\ state[c].ttl
  /\ inst[c] = "none" => late[c]
  /\ state' = [state EXCEPT ![c] = Missing]
  /\ UNCHANGED <<schedulerVars, stopped, events, loopVars, inst, clears,
                 completed, watchVars>>

-----------------------------------------------------------------------------
(* The scheduler                                                           *)

Move(c, from, to) == place' = [place EXCEPT ![c] = (@ \ {from}) \cup to]

workerVars == <<events, loopVars, inst, clears, completed, watchVars>>

Run(c) ==
  /\ "new" \in place[c]
  /\ Move(c, "new", {"admitted"})
  /\ state' = [state EXCEPT ![c] = SetContainerState]
  /\ UNCHANGED <<retries, late, failed, stopped, workerVars>>

\* Over the workspace's concurrency limit, or a repository error.
RunRejected(c) ==
  /\ "new" \in place[c]
  /\ Move(c, "new", {})
  /\ UNCHANGED <<retries, late, failed, stopped, state, workerVars>>

\* addRequestToBacklog, for a request with RetryCount 0.
Push(c) ==
  /\ "admitted" \in place[c]
  /\ Move(c, "admitted", {"backlog"})
  /\ retries' = [retries EXCEPT ![c] = @ + 1]
  /\ UNCHANGED <<late, failed, stopped, state, workerVars>>

Pop(c) ==
  /\ "backlog" \in place[c]
  /\ Move(c, "backlog", {"inhand"})
  /\ UNCHANGED <<retries, late, failed, stopped, state, workerVars>>

\* A worker fits, one is to be added, or no pool controller will have the
\* request, which is then dropped.
SelectWorker(c) ==
  /\ "inhand" \in place[c]
  /\ \E to \in {{"assigning"}, {"adding"}, {}} : Move(c, "inhand", to)
  /\ UNCHANGED <<retries, late, failed, stopped, state, workerVars>>

WorkerAdded(c) ==
  /\ "adding" \in place[c]
  /\ Move(c, "adding", {"assigning"})
  /\ UNCHANGED <<retries, late, failed, stopped, state, workerVars>>

\* scheduleRequest, first half.
AssignGpu(c) ==
  /\ "assigning" \in place[c]
  /\ Move(c, "assigning", {"charging"})
  /\ state' = [state EXCEPT ![c] = UpdateAssignedContainerGPU(@)]
  /\ UNCHANGED <<retries, late, failed, stopped, workerVars>>

\* scheduleRequest, second half.
ScheduleContainerRequest(c) ==
  /\ "charging" \in place[c]
  /\ Move(c, "charging", {"queued"})
  /\ UNCHANGED <<retries, late, failed, stopped, state, workerVars>>

\* Mutant: off by one in the retry limit.
AddRequestToBacklogOnceMore(c, from) ==
  Move(c, from, IF retries[c] <= MaxRetryCount /\ ~late[c] THEN {"backoff"}
                                                           ELSE {"giveup"})

\* Mutant: the goroutine that adds a worker goes on after it gave the request back.
AddRequestToBacklogGoesOn(c, from) ==
  Move(c, from, IF retries[c] < MaxRetryCount /\ ~late[c]
                  THEN {"backoff"} \cup ({from} \ {"assigning", "charging"})
                  ELSE {"giveup"})

\* addRequestToBacklog, for a request that was tried before.
AddRequestToBacklog(c, from) ==
  Move(c, from, IF retries[c] < MaxRetryCount /\ ~late[c] THEN {"backoff"}
                                                          ELSE {"giveup"})

\* No worker could be added, or scheduleRequest returned an error.
AttemptFails(c) ==
  /\ \E from \in {"adding", "assigning", "charging"} :
       from \in place[c] /\ AddRequestToBacklog(c, from)
  /\ UNCHANGED <<retries, late, failed, stopped, state, workerVars>>

\* Mutant: the retry is not counted.
BackoffUncounted(c) ==
  /\ "backoff" \in place[c]
  /\ Move(c, "backoff", {"backlog"})
  /\ UNCHANGED <<retries, late, failed, stopped, state, workerVars>>

Backoff(c) ==
  /\ "backoff" \in place[c]
  /\ Move(c, "backoff", {"backlog"})
  /\ retries' = [retries EXCEPT ![c] = @ + 1]
  /\ UNCHANGED <<late, failed, stopped, state, workerVars>>

\* The error of DeleteContainerState is ignored.
GiveUp(c) ==
  /\ "giveup" \in place[c]
  /\ Move(c, "giveup", {"failing"})
  /\ \E st \in {Missing, state[c]} : state' = [state EXCEPT ![c] = st]
  /\ UNCHANGED <<retries, late, failed, stopped, workerVars>>

SetContainerRequestStatus(c) ==
  /\ "failing" \in place[c]
  /\ Move(c, "failing", {})
  /\ failed' = [failed EXCEPT ![c] = TRUE]
  /\ UNCHANGED <<retries, late, stopped, state, workerVars>>

\* A scheduler dies with the request, or a Push fails: its error is returned to
\* the caller of Run, and ignored after a backoff.
CrashScheduler(c) ==
  /\ \E from \in place[c] \ {"new", "backlog", "queued"} : Move(c, from, {})
  /\ UNCHANGED <<retries, late, failed, stopped, state, workerVars>>

\* maxScheduleRetryDuration passes.
Age(c) ==
  /\ "new" \notin place[c]
  /\ ~late[c]
  /\ late' = [late EXCEPT ![c] = TRUE]
  /\ UNCHANGED <<place, retries, failed, stopped, state, workerVars>>

\* The status is written first; the event is in flight from then on.  Bound: every
\* container is stopped once.
Stop(c, signal) ==
  /\ "new" \notin place[c]
  /\ ~stopped[c]
  /\ stopped' = [stopped EXCEPT ![c] = TRUE]
  /\ state' = [state EXCEPT ![c] = UpdateContainerStatus(@, "STOPPING")]
  /\ events' = [events EXCEPT ![c] = @ \cup {signal}]
  /\ UNCHANGED <<schedulerVars, loopVars, inst, clears, completed, watchVars>>

\* Events are published to whoever listens: one may reach no worker.
LoseEvent(c) ==
  /\ events[c] # {}
  /\ events' = [events EXCEPT ![c] = {}]
  /\ UNCHANGED <<schedulerVars, stopped, state, loopVars, inst, clears,
                 completed, watchVars>>

-----------------------------------------------------------------------------
(* The worker's request loop                                               *)

clientVars == <<retries, late, failed, stopped>>

Free == lock = "free"

Receive(c) ==
  /\ worker = "up"
  /\ main = Idle
  /\ "queued" \in place[c]
  /\ Move(c, "queued", {})
  /\ main' = c
  /\ UNCHANGED <<clientVars, state, events, worker, lock, inst, clears,
                 completed, watchVars>>

\* The stream breaks between the gateway's LPOP and the worker.
LoseRequest(c) ==
  /\ "queued" \in place[c]
  /\ Move(c, "queued", {})
  /\ UNCHANGED <<clientVars, state, workerVars>>

\* handleContainerRequest up to the call of RunContainer, which registers the
\* instance.  It returns from a failed mount without unlocking.
HandleContainerRequest(c) ==
  /\ main = c
  /\ Free
  /\ inst[c] = "none"
  /\ \/ /\ lock' = "main"
        /\ inst' = [inst EXCEPT ![c] = "starting"]
        /\ UNCHANGED main
     \/ /\ MountMayFail
        /\ lock' = "leaked"
        /\ main' = Idle
        /\ UNCHANGED inst
  /\ UNCHANGED <<schedulerVars, stopped, state, events, worker, clears,
                 completed, watchVars>>

\* The same happens with the request of a container that is not followed here.
NeighbourMountFails ==
  /\ MountMayFail
  /\ worker = "up"
  /\ main = Idle
  /\ Free
  /\ lock' = "leaked"
  /\ UNCHANGED <<schedulerVars, stopped, state, events, worker, main, inst, clears,
                 completed, watchVars>>

\* Mutant: an error is returned after the container was spawned.
RunContainerErrsAfterSpawn(c) ==
  /\ main = c
  /\ inst[c] = "starting"
  /\ inst' = [inst EXCEPT ![c] = "spawning"]
  /\ clears' = [clears EXCEPT ![c] = @ + 1]
  /\ lock' = "free"
  /\ starter' = [starter EXCEPT ![c] = "wait"]
  /\ ticker' = [ticker EXCEPT ![c] = "wait"]
  /\ UNCHANGED <<schedulerVars, stopped, state, events, worker, main,
                 completed, stopChan, reaper>>

\* RunContainer succeeds: the container is spawned, and with it the goroutines
\* that watch it.
RunContainer(c) ==
  /\ main = c
  /\ inst[c] = "starting"
  /\ inst' = [inst EXCEPT ![c] = "spawning"]
  /\ lock' = "free"
  /\ main' = Idle
  /\ starter' = [starter EXCEPT ![c] = "wait"]
  /\ ticker' = [ticker EXCEPT ![c] = "wait"]
  /\ UNCHANGED <<schedulerVars, stopped, state, events, worker, clears,
                 completed, stopChan, reaper>>

\* RunContainer fails: the loop itself clears the container.
RunContainerFails(c) ==
  /\ main = c
  /\ inst[c] = "starting"
  /\ inst' = [inst EXCEPT ![c] = "finalized"]
  /\ clears' = [clears EXCEPT ![c] = @ + 1]
  /\ lock' = "free"
  /\ UNCHANGED <<schedulerVars, stopped, state, events, worker, main,
                 completed, watchVars>>

-----------------------------------------------------------------------------
(* The container                                                           *)

Advance(c, from, to) ==
  /\ inst[c] \in from
  /\ inst' = [inst EXCEPT ![c] = to]

\* runContainer hands the container to the runtime.
StartRuntime(c) ==
  /\ Advance(c, {"spawning"}, "running")
  /\ UNCHANGED <<schedulerVars, stopped, state, events, loopVars, clears,
                 completed, watchVars>>

\* Setup fails, or the container ends by itself.
Exit(c) ==
  /\ Advance(c, {"spawning", "running"}, "exited")
  /\ UNCHANGED <<schedulerVars, stopped, state, events, loopVars, clears,
                 completed, watchVars>>

FinalizeContainer(c) ==
  /\ Advance(c, {"exited"}, "finalized")
  /\ clears' = [clears EXCEPT ![c] = @ + 1]
  /\ UNCHANGED <<schedulerVars, stopped, state, events, loopVars, completed,
                 watchVars>>

\* clearContainer under the lock; its goroutine then waits before deleteContainer.
ClearContainer(c) ==
  /\ clears[c] > 0
  /\ Free
  /\ clears' = [clears EXCEPT ![c] = @ - 1]
  /\ completed' = [completed EXCEPT ![c] = @ + 1]
  /\ main' = IF main = c THEN Idle ELSE main
  /\ inst' = [inst EXCEPT ![c] = IF @ = "finalized" THEN "cleared" ELSE @]
  /\ UNCHANGED <<schedulerVars, stopped, state, events, worker, lock, watchVars>>

DeleteInstance(c) ==
  /\ Advance(c, {"cleared"}, "deleting")
  /\ UNCHANGED <<schedulerVars, stopped, state, events, loopVars, clears,
                 completed, watchVars>>

\* The error of DeleteContainerState is only logged.
DeleteContainerState(c) ==
  /\ Advance(c, {"deleting"}, "gone")
  /\ \E st \in {Missing, state[c]} : state' = [state EXCEPT ![c] = st]
  /\ UNCHANGED <<schedulerVars, stopped, events, loopVars, clears, completed,
                 watchVars>>

-----------------------------------------------------------------------------
(* Watching and stopping                                                   *)

\* SIGKILL ends a container the runtime runs; the error for one it does not run
\* is ignored.  SIGTERM may or may not end it, as Exit does.
StopContainer(c, signal) ==
  inst' = IF signal = "kill" /\ inst[c] = "running"
            THEN [inst EXCEPT ![c] = "exited"]
            ELSE inst

\* The goroutine spawn starts takes the lock and reads the state; when the read
\* fails for another reason than a missing state it goes on.
StarterReads(c) ==
  /\ starter[c] = "wait"
  /\ Free
  /\ \/ /\ ~Instance(c) \/ ~state[c].exists
        /\ starter' = [starter EXCEPT ![c] = "off"]
        /\ UNCHANGED <<inst, lock>>
     \/ /\ Instance(c)
        /\ state[c].status = "STOPPING"
        /\ starter' = [starter EXCEPT ![c] = "off"]
        /\ StopContainer(c, "kill")
        /\ UNCHANGED lock
     \/ /\ Instance(c)
        /\ state[c].status # "STOPPING"
        /\ state[c].exists
        /\ starter' = [starter EXCEPT ![c] = "write"]
        /\ lock' = "starter"
        /\ UNCHANGED inst
  /\ UNCHANGED <<schedulerVars, stopped, state, events, worker, main, clears,
                 completed, ticker, stopChan, reaper>>

StarterReadFails(c) ==
  /\ starter[c] = "wait"
  /\ Free
  /\ Instance(c)
  /\ starter' = [starter EXCEPT ![c] = "write"]
  /\ lock' = "starter"
  /\ UNCHANGED <<schedulerVars, stopped, state, events, worker, main, inst,
                 clears, completed, ticker, stopChan, reaper>>

\* An error of the update is only logged.
StarterWrites(c) ==
  /\ starter[c] = "write"
  /\ \E st \in {UpdateContainerStatus(state[c], "RUNNING"), state[c]} :
       state' = [state EXCEPT ![c] = st]
  /\ starter' = [starter EXCEPT ![c] = "off"]
  /\ lock' = "free"
  /\ UNCHANGED <<schedulerVars, stopped, events, worker, main, inst, clears,
                 completed, ticker, stopChan, reaper>>

\* A tick of updateContainerStatus: is the instance still there?
TickerChecks(c) ==
  /\ ticker[c] = "wait"
  /\ Free
  /\ ticker' = [ticker EXCEPT ![c] = IF Instance(c) THEN "checked" ELSE "off"]
  /\ UNCHANGED <<schedulerVars, stopped, state, events, loopVars, inst, clears,
                 completed, starter, stopChan, reaper>>

\* The worker's context is done.
TickerReturns(c) ==
  /\ ticker[c] = "wait"
  /\ worker = "cancelled"
  /\ ticker' = [ticker EXCEPT ![c] = "off"]
  /\ UNCHANGED <<schedulerVars, stopped, state, events, loopVars, inst, clears,
                 completed, starter, stopChan, reaper>>

\* A container without state is an orphan and is killed; a pending status is
\* forced to running.
TickerReads(c) ==
  /\ ticker[c] = "checked"
  /\ IF state[c].exists
       THEN /\ ticker' = [ticker EXCEPT ![c] =
                            IF state[c].status = "PENDING" THEN "RUNNING"
                                                           ELSE state[c].status]
            /\ UNCHANGED stopChan
       ELSE /\ ticker' = [ticker EXCEPT ![c] = "off"]
            /\ stopChan' = [stopChan EXCEPT ![c] = @ \cup {"kill"}]
  /\ UNCHANGED <<schedulerVars, stopped, state, events, loopVars, inst, clears,
                 completed, starter, reaper>>

TickerReadFails(c) ==
  /\ ticker[c] = "checked"
  /\ ticker' = [ticker EXCEPT ![c] = "wait"]
  /\ UNCHANGED <<schedulerVars, stopped, state, events, loopVars, inst, clears,
                 completed, starter, stopChan, reaper>>

\* Mutant: nobody waits out the grace period.
TickerWritesNoReaper(c) ==
  /\ ticker[c] \in Status
  /\ \E st \in {UpdateContainerStatus(state[c], ticker[c]), state[c]} :
       /\ ticker[c] = "" => st = state[c]
       /\ state' = [state EXCEPT ![c] = st]
  /\ ticker' = [ticker EXCEPT ![c] = "wait"]
  /\ UNCHANGED <<schedulerVars, stopped, events, loopVars, inst, clears,
                 completed, starter, stopChan, reaper>>

\* The status read is written back, with a new TTL.  The empty status is invalid,
\* and other errors are only logged.  One that should be stopping is killed after
\* the grace period.
TickerWrites(c) ==
  /\ ticker[c] \in Status
  /\ \E st \in {UpdateContainerStatus(state[c], ticker[c]), state[c]} :
       /\ ticker[c] = "" => st = state[c]
       /\ state' = [state EXCEPT ![c] = st]
  /\ reaper' = [reaper EXCEPT ![c] = @ \/ ticker[c] = "STOPPING"]
  /\ ticker' = [ticker EXCEPT ![c] = "wait"]
  /\ UNCHANGED <<schedulerVars, stopped, events, loopVars, inst, clears,
                 completed, starter, stopChan>>

Reap(c) ==
  /\ reaper[c]
  /\ reaper' = [reaper EXCEPT ![c] = FALSE]
  /\ stopChan' = [stopChan EXCEPT ![c] = IF Instance(c) THEN @ \cup {"kill"} ELSE @]
  /\ UNCHANGED <<schedulerVars, stopped, state, events, loopVars, inst, clears,
                 completed, starter, ticker>>

\* An event for a container that is not here yet is ignored.
HandleStopContainerEvent(c, signal) ==
  /\ signal \in events[c]
  /\ worker # "down"
  /\ Free
  /\ events' = [events EXCEPT ![c] = @ \ {signal}]
  /\ stopChan' = [stopChan EXCEPT ![c] = IF Instance(c) THEN @ \cup {signal} ELSE @]
  /\ UNCHANGED <<schedulerVars, stopped, state, loopVars, inst, clears,
                 completed, starter, ticker, reaper>>

ProcessStopContainerEvent(c, signal) ==
  /\ worker = "up"
  /\ signal \in stopChan[c]
  /\ stopChan' = [stopChan EXCEPT ![c] = @ \ {signal}]
  /\ StopContainer(c, signal)
  /\ UNCHANGED <<schedulerVars, stopped, state, events, loopVars, clears,
                 completed, starter, ticker, reaper>>

-----------------------------------------------------------------------------
(* The end of a worker                                                     *)

ProcessEnds ==
  /\ inst' = [c \in Containers |-> IF inst[c] = "none" THEN "none" ELSE "gone"]
  /\ lock' = "free"
  /\ main' = Idle
  /\ clears' = [c \in Containers |-> 0]
  /\ starter' = [c \in Containers |-> "off"]
  /\ ticker' = [c \in Containers |-> "off"]
  /\ stopChan' = [c \in Containers |-> {}]
  /\ reaper' = [c \in Containers |-> FALSE]
  /\ UNCHANGED <<clientVars, state, events, completed>>

\* The worker dies and its pod starts it again.
CrashWorker ==
  /\ worker # "down"
  /\ ProcessEnds
  /\ worker' = "up"
  /\ UNCHANGED place

Signal ==
  /\ worker = "up"
  /\ worker' = "cancelled"
  /\ UNCHANGED <<schedulerVars, stopped, state, events, lock, main, inst, clears,
                 completed, watchVars>>

\* The loop sees that the worker was signalled, or that it has been idle with no
\* container left: it removes the worker, with its list, and the process exits.
ShutDown ==
  /\ main = Idle
  /\ \/ worker = "cancelled"
     \/ worker = "up" /\ \A c \in Containers : ~Instance(c)
  /\ ProcessEnds
  /\ worker' = "down"
  /\ place' = [c \in Containers |-> place[c] \ {"queued"}]

-----------------------------------------------------------------------------

SchedulerNext(c) ==
  \/ Run(c) \/ RunRejected(c) \/ Push(c) \/ Pop(c) \/ SelectWorker(c)
  \/ WorkerAdded(c) \/ AssignGpu(c) \/ ScheduleContainerRequest(c)
  \/ AttemptFails(c) \/ Backoff(c) \/ GiveUp(c) \/ SetContainerRequestStatus(c)
  \/ CrashScheduler(c) \/ Age(c)
  \/ \E signal \in Signals : Stop(c, signal)
  \/ LoseEvent(c) \/ Expire(c)

ContainerNext(c) ==
  \/ Receive(c) \/ LoseRequest(c) \/ HandleContainerRequest(c)
  \/ RunContainer(c) \/ RunContainerFails(c) \/ StartRuntime(c) \/ Exit(c)
  \/ FinalizeContainer(c) \/ ClearContainer(c) \/ DeleteInstance(c)
  \/ DeleteContainerState(c)
  \/ StarterReads(c) \/ StarterReadFails(c) \/ StarterWrites(c)
  \/ TickerChecks(c) \/ TickerReturns(c) \/ TickerReads(c)
  \/ TickerReadFails(c) \/ TickerWrites(c) \/ Reap(c)
  \/ \E signal \in Signals : \/ HandleStopContainerEvent(c, signal)
                              \/ ProcessStopContainerEvent(c, signal)

Next ==
  \/ \E c \in Containers : SchedulerNext(c) \/ ContainerNext(c)
  \/ NeighbourMountFails
  \/ CrashWorker
  \/ Signal
  \/ ShutDown

Spec == Init /\ [][Next]_vars

\* Schedulers and the worker's goroutines keep running, TTLs nobody renews run
\* out, and Go's mutexes are starvation free: a goroutine that waits for the lock
\* gets it, if it is free again and again.  Calls between them do not fail for
\* ever.  What a container does, crashes and clients are not fair.
FairSpec ==
  /\ Spec
  /\ WF_vars(ShutDown)
  /\ \A c \in Containers :
       /\ WF_vars(Push(c)) /\ WF_vars(Pop(c)) /\ WF_vars(SelectWorker(c))
       /\ WF_vars(\/ WorkerAdded(c) \/ AssignGpu(c)
                  \/ ScheduleContainerRequest(c) \/ AttemptFails(c))
       /\ WF_vars(Backoff(c)) /\ WF_vars(GiveUp(c))
       /\ WF_vars(SetContainerRequestStatus(c))
       /\ WF_vars(ticker[c] = "off" /\ Expire(c))
       /\ SF_vars(HandleContainerRequest(c))
       /\ WF_vars(RunContainer(c) \/ RunContainerFails(c))
       /\ WF_vars(FinalizeContainer(c)) /\ SF_vars(ClearContainer(c))
       /\ WF_vars(DeleteInstance(c)) /\ WF_vars(DeleteContainerState(c))
       /\ SF_vars(StarterReads(c)) /\ WF_vars(StarterWrites(c))
       /\ SF_vars(TickerChecks(c)) /\ SF_vars(TickerReads(c))
       /\ WF_vars(TickerWrites(c)) /\ WF_vars(Reap(c))
       /\ \A signal \in Signals : WF_vars(ProcessStopContainerEvent(c, signal))

-----------------------------------------------------------------------------
(* Properties                                                              *)

TypeOK ==
  /\ place \in [Containers -> SUBSET Places]
  /\ retries \in [Containers -> 0 .. MaxRetryCount]
  /\ late \in [Containers -> BOOLEAN]
  /\ failed \in [Containers -> BOOLEAN]
  /\ stopped \in [Containers -> BOOLEAN]
  /\ state \in [Containers -> States]
  /\ events \in [Containers -> SUBSET Signals]
  /\ worker \in {"up", "cancelled", "down"}
  /\ lock \in Holders
  /\ main \in Containers \cup {Idle}
  /\ inst \in [Containers -> Phases]
  /\ clears \in [Containers -> 0 .. 1]
  /\ completed \in [Containers -> Nat]
  /\ starter \in [Containers -> {"off", "wait", "write"}]
  /\ ticker \in [Containers -> {"off", "wait", "checked"} \cup Status]
  /\ stopChan \in [Containers -> SUBSET Signals]
  /\ reaper \in [Containers -> BOOLEAN]

\* However often scheduling is retried, by whichever goroutine, a request is in at
\* most one place: it is never scheduled twice, and a request that was given up
\* never reaches a worker.
OneCopy ==
  \A c \in Containers :
    /\ \A p, q \in place[c] : p = q
    /\ place[c] # {} => main # c /\ inst[c] = "none"
    /\ failed[c] => place[c] = {} /\ main # c /\ inst[c] = "none"

\* The capacity of a request is handed back at most once, on whichever path the
\* container ends.
CompletedOnce == \A c \in Containers : completed[c] <= 1

\* A container is reported running only when it has been spawned, although two
\* goroutines write the status from state they read before.
RunningWasSpawned ==
  \A c \in Containers :
    state[c].status = "RUNNING" => inst[c] \notin {"none", "starting"}

\* Listings never show a container again whose state was deleted or has expired,
\* although late writers bring the hash back.
NeverListedAgain ==
  [][\A c \in Containers :
       "new" \notin place[c] /\ ~state[c].id => ~state'[c].id]_vars

\* An accepted request leaves the scheduler: it is queued, failed or dropped.
Resolved ==
  \A c \in Containers : place[c] \notin {{}, {"new"}, {"queued"}}
                           ~> place[c] \in {{}, {"queued"}}

\* A running container whose state says it is stopping is stopped, even if it
\* ignores SIGTERM and the stop event was lost: "isn't gone after
\* TerminationGracePeriod seconds ensure it is killed after that".  What keeps it
\* from being stopped is a mount that failed, of any container of the worker: containerLock
\* stays taken, and the goroutine that watches this one waits for it.
StopEnforced ==
  \A c \in Containers :
    inst[c] = "running" /\ state[c].status = "STOPPING"
      ~> inst[c] # "running" \/ state[c].status # "STOPPING" \/ lock = "leaked"

\* A container that ended is cleared, and its state, if it has a TTL, does not stay
\* behind, whichever calls fail and whoever writes it again late, unless a failed
\* mount has left containerLock taken, for which clearContainer waits.
Reclaimed ==
  \A c \in Containers :
    inst[c] = "exited" /\ (state[c].exists => state[c].ttl)
      ~> (inst[c] = "gone" /\ ~state[c].exists) \/ lock = "leaked"

\* What the code means to ensure: a container for which Stop was called does not
\* run on.
StopHonoured ==
  \A c \in Containers : stopped[c] /\ inst[c] = "running" ~> inst[c] # "running"

=============================================================================
