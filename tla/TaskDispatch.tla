----------------------------- MODULE TaskDispatch -----------------------------
(***************************************************************************)
(* The life of the tasks of one task queue.  A task is a row of the        *)
(* database, an entry with its indexes and its claim in Redis, and a       *)
(* message of the queue's list.  A put creates them; the runners of        *)
(* containers pop, claim, run and complete a task; on every gateway the    *)
(* dispatcher's monitor retries tasks without a heartbeat and cancels      *)
(* tasks nobody claims in time; users stop tasks.  None of them holds a    *)
(* lock over row, entry and list, so each step below is one call to the    *)
(* database or to Redis.                                                   *)
(***************************************************************************)
EXTENDS Integers, Sequences

CONSTANTS
  Tasks,
  Gateways,         \* each runs a monitor
  Runners,          \* worker processes of the queue's containers
  MaxRetries,       \* TaskPolicy.MaxRetries
  MaxCrashes,       \* bound on the crashes and lapses of a behaviour
  Scenarios,        \* sets of faults that may occur together, see PossibleFaults
  None

\* crash   a runner, with the call it makes, or a gateway's monitor dies;
\*         the push of a put fails
\* lapse   a runner's monitor stream is down until the heartbeat has expired
\* slow    a monitor's pass over the tasks takes longer than a heartbeat lasts
\* twice   two gateways monitor the tasks
\* stop    users stop tasks
\* timeout the queue's policy has a timeout, and tasks run longer
PossibleFaults == {"crash", "lapse", "slow", "twice", "stop", "timeout"}

InFlight == {"PENDING", "RUNNING", "RETRY"}
Completed == {"COMPLETE", "ERROR", "CANCELLED", "EXPIRED", "TIMEOUT"}

ASSUME TaskAssumption ==
  /\ MaxRetries \in Nat
  /\ MaxCrashes \in Nat
  /\ Scenarios \subseteq SUBSET PossibleFaults
  /\ None \notin Tasks \cup InFlight \cup Completed /\ None \notin Nat
  /\ Gateways \cap Runners = {}

Actors == Gateways \cup Runners

VARIABLES
  row,        \* row[t]: the status of t in the database, None without a row
  index,      \* tasks of the index monitors read
  entry,      \* entry[t]: the retries of t's entry (and its place in the stub's index)
  claimed,    \* tasks with a claim (key and claim index)
  heartbeat,  \* tasks with a heartbeat key
  queue,      \* the list, of task ids
  lock,       \* lock[t]: the actor that holds t's retry lock, "dead" for one that died
  expired,    \* tasks past Policy.Expires
  put,        \* put[t]: progress of the put that creates t, see Puts
  stop,       \* stop[t]: progress of a user's stop of t
  act,        \* act[a]: what actor a is doing: pc, task, copy of the retries, status
  todo,       \* todo[g]: tasks the monitor has listed and not fetched
  copies,     \* copies[g][t]: the retries of the entry the monitor has fetched, and
              \* whether t's heartbeat has been refreshed since
  streams,    \* monitor streams of the runners, see Streams
  retried,    \* retried[t]: messages pushed by retries
  crashes,
  faults

redis == <<index, entry, claimed>>
mon == <<todo, copies>>
counts == <<retried, crashes, faults>>
vars == <<row, index, entry, claimed, heartbeat, queue, lock, expired,
          put, stop, act, todo, copies, streams, retried, crashes, faults>>

\* checked .. created: the next call is SADD, SET, INSERT, RPUSH
Puts == {"new", "checked", "indexed", "entered", "created", "done", "failed"}

\* off     the row is not read yet
\* on      beats, and listens for a timeout and a cancel message
\* ending  has had one of them, and is to complete the task
\* exiting has told its runner, which is to exit
\* own: the stream of what its runner is doing now; an older one goes on until it finds
\* the task without a claim.  Older streams that agree in all this count as one.
Streams == [runner : Runners, task : Tasks, pc : {"off", "on", "ending", "exiting"}, own : BOOLEAN]

Idle == [pc |-> "idle", task |-> None, retries |-> 0, status |-> None]

Init ==
  /\ row = [t \in Tasks |-> None]
  /\ index = {}
  /\ entry = [t \in Tasks |-> None]
  /\ claimed = {}
  /\ heartbeat = {}
  /\ queue = <<>>
  /\ lock = [t \in Tasks |-> None]
  /\ expired = {}
  /\ put = [t \in Tasks |-> "new"]
  /\ stop = [t \in Tasks |-> "no"]
  /\ act = [a \in Actors |-> Idle]
  /\ todo = [g \in Gateways |-> {}]
  /\ copies = [g \in Gateways |-> [t \in Tasks |-> None]]
  /\ streams = {}
  /\ retried = [t \in Tasks |-> 0]
  /\ crashes = 0
  /\ faults \in Scenarios

-----------------------------------------------------------------------------
(* TaskRedisRepository                                                     *)

\* The pipeline of DeleteTaskState.
DeleteTaskState(t) ==
  /\ index' = index \ {t}
  /\ entry' = [entry EXCEPT ![t] = None]
  /\ claimed' = claimed \ {t}

\* SetTaskState: SADD to the index, then SET and SADD to the stub's index.
Index(t) ==
  /\ index' = index \cup {t}
  /\ UNCHANGED <<entry, claimed>>

SetEntry(t, retries) ==
  /\ entry' = [entry EXCEPT ![t] = retries]
  /\ UNCHANGED <<index, claimed>>

ClaimTask(t) ==
  /\ claimed' = claimed \cup {t}
  /\ UNCHANGED <<index, entry>>

RemoveTaskClaim(t) ==
  /\ claimed' = claimed \ {t}
  /\ UNCHANGED <<index, entry>>

SetRow(t, status) == row' = [row EXCEPT ![t] = status]

-----------------------------------------------------------------------------
(* put: the check of the limit, Send, and Execute                          *)

putUnchanged == <<heartbeat, lock, expired, stop, act, mon, streams, counts>>

PutStep(t, from, to) == put[t] = from /\ put' = [put EXCEPT ![t] = to]

\* Whether the queue has MaxPendingTasks already depends on its other tasks.
Put(t) ==
  /\ \E to \in {"checked", "failed"} : PutStep(t, "new", to)
  /\ UNCHANGED <<row, redis, queue, putUnchanged>>

PutIndex(t) ==
  /\ PutStep(t, "checked", "indexed")
  /\ Index(t)
  /\ UNCHANGED <<row, queue, putUnchanged>>

PutEntry(t) ==
  /\ PutStep(t, "indexed", "entered")
  /\ SetEntry(t, 0)
  /\ UNCHANGED <<row, queue, putUnchanged>>

CreateTask(t) ==
  /\ PutStep(t, "entered", "created")
  /\ SetRow(t, "PENDING")
  /\ UNCHANGED <<redis, queue, putUnchanged>>

PutPush(t) ==
  /\ PutStep(t, "created", "done")
  /\ queue' = Append(queue, t)
  /\ UNCHANGED <<row, redis, putUnchanged>>

\* The row is deleted, the entry stays.
PutPushFails(t) ==
  /\ "crash" \in faults
  /\ PutStep(t, "created", "failed")
  /\ SetRow(t, None)
  /\ UNCHANGED <<redis, queue, putUnchanged>>

\* Policy.Expires is hours after the put.
Expire(t) ==
  /\ t \notin expired
  /\ put[t] \in {"done", "failed"}
  /\ expired' = expired \cup {t}
  /\ UNCHANGED <<row, redis, heartbeat, queue, lock, put, stop, act, mon, streams, counts>>

-----------------------------------------------------------------------------
(* Steps of an actor                                                       *)

actUnchanged == <<heartbeat, expired, put, stop, mon, crashes, faults>>

At(a, pc) == act[a].pc = pc

Become(a, pc) == act' = [act EXCEPT ![a].pc = pc]

\* The deferred RemoveTaskRetryLock.
Release(a, t) ==
  lock' = IF lock[t] = a THEN [lock EXCEPT ![t] = None] ELSE lock

\* The actor ends what it does.  monitor_task.cancel() does not stop a runner's stream.
Finish(a) ==
  /\ act' = [act EXCEPT ![a] = Idle]
  /\ streams' = {[s EXCEPT !.own = @ /\ s.runner # a] : s \in streams}
  /\ Release(a, act[a].task)

\* The actor's process is gone, with its streams and its call; the call's deferred
\* RemoveTaskRetryLock may still run.
Dies(a) ==
  /\ act' = [act EXCEPT ![a] = Idle]
  /\ streams' = {s \in streams : s.runner # a}
  /\ \E left \in {None, "dead"} : lock' = [t \in Tasks |-> IF lock[t] = a THEN left ELSE lock[t]]

HasStream(r) == \E s \in streams : s.runner = r /\ s.own

\* Some stream refreshes the heartbeat of t, or a call of a runner has begun since;
\* the TTL, a minute, is far longer than a call.
Attended(t) ==
  \/ \E s \in streams : s.task = t /\ s.pc = "on"
  \/ \E r \in Runners : act[r].task = t /\ (At(r, "running") => HasStream(r))

\* SETEX of the heartbeat
Refresh(t) ==
  /\ heartbeat' = heartbeat \cup {t}
  /\ copies' = [g \in Gateways |->
       [copies[g] EXCEPT ![t] = IF @ = None THEN None ELSE [@ EXCEPT !.recent = TRUE]]]

-----------------------------------------------------------------------------
(* Dispatcher.RetryTask, called by monitors and for runners that ask for it *)

RetryLock(a) ==
  LET t == act[a].task IN
  /\ At(a, "retry")
  /\ IF lock[t] # None
       THEN Finish(a)
       ELSE /\ lock' = [lock EXCEPT ![t] = a]
            /\ act' = [act EXCEPT
                 ![a].pc = IF act[a].retries >= MaxRetries THEN "cancel" ELSE "unclaim",
                 ![a].status = "ERROR"]
            /\ UNCHANGED streams
  /\ UNCHANGED <<row, redis, queue, retried, actUnchanged>>

RetryUnclaim(a) ==
  /\ At(a, "unclaim")
  /\ RemoveTaskClaim(act[a].task)
  /\ Become(a, "reindex")
  /\ UNCHANGED <<row, queue, lock, streams, retried, actUnchanged>>

RetryIndex(a) ==
  /\ At(a, "reindex")
  /\ Index(act[a].task)
  /\ Become(a, "reenter")
  /\ UNCHANGED <<row, queue, lock, streams, retried, actUnchanged>>

\* Mutant of RetryEntry: the retry is not counted.
RetryEntryUncounted(a) ==
  /\ At(a, "reenter")
  /\ SetEntry(act[a].task, act[a].retries)
  /\ Become(a, "retryRow")
  /\ UNCHANGED <<row, queue, lock, streams, retried, actUnchanged>>

\* The retries counted are those of the actor's copy.
RetryEntry(a) ==
  /\ At(a, "reenter")
  /\ SetEntry(act[a].task, act[a].retries + 1)
  /\ Become(a, "retryRow")
  /\ UNCHANGED <<row, queue, lock, streams, retried, actUnchanged>>

\* TaskQueueTask.Retry; the row may have been completed meanwhile.
RetryRow(a) ==
  LET t == act[a].task IN
  /\ At(a, "retryRow")
  /\ IF row[t] = None
       THEN Finish(a) /\ UNCHANGED row
       ELSE SetRow(t, "RETRY") /\ Become(a, "push") /\ UNCHANGED <<lock, streams>>
  /\ UNCHANGED <<redis, queue, retried, actUnchanged>>

RetryPush(a) ==
  LET t == act[a].task IN
  /\ At(a, "push")
  /\ queue' = Append(queue, t)
  /\ retried' = [retried EXCEPT ![t] = @ + 1]
  /\ Finish(a)
  /\ UNCHANGED <<row, redis, actUnchanged>>

\* TaskQueueTask.Cancel reads the row and updates it unless it is completed.
\* Without a row it fails: RetryTask returns, the monitor's expiry goes on.
CancelRead(a) ==
  LET t == act[a].task IN
  /\ At(a, "cancel")
  /\ CASE row[t] \in InFlight -> Become(a, "cancelRow") /\ UNCHANGED <<lock, streams>>
       [] row[t] \in Completed -> Become(a, "resolve") /\ UNCHANGED <<lock, streams>>
       [] row[t] = None ->
            IF lock[t] = a THEN Finish(a) ELSE Become(a, "resolve") /\ UNCHANGED <<lock, streams>>
  /\ UNCHANGED <<row, redis, queue, retried, actUnchanged>>

CancelRow(a) ==
  /\ At(a, "cancelRow")
  /\ SetRow(act[a].task, act[a].status)
  /\ Become(a, "resolve")
  /\ UNCHANGED <<redis, queue, lock, streams, retried, actUnchanged>>

\* Dispatcher.Complete
Resolve(a) ==
  /\ At(a, "resolve")
  /\ DeleteTaskState(act[a].task)
  /\ Finish(a)
  /\ UNCHANGED <<row, queue, retried, actUnchanged>>

-----------------------------------------------------------------------------
(* Dispatcher.monitor                                                      *)

MonitorReady(g) == At(g, "idle") /\ copies[g] = [t \in Tasks |-> None]

\* A tick: SMEMBERS of GetTasksInFlight
MonitorList(g) ==
  /\ MonitorReady(g)
  /\ "twice" \in faults \/ g = CHOOSE f \in Gateways : TRUE
  /\ todo[g] = {}
  /\ index # {}
  /\ todo' = [todo EXCEPT ![g] = index]
  /\ UNCHANGED <<row, redis, heartbeat, queue, lock, expired, put, stop, act, copies, streams, counts>>

\* GET; what is in the index without an entry is deleted
MonitorFetch(g, t) ==
  /\ At(g, "idle")
  /\ t \in todo[g]
  /\ todo' = [todo EXCEPT ![g] = @ \ {t}]
  /\ IF entry[t] = None
       THEN DeleteTaskState(t) /\ UNCHANGED copies
       ELSE /\ copies' = [copies EXCEPT ![g][t] = [retries |-> entry[t], recent |-> Attended(t)]]
            /\ UNCHANGED redis
  /\ UNCHANGED <<row, heartbeat, queue, lock, expired, put, stop, act, streams, counts>>

\* Mutant of MonitorCheck: tasks nobody claims are cancelled before they expire.
MonitorCheckAnyAge(g, t) ==
  LET Go(pc, status) ==
        [pc |-> pc, task |-> t, retries |-> copies[g][t].retries, status |-> status]
  IN
  /\ At(g, "idle")
  /\ todo[g] = {}
  /\ copies[g][t] # None
  /\ copies' = [copies EXCEPT ![g][t] = None]
  /\ act' = [act EXCEPT ![g] =
       CASE t \notin claimed -> Go("cancel", "EXPIRED")
         [] t \in claimed /\ t \notin heartbeat -> Go("retry", None)
         [] OTHER -> Idle]
  /\ UNCHANGED <<row, redis, heartbeat, queue, lock, expired, put, stop, todo, streams, counts>>

\* Mutant of MonitorCheck: claimed tasks are left alone.
MonitorCheckNoRetry(g, t) ==
  LET Go(pc, status) ==
        [pc |-> pc, task |-> t, retries |-> copies[g][t].retries, status |-> status]
  IN
  /\ At(g, "idle")
  /\ todo[g] = {}
  /\ copies[g][t] # None
  /\ copies' = [copies EXCEPT ![g][t] = None]
  /\ act' = [act EXCEPT ![g] =
       CASE t \notin claimed /\ t \in expired -> Go("cancel", "EXPIRED")
         [] OTHER -> Idle]
  /\ UNCHANGED <<row, redis, heartbeat, queue, lock, expired, put, stop, todo, streams, counts>>

\* IsClaimed, then Policy.Expires or HeartBeat
MonitorCheck(g, t) ==
  LET Go(pc, status) ==
        [pc |-> pc, task |-> t, retries |-> copies[g][t].retries, status |-> status]
  IN
  /\ At(g, "idle")
  /\ todo[g] = {}
  /\ copies[g][t] # None
  /\ copies' = [copies EXCEPT ![g][t] = None]
  /\ act' = [act EXCEPT ![g] =
       CASE t \notin claimed /\ t \in expired -> Go("cancel", "EXPIRED")
         [] t \in claimed /\ t \notin heartbeat -> Go("retry", None)
         [] OTHER -> Idle]
  /\ UNCHANGED <<row, redis, heartbeat, queue, lock, expired, put, stop, todo, streams, counts>>

-----------------------------------------------------------------------------
(* A runner: TaskQueuePop, the handler with its monitor streams, and        *)
(* TaskQueueComplete                                                       *)

\* Mutant of Pop: no heartbeat until the runner's stream sets it.
PopWithoutHeartbeat(r) ==
  LET t == Head(queue) IN
  /\ At(r, "idle")
  /\ queue # <<>>
  /\ queue' = Tail(queue)
  /\ act' = IF row[t] \in InFlight
              THEN [act EXCEPT ![r] = [Idle EXCEPT !.pc = "popped", !.task = t]]
              ELSE act
  /\ UNCHANGED <<row, redis, heartbeat, lock, expired, put, stop, mon, streams, counts>>

\* LPOP, SETEX of the heartbeat, SELECT; a completed task is passed over.
Pop(r) ==
  LET t == Head(queue) IN
  /\ At(r, "idle")
  /\ queue # <<>>
  /\ queue' = Tail(queue)
  /\ Refresh(t)
  /\ act' = IF row[t] \in InFlight
              THEN [act EXCEPT ![r] = [Idle EXCEPT !.pc = "popped", !.task = t]]
              ELSE act
  /\ UNCHANGED <<row, redis, lock, expired, put, stop, todo, streams, counts>>

Claim(r) ==
  /\ At(r, "popped")
  /\ ClaimTask(act[r].task)
  /\ Become(r, "claimed")
  /\ UNCHANGED <<row, queue, lock, streams, retried, actUnchanged>>

\* The row that was read is written back as running; the runner starts the stream.
Start(r) ==
  /\ At(r, "claimed")
  /\ SetRow(act[r].task, "RUNNING")
  /\ Become(r, "running")
  /\ streams' = streams \cup {[runner |-> r, task |-> act[r].task, pc |-> "off", own |-> TRUE]}
  /\ UNCHANGED <<redis, queue, lock, retried, actUnchanged>>

To(s, pc) == streams' = (streams \ {s}) \cup {[s EXCEPT !.pc = pc]}

\* TaskQueueMonitor reads the row and subscribes to the task's cancel channel.
\* It tells the runner of a task already cancelled.
Watch(s) ==
  /\ s.pc = "off"
  /\ To(s, IF row[s.task] = "CANCELLED" THEN "exiting" ELSE "on")
  /\ UNCHANGED <<row, redis, queue, lock, act, retried, actUnchanged>>

\* Each second: SETEX, IsClaimed; the stream ends when the claim is gone.
Beat(s) ==
  /\ s.pc = "on"
  /\ Refresh(s.task)
  /\ streams' = IF s.task \in claimed THEN streams ELSE streams \ {s}
  /\ <<heartbeat, streams>>' # <<heartbeat, streams>>
  /\ UNCHANGED <<row, redis, queue, lock, expired, put, stop, act, todo, counts>>

\* The timeout of the task: its row ...
Timeout(s) ==
  /\ "timeout" \in faults
  /\ s.pc = "on"
  /\ SetRow(s.task, "TIMEOUT")
  /\ To(s, "ending")
  /\ UNCHANGED <<redis, queue, lock, act, retried, actUnchanged>>

\* ... then, as after a cancel message, Dispatcher.Complete ...
StreamCompletes(s) ==
  /\ s.pc = "ending"
  /\ DeleteTaskState(s.task)
  /\ To(s, "exiting")
  /\ UNCHANGED <<row, queue, lock, act, retried, actUnchanged>>

\* ... and os._exit, whatever the runner is doing by now.  Its watchdog restarts it.
ExitRunner(s) ==
  /\ s.pc = "exiting"
  /\ Dies(s.runner)
  /\ UNCHANGED <<row, redis, queue, retried, actUnchanged>>

\* TaskQueueComplete: the handler returned or raised an error.
Complete(r, status) ==
  /\ At(r, "running")
  /\ DeleteTaskState(act[r].task)
  /\ act' = [act EXCEPT ![r].pc = "report", ![r].status = status]
  /\ UNCHANGED <<row, queue, lock, streams, retried, actUnchanged>>

CompleteRow(r) ==
  /\ At(r, "report")
  /\ SetRow(act[r].task, act[r].status)
  /\ Finish(r)
  /\ UNCHANGED <<redis, queue, retried, actUnchanged>>

\* TaskQueueComplete with RETRY: an error of retry_for.  Without an entry the
\* call fails and the runner goes on to its next task.
CompleteRetry(r) ==
  LET t == act[r].task IN
  /\ At(r, "running")
  /\ IF entry[t] = None
       THEN Finish(r)
       ELSE /\ act' = [act EXCEPT ![r].pc = "retry", ![r].retries = entry[t]]
            /\ UNCHANGED <<lock, streams>>
  /\ UNCHANGED <<row, redis, queue, retried, actUnchanged>>

-----------------------------------------------------------------------------
(* stopTask of the gateway service and of the API                          *)

stopUnchanged == <<heartbeat, queue, lock, expired, put, act, mon, counts>>

Stop(t) ==
  /\ "stop" \in faults
  /\ stop[t] = "no"
  /\ row[t] \in InFlight
  /\ stop' = [stop EXCEPT ![t] = "read"]
  /\ UNCHANGED <<row, redis, streams, stopUnchanged>>

\* Dispatcher.Complete, and the message on the cancel channel for those who listen
StopDelete(t) ==
  /\ stop[t] = "read"
  /\ stop' = [stop EXCEPT ![t] = "deleted"]
  /\ DeleteTaskState(t)
  /\ streams' = {IF s.task = t /\ s.pc = "on" THEN [s EXCEPT !.pc = "ending"] ELSE s : s \in streams}
  /\ UNCHANGED <<row, stopUnchanged>>

StopRow(t) ==
  /\ stop[t] = "deleted"
  /\ stop' = [stop EXCEPT ![t] = "done"]
  /\ SetRow(t, "CANCELLED")
  /\ UNCHANGED <<redis, streams, stopUnchanged>>

-----------------------------------------------------------------------------
(* Time and faults                                                         *)

\* Unless monitors are slow, a heartbeat refreshed after the entry was fetched
\* outlasts the pass of the monitor.
Recent(t) ==
  \E g \in Gateways : copies[g][t] # None /\ copies[g][t].recent /\ "slow" \notin faults

HeartbeatExpires(t) ==
  /\ t \in heartbeat
  /\ ~Recent(t)
  /\ heartbeat' = heartbeat \ {t}
  /\ \/ /\ ~Attended(t)
        /\ UNCHANGED crashes
     \/ /\ Attended(t)
        /\ "lapse" \in faults
        /\ crashes < MaxCrashes
        /\ crashes' = crashes + 1
  /\ UNCHANGED <<row, redis, queue, lock, expired, put, stop, act, mon, streams, retried, faults>>

\* The retry lock of a gateway that died, after its TTL
LockExpires(t) ==
  /\ lock[t] = "dead"
  /\ lock' = [lock EXCEPT ![t] = None]
  /\ UNCHANGED <<row, redis, heartbeat, queue, expired, put, stop, act, mon, streams, counts>>

\* A runner or a gateway's monitor dies.
Crash(a) ==
  /\ "crash" \in faults
  /\ crashes < MaxCrashes
  /\ ~At(a, "idle") \/ \E s \in streams : s.runner = a
  /\ crashes' = crashes + 1
  /\ Dies(a)
  /\ copies' = [g \in Gateways |-> IF g = a THEN [t \in Tasks |-> None] ELSE copies[g]]
  /\ UNCHANGED <<row, redis, heartbeat, queue, expired, put, stop, todo, retried, faults>>

-----------------------------------------------------------------------------
PutNext(t) ==
  Put(t) \/ PutIndex(t) \/ PutEntry(t) \/ CreateTask(t) \/ PutPush(t) \/ PutPushFails(t)

RetryTask(a) ==
  \/ RetryLock(a) \/ RetryUnclaim(a) \/ RetryIndex(a) \/ RetryEntry(a) \/ RetryRow(a)
  \/ RetryPush(a) \/ CancelRead(a) \/ CancelRow(a) \/ Resolve(a)

Monitor(g) ==
  \/ MonitorList(g)
  \/ \E t \in Tasks : MonitorFetch(g, t) \/ MonitorCheck(g, t)

Run(r) ==
  \/ Pop(r) \/ Claim(r) \/ Start(r)
  \/ \E s \in {"COMPLETE", "ERROR"} : Complete(r, s)
  \/ CompleteRow(r) \/ CompleteRetry(r)

StreamStep(s) == Watch(s) \/ Beat(s) \/ StreamCompletes(s) \/ ExitRunner(s)

Next ==
  \/ \E t \in Tasks : PutNext(t) \/ Expire(t) \/ Stop(t) \/ StopDelete(t) \/ StopRow(t)
                      \/ HeartbeatExpires(t) \/ LockExpires(t)
  \/ \E g \in Gateways : Monitor(g)
  \/ \E r \in Runners : Run(r)
  \/ \E s \in streams : StreamStep(s) \/ Timeout(s)
  \/ \E a \in Actors : RetryTask(a) \/ Crash(a)

Spec == Init /\ [][Next]_vars

-----------------------------------------------------------------------------
(* What each part is sure to go on with: calls that have begun and the     *)
(* monitors' ticks, handlers (they return, fail or time out), TTLs.        *)
(* Puts, stops, crashes and heartbeats that lapse need not happen.         *)

RunnerCalls(r) ==
  \/ Pop(r) \/ Claim(r) \/ Start(r) \/ CompleteRow(r) \/ RetryTask(r)

HandlerEnds(r) == Complete(r, "COMPLETE") \/ Complete(r, "ERROR") \/ CompleteRetry(r)

StreamsOf(r, t, own) == {s \in streams : s.runner = r /\ s.task = t /\ s.own = own}

Fairness ==
  /\ \A t \in Tasks :
       /\ WF_vars(PutIndex(t) \/ PutEntry(t) \/ CreateTask(t) \/ PutPush(t))
       /\ WF_vars(StopDelete(t) \/ StopRow(t))
       /\ WF_vars(Expire(t))
       /\ WF_vars(HeartbeatExpires(t) /\ ~Attended(t))
       /\ WF_vars(LockExpires(t))
  /\ \A g \in Gateways : WF_vars(Monitor(g) \/ RetryTask(g))
  /\ \A r \in Runners : WF_vars(RunnerCalls(r)) /\ WF_vars(HandlerEnds(r))
  /\ \A r \in Runners, t \in Tasks, own \in BOOLEAN :
       /\ WF_vars(\E s \in StreamsOf(r, t, own) : StreamStep(s))
       /\ WF_vars(\E s \in StreamsOf(r, t, own) : Timeout(s))

FairSpec == Spec /\ Fairness

-----------------------------------------------------------------------------
\* No runner of t has lost its streams, no monitor works on copies a minute old,
\* and no second monitor races for a task whose runner crashed or exited or that was stopped.
Orderly ==
  /\ faults \cap {"lapse", "slow"} = {}
  /\ "twice" \in faults => faults \cap {"crash", "stop", "timeout"} = {}

\* A task runs in one place at a time.  The heartbeat that Pop sets covers the time
\* until the runner's stream sets it ("Set a heartbeat to prevent retries before
\* task actually starts processing"), so no monitor queues the task a second time
\* while its runner lives, whatever expires and, with one monitor, is stopped or crashes.
OneRunner ==
  Orderly =>
    \A q, r \in Runners : At(q, "running") /\ At(r, "running") /\ act[q].task = act[r].task => q = r

\* What the policy of a task says: a task is queued again MaxRetries times at most.
RetriesWithinPolicy == \A t \in Tasks : retried[t] <= MaxRetries

\* The retries a runner asks for and those of a monitor, each counted on a copy of
\* the entry read before the retry lock is taken, stay within the policy together.
RetriesBounded == Orderly => RetriesWithinPolicy

Watched(t) == t \in index /\ entry[t] # None

InHand(t) ==
  \/ put[t] \in {"checked", "indexed", "entered", "created"}
  \/ \E a \in Actors : act[a].task = t
  \/ \E i \in DOMAIN queue : queue[i] = t

\* A task that is in flight according to its row, and has not expired, is known to
\* the monitors or some call is at work on it, although a monitor that finds the
\* index written and the entry not yet written takes the task out of the index.
\* Not promised for queues with a timeout: a stream that timed out deletes the state of a
\* task that was retried since, and ends its runner with whatever that is doing.
NotLost ==
  faults \subseteq {"twice", "slow"} =>
    \A t \in Tasks \ expired : row[t] \in InFlight => Watched(t) \/ InHand(t)

\* A stream of an earlier run of t refreshes t's heartbeat.
Lingers(t) == \E s \in streams : s.task = t /\ s.pc = "on" /\ ~s.own

\* A task of the index does not stay in flight: it completes, or a monitor retries it
\* when its runner is gone and gives it up when the retries or its time run out;
\* retry locks left by a dead gateway do not prevent it.  A stream of an earlier run does,
\* if it is left with the claim of a later runner that died, and the queue has no timeout.
Resolved ==
  \A t \in Tasks :
    []<>~Lingers(t) =>
      ((t \in index /\ row[t] \in InFlight) ~> (row[t] \in Completed \/ t \notin index))

=============================================================================
