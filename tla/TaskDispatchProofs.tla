------------------------- MODULE TaskDispatchProofs -------------------------
(***************************************************************************)
(* What each step of TaskDispatch does to a task, and the proof that no task *)
(* is lost.  A step is about one task, and leaves the others as they are   *)
(* (Elsewhere); so invariants are stated and proved for one task t.        *)
(***************************************************************************)
EXTENDS TaskDispatch, TLAPS

-----------------------------------------------------------------------------
(* Types                                                                   *)

Retrying == {"retry", "unclaim", "reindex", "reenter", "retryRow", "push"}

Cancelling == {"cancel", "cancelRow", "resolve"}

Running == {"popped", "claimed", "running", "report"}

Activity ==
  [pc : {"idle"} \cup Retrying \cup Cancelling \cup Running, task : Tasks \cup {None},
   retries : Nat, status : Completed \cup {None}]

\* What calls that end a task set its row to.
Verdicts == {"COMPLETE", "ERROR", "EXPIRED"}

Deciding == Cancelling \cup {"report"}

Copy == [retries : Nat, recent : BOOLEAN]

\* Whoever is not idle works on a task, and monitors do not run tasks.
ActTyped ==
  /\ act \in [Actors -> Activity]
  /\ \A a \in Actors : act[a].pc # "idle" => act[a].task \in Tasks
  /\ \A a \in Actors : act[a].pc = "idle" => act[a].task = None
  /\ \A a \in Actors : act[a].pc \in Deciding => act[a].status \in Verdicts
  /\ \A g \in Gateways : act[g].pc \notin Running

\* A runner's own stream is that of the task it has started.
StreamTyped ==
  /\ streams \subseteq Streams
  /\ \A s \in streams : s.own =>
       act[s.runner].task = s.task /\ act[s.runner].pc \notin {"idle", "popped", "claimed"}

RestTyped ==
  /\ row \in [Tasks -> InFlight \cup Completed \cup {None}]
  /\ entry \in [Tasks -> Nat \cup {None}]
  /\ queue \in Seq(Tasks)
  /\ put \in [Tasks -> Puts]
  /\ DOMAIN lock = Tasks
  /\ copies \in [Gateways -> [Tasks -> Copy \cup {None}]]
  /\ retried \in [Tasks -> Nat]
  /\ todo \in [Gateways -> SUBSET Tasks]
  /\ index \in SUBSET Tasks

Typed == ActTyped /\ StreamTyped /\ RestTyped

\* Nothing is in flight at first.
LEMMA TypedInit == Init => Typed
  BY TaskAssumption
  DEF Init, Typed, ActTyped, StreamTyped, RestTyped, Activity, Idle, Actors, Running, Puts,
      Deciding, Cancelling

\* Monitors and runners are different actors.
LEMMA ActorKinds ==
  ASSUME NEW a \in Actors
  PROVE  /\ a \in Runners \/ a \in Gateways
         /\ ~(a \in Runners /\ a \in Gateways)
  BY TaskAssumption DEF Actors

-----------------------------------------------------------------------------
(* The queue                                                               *)

Queued(t) == \E i \in DOMAIN queue : queue[i] = t

QueuedOnce(t) == \A i, j \in DOMAIN queue : queue[i] = t /\ queue[j] = t => i = j

\* A task pushed once more is queued, and once if it was not queued before.
LEMMA Pushed ==
  ASSUME NEW t \in Tasks, NEW u \in Tasks, queue \in Seq(Tasks), queue' = Append(queue, u)
  PROVE  /\ queue' \in Seq(Tasks)
         /\ Queued(t)' <=> Queued(t) \/ u = t
         /\ u # t /\ QueuedOnce(t) => QueuedOnce(t)'
         /\ u = t /\ ~Queued(t) => QueuedOnce(t)'
<1>1. DOMAIN queue = 1 .. Len(queue) /\ Len(queue) \in Nat
  OBVIOUS
<1>2. /\ queue' \in Seq(Tasks)
      /\ DOMAIN queue' = 1 .. Len(queue) + 1
      /\ \A i \in 1 .. Len(queue) : queue'[i] = queue[i]
      /\ queue'[Len(queue) + 1] = u
  OBVIOUS
<1>3. \A i \in DOMAIN queue' : i \in DOMAIN queue \/ i = Len(queue) + 1
  BY <1>1, <1>2
<1>4. \A i \in DOMAIN queue : i \in DOMAIN queue' /\ queue'[i] = queue[i]
  BY <1>1, <1>2
<1>5. Len(queue) + 1 \in DOMAIN queue'
  BY <1>1, <1>2
<1> QED
  BY <1>2, <1>3, <1>4, <1>5, Zenon DEF Queued, QueuedOnce

\* A pop takes the head away, and nothing else.
LEMMA Popped ==
  ASSUME NEW t \in Tasks, queue \in Seq(Tasks), queue # <<>>, queue' = Tail(queue)
  PROVE  /\ queue' \in Seq(Tasks) /\ Head(queue) \in Tasks
         /\ Head(queue) = t => Queued(t)
         /\ Queued(t)' => Queued(t)
         /\ Queued(t) => Head(queue) = t \/ Queued(t)'
         /\ QueuedOnce(t) => QueuedOnce(t)'
         /\ QueuedOnce(t) /\ Head(queue) = t => ~Queued(t)'
<1>1. DOMAIN queue = 1 .. Len(queue) /\ Len(queue) \in Nat /\ Len(queue) > 0
  OBVIOUS
<1>2. /\ queue' \in Seq(Tasks)
      /\ Head(queue) \in Tasks
      /\ Head(queue) = queue[1]
      /\ DOMAIN queue' = 1 .. Len(queue) - 1
      /\ \A i \in 1 .. Len(queue) - 1 : queue'[i] = queue[i + 1]
  OBVIOUS
<1>3. 1 \in DOMAIN queue
  BY <1>1
<1>4. \A i \in DOMAIN queue' : i + 1 \in DOMAIN queue /\ i + 1 # 1 /\ queue'[i] = queue[i + 1]
  BY <1>1, <1>2
<1>5. \A i, j \in DOMAIN queue' : i + 1 = j + 1 => i = j
  BY <1>2
<1>6. Queued(t) => Head(queue) = t \/ Queued(t)'
  <2> SUFFICES ASSUME NEW i \in DOMAIN queue, queue[i] = t, i # 1
               PROVE  \E j \in DOMAIN queue' : queue'[j] = t
    BY <1>2 DEF Queued
  <2>1. i - 1 \in DOMAIN queue' /\ queue'[i - 1] = t
    BY <1>1, <1>2
  <2> QED
    BY <2>1
<1>7. /\ Queued(t)' => Queued(t)
      /\ Head(queue) = t => Queued(t)
      /\ QueuedOnce(t) /\ Head(queue) = t => ~Queued(t)'
  BY <1>2, <1>3, <1>4, Zenon DEF Queued, QueuedOnce
<1>8. QueuedOnce(t) => QueuedOnce(t)'
  BY <1>4, <1>5 DEF QueuedOnce
<1> QED
  BY <1>2, <1>6, <1>7, <1>8, Zenon

-----------------------------------------------------------------------------
(* What a step does to an actor                                            *)

Others(a) == \A b \in Actors : b # a => act'[b] = act[b]

\* a goes on with its task at p.
Goes(a, p) ==
  /\ act'[a].pc = p
  /\ act'[a].task = act[a].task
  /\ act'[a].retries = act[a].retries
  /\ Others(a)

Ends(a) ==
  /\ act'[a].pc = "idle"
  /\ act'[a].task = None
  /\ Others(a)

\* One actor does something else, and types are kept.
LEMMA Replaced ==
  ASSUME ActTyped, NEW a \in Actors, NEW x \in Activity,
         x.pc = "idle" => x.task = None, x.pc # "idle" => x.task \in Tasks,
         x.pc \in Deciding => x.status \in Verdicts, a \in Gateways => x.pc \notin Running,
         act' = [act EXCEPT ![a] = x]
  PROVE  ActTyped' /\ act'[a] = x /\ Others(a)
<1>1. act' \in [Actors -> Activity] /\ act'[a] = x
  BY DEF ActTyped
<1>2. Others(a)
  BY DEF ActTyped, Others
<1>3. \A b \in Actors : b = a \/ act'[b] = act[b]
  BY <1>2 DEF Others
<1>4. \A b \in Actors : act'[b].pc # "idle" => act'[b].task \in Tasks
  BY <1>1, <1>3, Zenon DEF ActTyped
<1>5. \A b \in Actors : act'[b].pc = "idle" => act'[b].task = None
  BY <1>1, <1>3, Zenon DEF ActTyped
<1>6. \A b \in Actors : act'[b].pc \in Deciding => act'[b].status \in Verdicts
  BY <1>1, <1>3, Zenon DEF ActTyped
<1>7. \A g \in Gateways : act'[g].pc \notin Running
  BY <1>1, <1>3, Zenon DEF ActTyped, Actors
<1> QED
  BY <1>1, <1>2, <1>4, <1>5, <1>6, <1>7, Zenon DEF ActTyped

\* An actor goes on with its call.
LEMMA Becomes ==
  ASSUME ActTyped, NEW a \in Actors, act[a].pc # "idle",
         NEW p \in Retrying \cup Cancelling \cup Running, a \in Gateways => p \notin Running,
         p \in Deciding => act[a].pc \in Deciding,
         Become(a, p)
  PROVE  ActTyped' /\ Goes(a, p)
<1> DEFINE x == [act[a] EXCEPT !.pc = p]
<1>1. act[a] \in Activity
  BY DEF ActTyped
<1>2. /\ x \in Activity /\ x.pc = p /\ x.task = act[a].task /\ x.retries = act[a].retries
      /\ x.status = act[a].status /\ p # "idle"
  BY <1>1 DEF Activity, Retrying, Cancelling, Running
<1>3. act' = [act EXCEPT ![a] = x]
  BY <1>1 DEF Become
<1>4. x.task \in Tasks /\ (x.pc \in Deciding => x.status \in Verdicts)
  BY <1>2 DEF ActTyped
<1> HIDE DEF x
<1>5. ActTyped' /\ act'[a] = x /\ Others(a)
  BY <1>2, <1>3, <1>4, Replaced, Zenon
<1> QED
  BY <1>2, <1>5, Zenon DEF Goes

\* An actor ends its call.
LEMMA Finishes ==
  ASSUME ActTyped, NEW a \in Actors, act' = [act EXCEPT ![a] = Idle]
  PROVE  ActTyped' /\ Ends(a)
<1>1. /\ Idle \in Activity /\ Idle.pc = "idle" /\ Idle.task = None
      /\ Idle.pc \notin Running /\ Idle.pc \notin Deciding
  BY DEF Idle, Activity, Running, Deciding, Cancelling
<1>2. ActTyped' /\ act'[a] = Idle /\ Others(a)
  BY <1>1, Replaced, Zenon
<1> QED
  BY <1>1, <1>2, Zenon DEF Ends

-----------------------------------------------------------------------------
(* What a step does to a task                                              *)

SameAct(t) ==
  \A a \in Actors : act[a].task = t \/ act'[a].task = t => act'[a] = act[a]

SameStream(t) == \A r \in Runners : act[r].task = t => (HasStream(r)' <=> HasStream(r))

SameState(t) == entry'[t] = entry[t] /\ (t \in claimed' <=> t \in claimed)

SameQueue(t) == (Queued(t)' <=> Queued(t)) /\ (QueuedOnce(t) => QueuedOnce(t)')

SameBeats(t) ==
  /\ t \in heartbeat' <=> t \in heartbeat
  /\ \A g \in Gateways : copies'[g][t] = copies[g][t]

\* What no step but a few changes.
SameRest(t) ==
  /\ put'[t] = put[t]
  /\ retried'[t] = retried[t]
  /\ t \in expired' <=> t \in expired

\* The step is not about t.
Elsewhere(t) ==
  /\ SameAct(t) /\ SameStream(t) /\ SameState(t) /\ SameQueue(t) /\ SameBeats(t) /\ SameRest(t)
  /\ row'[t] = row[t]
  /\ lock'[t] = lock[t]

\* Streams and locks when an actor goes on.
KeepsCalls == streams' = streams /\ lock' = lock

\* No stream but a's own begins or ends.
OtherStreams(a) == \A r \in Runners : r # a => (HasStream(r)' <=> HasStream(r))

\* Streams and locks when a ends.
DropsCalls(a) ==
  /\ OtherStreams(a)
  /\ \A t \in Tasks :
       lock'[t] = IF t = act[a].task /\ lock[t] = a THEN None ELSE lock[t]

\* A step of an actor that has no business with t.
LEMMA ActorElsewhere ==
  ASSUME NEW a \in Actors, NEW t, Others(a), act[a].task # t, act'[a].task # t
  PROVE  SameAct(t)
  BY Zenon DEF SameAct, Others

\* Streams stay with the runners that started a task.
LEMMA GoesTyped ==
  ASSUME Typed, NEW a \in Actors, NEW p, Goes(a, p), p \notin {"idle", "popped", "claimed"} \/ act[a].pc = "popped",
         streams' = streams
  PROVE  StreamTyped'
<1>1. \A s \in streams : s.runner \in Actors
  BY DEF Typed, StreamTyped, Streams, Actors
<1>2. ASSUME NEW s \in streams, s.own
      PROVE  act'[s.runner].task = s.task /\ act'[s.runner].pc \notin {"idle", "popped", "claimed"}
  <2>1. act[s.runner].task = s.task /\ act[s.runner].pc \notin {"idle", "popped", "claimed"}
    BY <1>2, Zenon DEF Typed, StreamTyped
  <2>2. CASE s.runner = a
    BY <2>1, <2>2 DEF Goes
  <2>3. CASE s.runner # a
    BY <1>1, <2>1, <2>3, Zenon DEF Goes, Others
  <2> QED
    BY <2>2, <2>3
<1> QED
  BY <1>2, Zenon DEF StreamTyped, Typed

\* What is left of a's streams is not that of its task.
LeavesStreams(a) ==
  /\ streams' \subseteq Streams
  /\ \A s \in streams' : s.own => s.runner # a /\ s \in streams
  /\ \A s \in streams : s.runner # a => s \in streams'
  /\ \A s \in streams' : \E u \in streams : s.pc = u.pc

\* Finish leaves a's streams without a task.
LEMMA FinishLeaves ==
  ASSUME streams \subseteq Streams, NEW a, Finish(a)
  PROVE  LeavesStreams(a)
<1> DEFINE F(s) == [s EXCEPT !.own = @ /\ s.runner # a]
<1>1. streams' = {F(s) : s \in streams}
  BY Zenon DEF Finish
<1>2. ASSUME NEW s \in streams
      PROVE  /\ F(s) \in Streams /\ F(s).runner = s.runner /\ F(s).pc = s.pc
             /\ F(s).own => s.runner # a
             /\ s.runner # a => F(s) = s
  <2>1. s \in Streams
    OBVIOUS
  <2>2. /\ F(s) \in Streams /\ F(s).runner = s.runner /\ F(s).pc = s.pc
        /\ F(s).own => s.runner # a
    BY <2>1, Zenon DEF Streams
  <2>3. s.runner # a => F(s) = s
    BY <2>1 DEF Streams
  <2> QED
    BY <2>2, <2>3
<1> HIDE DEF F
<1>3. \A s \in streams' : \E u \in streams : s = F(u)
  BY <1>1, Zenon
<1>4. \A u \in streams : F(u) \in streams'
  BY <1>1, Zenon
<1>5. \A s \in streams' : s.own => s.runner # a /\ s \in streams
  BY <1>2, <1>3, Zenon
<1>6. streams' \subseteq Streams /\ \A s \in streams' : \E u \in streams : s.pc = u.pc
  BY <1>2, <1>3, Zenon
<1>7. \A s \in streams : s.runner # a => s \in streams'
  BY <1>2, <1>4, Zenon
<1> QED
  BY <1>5, <1>6, <1>7, Zenon DEF LeavesStreams

\* A process that dies takes its streams with it.
LEMMA DiesLeaves ==
  ASSUME streams \subseteq Streams, NEW a, Dies(a)
  PROVE  LeavesStreams(a)
<1>1. streams' = {s \in streams : s.runner # a}
  BY Zenon DEF Dies
<1> QED
  BY <1>1, Zenon DEF LeavesStreams

\* The other runners keep their streams.
LEMMA LeavesEffect ==
  ASSUME Typed, NEW a \in Actors, LeavesStreams(a), Ends(a)
  PROVE  StreamTyped' /\ OtherStreams(a)
<1>1. OtherStreams(a)
  BY Zenon DEF LeavesStreams, OtherStreams, HasStream
<1>2. ASSUME NEW s \in streams', s.own
      PROVE  act'[s.runner].task = s.task /\ act'[s.runner].pc \notin {"idle", "popped", "claimed"}
  <2>1. s \in streams /\ s.runner # a
    BY <1>2, Zenon DEF LeavesStreams
  <2>2. s.runner \in Actors
    BY <2>1 DEF Typed, StreamTyped, Streams, Actors
  <2> QED
    BY <1>2, <2>1, <2>2, Zenon DEF Typed, StreamTyped, Ends, Others
<1> QED
  BY <1>1, <1>2, Zenon DEF StreamTyped, LeavesStreams

\* Finish leaves the other actors, their streams and their locks alone.
LEMMA FinishEffect ==
  ASSUME Typed, NEW a \in Actors, Finish(a)
  PROVE  /\ ActTyped' /\ StreamTyped' /\ DOMAIN lock' = Tasks
         /\ Ends(a) /\ DropsCalls(a)
<1>1. ActTyped' /\ Ends(a)
  BY Finishes, Zenon DEF Finish, Typed
<1>2. StreamTyped' /\ OtherStreams(a)
  BY <1>1, FinishLeaves, LeavesEffect, Zenon DEF Typed, StreamTyped
<1>3. /\ DOMAIN lock' = Tasks
      /\ \A t \in Tasks : lock'[t] = IF t = act[a].task /\ lock[t] = a THEN None ELSE lock[t]
  BY DEF Finish, Release, Typed, RestTyped
<1> QED
  BY <1>1, <1>2, <1>3, Zenon DEF DropsCalls

\* So does a process that dies, but for what locks it held.
LEMMA DiesEffect ==
  ASSUME Typed, NEW a \in Actors, Dies(a)
  PROVE  ActTyped' /\ StreamTyped' /\ DOMAIN lock' = Tasks /\ Ends(a) /\ OtherStreams(a)
<1>1. ActTyped' /\ Ends(a)
  BY Finishes, Zenon DEF Dies, Typed
<1>2. StreamTyped' /\ OtherStreams(a)
  BY <1>1, DiesLeaves, LeavesEffect, Zenon DEF Typed, StreamTyped
<1>3. DOMAIN lock' = Tasks
  BY DEF Dies
<1> QED
  BY <1>1, <1>2, <1>3

\* SET of an entry changes no other.
LEMMA EntrySet ==
  ASSUME entry \in [Tasks -> Nat \cup {None}], NEW u \in Tasks, NEW n \in Nat \cup {None},
         entry' = [entry EXCEPT ![u] = n]
  PROVE  /\ entry' \in [Tasks -> Nat \cup {None}]
         /\ entry'[u] = n
         /\ \A t \in Tasks : t # u => entry'[t] = entry[t]
  OBVIOUS

\* An update of a row changes no other.
LEMMA RowSet ==
  ASSUME Typed, NEW u \in Tasks, NEW s \in InFlight \cup Completed \cup {None}, SetRow(u, s)
  PROVE  /\ row' \in [Tasks -> InFlight \cup Completed \cup {None}]
         /\ row'[u] = s
         /\ \A t \in Tasks : t # u => row'[t] = row[t]
  BY DEF SetRow, Typed, RestTyped

\* DeleteTaskState removes entry, claim and index of one task.
LEMMA StateDeleted ==
  ASSUME Typed, NEW u \in Tasks, DeleteTaskState(u)
  PROVE  /\ entry' \in [Tasks -> Nat \cup {None}] /\ index' \in SUBSET Tasks
         /\ entry'[u] = None /\ u \notin claimed'
         /\ \A t \in Tasks : t # u => SameState(t)
<1>1. /\ entry' \in [Tasks -> Nat \cup {None}]
      /\ entry'[u] = None
      /\ \A t \in Tasks : t # u => entry'[t] = entry[t]
  BY EntrySet DEF DeleteTaskState, Typed, RestTyped
<1>2. u \notin claimed' /\ \A t \in Tasks : t # u => (t \in claimed' <=> t \in claimed)
  BY DEF DeleteTaskState
<1>3. index' \in SUBSET Tasks
  BY DEF DeleteTaskState, Typed, RestTyped
<1> QED
  BY <1>1, <1>2, <1>3, Zenon DEF SameState

\* Types when a step writes neither queue nor monitors.
LEMMA StaysTyped ==
  ASSUME Typed, ActTyped', StreamTyped', DOMAIN lock' = Tasks,
         row' = row, UNCHANGED redis, queue' = queue, put' = put, UNCHANGED mon, retried' = retried
  PROVE  Typed'
  BY Zenon DEF Typed, RestTyped, redis, mon

\* What such a step leaves of every task.
LEMMA StaysSame ==
  ASSUME NEW t, UNCHANGED redis, queue' = queue, UNCHANGED mon, heartbeat' = heartbeat,
         put' = put, retried' = retried, expired' = expired
  PROVE  SameState(t) /\ SameQueue(t) /\ SameBeats(t) /\ SameRest(t)
  BY Zenon DEF SameState, SameQueue, SameBeats, SameRest, Queued, QueuedOnce, redis, mon

\* The end of a call on another task.
LEMMA FinishElsewhere ==
  ASSUME NEW a \in Actors, NEW t \in Tasks, act[a].task # t, Ends(a), DropsCalls(a)
  PROVE  SameAct(t) /\ SameStream(t) /\ lock'[t] = lock[t]
<1>1. act'[a].task # t
  BY TaskAssumption DEF Ends
<1> QED
  BY <1>1, ActorElsewhere, Zenon DEF Ends, DropsCalls, OtherStreams, SameStream, HasStream

\* A call on another task goes on.
LEMMA GoesElsewhere ==
  ASSUME NEW a \in Actors, NEW t \in Tasks, NEW p, act[a].task # t, Goes(a, p), KeepsCalls
  PROVE  SameAct(t) /\ SameStream(t) /\ lock'[t] = lock[t]
  BY ActorElsewhere, Zenon DEF Goes, KeepsCalls, SameStream, HasStream

\* A call goes on: what changes is where the actor is.
LEMMA BecomeEffect ==
  ASSUME Typed, NEW a \in Actors, act[a].pc # "idle",
         NEW p \in Retrying \cup Cancelling \cup Running, a \in Gateways => p \notin Running,
         p \in {"popped", "claimed"} => act[a].pc = "popped",
         p \in Deciding => act[a].pc \in Deciding,
         Become(a, p), KeepsCalls
  PROVE  /\ ActTyped' /\ StreamTyped' /\ DOMAIN lock' = Tasks /\ Goes(a, p)
         /\ \A t \in Tasks :
              act[a].task # t => SameAct(t) /\ SameStream(t) /\ lock'[t] = lock[t]
<1>1. ActTyped' /\ Goes(a, p)
  BY Becomes, Zenon DEF Typed
<1>2. p # "idle"
  BY DEF Retrying, Cancelling, Running
<1>3. StreamTyped'
  BY <1>1, <1>2, GoesTyped, Zenon DEF KeepsCalls
<1> QED
  BY <1>1, <1>3, GoesElsewhere, Zenon DEF Typed, RestTyped, KeepsCalls

\* The places of a call
LEMMA Places ==
  /\ {"unclaim", "reindex", "reenter", "retryRow", "push", "cancel", "cancelRow", "resolve"}
       \subseteq (Retrying \cup Cancelling) \ (Running \cup {"idle", "popped", "claimed"})
  /\ {"claimed", "running", "report"} \subseteq Running
  /\ "idle" \notin Retrying \cup Cancelling \cup Running
  /\ {"cancel", "cancelRow", "resolve", "report"} = Deciding
  BY DEF Retrying, Cancelling, Running, Deciding

-----------------------------------------------------------------------------
(* RetryTask and Cancel                                                    *)

\* RetryTask takes the lock, or ends because it is taken.
LEMMA RetryLockEffect ==
  ASSUME Typed, NEW a \in Actors, RetryLock(a), NEW t \in Tasks
  PROVE  /\ Typed'
         /\ \/ Elsewhere(t)
            \/ /\ act[a].task = t /\ act[a].pc = "retry" /\ row'[t] = row[t]
               /\ SameState(t) /\ SameQueue(t) /\ SameBeats(t) /\ SameRest(t)
               /\ \/ lock[t] # None /\ Ends(a) /\ DropsCalls(a)
                  \/ /\ lock[t] = None /\ lock'[t] = a /\ streams' = streams
                     /\ \/ act[a].retries >= MaxRetries /\ Goes(a, "cancel")
                        \/ act[a].retries < MaxRetries /\ Goes(a, "unclaim")
<1> DEFINE u == act[a].task
<1>1. /\ act[a].pc = "retry" /\ row' = row /\ UNCHANGED redis /\ queue' = queue /\ UNCHANGED mon
      /\ heartbeat' = heartbeat /\ put' = put /\ retried' = retried /\ expired' = expired
      /\ u \in Tasks /\ act[a] \in Activity
  BY Zenon DEF RetryLock, actUnchanged, At, Typed, ActTyped
<1>2. SameState(t) /\ SameQueue(t) /\ SameBeats(t) /\ SameRest(t)
  BY <1>1, StaysSame, Zenon
<1>3. CASE lock[u] # None
  <2>1. ActTyped' /\ StreamTyped' /\ DOMAIN lock' = Tasks /\ Ends(a) /\ DropsCalls(a)
    BY <1>3, FinishEffect, Zenon DEF RetryLock
  <2>2. Typed'
    BY <1>1, <2>1, StaysTyped, Zenon
  <2>3. u # t => SameAct(t) /\ SameStream(t) /\ lock'[t] = lock[t]
    BY <2>1, FinishElsewhere, Zenon
  <2> QED
    BY <1>1, <1>2, <1>3, <2>1, <2>2, <2>3, Zenon DEF Elsewhere
<1>4. CASE lock[u] = None
  <2> DEFINE p == IF act[a].retries >= MaxRetries THEN "cancel" ELSE "unclaim"
             x == [act[a] EXCEPT !.pc = p, !.status = "ERROR"]
  <2>1. lock' = [lock EXCEPT ![u] = a] /\ streams' = streams /\ act' = [act EXCEPT ![a] = x]
    BY <1>1, <1>4, Zenon DEF RetryLock
  <2>2. p \in {"cancel", "unclaim"}
    BY Zenon
  <2>3. /\ x \in Activity /\ x.pc = p /\ x.task = u /\ x.retries = act[a].retries
        /\ x.status \in Verdicts
        /\ p # "idle" /\ p \notin Running /\ p \notin {"idle", "popped", "claimed"}
    BY <1>1, <2>2, Zenon DEF Activity, Retrying, Cancelling, Running, Completed, Verdicts
  <2>4. act[a].retries \in Nat /\ MaxRetries \in Nat
    BY <1>1, TaskAssumption DEF Activity
  <2>5. (act[a].retries >= MaxRetries /\ p = "cancel") \/ (act[a].retries < MaxRetries /\ p = "unclaim")
    BY <2>4
  <2> HIDE DEF x, p
  <2>6. ActTyped' /\ Goes(a, p)
    BY <1>1, <2>1, <2>3, Replaced, Zenon DEF Goes, Typed
  <2>7. StreamTyped'
    BY <2>1, <2>3, <2>6, GoesTyped, Zenon
  <2>8. DOMAIN lock' = Tasks /\ lock'[u] = a /\ \A v \in Tasks : v # u => lock'[v] = lock[v]
    BY <1>1, <2>1 DEF Typed, RestTyped
  <2>9. Typed'
    BY <1>1, <2>6, <2>7, <2>8, StaysTyped, Zenon
  <2>10. u # t => Elsewhere(t)
    BY <1>1, <1>2, <2>1, <2>6, <2>8, ActorElsewhere, Zenon DEF Elsewhere, SameStream, HasStream, Goes
  <2> QED
    BY <1>1, <1>2, <1>4, <2>1, <2>5, <2>6, <2>8, <2>9, <2>10, Zenon
<1> QED
  BY <1>3, <1>4, Zenon

\* RetryTask removes the claim.
LEMMA RetryUnclaimEffect ==
  ASSUME Typed, NEW a \in Actors, RetryUnclaim(a), NEW t \in Tasks
  PROVE  /\ Typed'
         /\ \/ Elsewhere(t)
            \/ /\ act[a].task = t /\ act[a].pc = "unclaim" /\ Goes(a, "reindex") /\ KeepsCalls
               /\ row'[t] = row[t] /\ entry'[t] = entry[t] /\ t \notin claimed'
               /\ SameQueue(t) /\ SameBeats(t) /\ SameRest(t)
<1> DEFINE u == act[a].task
<1>1. /\ act[a].pc = "unclaim" /\ row' = row /\ queue' = queue /\ UNCHANGED mon
      /\ heartbeat' = heartbeat /\ put' = put /\ retried' = retried /\ expired' = expired
      /\ index' = index /\ entry' = entry /\ claimed' = claimed \ {u}
      /\ Become(a, "reindex") /\ KeepsCalls
  BY Zenon DEF RetryUnclaim, actUnchanged, At, KeepsCalls, RemoveTaskClaim
<1>2. /\ ActTyped' /\ StreamTyped' /\ DOMAIN lock' = Tasks /\ Goes(a, "reindex")
      /\ \A v \in Tasks : u # v => SameAct(v) /\ SameStream(v) /\ lock'[v] = lock[v]
  <2>1. act[a].pc # "idle"
    BY <1>1
  <2> QED
    BY <1>1, <2>1, BecomeEffect, Places
<1>3. Typed'
  BY <1>1, <1>2, Zenon DEF Typed, RestTyped, mon
<1>4. SameQueue(t) /\ SameBeats(t) /\ SameRest(t)
  BY <1>1, Zenon DEF SameQueue, SameBeats, SameRest, Queued, QueuedOnce, mon
<1>5. u # t => SameState(t)
  BY <1>1 DEF SameState
<1>6. t = u => t \notin claimed'
  BY <1>1
<1> QED
  BY <1>1, <1>2, <1>3, <1>4, <1>5, <1>6, Zenon DEF Elsewhere

\* SetTaskState begins with the index.
LEMMA RetryIndexEffect ==
  ASSUME Typed, NEW a \in Actors, RetryIndex(a), NEW t \in Tasks
  PROVE  /\ Typed'
         /\ \/ Elsewhere(t)
            \/ /\ act[a].task = t /\ act[a].pc = "reindex" /\ Goes(a, "reenter") /\ KeepsCalls
               /\ row'[t] = row[t] /\ SameState(t)
               /\ SameQueue(t) /\ SameBeats(t) /\ SameRest(t)
<1> DEFINE u == act[a].task
<1>1. /\ act[a].pc = "reindex" /\ row' = row /\ queue' = queue /\ UNCHANGED mon
      /\ heartbeat' = heartbeat /\ put' = put /\ retried' = retried /\ expired' = expired
      /\ index' = index \cup {u} /\ entry' = entry /\ claimed' = claimed
      /\ Become(a, "reenter") /\ KeepsCalls
  BY Zenon DEF RetryIndex, actUnchanged, At, KeepsCalls, Index
<1>2. /\ ActTyped' /\ StreamTyped' /\ DOMAIN lock' = Tasks /\ Goes(a, "reenter")
      /\ \A v \in Tasks : u # v => SameAct(v) /\ SameStream(v) /\ lock'[v] = lock[v]
  <2>1. act[a].pc # "idle"
    BY <1>1
  <2> QED
    BY <1>1, <2>1, BecomeEffect, Places
<1>3. Typed'
  <2>1. index' \subseteq Tasks
    BY <1>1 DEF Typed, RestTyped, ActTyped
  <2> QED
    BY <1>1, <1>2, <2>1, Zenon DEF Typed, RestTyped, mon
<1>4. SameState(t) /\ SameQueue(t) /\ SameBeats(t) /\ SameRest(t)
  BY <1>1, Zenon DEF SameState, SameQueue, SameBeats, SameRest, Queued, QueuedOnce, mon
<1> QED
  BY <1>1, <1>2, <1>3, <1>4, Zenon DEF Elsewhere

\* SetTaskState writes the entry, with one retry more than the actor's copy.
LEMMA RetryEntryEffect ==
  ASSUME Typed, NEW a \in Actors, RetryEntry(a), NEW t \in Tasks
  PROVE  /\ Typed'
         /\ \/ Elsewhere(t)
            \/ /\ act[a].task = t /\ act[a].pc = "reenter" /\ Goes(a, "retryRow") /\ KeepsCalls
               /\ row'[t] = row[t] /\ entry'[t] = act[a].retries + 1
               /\ t \in claimed' <=> t \in claimed
               /\ SameQueue(t) /\ SameBeats(t) /\ SameRest(t)
<1> DEFINE u == act[a].task
<1>1. /\ act[a].pc = "reenter" /\ row' = row /\ queue' = queue /\ UNCHANGED mon
      /\ heartbeat' = heartbeat /\ put' = put /\ retried' = retried /\ expired' = expired
      /\ index' = index /\ entry' = [entry EXCEPT ![u] = act[a].retries + 1] /\ claimed' = claimed
      /\ Become(a, "retryRow") /\ KeepsCalls
  BY Zenon DEF RetryEntry, actUnchanged, At, KeepsCalls, SetEntry
<1>2. /\ ActTyped' /\ StreamTyped' /\ DOMAIN lock' = Tasks /\ Goes(a, "retryRow")
      /\ \A v \in Tasks : u # v => SameAct(v) /\ SameStream(v) /\ lock'[v] = lock[v]
  <2>1. act[a].pc # "idle"
    BY <1>1
  <2> QED
    BY <1>1, <2>1, BecomeEffect, Places
<1>3. act[a].retries + 1 \in Nat \cup {None} /\ u \in Tasks
  <2>1. act[a].retries \in Nat
    BY DEF Typed, ActTyped, Activity
  <2>2. u \in Tasks
    BY <1>1 DEF Typed, ActTyped
  <2> QED
    BY <2>1, <2>2
<1>4. /\ entry' \in [Tasks -> Nat \cup {None}]
      /\ t # u => entry'[t] = entry[t]
      /\ t = u => entry'[t] = act[a].retries + 1
  BY <1>1, <1>3, EntrySet DEF Typed, RestTyped
<1>5. Typed'
  BY <1>1, <1>2, <1>4, Zenon DEF Typed, RestTyped, mon
<1>6. SameQueue(t) /\ SameBeats(t) /\ SameRest(t) /\ (t # u => SameState(t))
  BY <1>1, <1>4, Zenon DEF SameState, SameQueue, SameBeats, SameRest, Queued, QueuedOnce, mon
<1> QED
  BY <1>1, <1>2, <1>4, <1>5, <1>6, Zenon DEF Elsewhere

\* Retry updates the row, or ends without one.
LEMMA RetryRowEffect ==
  ASSUME Typed, NEW a \in Actors, RetryRow(a), NEW t \in Tasks
  PROVE  /\ Typed'
         /\ \/ Elsewhere(t)
            \/ /\ act[a].task = t /\ act[a].pc = "retryRow" /\ SameState(t)
               /\ SameQueue(t) /\ SameBeats(t) /\ SameRest(t)
               /\ \/ row[t] = None /\ row'[t] = None /\ Ends(a) /\ DropsCalls(a)
                  \/ row[t] # None /\ row'[t] = "RETRY" /\ Goes(a, "push") /\ KeepsCalls
<1> DEFINE u == act[a].task
<1>1. /\ act[a].pc = "retryRow" /\ UNCHANGED redis /\ queue' = queue /\ UNCHANGED mon
      /\ heartbeat' = heartbeat /\ put' = put /\ retried' = retried /\ expired' = expired
  BY Zenon DEF RetryRow, actUnchanged, At
<1>2. SameState(t) /\ SameQueue(t) /\ SameBeats(t) /\ SameRest(t)
  BY <1>1, StaysSame, Zenon
<1>3. act[a].pc # "idle" /\ u \in Tasks
  BY <1>1 DEF Typed, ActTyped
<1>4. CASE row[u] = None
  <2>1. row' = row
    BY <1>4, Zenon DEF RetryRow
  <2>2. ActTyped' /\ StreamTyped' /\ DOMAIN lock' = Tasks /\ Ends(a) /\ DropsCalls(a)
    BY <1>4, FinishEffect, Zenon DEF RetryRow
  <2>3. Typed'
    BY <1>1, <2>1, <2>2, StaysTyped, Zenon
  <2>4. u # t => Elsewhere(t)
    BY <1>2, <2>1, <2>2, FinishElsewhere, Zenon DEF Elsewhere
  <2> QED
    BY <1>1, <1>2, <1>4, <2>1, <2>2, <2>3, <2>4, Zenon
<1>5. CASE row[u] # None
  <2>1. SetRow(u, "RETRY") /\ Become(a, "push") /\ KeepsCalls
    BY <1>5, Zenon DEF RetryRow, KeepsCalls
  <2>2. /\ row' \in [Tasks -> InFlight \cup Completed \cup {None}]
        /\ row'[u] = "RETRY" /\ \A v \in Tasks : v # u => row'[v] = row[v]
    BY <1>3, <2>1, RowSet DEF InFlight
  <2>3. /\ ActTyped' /\ StreamTyped' /\ DOMAIN lock' = Tasks /\ Goes(a, "push")
        /\ \A v \in Tasks : u # v => SameAct(v) /\ SameStream(v) /\ lock'[v] = lock[v]
    BY <1>3, <2>1, BecomeEffect, Places
  <2>4. Typed'
    BY <1>1, <2>2, <2>3, Zenon DEF Typed, RestTyped, redis, mon
  <2> QED
    BY <1>1, <1>2, <1>5, <2>1, <2>2, <2>3, <2>4, Zenon DEF Elsewhere
<1> QED
  BY <1>4, <1>5, Zenon

\* Retry pushes the task's message; the call ends.
LEMMA RetryPushEffect ==
  ASSUME Typed, NEW a \in Actors, RetryPush(a), NEW t \in Tasks
  PROVE  /\ Typed'
         /\ \/ Elsewhere(t)
            \/ /\ act[a].task = t /\ act[a].pc = "push" /\ Ends(a) /\ DropsCalls(a)
               /\ row'[t] = row[t] /\ SameState(t) /\ SameBeats(t)
               /\ Queued(t)' /\ (~Queued(t) => QueuedOnce(t)')
               /\ put'[t] = put[t] /\ retried'[t] = retried[t] + 1
               /\ t \in expired' <=> t \in expired
<1> DEFINE u == act[a].task
<1>1. /\ act[a].pc = "push" /\ row' = row /\ UNCHANGED redis /\ UNCHANGED mon
      /\ heartbeat' = heartbeat /\ put' = put /\ expired' = expired
      /\ queue' = Append(queue, u) /\ retried' = [retried EXCEPT ![u] = @ + 1]
      /\ Finish(a)
  BY Zenon DEF RetryPush, actUnchanged, At
<1>2. u \in Tasks
  BY <1>1 DEF Typed, ActTyped
<1>3. /\ queue' \in Seq(Tasks)
      /\ Queued(t)' <=> Queued(t) \/ u = t
      /\ u # t /\ QueuedOnce(t) => QueuedOnce(t)'
      /\ u = t /\ ~Queued(t) => QueuedOnce(t)'
  BY <1>1, <1>2, Pushed, Zenon DEF Typed, RestTyped
<1>4. /\ retried' \in [Tasks -> Nat] /\ retried'[u] = retried[u] + 1
      /\ \A v \in Tasks : v # u => retried'[v] = retried[v]
  <2>1. retried \in [Tasks -> Nat] /\ retried' = [retried EXCEPT ![u] = @ + 1]
    BY <1>1 DEF Typed, RestTyped
  <2> QED
    BY <1>2, <2>1
<1>5. ActTyped' /\ StreamTyped' /\ DOMAIN lock' = Tasks /\ Ends(a) /\ DropsCalls(a)
  BY <1>1, FinishEffect, Zenon
<1>6. Typed'
  BY <1>1, <1>3, <1>4, <1>5, Zenon DEF Typed, RestTyped, redis, mon
<1>7. SameState(t) /\ SameBeats(t)
  BY <1>1, Zenon DEF SameState, SameBeats, redis, mon
<1>8. u # t => Elsewhere(t)
  BY <1>1, <1>3, <1>4, <1>5, <1>7, FinishElsewhere, Zenon DEF Elsewhere, SameRest, SameQueue
<1> QED
  BY <1>1, <1>3, <1>4, <1>5, <1>6, <1>7, <1>8, Zenon

\* Cancel reads the row.
LEMMA CancelReadEffect ==
  ASSUME Typed, NEW a \in Actors, CancelRead(a), NEW t \in Tasks
  PROVE  /\ Typed'
         /\ \/ Elsewhere(t)
            \/ /\ act[a].task = t /\ act[a].pc = "cancel" /\ row'[t] = row[t]
               /\ SameState(t) /\ SameQueue(t) /\ SameBeats(t) /\ SameRest(t)
               /\ \/ row[t] = None /\ Ends(a) /\ DropsCalls(a)
                  \/ Goes(a, "cancelRow") /\ KeepsCalls
                  \/ row[t] \notin InFlight /\ Goes(a, "resolve") /\ KeepsCalls
<1> DEFINE u == act[a].task
<1>1. /\ act[a].pc = "cancel" /\ row' = row /\ UNCHANGED redis /\ queue' = queue /\ UNCHANGED mon
      /\ heartbeat' = heartbeat /\ put' = put /\ retried' = retried /\ expired' = expired
  BY Zenon DEF CancelRead, actUnchanged, At
<1>2. SameState(t) /\ SameQueue(t) /\ SameBeats(t) /\ SameRest(t)
  BY <1>1, StaysSame, Zenon
<1>3. act[a].pc # "idle" /\ u \in Tasks
  BY <1>1 DEF Typed, ActTyped
<1>4. \/ row[u] = None /\ Finish(a)
      \/ Become(a, "cancelRow") /\ KeepsCalls
      \/ row[u] \notin InFlight /\ Become(a, "resolve") /\ KeepsCalls
  <2>1. row[u] \in InFlight \/ row[u] \in Completed \/ row[u] = None
    BY <1>3 DEF Typed, RestTyped
  <2>2. /\ row[u] \in InFlight => row[u] \notin Completed /\ row[u] # None
        /\ row[u] \in Completed => row[u] # None
    BY TaskAssumption DEF InFlight, Completed
  <2> QED
    BY <2>1, <2>2, Zenon DEF CancelRead, KeepsCalls
<1>5. CASE row[u] = None /\ Finish(a)
  <2>1. ActTyped' /\ StreamTyped' /\ DOMAIN lock' = Tasks /\ Ends(a) /\ DropsCalls(a)
    BY <1>5, FinishEffect, Zenon
  <2>2. Typed'
    BY <1>1, <2>1, StaysTyped, Zenon
  <2>3. u # t => Elsewhere(t)
    BY <1>1, <1>2, <2>1, FinishElsewhere, Zenon DEF Elsewhere
  <2> QED
    BY <1>1, <1>2, <1>5, <2>1, <2>2, <2>3, Zenon
<1>6. ASSUME NEW p \in {"cancelRow", "resolve"}, Become(a, p), KeepsCalls
      PROVE  Typed' /\ Goes(a, p) /\ (u # t => Elsewhere(t))
  <2>1. /\ ActTyped' /\ StreamTyped' /\ DOMAIN lock' = Tasks /\ Goes(a, p)
        /\ \A v \in Tasks : u # v => SameAct(v) /\ SameStream(v) /\ lock'[v] = lock[v]
    BY <1>1, <1>3, <1>6, BecomeEffect, Places
  <2>2. Typed'
    BY <1>1, <2>1, StaysTyped, Zenon
  <2> QED
    BY <1>1, <1>2, <2>1, <2>2, Zenon DEF Elsewhere
<1> QED
  BY <1>1, <1>2, <1>4, <1>5, <1>6, Zenon

\* Cancel updates the row.
LEMMA CancelRowEffect ==
  ASSUME Typed, NEW a \in Actors, CancelRow(a), NEW t \in Tasks
  PROVE  /\ Typed'
         /\ \/ Elsewhere(t)
            \/ /\ act[a].task = t /\ act[a].pc = "cancelRow" /\ Goes(a, "resolve") /\ KeepsCalls
               /\ row'[t] \in Verdicts
               /\ SameState(t) /\ SameQueue(t) /\ SameBeats(t) /\ SameRest(t)
<1> DEFINE u == act[a].task
<1>1. /\ act[a].pc = "cancelRow" /\ UNCHANGED redis /\ queue' = queue /\ UNCHANGED mon
      /\ heartbeat' = heartbeat /\ put' = put /\ retried' = retried /\ expired' = expired
      /\ SetRow(u, act[a].status) /\ Become(a, "resolve") /\ KeepsCalls
  BY Zenon DEF CancelRow, actUnchanged, At, KeepsCalls
<1>2. SameState(t) /\ SameQueue(t) /\ SameBeats(t) /\ SameRest(t)
  BY <1>1, StaysSame, Zenon
<1>3. act[a].pc # "idle" /\ u \in Tasks
  BY <1>1 DEF Typed, ActTyped
<1>4. act[a].status \in Verdicts
  BY <1>1, Places DEF Typed, ActTyped
<1>5. /\ row' \in [Tasks -> InFlight \cup Completed \cup {None}]
      /\ row'[u] \in Verdicts /\ \A v \in Tasks : v # u => row'[v] = row[v]
  BY <1>1, <1>3, <1>4, RowSet DEF Verdicts, Completed
<1>6. /\ ActTyped' /\ StreamTyped' /\ DOMAIN lock' = Tasks /\ Goes(a, "resolve")
      /\ \A v \in Tasks : u # v => SameAct(v) /\ SameStream(v) /\ lock'[v] = lock[v]
  BY <1>1, <1>3, BecomeEffect, Places
<1>7. Typed'
  BY <1>1, <1>5, <1>6, Zenon DEF Typed, RestTyped, redis, mon
<1> QED
  BY <1>1, <1>2, <1>5, <1>6, <1>7, Zenon DEF Elsewhere

\* Dispatcher.Complete deletes the task's state; the call ends.
LEMMA ResolveEffect ==
  ASSUME Typed, NEW a \in Actors, Resolve(a), NEW t \in Tasks
  PROVE  /\ Typed'
         /\ \/ Elsewhere(t)
            \/ /\ act[a].task = t /\ act[a].pc = "resolve" /\ Ends(a) /\ DropsCalls(a)
               /\ row'[t] = row[t] /\ entry'[t] = None /\ t \notin claimed'
               /\ SameQueue(t) /\ SameBeats(t) /\ SameRest(t)
<1> DEFINE u == act[a].task
<1>1. /\ act[a].pc = "resolve" /\ row' = row /\ queue' = queue /\ UNCHANGED mon
      /\ heartbeat' = heartbeat /\ put' = put /\ retried' = retried /\ expired' = expired
      /\ DeleteTaskState(u) /\ Finish(a)
  BY Zenon DEF Resolve, actUnchanged, At
<1>2. u \in Tasks
  BY <1>1 DEF Typed, ActTyped
<1>3. /\ entry' \in [Tasks -> Nat \cup {None}] /\ index' \in SUBSET Tasks
      /\ entry'[u] = None /\ u \notin claimed'
      /\ \A v \in Tasks : v # u => SameState(v)
  BY <1>1, <1>2, StateDeleted, Zenon
<1>4. ActTyped' /\ StreamTyped' /\ DOMAIN lock' = Tasks /\ Ends(a) /\ DropsCalls(a)
  BY <1>1, FinishEffect, Zenon
<1>5. Typed'
  BY <1>1, <1>3, <1>4, Zenon DEF Typed, RestTyped, mon
<1>6. SameQueue(t) /\ SameBeats(t) /\ SameRest(t)
  BY <1>1, Zenon DEF SameQueue, SameBeats, SameRest, Queued, QueuedOnce, mon
<1>7. u # t => Elsewhere(t)
  BY <1>1, <1>3, <1>4, <1>6, FinishElsewhere, Zenon DEF Elsewhere
<1> QED
  BY <1>1, <1>3, <1>4, <1>5, <1>6, <1>7, Zenon

-----------------------------------------------------------------------------
(* Runners                                                                 *)

Refreshed(t) ==
  /\ t \in heartbeat'
  /\ \A g \in Gateways : copies'[g][t] # None =>
       /\ copies[g][t] # None
       /\ copies'[g][t].recent
       /\ copies'[g][t].retries = copies[g][t].retries

\* A heartbeat is refreshed.
LEMMA RefreshEffect ==
  ASSUME Typed, NEW u \in Tasks, Refresh(u), NEW t \in Tasks
  PROVE  /\ copies' \in [Gateways -> [Tasks -> Copy \cup {None}]]
         /\ t = u => Refreshed(t)
         /\ t # u => SameBeats(t)
         /\ \A g \in Gateways : copies[g][t] = None => copies'[g][t] = None
<1> DEFINE C(c) == IF c = None THEN None ELSE [c EXCEPT !.recent = TRUE]
<1>1. /\ heartbeat' = heartbeat \cup {u}
      /\ copies' = [g \in Gateways |-> [copies[g] EXCEPT ![u] = C(copies[g][u])]]
  BY Zenon DEF Refresh
<1>2. ASSUME NEW c \in Copy \cup {None}
      PROVE  /\ C(c) \in Copy \cup {None} /\ (c = None => C(c) = None)
             /\ C(c) # None => c # None /\ C(c).recent /\ C(c).retries = c.retries
  BY Zenon DEF Copy
<1> HIDE DEF C
<1>3. ASSUME NEW g \in Gateways
      PROVE  /\ copies[g] \in [Tasks -> Copy \cup {None}]
             /\ copies'[g] = [copies[g] EXCEPT ![u] = C(copies[g][u])]
  BY <1>1 DEF Typed, RestTyped
<1>4. ASSUME NEW g \in Gateways
      PROVE  /\ copies'[g] \in [Tasks -> Copy \cup {None}]
             /\ copies[g][u] \in Copy \cup {None}
             /\ copies'[g][u] = C(copies[g][u])
             /\ t # u => copies'[g][t] = copies[g][t]
  <2>1. copies[g][u] \in Copy \cup {None} /\ C(copies[g][u]) \in Copy \cup {None}
    BY <1>2, <1>3, Zenon
  <2> DEFINE v == C(copies[g][u])
  <2>2. /\ copies[g] \in [Tasks -> Copy \cup {None}] /\ v \in Copy \cup {None}
        /\ copies'[g] = [copies[g] EXCEPT ![u] = v]
    BY <1>3, <2>1, Zenon
  <2> HIDE DEF v
  <2>3. /\ copies'[g] \in [Tasks -> Copy \cup {None}] /\ copies'[g][u] = v
        /\ t # u => copies'[g][t] = copies[g][t]
    BY <2>2
  <2> QED
    BY <2>1, <2>3, Zenon DEF v
<1>5. copies' \in [Gateways -> [Tasks -> Copy \cup {None}]]
  <2>1. DOMAIN copies' = Gateways /\ copies' = [g \in DOMAIN copies' |-> copies'[g]]
    BY <1>1
  <2> QED
    BY <1>4, <2>1
<1>6. u \in heartbeat' /\ (t # u => (t \in heartbeat' <=> t \in heartbeat))
  BY <1>1
<1>7. t = u => Refreshed(t)
  BY <1>2, <1>4, <1>6, ZenonT(60) DEF Refreshed
<1>8. t # u => SameBeats(t)
  BY <1>4, <1>6, Zenon DEF SameBeats
<1>9. \A g \in Gateways : copies[g][t] = None => copies'[g][t] = None
  BY <1>2, <1>4, Zenon
<1> QED
  BY <1>5, <1>7, <1>8, <1>9, Zenon

\* A pop takes a message, and the task with it unless its row is completed.
LEMMA PopEffect ==
  ASSUME Typed, NEW r \in Runners, Pop(r), NEW t \in Tasks
  PROVE  /\ Typed'
         /\ \/ Elsewhere(t)
            \/ /\ Refreshed(t) /\ Queued(t)
               /\ QueuedOnce(t) => ~Queued(t)' /\ QueuedOnce(t)'
               /\ SameState(t) /\ SameRest(t) /\ KeepsCalls /\ row'[t] = row[t]
               /\ \/ row[t] \notin InFlight /\ act' = act
                  \/ /\ row[t] \in InFlight /\ act[r].pc = "idle" /\ Others(r)
                     /\ act'[r].pc = "popped" /\ act'[r].task = t
<1> DEFINE u == Head(queue)
           x == [Idle EXCEPT !.pc = "popped", !.task = u]
<1>1. /\ act[r].pc = "idle" /\ queue # <<>> /\ queue' = Tail(queue) /\ Refresh(u)
      /\ act' = IF row[u] \in InFlight THEN [act EXCEPT ![r] = x] ELSE act
      /\ row' = row /\ UNCHANGED redis /\ put' = put /\ expired' = expired /\ retried' = retried
      /\ todo' = todo /\ streams' = streams /\ lock' = lock
  BY Zenon DEF Pop, At, counts
<1>2. /\ queue' \in Seq(Tasks) /\ u \in Tasks
      /\ u = t => Queued(t)
      /\ Queued(t)' => Queued(t)
      /\ Queued(t) => u = t \/ Queued(t)'
      /\ QueuedOnce(t) => QueuedOnce(t)'
      /\ QueuedOnce(t) /\ u = t => ~Queued(t)'
  BY <1>1, Popped, Zenon DEF Typed, RestTyped
<1>3. /\ copies' \in [Gateways -> [Tasks -> Copy \cup {None}]]
      /\ t = u => Refreshed(t)
      /\ t # u => SameBeats(t)
  BY <1>1, <1>2, RefreshEffect, Zenon
<1>4. r \in Actors /\ r \notin Gateways
  BY TaskAssumption DEF Actors
<1>5. SameState(t) /\ SameRest(t) /\ KeepsCalls
  BY <1>1, Zenon DEF SameState, SameRest, KeepsCalls, redis
<1>6. x \in Activity /\ x.pc = "popped" /\ x.task = u /\ x.pc \notin Deciding
  BY <1>2, Zenon DEF Idle, Activity, Running, Deciding, Cancelling
<1>7. row[u] \in InFlight => ActTyped' /\ act'[r] = x /\ Others(r)
  <2>1. "popped" # "idle"
    OBVIOUS
  <2> HIDE DEF x
  <2> QED
    BY <1>1, <1>2, <1>4, <1>6, <2>1, Replaced, Zenon DEF Typed
<1>8. row[u] \notin InFlight => act' = act
  BY <1>1, Zenon
<1>9. ActTyped' /\ StreamTyped'
  <2>1. CASE row[u] \in InFlight
    <3>1. ASSUME NEW s \in streams', s.own
          PROVE  /\ act'[s.runner].task = s.task
                 /\ act'[s.runner].pc \notin {"idle", "popped", "claimed"}
      <4>1. /\ s \in streams /\ s.runner \in Actors
            /\ act[s.runner].task = s.task
            /\ act[s.runner].pc \notin {"idle", "popped", "claimed"}
        BY <1>1, <3>1 DEF Typed, StreamTyped, Streams, Actors
      <4> QED
        BY <1>1, <1>7, <2>1, <4>1, Zenon DEF Others
    <3> QED
      BY <1>1, <1>7, <2>1, <3>1, Zenon DEF Typed, StreamTyped
  <2>2. CASE row[u] \notin InFlight
    BY <1>1, <1>8, <2>2, Zenon DEF Typed, ActTyped, StreamTyped
  <2> QED
    BY <2>1, <2>2, Zenon
<1>10. Typed'
  BY <1>1, <1>2, <1>3, <1>9, Zenon DEF Typed, RestTyped, redis
<1>11. u # t => Elsewhere(t)
  <2>1. ASSUME u # t PROVE SameAct(t)
    <3>1. CASE row[u] \in InFlight
      <4>1. act[r].task # t /\ act'[r].task # t
        BY <1>1, <1>4, <1>6, <1>7, <2>1, <3>1, TaskAssumption DEF Typed, ActTyped
      <4> QED
        BY <1>4, <1>7, <3>1, <4>1, ActorElsewhere, Zenon
    <3>2. CASE row[u] \notin InFlight
      BY <1>8, <3>2, Zenon DEF SameAct
    <3> QED
      BY <3>1, <3>2, Zenon
  <2> QED
    BY <1>1, <1>2, <1>3, <1>5, <2>1, Zenon DEF Elsewhere, SameStream, HasStream, SameQueue
<1> QED
  BY <1>1, <1>2, <1>3, <1>5, <1>6, <1>7, <1>8, <1>10, <1>11, Zenon

\* The runner claims the task it has popped.
LEMMA ClaimEffect ==
  ASSUME Typed, NEW r \in Runners, Claim(r), NEW t \in Tasks
  PROVE  /\ Typed'
         /\ \/ Elsewhere(t)
            \/ /\ act[r].task = t /\ act[r].pc = "popped" /\ Goes(r, "claimed") /\ KeepsCalls
               /\ row'[t] = row[t] /\ entry'[t] = entry[t] /\ t \in claimed'
               /\ SameQueue(t) /\ SameBeats(t) /\ SameRest(t)
<1> DEFINE u == act[r].task
<1>1. /\ act[r].pc = "popped" /\ row' = row /\ queue' = queue /\ UNCHANGED mon
      /\ heartbeat' = heartbeat /\ put' = put /\ retried' = retried /\ expired' = expired
      /\ index' = index /\ entry' = entry /\ claimed' = claimed \cup {u}
      /\ Become(r, "claimed") /\ KeepsCalls
  BY Zenon DEF Claim, actUnchanged, At, KeepsCalls, ClaimTask
<1>2. r \in Actors /\ r \notin Gateways /\ act[r].pc # "idle"
  BY <1>1, TaskAssumption DEF Actors
<1>3. /\ ActTyped' /\ StreamTyped' /\ DOMAIN lock' = Tasks /\ Goes(r, "claimed")
      /\ \A v \in Tasks : u # v => SameAct(v) /\ SameStream(v) /\ lock'[v] = lock[v]
  BY <1>1, <1>2, BecomeEffect, Places, Zenon
<1>4. Typed'
  BY <1>1, <1>3, Zenon DEF Typed, RestTyped, mon
<1>5. SameQueue(t) /\ SameBeats(t) /\ SameRest(t)
  BY <1>1, Zenon DEF SameQueue, SameBeats, SameRest, Queued, QueuedOnce, mon
<1>6. (u # t => SameState(t)) /\ (u = t => t \in claimed')
  BY <1>1 DEF SameState
<1> QED
  BY <1>1, <1>3, <1>4, <1>5, <1>6, Zenon DEF Elsewhere

\* The row becomes RUNNING, and the runner has a stream.
LEMMA StartEffect ==
  ASSUME Typed, NEW r \in Runners, Start(r), NEW t \in Tasks
  PROVE  /\ Typed'
         /\ \/ Elsewhere(t)
            \/ /\ act[r].task = t /\ act[r].pc = "claimed" /\ Goes(r, "running")
               /\ row'[t] = "RUNNING" /\ lock' = lock /\ HasStream(r)' /\ OtherStreams(r)
               /\ SameState(t) /\ SameQueue(t) /\ SameBeats(t) /\ SameRest(t)
<1> DEFINE u == act[r].task
           n == [runner |-> r, task |-> u, pc |-> "off", own |-> TRUE]
<1>1. /\ act[r].pc = "claimed" /\ UNCHANGED redis /\ queue' = queue /\ UNCHANGED mon
      /\ heartbeat' = heartbeat /\ put' = put /\ retried' = retried /\ expired' = expired
      /\ SetRow(u, "RUNNING") /\ Become(r, "running") /\ lock' = lock
      /\ streams' = streams \cup {n}
  BY Zenon DEF Start, actUnchanged, At
<1>2. r \in Actors /\ r \notin Gateways /\ act[r].pc # "idle" /\ u \in Tasks
  BY <1>1, TaskAssumption DEF Actors, Typed, ActTyped
<1>3. SameState(t) /\ SameQueue(t) /\ SameBeats(t) /\ SameRest(t)
  BY <1>1, StaysSame, Zenon
<1>4. /\ row' \in [Tasks -> InFlight \cup Completed \cup {None}]
      /\ row'[u] = "RUNNING" /\ \A v \in Tasks : v # u => row'[v] = row[v]
  BY <1>1, <1>2, RowSet DEF InFlight
<1>5. "running" \in Running /\ "running" \notin Deciding
  BY DEF Running, Deciding, Cancelling
<1>6. ActTyped' /\ Goes(r, "running")
  BY <1>1, <1>2, <1>5, Becomes, Zenon DEF Typed
<1>7. n \in Streams /\ n.runner = r /\ n.task = u /\ n.own
  BY <1>2 DEF Streams
<1> HIDE DEF n
<1>8. HasStream(r)' /\ OtherStreams(r)
  BY <1>1, <1>7, Zenon DEF HasStream, OtherStreams
<1>9. ASSUME NEW s \in streams', s.own
      PROVE  act'[s.runner].task = s.task /\ act'[s.runner].pc \notin {"idle", "popped", "claimed"}
  <2>1. CASE s = n
    BY <1>6, <1>7, <2>1 DEF Goes
  <2>2. CASE s \in streams
    <3>1. /\ s.runner \in Actors /\ act[s.runner].task = s.task
          /\ act[s.runner].pc \notin {"idle", "popped", "claimed"}
      BY <1>9, <2>2 DEF Typed, StreamTyped, Streams, Actors
    <3> QED
      BY <1>1, <1>6, <3>1, Zenon DEF Goes, Others
  <2> QED
    BY <1>1, <2>1, <2>2, Zenon
<1>10. StreamTyped'
  BY <1>1, <1>7, <1>9, Zenon DEF Typed, StreamTyped
<1>11. Typed'
  BY <1>1, <1>4, <1>6, <1>10, Zenon DEF Typed, RestTyped, redis, mon
<1>12. u # t => SameAct(t) /\ SameStream(t)
  BY <1>2, <1>6, <1>8, ActorElsewhere, Zenon DEF Goes, OtherStreams, SameStream
<1> QED
  BY <1>1, <1>3, <1>4, <1>6, <1>8, <1>11, <1>12, Zenon DEF Elsewhere

\* TaskQueueComplete deletes the task's state first.
LEMMA CompleteEffect ==
  ASSUME Typed, NEW r \in Runners, NEW s \in {"COMPLETE", "ERROR"}, Complete(r, s),
         NEW t \in Tasks
  PROVE  /\ Typed'
         /\ \/ Elsewhere(t)
            \/ /\ act[r].task = t /\ act[r].pc = "running" /\ Goes(r, "report") /\ KeepsCalls
               /\ row'[t] = row[t] /\ entry'[t] = None /\ t \notin claimed'
               /\ SameQueue(t) /\ SameBeats(t) /\ SameRest(t)
<1> DEFINE u == act[r].task
           x == [act[r] EXCEPT !.pc = "report", !.status = s]
<1>1. /\ act[r].pc = "running" /\ row' = row /\ queue' = queue /\ UNCHANGED mon
      /\ heartbeat' = heartbeat /\ put' = put /\ retried' = retried /\ expired' = expired
      /\ DeleteTaskState(u) /\ KeepsCalls
  BY Zenon DEF Complete, actUnchanged, At, KeepsCalls
<1>2. u \in Tasks /\ r \in Actors /\ r \notin Gateways /\ act[r] \in Activity
  BY <1>1, TaskAssumption DEF Typed, ActTyped, Actors
<1>3. act' = [act EXCEPT ![r] = x]
  BY <1>2, Zenon DEF Complete
<1>4. /\ x \in Activity /\ x.pc = "report" /\ x.task = u /\ x.retries = act[r].retries
      /\ x.status \in Verdicts
  BY <1>2, Zenon DEF Activity, Running, Completed, Verdicts
<1>5. ActTyped' /\ Goes(r, "report")
  <2>1. "report" # "idle"
    OBVIOUS
  <2> HIDE DEF x
  <2> QED
    BY <1>2, <1>3, <1>4, <2>1, Replaced, Zenon DEF Goes, Typed
<1>6. StreamTyped'
  BY <1>1, <1>2, <1>5, GoesTyped, Zenon DEF KeepsCalls
<1>7. /\ entry' \in [Tasks -> Nat \cup {None}] /\ index' \in SUBSET Tasks
      /\ entry'[u] = None /\ u \notin claimed'
      /\ \A v \in Tasks : v # u => SameState(v)
  BY <1>1, <1>2, StateDeleted, Zenon
<1>8. Typed'
  BY <1>1, <1>5, <1>6, <1>7, Zenon DEF Typed, RestTyped, mon, KeepsCalls
<1>9. SameQueue(t) /\ SameBeats(t) /\ SameRest(t)
  BY <1>1, Zenon DEF SameQueue, SameBeats, SameRest, Queued, QueuedOnce, mon
<1>10. u # t => Elsewhere(t)
  BY <1>1, <1>2, <1>5, <1>7, <1>9, GoesElsewhere, Zenon DEF Elsewhere
<1> QED
  BY <1>1, <1>5, <1>7, <1>8, <1>9, <1>10, Zenon

\* Then it updates the row.
LEMMA CompleteRowEffect ==
  ASSUME Typed, NEW r \in Runners, CompleteRow(r), NEW t \in Tasks
  PROVE  /\ Typed'
         /\ \/ Elsewhere(t)
            \/ /\ act[r].task = t /\ act[r].pc = "report" /\ Ends(r) /\ DropsCalls(r)
               /\ row'[t] \in Verdicts
               /\ SameState(t) /\ SameQueue(t) /\ SameBeats(t) /\ SameRest(t)
<1> DEFINE u == act[r].task
<1>1. /\ act[r].pc = "report" /\ UNCHANGED redis /\ queue' = queue /\ UNCHANGED mon
      /\ heartbeat' = heartbeat /\ put' = put /\ retried' = retried /\ expired' = expired
      /\ SetRow(u, act[r].status) /\ Finish(r)
  BY Zenon DEF CompleteRow, actUnchanged, At
<1>2. SameState(t) /\ SameQueue(t) /\ SameBeats(t) /\ SameRest(t)
  BY <1>1, StaysSame, Zenon
<1>3. r \in Actors /\ u \in Tasks
  BY <1>1 DEF Typed, ActTyped, Actors
<1>4. act[r].status \in Verdicts
  BY <1>1, <1>3, Places DEF Typed, ActTyped
<1>5. /\ row' \in [Tasks -> InFlight \cup Completed \cup {None}]
      /\ row'[u] \in Verdicts /\ \A v \in Tasks : v # u => row'[v] = row[v]
  BY <1>1, <1>3, <1>4, RowSet, Zenon DEF Verdicts, Completed
<1>6. ActTyped' /\ StreamTyped' /\ DOMAIN lock' = Tasks /\ Ends(r) /\ DropsCalls(r)
  BY <1>1, <1>3, FinishEffect, Zenon
<1>7. Typed'
  BY <1>1, <1>5, <1>6, Zenon DEF Typed, RestTyped, redis, mon
<1>8. u # t => Elsewhere(t)
  BY <1>2, <1>3, <1>5, <1>6, FinishElsewhere, Zenon DEF Elsewhere
<1> QED
  BY <1>1, <1>2, <1>5, <1>6, <1>7, <1>8, Zenon

\* TaskQueueComplete with RETRY reads the entry.
LEMMA CompleteRetryEffect ==
  ASSUME Typed, NEW r \in Runners, CompleteRetry(r), NEW t \in Tasks
  PROVE  /\ Typed'
         /\ \/ Elsewhere(t)
            \/ /\ act[r].task = t /\ act[r].pc = "running" /\ row'[t] = row[t]
               /\ SameState(t) /\ SameQueue(t) /\ SameBeats(t) /\ SameRest(t)
               /\ \/ entry[t] = None /\ Ends(r) /\ DropsCalls(r)
                  \/ /\ entry[t] # None /\ act'[r].pc = "retry" /\ act'[r].task = t
                     /\ act'[r].retries = entry[t] /\ Others(r) /\ KeepsCalls
<1> DEFINE u == act[r].task
           x == [act[r] EXCEPT !.pc = "retry", !.retries = entry[u]]
<1>1. /\ act[r].pc = "running" /\ row' = row /\ UNCHANGED redis /\ queue' = queue /\ UNCHANGED mon
      /\ heartbeat' = heartbeat /\ put' = put /\ retried' = retried /\ expired' = expired
  BY Zenon DEF CompleteRetry, actUnchanged, At
<1>2. SameState(t) /\ SameQueue(t) /\ SameBeats(t) /\ SameRest(t)
  BY <1>1, StaysSame, Zenon
<1>3. u \in Tasks /\ r \in Actors /\ r \notin Gateways /\ act[r] \in Activity
  BY <1>1, TaskAssumption DEF Typed, ActTyped, Actors
<1>4. CASE entry[u] = None
  <2>1. ActTyped' /\ StreamTyped' /\ DOMAIN lock' = Tasks /\ Ends(r) /\ DropsCalls(r)
    BY <1>3, <1>4, FinishEffect, Zenon DEF CompleteRetry
  <2>2. Typed'
    BY <1>1, <2>1, StaysTyped, Zenon
  <2>3. u # t => Elsewhere(t)
    BY <1>1, <1>2, <1>3, <2>1, FinishElsewhere, Zenon DEF Elsewhere
  <2> QED
    BY <1>1, <1>2, <1>4, <2>1, <2>2, <2>3, Zenon
<1>5. CASE entry[u] # None
  <2>1. act' = [act EXCEPT ![r] = x] /\ KeepsCalls
    BY <1>3, <1>5, Zenon DEF CompleteRetry, KeepsCalls
  <2>2. entry[u] \in Nat
    BY <1>3, <1>5, Zenon DEF Typed, RestTyped
  <2>3. /\ x \in Activity /\ x.pc = "retry" /\ x.task = u /\ x.retries = entry[u]
        /\ x.pc # "idle" /\ x.pc \notin Deciding /\ x.pc \notin {"idle", "popped", "claimed"}
    BY <1>3, <2>2, Zenon DEF Activity, Retrying, Deciding, Cancelling
  <2> HIDE DEF x
  <2>4. ActTyped' /\ act'[r] = x /\ Others(r)
    BY <1>3, <2>1, <2>3, Replaced, Zenon DEF Typed
  <2>5. StreamTyped'
    <3>1. ASSUME NEW s \in streams', s.own
          PROVE  /\ act'[s.runner].task = s.task
                 /\ act'[s.runner].pc \notin {"idle", "popped", "claimed"}
      <4>1. /\ s \in streams /\ s.runner \in Actors
            /\ act[s.runner].task = s.task
            /\ act[s.runner].pc \notin {"idle", "popped", "claimed"}
        BY <2>1, <3>1 DEF Typed, StreamTyped, Streams, Actors, KeepsCalls
      <4> QED
        BY <2>3, <2>4, <4>1, Zenon DEF Others
    <3> QED
      BY <2>1, <3>1, Zenon DEF Typed, StreamTyped, KeepsCalls
  <2>6. Typed'
    BY <1>1, <2>1, <2>4, <2>5, StaysTyped, Zenon DEF Typed, RestTyped, KeepsCalls
  <2>7. u # t => Elsewhere(t)
    BY <1>1, <1>2, <1>3, <2>1, <2>3, <2>4, ActorElsewhere, Zenon
    DEF Elsewhere, SameStream, HasStream, KeepsCalls
  <2> QED
    BY <1>1, <1>2, <1>5, <2>1, <2>3, <2>4, <2>6, <2>7, Zenon
<1> QED
  BY <1>4, <1>5, Zenon

-----------------------------------------------------------------------------
(* The runners' streams                                                    *)

SameStreams == \A r \in Runners : HasStream(r)' <=> HasStream(r)

\* A stream goes on, and stays the stream of what it was.
LEMMA StreamMoves ==
  ASSUME Typed, NEW s \in streams, NEW p \in {"off", "on", "ending", "exiting"}, To(s, p), act' = act
  PROVE  ActTyped' /\ StreamTyped' /\ SameStreams
<1> DEFINE n == [s EXCEPT !.pc = p]
<1>1. streams' = (streams \ {s}) \cup {n}
  BY Zenon DEF To
<1>2. s \in Streams
  BY DEF Typed, StreamTyped
<1>3. n \in Streams /\ n.runner = s.runner /\ n.task = s.task /\ n.own = s.own
  BY <1>2 DEF Streams
<1> HIDE DEF n
<1>4. StreamTyped'
  BY <1>1, <1>3, Zenon DEF Typed, StreamTyped
<1>5. SameStreams
  BY <1>1, <1>3, Zenon DEF SameStreams, HasStream
<1> QED
  BY <1>4, <1>5, Zenon DEF Typed, ActTyped

\* A stream starts: nothing changes for a task.
LEMMA WatchEffect ==
  ASSUME Typed, NEW s \in streams, Watch(s), NEW t \in Tasks
  PROVE  Typed' /\ Elsewhere(t)
<1> DEFINE p == IF row[s.task] = "CANCELLED" THEN "exiting" ELSE "on"
<1>1. /\ row' = row /\ UNCHANGED redis /\ queue' = queue /\ UNCHANGED mon
      /\ heartbeat' = heartbeat /\ put' = put /\ retried' = retried /\ expired' = expired
      /\ act' = act /\ lock' = lock /\ To(s, p)
  BY Zenon DEF Watch, actUnchanged
<1>2. SameState(t) /\ SameQueue(t) /\ SameBeats(t) /\ SameRest(t)
  BY <1>1, StaysSame, Zenon
<1>3. p \in {"off", "on", "ending", "exiting"}
  OBVIOUS
<1> HIDE DEF p
<1>4. ActTyped' /\ StreamTyped' /\ SameStreams
  BY <1>1, <1>3, StreamMoves, Zenon
<1>5. Typed'
  BY <1>1, <1>4, StaysTyped, Zenon DEF Typed, RestTyped
<1> QED
  BY <1>1, <1>2, <1>4, <1>5, Zenon DEF Elsewhere, SameAct, SameStream, SameStreams

\* A stream refreshes the heartbeat of its task, and ends if the claim is gone.
LEMMA BeatEffect ==
  ASSUME Typed, NEW s \in streams, Beat(s), NEW t \in Tasks
  PROVE  /\ Typed'
         /\ \/ Elsewhere(t)
            \/ /\ act' = act /\ row'[t] = row[t] /\ lock' = lock
               /\ SameState(t) /\ SameQueue(t) /\ Refreshed(t) /\ SameRest(t)
               /\ t \in claimed => SameStreams
<1> DEFINE u == s.task
<1>1. /\ row' = row /\ UNCHANGED redis /\ queue' = queue /\ todo' = todo
      /\ put' = put /\ retried' = retried /\ expired' = expired /\ act' = act /\ lock' = lock
      /\ Refresh(u) /\ streams' = IF u \in claimed THEN streams ELSE streams \ {s}
  BY Zenon DEF Beat, counts
<1>2. SameState(t) /\ SameQueue(t) /\ SameRest(t)
  BY <1>1, Zenon DEF SameState, SameQueue, SameRest, Queued, QueuedOnce, redis
<1>3. u \in Tasks
  BY DEF Typed, StreamTyped, Streams
<1>4. /\ copies' \in [Gateways -> [Tasks -> Copy \cup {None}]]
      /\ t = u => Refreshed(t)
      /\ t # u => SameBeats(t)
  BY <1>1, <1>3, RefreshEffect, Zenon
<1>5. u \in claimed => SameStreams
  BY <1>1, Zenon DEF SameStreams, HasStream
<1>6. streams' \subseteq streams /\ \A z \in streams : z = s \/ z \in streams'
  BY <1>1, Zenon
<1>7. ActTyped' /\ StreamTyped'
  BY <1>1, <1>6, Zenon DEF Typed, ActTyped, StreamTyped
<1>8. Typed'
  BY <1>1, <1>4, <1>7, Zenon DEF Typed, RestTyped, redis
<1>9. u # t => SameStream(t)
  BY <1>6, Zenon DEF SameStream, HasStream, Typed, StreamTyped
<1>10. u # t => Elsewhere(t)
  BY <1>1, <1>2, <1>4, <1>9, Zenon DEF Elsewhere, SameAct
<1> QED
  BY <1>1, <1>2, <1>4, <1>5, <1>8, <1>10, Zenon

\* A stream finds that its task has timed out.
LEMMA TimeoutEffect ==
  ASSUME Typed, NEW s \in streams, Timeout(s), NEW t \in Tasks
  PROVE  /\ Typed' /\ "timeout" \in faults
         /\ \/ Elsewhere(t)
            \/ /\ row'[t] = "TIMEOUT" /\ act' = act /\ lock' = lock /\ SameStreams
               /\ SameState(t) /\ SameQueue(t) /\ SameBeats(t) /\ SameRest(t)
<1> DEFINE u == s.task
<1>1. /\ UNCHANGED redis /\ queue' = queue /\ UNCHANGED mon
      /\ heartbeat' = heartbeat /\ put' = put /\ retried' = retried /\ expired' = expired
      /\ SetRow(u, "TIMEOUT") /\ act' = act /\ lock' = lock /\ To(s, "ending")
      /\ "timeout" \in faults
  BY Zenon DEF Timeout, actUnchanged
<1>2. SameState(t) /\ SameQueue(t) /\ SameBeats(t) /\ SameRest(t)
  BY <1>1, StaysSame, Zenon
<1>3. u \in Tasks
  BY DEF Typed, StreamTyped, Streams
<1>4. /\ row' \in [Tasks -> InFlight \cup Completed \cup {None}]
      /\ row'[u] = "TIMEOUT" /\ \A v \in Tasks : v # u => row'[v] = row[v]
  BY <1>1, <1>3, RowSet DEF Completed
<1>5. ActTyped' /\ StreamTyped' /\ SameStreams
  BY <1>1, StreamMoves, Zenon
<1>6. Typed'
  BY <1>1, <1>4, <1>5, Zenon DEF Typed, RestTyped, redis, mon
<1>7. u # t => Elsewhere(t)
  BY <1>1, <1>2, <1>4, <1>5, Zenon DEF Elsewhere, SameAct, SameStream, SameStreams
<1> QED
  BY <1>1, <1>2, <1>4, <1>5, <1>6, <1>7, Zenon

\* A stream that is ending deletes the state of its task.
LEMMA StreamCompletesEffect ==
  ASSUME Typed, NEW s \in streams, StreamCompletes(s), NEW t \in Tasks
  PROVE  /\ Typed' /\ s.pc = "ending"
         /\ \/ Elsewhere(t)
            \/ /\ row'[t] = row[t] /\ entry'[t] = None /\ t \notin claimed'
               /\ act' = act /\ lock' = lock /\ SameStreams
               /\ SameQueue(t) /\ SameBeats(t) /\ SameRest(t)
<1> DEFINE u == s.task
<1>1. /\ row' = row /\ queue' = queue /\ UNCHANGED mon
      /\ heartbeat' = heartbeat /\ put' = put /\ retried' = retried /\ expired' = expired
      /\ s.pc = "ending" /\ DeleteTaskState(u) /\ To(s, "exiting") /\ act' = act /\ lock' = lock
  BY Zenon DEF StreamCompletes, actUnchanged
<1>2. u \in Tasks
  BY DEF Typed, StreamTyped, Streams
<1>3. /\ entry' \in [Tasks -> Nat \cup {None}] /\ index' \in SUBSET Tasks
      /\ entry'[u] = None /\ u \notin claimed'
      /\ \A v \in Tasks : v # u => SameState(v)
  BY <1>1, <1>2, StateDeleted, Zenon
<1>4. ActTyped' /\ StreamTyped' /\ SameStreams
  BY <1>1, StreamMoves, Zenon
<1>5. Typed'
  BY <1>1, <1>3, <1>4, Zenon DEF Typed, RestTyped, mon
<1>6. SameQueue(t) /\ SameBeats(t) /\ SameRest(t)
  BY <1>1, Zenon DEF SameQueue, SameBeats, SameRest, Queued, QueuedOnce, mon
<1>7. u # t => Elsewhere(t)
  BY <1>1, <1>3, <1>4, <1>6, Zenon DEF Elsewhere, SameAct, SameStream, SameStreams
<1> QED
  BY <1>1, <1>3, <1>4, <1>5, <1>6, <1>7, Zenon

\* A runner's process exits with whatever it is doing.
LEMMA ExitRunnerEffect ==
  ASSUME Typed, NEW s \in streams, ExitRunner(s), NEW t \in Tasks
  PROVE  /\ Typed' /\ s.pc = "exiting" /\ s.runner \in Runners
         /\ Ends(s.runner) /\ OtherStreams(s.runner)
         /\ row'[t] = row[t] /\ SameState(t) /\ SameQueue(t) /\ SameBeats(t) /\ SameRest(t)
<1>1. /\ row' = row /\ UNCHANGED redis /\ queue' = queue /\ UNCHANGED mon
      /\ heartbeat' = heartbeat /\ put' = put /\ retried' = retried /\ expired' = expired
      /\ s.pc = "exiting" /\ Dies(s.runner)
  BY Zenon DEF ExitRunner, actUnchanged
<1>2. SameState(t) /\ SameQueue(t) /\ SameBeats(t) /\ SameRest(t)
  BY <1>1, StaysSame, Zenon
<1>3. s.runner \in Runners /\ s.runner \in Actors
  BY DEF Typed, StreamTyped, Streams, Actors
<1>4. ActTyped' /\ StreamTyped' /\ DOMAIN lock' = Tasks /\ Ends(s.runner) /\ OtherStreams(s.runner)
  BY <1>1, <1>3, DiesEffect, Zenon
<1>5. Typed'
  BY <1>1, <1>4, StaysTyped, Zenon
<1> QED
  BY <1>1, <1>2, <1>3, <1>4, <1>5, Zenon

-----------------------------------------------------------------------------
(* Monitors, puts, stops, time and crashes                                 *)

\* A tick of a monitor changes no task.
LEMMA MonitorListEffect ==
  ASSUME Typed, NEW g \in Gateways, MonitorList(g), NEW t \in Tasks
  PROVE  Typed' /\ Elsewhere(t)
<1>1. /\ row' = row /\ UNCHANGED redis /\ queue' = queue /\ heartbeat' = heartbeat /\ put' = put
      /\ retried' = retried /\ expired' = expired /\ act' = act /\ copies' = copies
      /\ streams' = streams /\ lock' = lock /\ todo' = [todo EXCEPT ![g] = index]
  BY Zenon DEF MonitorList, counts
<1>2. todo' \in [Gateways -> SUBSET Tasks]
  BY <1>1 DEF Typed, RestTyped
<1>3. Typed'
  BY <1>1, <1>2, Zenon DEF Typed, ActTyped, StreamTyped, RestTyped, redis
<1>4. Elsewhere(t)
  BY <1>1, Zenon DEF Elsewhere, SameAct, SameStream, HasStream, SameState, SameQueue, SameBeats, SameRest,
     Queued, QueuedOnce, redis
<1> QED
  BY <1>3, <1>4, Zenon

\* A monitor reads the entry of a task, or deletes what has none.
LEMMA MonitorFetchEffect ==
  ASSUME Typed, NEW g \in Gateways, NEW v \in Tasks, MonitorFetch(g, v), NEW t \in Tasks
  PROVE  /\ Typed'
         /\ \/ Elsewhere(t)
            \/ /\ act[g].pc = "idle" /\ act' = act /\ KeepsCalls /\ row'[t] = row[t]
               /\ SameQueue(t) /\ SameRest(t) /\ (t \in heartbeat' <=> t \in heartbeat)
               /\ \/ entry[t] = None /\ entry'[t] = None /\ t \notin claimed' /\ SameBeats(t)
                  \/ /\ entry[t] # None /\ SameState(t)
                     /\ copies'[g][t] = [retries |-> entry[t], recent |-> Attended(t)]
                     /\ \A f \in Gateways : f # g => copies'[f][t] = copies[f][t]
<1>1. /\ act[g].pc = "idle" /\ row' = row /\ queue' = queue /\ heartbeat' = heartbeat
      /\ put' = put /\ retried' = retried /\ expired' = expired /\ act' = act
      /\ streams' = streams /\ lock' = lock /\ todo' = [todo EXCEPT ![g] = @ \ {v}]
  BY Zenon DEF MonitorFetch, counts, At
<1>2. todo' \in [Gateways -> SUBSET Tasks]
  BY <1>1, Zenon DEF Typed, RestTyped
<1>3. /\ SameAct(t) /\ SameStream(t) /\ SameQueue(t) /\ SameRest(t) /\ KeepsCalls
      /\ ActTyped' /\ StreamTyped'
  BY <1>1, Zenon DEF SameAct, SameStream, HasStream, SameQueue, SameRest, Queued, QueuedOnce, KeepsCalls,
     Typed, ActTyped, StreamTyped
<1>4. CASE entry[v] = None
  <2>1. DeleteTaskState(v) /\ copies' = copies
    BY <1>4, Zenon DEF MonitorFetch
  <2>2. /\ entry' \in [Tasks -> Nat \cup {None}] /\ index' \in SUBSET Tasks
        /\ entry'[v] = None /\ v \notin claimed'
        /\ \A w \in Tasks : w # v => SameState(w)
    BY <2>1, StateDeleted, Zenon
  <2>3. Typed'
    BY <1>1, <1>2, <1>3, <2>1, <2>2, Zenon DEF Typed, RestTyped
  <2>4. SameBeats(t)
    BY <1>1, <2>1, Zenon DEF SameBeats
  <2>5. t # v => Elsewhere(t)
    BY <1>1, <1>3, <2>2, <2>4, Zenon DEF Elsewhere
  <2> QED
    BY <1>1, <1>3, <1>4, <2>2, <2>3, <2>4, <2>5, Zenon
<1>5. CASE entry[v] # None
  <2> DEFINE c == [retries |-> entry[v], recent |-> Attended(v)]
  <2>1. copies' = [copies EXCEPT ![g][v] = c] /\ UNCHANGED redis
    BY <1>5, Zenon DEF MonitorFetch
  <2>2. c \in Copy \cup {None}
    <3>1. entry[v] \in Nat
      BY <1>5 DEF Typed, RestTyped
    <3>2. Attended(v) \in BOOLEAN
      BY Zenon DEF Attended
    <3> QED
      BY <3>1, <3>2, Zenon DEF Copy
  <2> HIDE DEF c
  <2>3. /\ copies' \in [Gateways -> [Tasks -> Copy \cup {None}]]
        /\ copies'[g][v] = c
        /\ \A f \in Gateways : f # g \/ t # v => copies'[f][t] = copies[f][t]
    <3>1. /\ copies \in [Gateways -> [Tasks -> Copy \cup {None}]]
          /\ copies' = [copies EXCEPT ![g][v] = c]
      BY <2>1 DEF Typed, RestTyped
    <3> QED
      BY <2>2, <3>1
  <2>4. Typed'
    BY <1>1, <1>2, <1>3, <2>1, <2>3, Zenon DEF Typed, RestTyped, redis
  <2>5. SameState(t)
    BY <2>1, Zenon DEF SameState, redis
  <2>6. t # v => Elsewhere(t)
    BY <1>1, <1>3, <2>3, <2>5, Zenon DEF Elsewhere, SameBeats
  <2>7. t = v => c = [retries |-> entry[t], recent |-> Attended(t)]
    BY Zenon DEF c
  <2> QED
    BY <1>1, <1>3, <1>5, <2>3, <2>4, <2>5, <2>6, <2>7, Zenon
<1> QED
  BY <1>4, <1>5, Zenon

\* A monitor leaves a task alone, cancels it or retries it.
LEMMA MonitorCheckEffect ==
  ASSUME Typed, NEW g \in Gateways, NEW v \in Tasks, MonitorCheck(g, v), NEW t \in Tasks
  PROVE  /\ Typed'
         /\ \/ Elsewhere(t)
            \/ /\ act[g].pc = "idle" /\ Others(g) /\ KeepsCalls /\ row'[t] = row[t]
               /\ SameState(t) /\ SameQueue(t) /\ SameRest(t)
               /\ (t \in heartbeat' <=> t \in heartbeat)
               /\ copies[g][t] # None /\ copies'[g][t] = None
               /\ \A f \in Gateways : f # g => copies'[f][t] = copies[f][t]
               /\ \/ Ends(g)
                  \/ /\ t \notin claimed /\ t \in expired
                     /\ act'[g].task = t /\ act'[g].pc = "cancel"
                  \/ /\ t \in claimed /\ t \notin heartbeat
                     /\ act'[g].task = t /\ act'[g].pc = "retry"
                     /\ act'[g].retries = copies[g][t].retries
<1> DEFINE Go(pc, status) ==
             [pc |-> pc, task |-> v, retries |-> copies[g][v].retries, status |-> status]
           x == CASE v \notin claimed /\ v \in expired -> Go("cancel", "EXPIRED")
                  [] v \in claimed /\ v \notin heartbeat -> Go("retry", None)
                  [] OTHER -> Idle
<1>1. /\ act[g].pc = "idle" /\ row' = row /\ UNCHANGED redis /\ queue' = queue
      /\ heartbeat' = heartbeat /\ put' = put /\ retried' = retried /\ expired' = expired
      /\ streams' = streams /\ lock' = lock /\ todo' = todo
      /\ copies[g][v] # None /\ copies' = [copies EXCEPT ![g][v] = None]
      /\ act' = [act EXCEPT ![g] = x]
  BY Zenon DEF MonitorCheck, counts, At
<1>2. copies[g][v].retries \in Nat
  BY <1>1 DEF Typed, RestTyped, Copy
<1>3. \/ v \notin claimed /\ v \in expired /\ x = Go("cancel", "EXPIRED")
      \/ v \in claimed /\ v \notin heartbeat /\ x = Go("retry", None)
      \/ x = Idle
  OBVIOUS
<1>4. /\ \/ v \notin claimed /\ v \in expired /\ x.pc = "cancel" /\ x.task = v
         \/ /\ v \in claimed /\ v \notin heartbeat /\ x.pc = "retry" /\ x.task = v
            /\ x.retries = copies[g][v].retries
         \/ x.pc = "idle" /\ x.task = None
      /\ x \in Activity /\ x.pc \notin Running /\ (x.pc \in Deciding => x.status \in Verdicts)
  <2> HIDE DEF x
  <2> QED
    BY <1>2, <1>3
    DEF Idle, Activity, Retrying, Cancelling, Running, Deciding, Verdicts, Completed
<1> HIDE DEF x
<1>5. "cancel" # "idle" /\ "retry" # "idle" /\ v \in Tasks /\ g \in Actors
  BY DEF Actors
<1>6. ActTyped' /\ act'[g] = x /\ Others(g)
  BY <1>1, <1>4, <1>5, Replaced, Zenon DEF Typed
<1>7. /\ copies' \in [Gateways -> [Tasks -> Copy \cup {None}]]
      /\ copies'[g][v] = None
      /\ \A f \in Gateways : f # g \/ t # v => copies'[f][t] = copies[f][t]
  <2>1. /\ copies \in [Gateways -> [Tasks -> Copy \cup {None}]]
        /\ copies' = [copies EXCEPT ![g][v] = None]
    BY <1>1 DEF Typed, RestTyped
  <2> QED
    BY <2>1
<1>8. StreamTyped'
  <2>1. \A s \in streams : s.runner \in Actors /\ s.runner # g
    BY TaskAssumption DEF Actors, Typed, StreamTyped, Streams
  <2>2. \A s \in streams : act'[s.runner] = act[s.runner]
    BY <1>6, <2>1, Zenon DEF Others
  <2> QED
    BY <1>1, <2>2, Zenon DEF Typed, StreamTyped
<1>9. Typed'
  BY <1>1, <1>6, <1>7, <1>8, Zenon DEF Typed, RestTyped, redis
<1>10. /\ SameState(t) /\ SameQueue(t) /\ SameRest(t) /\ KeepsCalls /\ SameStream(t)
       /\ t # v => SameBeats(t)
  BY <1>1, <1>7, Zenon DEF SameState, SameStream, HasStream, SameQueue, SameRest, SameBeats, Queued,
     QueuedOnce, KeepsCalls, redis
<1>11. t # v => Elsewhere(t)
  <2>1. act[g].task # t
    BY <1>1, <1>5, TaskAssumption, Zenon DEF Typed, ActTyped
  <2>2. t # v => act'[g].task # t
    BY <1>4, <1>6, TaskAssumption, Zenon
  <2> QED
    BY <1>1, <1>5, <1>6, <1>10, <2>1, <2>2, ActorElsewhere, Zenon DEF Elsewhere
<1> QED
  BY <1>1, <1>4, <1>6, <1>7, <1>9, <1>10, <1>11, Zenon DEF Ends

\* No actor does anything.
Calm(t) ==
  /\ act' = act /\ lock'[t] = lock[t] /\ SameStream(t)
  /\ retried'[t] = retried[t] /\ SameBeats(t)

\* The steps of a put.
LEMMA PutEffect ==
  ASSUME Typed, NEW v \in Tasks, PutNext(v), NEW t \in Tasks
  PROVE  /\ Typed'
         /\ \/ Elsewhere(t)
            \/ /\ Calm(t) /\ (t \in claimed' <=> t \in claimed) /\ (t \in expired' <=> t \in expired)
               /\ \/ /\ \/ put[t] = "new" /\ put'[t] \in {"checked", "failed"}
                        \/ put[t] = "checked" /\ put'[t] = "indexed"
                     /\ row'[t] = row[t] /\ entry'[t] = entry[t] /\ SameQueue(t)
                  \/ /\ put[t] = "indexed" /\ put'[t] = "entered"
                     /\ row'[t] = row[t] /\ entry'[t] = 0 /\ SameQueue(t)
                  \/ /\ put[t] = "entered" /\ put'[t] = "created"
                     /\ row'[t] = "PENDING" /\ entry'[t] = entry[t] /\ SameQueue(t)
                  \/ /\ put[t] = "created" /\ put'[t] = "done"
                     /\ row'[t] = row[t] /\ entry'[t] = entry[t]
                     /\ Queued(t)' /\ (~Queued(t) => QueuedOnce(t)')
                  \/ /\ "crash" \in faults /\ put[t] = "created" /\ put'[t] = "failed"
                     /\ row'[t] = None /\ entry'[t] = entry[t] /\ SameQueue(t)
<1> USE DEF SameQueue
<1>1. /\ heartbeat' = heartbeat /\ lock' = lock /\ expired' = expired /\ act' = act
      /\ UNCHANGED mon /\ streams' = streams /\ retried' = retried
  BY Zenon DEF PutNext, Put, PutIndex, PutEntry, CreateTask, PutPush, PutPushFails, putUnchanged,
     counts
<1>2. Calm(t) /\ ActTyped' /\ StreamTyped' /\ SameAct(t)
  BY <1>1, Zenon DEF Calm, SameStream, HasStream, SameBeats, SameAct, Typed, ActTyped, StreamTyped, mon
<1>3. queue' = queue => (Queued(t)' <=> Queued(t)) /\ (QueuedOnce(t)' <=> QueuedOnce(t))
  BY Zenon DEF Queued, QueuedOnce
<1>4. ASSUME NEW from \in Puts, NEW to \in Puts, PutStep(v, from, to)
      PROVE  /\ put' \in [Tasks -> Puts] /\ put[v] = from /\ put'[v] = to
             /\ t # v => put'[t] = put[t]
  BY <1>4 DEF PutStep, Typed, RestTyped
<1>5. {"new", "checked", "indexed", "entered", "created", "done", "failed"} \subseteq Puts
  BY DEF Puts
<1>6. ASSUME put' \in [Tasks -> Puts], row' \in [Tasks -> InFlight \cup Completed \cup {None}],
             entry' \in [Tasks -> Nat \cup {None}], queue' \in Seq(Tasks), index' \in SUBSET Tasks
      PROVE  Typed'
  BY <1>1, <1>2, <1>6, Zenon DEF Typed, RestTyped, mon
<1>7. ASSUME t # v, put'[t] = put[t], row'[t] = row[t], entry'[t] = entry[t],
             t \in claimed' <=> t \in claimed, SameQueue(t)
      PROVE  Elsewhere(t)
  BY <1>1, <1>2, <1>7, Zenon DEF Elsewhere, Calm, SameState, SameRest
<1>8. /\ row \in [Tasks -> InFlight \cup Completed \cup {None}]
      /\ entry \in [Tasks -> Nat \cup {None}] /\ queue \in Seq(Tasks) /\ index \in SUBSET Tasks
      /\ 0 \in Nat \cup {None} /\ "PENDING" \in InFlight
  BY Zenon DEF Typed, RestTyped, InFlight
<1>9. t \in expired' <=> t \in expired
  BY <1>1
<1>10. CASE Put(v)
  <2>1. /\ \E to \in {"checked", "failed"} : PutStep(v, "new", to)
        /\ row' = row /\ index' = index /\ entry' = entry /\ claimed' = claimed /\ queue' = queue
    BY <1>10, Zenon DEF Put, redis
  <2>2. PICK to \in {"checked", "failed"} : PutStep(v, "new", to)
    BY <2>1, Zenon
  <2>3. /\ put' \in [Tasks -> Puts] /\ put[v] = "new" /\ put'[v] \in {"checked", "failed"}
        /\ t # v => put'[t] = put[t]
    BY <1>4, <1>5, <2>2, Zenon
  <2> QED
    BY <1>2, <1>3, <1>6, <1>7, <1>8, <1>9, <2>1, <2>3, Zenon
<1>11. CASE PutIndex(v)
  <2>1. /\ PutStep(v, "checked", "indexed") /\ row' = row /\ index' = index \cup {v}
        /\ entry' = entry /\ claimed' = claimed /\ queue' = queue
    BY <1>11, Zenon DEF PutIndex, Index
  <2>2. /\ put' \in [Tasks -> Puts] /\ put[v] = "checked" /\ put'[v] = "indexed"
        /\ t # v => put'[t] = put[t]
    BY <1>4, <1>5, <2>1
  <2>3. index' \in SUBSET Tasks
    BY <1>8, <2>1
  <2> QED
    BY <1>2, <1>3, <1>6, <1>7, <1>8, <1>9, <2>1, <2>2, <2>3, Zenon
<1>12. CASE PutEntry(v)
  <2>1. /\ PutStep(v, "indexed", "entered") /\ row' = row /\ index' = index
        /\ entry' = [entry EXCEPT ![v] = 0] /\ claimed' = claimed /\ queue' = queue
    BY <1>12, Zenon DEF PutEntry, SetEntry
  <2>2. /\ put' \in [Tasks -> Puts] /\ put[v] = "indexed" /\ put'[v] = "entered"
        /\ t # v => put'[t] = put[t]
    BY <1>4, <1>5, <2>1
  <2>3. /\ entry' \in [Tasks -> Nat \cup {None}] /\ entry'[v] = 0
        /\ t # v => entry'[t] = entry[t]
    BY <1>8, <2>1, EntrySet
  <2> QED
    BY <1>2, <1>3, <1>6, <1>7, <1>8, <1>9, <2>1, <2>2, <2>3, Zenon
<1>13. CASE CreateTask(v)
  <2>1. /\ PutStep(v, "entered", "created") /\ SetRow(v, "PENDING") /\ index' = index
        /\ entry' = entry /\ claimed' = claimed /\ queue' = queue
    BY <1>13, Zenon DEF CreateTask, redis
  <2>2. /\ put' \in [Tasks -> Puts] /\ put[v] = "entered" /\ put'[v] = "created"
        /\ t # v => put'[t] = put[t]
    BY <1>4, <1>5, <2>1
  <2>3. /\ row' \in [Tasks -> InFlight \cup Completed \cup {None}] /\ row'[v] = "PENDING"
        /\ t # v => row'[t] = row[t]
    BY <1>8, <2>1, RowSet
  <2> QED
    BY <1>2, <1>3, <1>6, <1>7, <1>8, <1>9, <2>1, <2>2, <2>3, Zenon
<1>14. CASE PutPush(v)
  <2>1. /\ PutStep(v, "created", "done") /\ row' = row /\ index' = index
        /\ entry' = entry /\ claimed' = claimed /\ queue' = Append(queue, v)
    BY <1>14, Zenon DEF PutPush, redis
  <2>2. /\ put' \in [Tasks -> Puts] /\ put[v] = "created" /\ put'[v] = "done"
        /\ t # v => put'[t] = put[t]
    BY <1>4, <1>5, <2>1, Zenon
  <2>3. /\ queue' \in Seq(Tasks)
        /\ Queued(t)' <=> Queued(t) \/ v = t
        /\ v # t /\ QueuedOnce(t) => QueuedOnce(t)'
        /\ v = t /\ ~Queued(t) => QueuedOnce(t)'
    BY <1>8, <2>1, Pushed, Zenon
  <2> QED
    BY <1>2, <1>6, <1>7, <1>8, <1>9, <2>1, <2>2, <2>3, Zenon
<1>15. CASE PutPushFails(v)
  <2>1. /\ PutStep(v, "created", "failed") /\ SetRow(v, None) /\ index' = index
        /\ entry' = entry /\ claimed' = claimed /\ queue' = queue /\ "crash" \in faults
    BY <1>15, Zenon DEF PutPushFails, redis
  <2>2. /\ put' \in [Tasks -> Puts] /\ put[v] = "created" /\ put'[v] = "failed"
        /\ t # v => put'[t] = put[t]
    BY <1>4, <1>5, <2>1, Zenon
  <2>3. /\ row' \in [Tasks -> InFlight \cup Completed \cup {None}] /\ row'[v] = None
        /\ t # v => row'[t] = row[t]
    BY <1>8, <2>1, RowSet
  <2> QED
    BY <1>2, <1>3, <1>6, <1>7, <1>8, <1>9, <2>1, <2>2, <2>3, Zenon
<1> QED
  BY <1>10, <1>11, <1>12, <1>13, <1>14, <1>15, Zenon DEF PutNext

\* A stop deletes the task's state and tells the streams.
LEMMA StopDeleteEffect ==
  ASSUME Typed, NEW v \in Tasks, StopDelete(v), NEW t \in Tasks
  PROVE  /\ Typed' /\ stop[v] # "no"
         /\ \A s \in streams' : s \in streams \/ s.pc = "ending"
         /\ \/ Elsewhere(t)
            \/ /\ stop[t] # "no" /\ act' = act /\ lock'[t] = lock[t] /\ row'[t] = row[t]
               /\ SameStreams
               /\ entry'[t] = None /\ t \notin claimed'
               /\ SameQueue(t) /\ SameBeats(t) /\ SameRest(t)
<1> DEFINE F(s) == IF s.task = v /\ s.pc = "on" THEN [s EXCEPT !.pc = "ending"] ELSE s
<1>1. /\ stop[v] = "read" /\ row' = row /\ queue' = queue /\ UNCHANGED mon /\ DeleteTaskState(v)
      /\ heartbeat' = heartbeat /\ put' = put /\ retried' = retried /\ expired' = expired
      /\ act' = act /\ lock' = lock
      /\ streams' = {F(s) : s \in streams}
  BY Zenon DEF StopDelete, stopUnchanged, counts
<1>2. /\ entry' \in [Tasks -> Nat \cup {None}] /\ index' \in SUBSET Tasks
      /\ entry'[v] = None /\ v \notin claimed'
      /\ \A w \in Tasks : w # v => SameState(w)
  BY <1>1, StateDeleted, Zenon
<1>3. ASSUME NEW s \in streams
      PROVE  /\ F(s) \in Streams /\ F(s).runner = s.runner /\ F(s).task = s.task /\ F(s).own = s.own
             /\ F(s) = s \/ F(s).pc = "ending"
  <2>1. s \in Streams
    BY DEF Typed, StreamTyped
  <2> QED
    BY <2>1 DEF Streams
<1> HIDE DEF F
<1>4. \A s \in streams' : \E u \in streams : s = F(u)
  BY <1>1, Zenon
<1>5. \A u \in streams : F(u) \in streams'
  BY <1>1, Zenon
<1>6. SameStreams
  <2>1. ASSUME NEW r \in Runners, NEW s \in streams', s.runner = r, s.own PROVE HasStream(r)
    <3>1. PICK u \in streams : s = F(u)
      BY <1>4
    <3>2. u.runner = r /\ u.own
      BY <1>3, <2>1, <3>1
    <3> QED
      BY <3>2 DEF HasStream
  <2>2. ASSUME NEW r \in Runners, NEW s \in streams, s.runner = r, s.own PROVE HasStream(r)'
    <3>1. F(s) \in streams' /\ F(s).runner = r /\ F(s).own
      BY <1>3, <1>5, <2>2
    <3> QED
      BY <3>1, Zenon DEF HasStream
  <2> QED
    BY <2>1, <2>2, Zenon DEF SameStreams, HasStream
<1>7. ActTyped' /\ StreamTyped'
  <2>1. streams' \subseteq Streams
    BY <1>3, <1>4, Zenon
  <2>2. ASSUME NEW s \in streams', s.own
        PROVE  act[s.runner].task = s.task /\ act[s.runner].pc \notin {"idle", "popped", "claimed"}
    <3>1. PICK u \in streams : s = F(u)
      BY <1>4
    <3>2. u.runner = s.runner /\ u.task = s.task /\ u.own
      BY <1>3, <2>2, <3>1
    <3> QED
      BY <3>2 DEF Typed, StreamTyped
  <2> QED
    BY <1>1, <2>1, <2>2, Zenon DEF Typed, ActTyped, StreamTyped
<1>8. Typed'
  BY <1>1, <1>2, <1>7, Zenon DEF Typed, RestTyped, mon
<1>9. SameAct(t) /\ SameQueue(t) /\ SameBeats(t) /\ SameRest(t)
  BY <1>1, Zenon DEF SameAct, SameQueue, SameBeats, SameRest, Queued, QueuedOnce, mon
<1>10. t # v => Elsewhere(t)
  BY <1>1, <1>2, <1>6, <1>9, Zenon DEF Elsewhere, SameStream, SameStreams
<1>11. stop[v] # "no"
  BY <1>1
<1>12. \A s \in streams' : s \in streams \/ s.pc = "ending"
  BY <1>3, <1>4, Zenon
<1> QED
  BY <1>1, <1>2, <1>6, <1>8, <1>9, <1>10, <1>11, <1>12, Zenon

\* Steps that change one thing of a task, which no actor holds.
LEMMA TimeEffect ==
  ASSUME Typed, NEW v \in Tasks, NEW t \in Tasks,
         \/ Expire(v) \/ Stop(v) \/ StopRow(v) \/ HeartbeatExpires(v) \/ LockExpires(v)
  PROVE  /\ Typed'
         /\ \/ Elsewhere(t)
            \/ /\ SameAct(t) /\ SameStream(t) /\ SameState(t) /\ SameQueue(t)
               /\ put'[t] = put[t] /\ retried'[t] = retried[t]
               /\ \A g \in Gateways : copies'[g][t] = copies[g][t]
               /\ \/ /\ t \in expired'
                     /\ (t \in heartbeat' <=> t \in heartbeat) /\ row'[t] = row[t] /\ lock'[t] = lock[t]
                  \/ /\ stop[t] # "no" /\ row'[t] = "CANCELLED" /\ (t \in expired' <=> t \in expired)
                     /\ (t \in heartbeat' <=> t \in heartbeat) /\ lock'[t] = lock[t]
                  \/ /\ t \notin heartbeat' /\ ("lapse" \in faults \/ ~Attended(t)) /\ ~Recent(t)
                     /\ row'[t] = row[t] /\ lock'[t] = lock[t] /\ (t \in expired' <=> t \in expired)
                  \/ /\ lock'[t] = None /\ (t \in expired' <=> t \in expired)
                     /\ (t \in heartbeat' <=> t \in heartbeat) /\ row'[t] = row[t]
<1>1. /\ UNCHANGED redis /\ queue' = queue /\ UNCHANGED mon /\ put' = put /\ retried' = retried
      /\ act' = act /\ streams' = streams
  BY Zenon DEF Expire, Stop, StopRow, HeartbeatExpires, LockExpires, stopUnchanged, counts
<1>2. /\ SameAct(t) /\ SameStream(t) /\ SameState(t) /\ SameQueue(t)
      /\ put'[t] = put[t] /\ retried'[t] = retried[t]
      /\ \A g \in Gateways : copies'[g][t] = copies[g][t]
  BY <1>1, Zenon DEF SameAct, SameStream, HasStream, SameState, SameQueue, Queued, QueuedOnce, redis, mon
<1>3. ASSUME row' \in [Tasks -> InFlight \cup Completed \cup {None}], DOMAIN lock' = Tasks
      PROVE  Typed'
  BY <1>1, <1>3, Zenon DEF Typed, ActTyped, StreamTyped, RestTyped, redis, mon
<1>4. row \in [Tasks -> InFlight \cup Completed \cup {None}] /\ DOMAIN lock = Tasks
  BY DEF Typed, RestTyped
<1>5. ASSUME row'[t] = row[t], lock'[t] = lock[t], t \in expired' <=> t \in expired,
             t \in heartbeat' <=> t \in heartbeat
      PROVE  Elsewhere(t)
  BY <1>2, <1>5, Zenon DEF Elsewhere, SameBeats, SameRest
<1>6. CASE Expire(v)
  <2>1. row' = row /\ lock' = lock /\ heartbeat' = heartbeat /\ expired' = expired \cup {v}
    BY <1>6, Zenon DEF Expire
  <2>2. t \in expired' <=> t \in expired \/ t = v
    BY <2>1
  <2> QED
    BY <1>2, <1>3, <1>4, <1>5, <2>1, <2>2, Zenon
<1>7. CASE Stop(v)
  <2>1. row' = row /\ lock' = lock /\ heartbeat' = heartbeat /\ expired' = expired
    BY <1>7, Zenon DEF Stop, stopUnchanged
  <2> QED
    BY <1>3, <1>4, <1>5, <2>1, Zenon
<1>8. CASE StopRow(v)
  <2>1. /\ SetRow(v, "CANCELLED") /\ lock' = lock /\ heartbeat' = heartbeat /\ expired' = expired
        /\ stop[v] = "deleted"
    BY <1>8, Zenon DEF StopRow, stopUnchanged
  <2>2. /\ row' \in [Tasks -> InFlight \cup Completed \cup {None}] /\ row'[v] = "CANCELLED"
        /\ t # v => row'[t] = row[t]
    BY <2>1, RowSet DEF Completed
  <2>3. stop[v] # "no"
    BY <2>1
  <2> QED
    BY <1>2, <1>3, <1>4, <1>5, <2>1, <2>2, <2>3, Zenon
<1>9. CASE HeartbeatExpires(v)
  <2>1. /\ row' = row /\ lock' = lock /\ expired' = expired /\ heartbeat' = heartbeat \ {v}
        /\ "lapse" \in faults \/ ~Attended(v)
        /\ ~Recent(v)
    BY <1>9, Zenon DEF HeartbeatExpires
  <2>2. t \in heartbeat' <=> t \in heartbeat /\ t # v
    BY <2>1
  <2> QED
    BY <1>2, <1>3, <1>4, <1>5, <2>1, <2>2, Zenon
<1>10. CASE LockExpires(v)
  <2>1. /\ row' = row /\ heartbeat' = heartbeat /\ expired' = expired
        /\ lock' = [lock EXCEPT ![v] = None]
    BY <1>10, Zenon DEF LockExpires
  <2>2. DOMAIN lock' = Tasks /\ lock'[v] = None /\ (t # v => lock'[t] = lock[t])
    BY <1>4, <2>1
  <2> QED
    BY <1>2, <1>3, <1>4, <1>5, <2>1, <2>2, Zenon
<1> QED
  BY <1>6, <1>7, <1>8, <1>9, <1>10, Zenon

\* An actor that dies lets go of its task; nothing of the task changes.
LEMMA CrashEffect ==
  ASSUME Typed, NEW a \in Actors, Crash(a), NEW t \in Tasks
  PROVE  /\ Typed'
         /\ "crash" \in faults /\ Ends(a) /\ OtherStreams(a)
         /\ row'[t] = row[t]
         /\ SameState(t) /\ SameQueue(t) /\ SameRest(t) /\ (t \in heartbeat' <=> t \in heartbeat)
         /\ \A g \in Gateways : copies'[g][t] = copies[g][t] \/ copies'[g][t] = None
<1>1. /\ "crash" \in faults /\ Dies(a)
      /\ copies' = [g \in Gateways |-> IF g = a THEN [u \in Tasks |-> None] ELSE copies[g]]
      /\ row' = row /\ UNCHANGED redis /\ heartbeat' = heartbeat /\ queue' = queue
      /\ expired' = expired /\ put' = put /\ todo' = todo /\ retried' = retried
  BY Zenon DEF Crash
<1>2. ActTyped' /\ StreamTyped' /\ DOMAIN lock' = Tasks /\ Ends(a) /\ OtherStreams(a)
  BY <1>1, DiesEffect, Zenon
<1>3. /\ copies' \in [Gateways -> [Tasks -> Copy \cup {None}]]
      /\ \A g \in Gateways : copies'[g][t] = copies[g][t] \/ copies'[g][t] = None
  <2>1. /\ copies \in [Gateways -> [Tasks -> Copy \cup {None}]]
        /\ copies' = [g \in Gateways |-> IF g = a THEN [u \in Tasks |-> None] ELSE copies[g]]
    BY <1>1, Zenon DEF Typed, RestTyped
  <2> QED
    BY <2>1
<1>4. Typed'
  BY <1>1, <1>2, <1>3, Zenon DEF Typed, RestTyped, redis
<1>5. SameState(t) /\ SameQueue(t) /\ SameRest(t) /\ (t \in heartbeat' <=> t \in heartbeat)
  BY <1>1, Zenon DEF SameState, SameQueue, SameRest, Queued, QueuedOnce, redis
<1> QED
  BY <1>1, <1>2, <1>3, <1>4, <1>5, Zenon

-----------------------------------------------------------------------------
(* Every step                                                              *)

\* Tasks are stopped only in scenarios with stops.
StopSound == DOMAIN stop = Tasks /\ \A t \in Tasks : stop[t] # "no" => "stop" \in faults

\* The faults that may occur are chosen once.
LEMMA FaultsKept ==
  ASSUME Typed, Next
  PROVE  faults' = faults /\ (StopSound => StopSound')
<1>1. ASSUME NEW t \in Tasks, PutNext(t) PROVE UNCHANGED <<faults, stop>>
  BY <1>1, Zenon DEF PutNext, Put, PutIndex, PutEntry, CreateTask, PutPush, PutPushFails, putUnchanged, counts
<1>2. ASSUME NEW t \in Tasks, Expire(t) \/ HeartbeatExpires(t) \/ LockExpires(t)
      PROVE  UNCHANGED <<faults, stop>>
  BY <1>2, Zenon DEF Expire, HeartbeatExpires, LockExpires, counts
<1>3. ASSUME NEW t \in Tasks, Stop(t) \/ StopDelete(t) \/ StopRow(t)
      PROVE  faults' = faults /\ (StopSound => StopSound')
  <2>1. faults' = faults
    BY <1>3, Zenon DEF Stop, StopDelete, StopRow, stopUnchanged, counts
  <2>2. "stop" \in faults \/ stop[t] # "no"
    BY <1>3, Zenon DEF Stop, StopDelete, StopRow
  <2>3. PICK s : stop' = [stop EXCEPT ![t] = s]
    BY <1>3, Zenon DEF Stop, StopDelete, StopRow
  <2>4. StopSound => DOMAIN stop' = Tasks /\ \A u \in Tasks : u # t => stop'[u] = stop[u]
    BY <2>3 DEF StopSound
  <2> QED
    BY <2>1, <2>2, <2>4, Zenon DEF StopSound
<1>4. ASSUME NEW a \in Actors, RetryTask(a) \/ Crash(a) PROVE UNCHANGED <<faults, stop>>
  BY <1>4, Zenon DEF RetryTask, RetryLock, RetryUnclaim, RetryIndex, RetryEntry, RetryRow, RetryPush,
         CancelRead, CancelRow, Resolve, Crash, actUnchanged
<1>5. ASSUME NEW r \in Runners, Run(r) PROVE UNCHANGED <<faults, stop>>
  BY <1>5, Zenon DEF Run, Pop, Claim, Start, Complete, CompleteRow, CompleteRetry, actUnchanged, counts
<1>6. ASSUME NEW g \in Gateways, Monitor(g) PROVE UNCHANGED <<faults, stop>>
  BY <1>6, Zenon DEF Monitor, MonitorList, MonitorFetch, MonitorCheck, counts
<1>7. ASSUME NEW s \in streams, StreamStep(s) \/ Timeout(s) PROVE UNCHANGED <<faults, stop>>
  BY <1>7, Zenon DEF StreamStep, Watch, Beat, Timeout, StreamCompletes, ExitRunner, actUnchanged, counts
<1>8. UNCHANGED <<faults, stop>> => faults' = faults /\ (StopSound => StopSound')
  BY Zenon DEF StopSound
<1> QED
  BY <1>1, <1>2, <1>3, <1>4, <1>5, <1>6, <1>7, <1>8, Zenon DEF Next

\* A step is about some task.
LEMMA SomeTask ==
  ASSUME Typed, Next
  PROVE  \E t \in Tasks : TRUE
<1>1. ASSUME NEW a \in Actors, act[a].pc # "idle" PROVE \E t \in Tasks : TRUE
  BY <1>1, Zenon DEF Typed, ActTyped
<1>2. ASSUME NEW a \in Actors, RetryTask(a) PROVE act[a].pc # "idle"
  BY <1>2, Zenon DEF RetryTask, RetryLock, RetryUnclaim, RetryIndex, RetryEntry, RetryRow, RetryPush,
         CancelRead, CancelRow, Resolve, At
<1>3. ASSUME NEW r \in Runners, Run(r) PROVE \E t \in Tasks : TRUE
  <2>1. Pop(r) \/ (r \in Actors /\ act[r].pc # "idle")
    BY <1>3 DEF Run, Claim, Start, Complete, CompleteRow, CompleteRetry, At, Actors
  <2>2. Pop(r) => Head(queue) \in Tasks
    BY DEF Pop, Typed, RestTyped
  <2> QED
    BY <1>1, <2>1, <2>2, Zenon
<1>4. ASSUME NEW g \in Gateways, Monitor(g) PROVE \E t \in Tasks : TRUE
  BY <1>4 DEF Monitor, MonitorList, Typed, RestTyped
<1>5. ASSUME NEW s \in streams PROVE \E t \in Tasks : TRUE
  BY <1>5 DEF Typed, StreamTyped, Streams
<1>6. ASSUME NEW a \in Actors, Crash(a) PROVE \E t \in Tasks : TRUE
  BY <1>1, <1>5, <1>6, Zenon DEF Crash, At
<1> QED
  BY <1>1, <1>2, <1>3, <1>4, <1>5, <1>6, Zenon DEF Next

\* Every step keeps the types.
LEMMA TypedNext == Typed /\ [Next]_vars => Typed'
<1> SUFFICES ASSUME Typed, [Next]_vars PROVE Typed'
  OBVIOUS
<1>1. CASE UNCHANGED vars
  BY <1>1, Zenon DEF vars, Typed, ActTyped, StreamTyped, RestTyped
<1>2. CASE Next
  <2>1. PICK t \in Tasks : TRUE
    BY <1>2, SomeTask
  <2>2. ASSUME NEW a \in Actors, RetryTask(a) PROVE Typed'
    BY <2>2, RetryLockEffect, RetryUnclaimEffect, RetryIndexEffect, RetryEntryEffect, RetryRowEffect,
       RetryPushEffect, CancelReadEffect, CancelRowEffect, ResolveEffect, Zenon DEF RetryTask
  <2>3. ASSUME NEW r \in Runners, Run(r) PROVE Typed'
    BY <2>3, PopEffect, ClaimEffect, StartEffect, CompleteEffect, CompleteRowEffect,
       CompleteRetryEffect, Zenon DEF Run
  <2>4. ASSUME NEW g \in Gateways, Monitor(g) PROVE Typed'
    BY <2>4, MonitorListEffect, MonitorFetchEffect, MonitorCheckEffect, Zenon DEF Monitor
  <2>5. ASSUME NEW v \in Tasks,
               \/ PutNext(v) \/ Expire(v) \/ Stop(v) \/ StopDelete(v) \/ StopRow(v)
               \/ HeartbeatExpires(v) \/ LockExpires(v)
        PROVE  Typed'
    BY <2>5, PutEffect, StopDeleteEffect, TimeEffect, Zenon
  <2>6. ASSUME NEW a \in Actors, Crash(a) PROVE Typed'
    BY <2>6, CrashEffect, Zenon
  <2>7. ASSUME NEW s \in streams, StreamStep(s) \/ Timeout(s) PROVE Typed'
    BY <2>7, WatchEffect, BeatEffect, TimeoutEffect, StreamCompletesEffect, ExitRunnerEffect, Zenon
    DEF StreamStep
  <2> QED
    BY <1>2, <2>2, <2>3, <2>4, <2>5, <2>6, <2>7, Zenon DEF Next
<1> QED
  BY <1>1, <1>2

\* What has expired stays so.
LEMMA ExpiredKept ==
  ASSUME Next, NEW t, t \in expired
  PROVE  t \in expired'
<1>1. ASSUME NEW v \in Tasks,
             \/ PutNext(v) \/ Expire(v) \/ Stop(v) \/ StopDelete(v) \/ StopRow(v)
             \/ HeartbeatExpires(v) \/ LockExpires(v)
      PROVE  t \in expired'
  BY <1>1, Zenon DEF PutNext, Put, PutIndex, PutEntry, CreateTask, PutPush, PutPushFails, putUnchanged,
     Expire, Stop, StopDelete, StopRow, stopUnchanged, HeartbeatExpires, LockExpires
<1>2. ASSUME NEW a \in Actors, RetryTask(a) \/ Crash(a) PROVE t \in expired'
  BY <1>2, Zenon DEF RetryTask, RetryLock, RetryUnclaim, RetryIndex, RetryEntry, RetryRow, RetryPush,
         CancelRead, CancelRow, Resolve, Crash, actUnchanged
<1>3. ASSUME NEW r \in Runners, Run(r) PROVE t \in expired'
  BY <1>3, Zenon DEF Run, Pop, Claim, Start, Complete, CompleteRow, CompleteRetry, actUnchanged
<1>4. ASSUME NEW g \in Gateways, Monitor(g) PROVE t \in expired'
  BY <1>4, Zenon DEF Monitor, MonitorList, MonitorFetch, MonitorCheck
<1>5. ASSUME NEW s \in streams, StreamStep(s) \/ Timeout(s) PROVE t \in expired'
  BY <1>5, Zenon DEF StreamStep, Watch, Beat, Timeout, StreamCompletes, ExitRunner, actUnchanged
<1> QED
  BY <1>1, <1>2, <1>3, <1>4, <1>5, Zenon DEF Next

\* Rows are cancelled only in scenarios with stops, and streams end the tasks and the
\* processes of their runners only in scenarios with stops or timeouts.
ExitSound ==
  /\ \A t \in Tasks : row[t] = "CANCELLED" => "stop" \in faults
  /\ "stop" \in faults \/ "timeout" \in faults \/ \A s \in streams : s.pc \in {"off", "on"}

\* Nothing has ended at first.
LEMMA ExitSoundInit == Init => ExitSound
  BY TaskAssumption DEF Init, ExitSound, Completed

\* Only a stop cancels a row.
LEMMA RowCancelled ==
  ASSUME Typed, Next, NEW t \in Tasks, row'[t] = "CANCELLED"
  PROVE  row[t] = "CANCELLED" \/ stop[t] # "no"
<1>1. /\ "CANCELLED" \notin Verdicts /\ "CANCELLED" # "RUNNING" /\ "CANCELLED" # "RETRY"
      /\ "CANCELLED" # "TIMEOUT" /\ "CANCELLED" # "PENDING" /\ "CANCELLED" # None
  BY TaskAssumption DEF Verdicts, Completed
<1>2. ASSUME NEW a \in Actors, RetryTask(a) PROVE row[t] = "CANCELLED"
  BY <1>1, <1>2, RetryLockEffect, RetryUnclaimEffect, RetryIndexEffect, RetryEntryEffect, RetryRowEffect,
     RetryPushEffect, CancelReadEffect, CancelRowEffect, ResolveEffect, Zenon DEF RetryTask, Elsewhere
<1>3. ASSUME NEW r \in Runners, Run(r) PROVE row[t] = "CANCELLED"
  BY <1>1, <1>3, PopEffect, ClaimEffect, StartEffect, CompleteEffect, CompleteRowEffect,
     CompleteRetryEffect, Zenon DEF Run, Elsewhere
<1>4. ASSUME NEW g \in Gateways, Monitor(g) PROVE row[t] = "CANCELLED"
  BY <1>4, Zenon DEF Monitor, MonitorList, MonitorFetch, MonitorCheck
<1>5. ASSUME NEW v \in Tasks, PutNext(v) PROVE row[t] = "CANCELLED"
  BY <1>1, <1>5, PutEffect, Zenon DEF Elsewhere
<1>6. ASSUME NEW v \in Tasks,
             \/ Expire(v) \/ Stop(v) \/ StopDelete(v) \/ StopRow(v)
             \/ HeartbeatExpires(v) \/ LockExpires(v)
      PROVE  row[t] = "CANCELLED" \/ stop[t] # "no"
  BY <1>6, StopDeleteEffect, TimeEffect, Zenon DEF Elsewhere
<1>7. ASSUME NEW s \in streams, StreamStep(s) \/ Timeout(s) PROVE row[t] = "CANCELLED"
  BY <1>1, <1>7, WatchEffect, BeatEffect, TimeoutEffect, StreamCompletesEffect, ExitRunnerEffect, Zenon
  DEF StreamStep, Elsewhere
<1>8. ASSUME NEW a \in Actors, Crash(a) PROVE row[t] = "CANCELLED"
  BY <1>8, CrashEffect, Zenon
<1> QED
  BY <1>2, <1>3, <1>4, <1>5, <1>6, <1>7, <1>8, Zenon DEF Next

\* Streams are told to end by a stop or by a timeout.
LEMMA StreamsEnd ==
  ASSUME Typed, Next, NEW s \in streams', s.pc \notin {"off", "on"}
  PROVE  \/ \E u \in streams : u.pc \notin {"off", "on"}
         \/ \E t \in Tasks : stop[t] # "no" \/ row[t] = "CANCELLED"
         \/ "timeout" \in faults
<1>1. streams \subseteq Streams
  BY DEF Typed, StreamTyped
<1>2. ASSUME NEW a, LeavesStreams(a) PROVE \E u \in streams : u.pc \notin {"off", "on"}
  BY <1>2, Zenon DEF LeavesStreams
<1>3. ASSUME NEW a, Finish(a) \/ Dies(a) \/ streams' = streams
      PROVE  \E u \in streams : u.pc \notin {"off", "on"}
  BY <1>1, <1>2, <1>3, FinishLeaves, DiesLeaves, Zenon
<1>4. ASSUME NEW a \in Actors, RetryTask(a) \/ Crash(a)
      PROVE  \E u \in streams : u.pc \notin {"off", "on"}
  <2>1. CASE CancelRead(a)
    <3>1. act[a].pc # "idle" /\ act[a].task \in Tasks
      BY <2>1 DEF CancelRead, At, Typed, ActTyped
    <3>2. row[act[a].task] \in InFlight \/ row[act[a].task] \in Completed \/ row[act[a].task] = None
      BY <3>1 DEF Typed, RestTyped
    <3>3. Finish(a) \/ streams' = streams
      BY <2>1, <3>2, Zenon DEF CancelRead
    <3> QED
      BY <1>3, <3>3, Zenon
  <2>2. CASE ~CancelRead(a)
    <3>1. Finish(a) \/ Dies(a) \/ streams' = streams
      BY <1>4, <2>2, Zenon DEF RetryTask, RetryLock, RetryUnclaim, RetryIndex, RetryEntry, RetryRow,
         RetryPush, CancelRow, Resolve, Crash
    <3> QED
      BY <1>3, <3>1, Zenon
  <2> QED
    BY <2>1, <2>2
<1>5. ASSUME NEW r \in Runners, Run(r) PROVE \E u \in streams : u.pc \notin {"off", "on"}
  <2>1. Finish(r) \/ Start(r) \/ streams' = streams
    BY <1>5, Zenon DEF Run, Pop, Claim, Complete, CompleteRow, CompleteRetry
  <2>2. CASE Start(r)
    BY <2>2 DEF Start
  <2> QED
    BY <1>3, <2>1, <2>2, Zenon
<1>6. ASSUME NEW g \in Gateways, Monitor(g) PROVE streams' = streams
  BY <1>6, Zenon DEF Monitor, MonitorList, MonitorFetch, MonitorCheck
<1>7. ASSUME NEW t \in Tasks,
             PutNext(t) \/ Expire(t) \/ Stop(t) \/ StopRow(t) \/ HeartbeatExpires(t) \/ LockExpires(t)
      PROVE  streams' = streams
  BY <1>7, Zenon DEF PutNext, Put, PutIndex, PutEntry, CreateTask, PutPush, PutPushFails, putUnchanged,
     Expire, Stop, StopRow, HeartbeatExpires, LockExpires
<1>8. ASSUME NEW t \in Tasks, StopDelete(t) PROVE stop[t] # "no"
  BY <1>8, StopDeleteEffect, Zenon
<1>9. ASSUME NEW z \in streams, Watch(z)
      PROVE  (\E u \in streams : u.pc \notin {"off", "on"}) \/ \E t \in Tasks : row[t] = "CANCELLED"
  <2>1. z.task \in Tasks /\ z \in Streams
    BY <1>1 DEF Streams
  <2>2. CASE row[z.task] = "CANCELLED"
    BY <2>1, <2>2, Zenon
  <2>3. CASE row[z.task] # "CANCELLED"
    <3>1. streams' = (streams \ {z}) \cup {[z EXCEPT !.pc = "on"]}
      BY <1>9, <2>3, Zenon DEF Watch, To
    <3>2. [z EXCEPT !.pc = "on"].pc = "on"
      BY <2>1 DEF Streams
    <3>3. s # [z EXCEPT !.pc = "on"]
      BY <3>2, Zenon
    <3>4. s \in streams
      BY <3>1, <3>3, Zenon
    <3> QED
      BY <3>4, Zenon
  <2> QED
    BY <2>2, <2>3, Zenon
<1>10. ASSUME NEW z \in streams, Beat(z) \/ StreamCompletes(z) \/ ExitRunner(z)
       PROVE  \E u \in streams : u.pc \notin {"off", "on"}
  <2>1. CASE Beat(z)
    <3>1. s \in streams
      BY <2>1, Zenon DEF Beat
    <3> QED
      BY <3>1, Zenon
  <2>2. CASE StreamCompletes(z) \/ ExitRunner(z)
    <3>1. z.pc \in {"ending", "exiting"}
      BY <2>2, Zenon DEF StreamCompletes, ExitRunner
    <3>2. z.pc \notin {"off", "on"}
      BY <3>1
    <3> QED
      BY <3>2, Zenon
  <2> QED
    BY <1>10, <2>1, <2>2, Zenon
<1>11. ASSUME NEW z \in streams, Timeout(z) PROVE "timeout" \in faults
  BY <1>11, Zenon DEF Timeout
<1> QED
  BY <1>3, <1>4, <1>5, <1>6, <1>7, <1>8, <1>9, <1>10, <1>11, Zenon DEF Next, StreamStep

\* No step ends streams otherwise.
LEMMA ExitSoundNext ==
  ASSUME Typed, StopSound, ExitSound, Next
  PROVE  ExitSound'
<1>1. faults' = faults
  BY FaultsKept, Zenon
<1>2. \A t \in Tasks : row'[t] = "CANCELLED" => "stop" \in faults
  BY RowCancelled, Zenon DEF ExitSound, StopSound
<1>3. ASSUME NEW s \in streams', s.pc \notin {"off", "on"}
      PROVE  "stop" \in faults \/ "timeout" \in faults
  BY <1>3, StreamsEnd, Zenon DEF ExitSound, StopSound
<1> QED
  BY <1>1, <1>2, <1>3, Zenon DEF ExitSound

-----------------------------------------------------------------------------
(* A task is in one place                                                  *)

\* a has t, and may run it or queue it again.
Holds(a, t) ==
  /\ act[a].task = t
  /\ act[a].pc # "report"
  /\ a \in Gateways => act[a].pc \in Retrying

\* t is being put, or in the queue, or with one holder, or in none of these places.
Single(t) ==
  /\ put[t] # "done" => ~Queued(t) /\ \A a \in Actors : ~Holds(a, t)
  /\ QueuedOnce(t)
  /\ Queued(t) => \A a \in Actors : ~Holds(a, t)
  /\ \A a, b \in Actors : Holds(a, t) /\ Holds(b, t) => a = b

\* Places where t has no claim.
Unclaimed == {"popped", "reindex", "reenter", "retryRow", "push"}

\* Who has t does not change when nobody who works on t moves.
LEMMA HoldsElsewhere ==
  ASSUME NEW t, SameAct(t), NEW a \in Actors
  PROVE  /\ Holds(a, t)' <=> Holds(a, t)
         /\ Holds(a, t) => act'[a] = act[a]
  BY Zenon DEF SameAct, Holds

\* t stays in one place when nobody gets it.
LEMMA SingleKept ==
  ASSUME NEW t, Single(t), put'[t] = put[t], SameQueue(t),
         \A a \in Actors : Holds(a, t)' => Holds(a, t)
  PROVE  Single(t)'
  BY Zenon DEF Single, SameQueue

\* Calls made under the retry lock
Locking == (Retrying \ {"retry"}) \cup Cancelling

RowSound(t) == row[t] # "CANCELLED" /\ (put[t] \in {"created", "done"} => row[t] # None)

\* The retry lock of t is held by a runner that is at work on t.
Guarded(t) ==
  lock[t] # None => \E r \in Runners : lock[t] = r /\ act[r].task = t /\ act[r].pc \in Locking

\* The lock of an actor that ends.
LEMMA LockDropped ==
  ASSUME NEW t \in Tasks, NEW a \in Actors, DropsCalls(a), act[a].task = t
  PROVE  lock'[t] = None \/ (lock'[t] = lock[t] /\ lock[t] # a)
  BY Zenon DEF DropsCalls

-----------------------------------------------------------------------------
(* No task is lost while nothing crashes, times out or is stopped          *)

\* What holds while r has t.
Tended(r, t) ==
  /\ entry[t] # None /\ t \in heartbeat
  /\ act[r].pc \in {"claimed", "running"} => t \in claimed
  /\ act[r].pc = "running" => HasStream(r)
  /\ act[r].pc = "resolve" => row[t] \notin InFlight

\* A claim belongs to a runner at work.
Claimant(t) == t \in claimed => \E r \in Runners : Holds(r, t) /\ act[r].pc \notin Unclaimed

\* t goes from the put to the queue and from the queue to runners, and until it is
\* completed it is with one of them.
Kept(t) ==
  /\ Single(t) /\ RowSound(t) /\ Guarded(t) /\ Claimant(t)
  /\ \A g \in Gateways : act[g].task # t
  /\ put[t] \in {"entered", "created"} \/ Queued(t) => entry[t] # None
  /\ \A r \in Runners : Holds(r, t) => Tended(r, t)
  /\ row[t] \in InFlight => InHand(t)

\* Steps that move nobody with t.
LEMMA KeptStays ==
  ASSUME NEW t \in Tasks, Kept(t), SameAct(t), Single(t)', RowSound(t)',
         lock'[t] = lock[t] \/ lock'[t] = None, t \in claimed' <=> t \in claimed,
         put'[t] \in {"entered", "created"} \/ Queued(t)' => entry'[t] # None,
         \A r \in Runners : Holds(r, t) =>
           /\ entry'[t] = entry[t] /\ t \in heartbeat'
           /\ act[r].pc = "running" => HasStream(r)'
           /\ row'[t] = row[t] \/ row'[t] \notin InFlight,
         row'[t] \in InFlight => InHand(t)'
  PROVE  Kept(t)'
<1>1. \A a \in Actors : (Holds(a, t)' <=> Holds(a, t)) /\ (Holds(a, t) => act'[a] = act[a])
  BY HoldsElsewhere, Zenon
<1>2. (\A r \in Runners : r \in Actors) /\ (\A g \in Gateways : g \in Actors)
  BY Zenon DEF Actors
<1>3. Guarded(t)'
  BY <1>2, Zenon DEF Kept, Guarded, SameAct
<1>4. Claimant(t)'
  BY <1>1, <1>2, Zenon DEF Kept, Claimant
<1>5. \A g \in Gateways : act'[g].task # t
  BY <1>2, Zenon DEF Kept, SameAct
<1>6. \A r \in Runners : Holds(r, t)' => Tended(r, t)'
  BY <1>1, <1>2, Zenon DEF Kept, Tended
<1> QED
  BY <1>3, <1>4, <1>5, <1>6, Zenon DEF Kept

\* Steps on other tasks.
LEMMA KeptElsewhere ==
  ASSUME NEW t \in Tasks, Kept(t), Elsewhere(t)
  PROVE  Kept(t)'
<1>1. \A a \in Actors : (Holds(a, t)' <=> Holds(a, t)) /\ (Holds(a, t) => act'[a] = act[a])
  BY HoldsElsewhere, Zenon DEF Elsewhere
<1>2. Single(t)'
  BY <1>1, SingleKept, Zenon DEF Kept, Elsewhere, SameRest
<1>3. RowSound(t)'
  BY Zenon DEF Kept, RowSound, Elsewhere, SameRest
<1>4. \A r \in Runners : Holds(r, t) => (HasStream(r)' <=> HasStream(r))
  BY Zenon DEF Holds, Elsewhere, SameStream, HasStream
<1>5. \A r \in Runners : Holds(r, t) =>
        /\ entry'[t] = entry[t] /\ t \in heartbeat'
        /\ act[r].pc = "running" => HasStream(r)'
        /\ row'[t] = row[t]
  BY <1>4, Zenon DEF Kept, Tended, Elsewhere, SameState, SameBeats
<1>6. InHand(t) => InHand(t)'
  <2>1. \A a \in Actors : act[a].task = t => act'[a].task = t
    BY Zenon DEF Elsewhere, SameAct
  <2>2. Queued(t) => Queued(t)'
    BY Zenon DEF Elsewhere, SameQueue
  <2> QED
    BY <2>1, <2>2, Zenon DEF InHand, Queued, Elsewhere, SameRest
<1>7. row'[t] \in InFlight => InHand(t)'
  BY <1>6, Zenon DEF Kept, Elsewhere
<1>8. put'[t] \in {"entered", "created"} \/ Queued(t)' => entry'[t] # None
  BY Zenon DEF Kept, Elsewhere, SameRest, SameQueue, SameState
<1> QED
  BY <1>2, <1>3, <1>5, <1>7, <1>8, KeptStays, Zenon DEF Elsewhere, SameState

\* A runner has t or goes on with it.
LEMMA KeptMoves ==
  ASSUME NEW t \in Tasks, Kept(t), NEW r \in Runners, NEW p, Others(r), p # "report",
         act'[r].task = t, act'[r].pc = p, Single(t)',
         \A q \in Runners : Holds(q, t)' => q = r,
         act[r].pc \in Locking => p \in Locking,
         lock'[t] = lock[t] \/ (lock'[t] = r /\ p \in Locking),
         row'[t] = row[t] \/ row'[t] \notin {None, "CANCELLED"}, put'[t] = put[t],
         entry'[t] # None, t \in heartbeat',
         t \in claimed' => p \notin Unclaimed,
         p \in {"claimed", "running"} => t \in claimed', p = "running" => HasStream(r)',
         p = "resolve" => row'[t] \notin InFlight
  PROVE  Kept(t)'
<1>1. \A b \in Actors : b # r => act'[b] = act[b]
  BY Zenon DEF Others
<1>2. r \in Actors /\ r \notin Gateways /\ (\A q \in Runners : q \in Actors) /\ (\A g \in Gateways : g \in Actors)
  BY TaskAssumption, Zenon DEF Actors
<1>3. Holds(r, t)'
  BY <1>2, Zenon DEF Holds
<1>4. RowSound(t)'
  BY Zenon DEF Kept, RowSound
<1>5. Guarded(t)'
  BY <1>1, <1>2, Zenon DEF Kept, Guarded
<1>6. Claimant(t)'
  BY <1>3, Zenon DEF Claimant
<1>7. \A g \in Gateways : act'[g].task # t
  BY <1>1, <1>2, Zenon DEF Kept
<1>8. Tended(r, t)'
  BY Zenon DEF Tended
<1>9. InHand(t)'
  BY <1>2, Zenon DEF InHand
<1> QED
  BY <1>4, <1>5, <1>6, <1>7, <1>8, <1>9, Zenon DEF Kept

\* A runner ends its work on t, or has deleted t's state and reports.
LEMMA KeptDrops ==
  ASSUME NEW t \in Tasks, Kept(t), NEW r \in Runners, Others(r), Single(t)',
         act[r].task = t, act[r].pc # "report",
         Ends(r) \/ Goes(r, "report"),
         lock'[t] = None \/ (lock'[t] = lock[t] /\ lock[t] # r),
         row'[t] = row[t], put'[t] = put[t], t \notin claimed',
         Queued(t)' => entry'[t] # None,
         row[t] \in InFlight => InHand(t)'
  PROVE  Kept(t)'
<1>1. \A b \in Actors : b # r => act'[b] = act[b]
  BY Zenon DEF Others
<1>2. r \in Actors /\ r \notin Gateways /\ (\A q \in Runners : q \in Actors) /\ (\A g \in Gateways : g \in Actors)
  BY TaskAssumption, Zenon DEF Actors
<1>3. Holds(r, t)
  BY <1>2, Zenon DEF Holds
<1>4. \A b \in Actors : Holds(b, t) => b = r
  BY <1>2, <1>3, Zenon DEF Kept, Single
<1>5. \A b \in Actors : ~Holds(b, t)'
  <2>1. t # None
    BY TaskAssumption
  <2>2. ~Holds(r, t)'
    BY <2>1, Zenon DEF Holds, Ends, Goes
  <2> QED
    BY <1>1, <1>4, <2>2, Zenon DEF Holds
<1>6. put[t] = "done"
  BY <1>2, <1>3, Zenon DEF Kept, Single
<1>7. RowSound(t)'
  BY Zenon DEF Kept, RowSound
<1>8. Guarded(t)'
  BY <1>1, <1>2, Zenon DEF Kept, Guarded
<1>9. Claimant(t)'
  BY Zenon DEF Claimant
<1>10. \A g \in Gateways : act'[g].task # t
  BY <1>1, <1>2, Zenon DEF Kept
<1>11. put'[t] \in {"entered", "created"} \/ Queued(t)' => entry'[t] # None
  BY <1>6, Zenon
<1> QED
  BY <1>2, <1>5, <1>7, <1>8, <1>9, <1>10, <1>11, Zenon DEF Kept

\* Whoever works on t is a runner, and before it reports the only one with t.
LEMMA KeptRunner ==
  ASSUME NEW t \in Tasks, Kept(t), NEW a \in Actors, act[a].task = t
  PROVE  /\ a \in Runners
         /\ act[a].pc # "report" =>
              /\ Holds(a, t) /\ Tended(a, t) /\ put[t] = "done" /\ ~Queued(t)
              /\ \A b \in Actors : Holds(b, t) => b = a
<1>1. a \in Runners /\ a \notin Gateways
  BY ActorKinds, Zenon DEF Kept
<1>2. act[a].pc # "report" => Holds(a, t)
  BY <1>1, Zenon DEF Holds
<1> QED
  BY <1>1, <1>2, Zenon DEF Kept, Single

\* A call on t goes on.
LEMMA KeptGoes ==
  ASSUME NEW t \in Tasks, Kept(t), NEW a \in Actors, NEW p, Others(a), p # "report",
         act[a].task = t, act[a].pc # "report",
         act'[a].task = t, act'[a].pc = p,
         act[a].pc \in Locking => p \in Locking,
         lock'[t] = lock[t] \/ (lock'[t] = a /\ p \in Locking),
         row'[t] = row[t] \/ row'[t] \notin {None, "CANCELLED"},
         entry'[t] # None, SameQueue(t), SameBeats(t), SameRest(t),
         t \in claimed' => p \notin Unclaimed,
         p \in {"claimed", "running"} => t \in claimed', p = "running" => HasStream(a)',
         p = "resolve" => row'[t] \notin InFlight
  PROVE  Kept(t)'
<1>1. /\ a \in Runners /\ Holds(a, t) /\ Tended(a, t)
      /\ \A b \in Actors : Holds(b, t) => b = a
  BY KeptRunner, Zenon
<1>2. \A b \in Actors : Holds(b, t)' => b = a
  BY <1>1, Zenon DEF Holds, Others
<1>3. put'[t] = put[t] /\ t \in heartbeat'
  BY <1>1, Zenon DEF SameRest, SameBeats, Tended
<1>4. Single(t)'
  BY <1>1, <1>2, <1>3, SingleKept, Zenon DEF Kept
<1>5. \A q \in Runners : Holds(q, t)' => q = a
  BY <1>2, Zenon DEF Actors
<1> QED
  BY <1>1, <1>3, <1>4, <1>5, KeptMoves, Zenon

\* A call on t ends, or goes on to report, with t's claim gone.
LEMMA KeptEnds ==
  ASSUME NEW t \in Tasks, Kept(t), NEW a \in Actors, act[a].task = t, act[a].pc # "report",
         Ends(a) \/ Goes(a, "report"),
         lock'[t] = None \/ (lock'[t] = lock[t] /\ lock[t] # a),
         row'[t] = row[t], t \notin claimed', SameQueue(t), SameRest(t),
         row[t] \in InFlight => Goes(a, "report")
  PROVE  Kept(t)'
<1>1. /\ a \in Runners /\ Holds(a, t) /\ ~Queued(t)
      /\ \A b \in Actors : Holds(b, t) => b = a
  BY KeptRunner, Zenon
<1>2. Others(a) /\ \A b \in Actors : b # a => act'[b] = act[b]
  BY Zenon DEF Ends, Goes, Others
<1>3. ~Holds(a, t)'
  <2>1. t # None
    BY TaskAssumption, Zenon
  <2> QED
    BY <2>1, Zenon DEF Holds, Ends, Goes
<1>4. put'[t] = put[t]
  BY Zenon DEF SameRest
<1>5. Single(t)'
  <2>1. \A b \in Actors : Holds(b, t)' => Holds(b, t)
    BY <1>2, <1>3, Zenon DEF Holds
  <2> QED
    BY <1>4, <2>1, SingleKept, Zenon DEF Kept
<1>6. ~Queued(t)'
  BY <1>1, Zenon DEF SameQueue
<1>7. Goes(a, "report") => InHand(t)'
  BY Zenon DEF Goes, InHand
<1> QED
  BY <1>1, <1>2, <1>4, <1>5, <1>6, <1>7, KeptDrops, Zenon

\* RetryTask: a runner finds the lock free, and t's row.
LEMMA KeptRetry ==
  ASSUME Typed, NEW t \in Tasks, Kept(t), NEW a \in Actors,
         RetryLock(a) \/ RetryUnclaim(a) \/ RetryIndex(a) \/ RetryEntry(a) \/ RetryRow(a)
  PROVE  Kept(t)'
<1>1. CASE Elsewhere(t)
  BY <1>1, KeptElsewhere
<1>2. ASSUME act[a].task = t, act[a].pc \in {"retry", "unclaim", "reindex", "reenter", "retryRow"}
      PROVE  /\ act[a].pc # "report" /\ Holds(a, t) /\ put[t] = "done" /\ entry[t] # None
             /\ \A b \in Actors : Holds(b, t) => b = a
  <2>1. act[a].pc # "report"
    BY <1>2
  <2> QED
    BY <1>2, <2>1, KeptRunner, Zenon DEF Tended
<1>3. ASSUME NEW p \in {"cancel", "unclaim", "reindex", "reenter", "retryRow", "push"},
             act[a].task = t, act[a].pc \in {"retry", "unclaim", "reindex", "reenter", "retryRow"},
             Goes(a, p), lock'[t] = lock[t] \/ lock'[t] = a, entry'[t] # None,
             row'[t] = row[t] \/ row'[t] = "RETRY",
             t \in claimed' => p \in {"cancel", "unclaim"},
             SameQueue(t), SameBeats(t), SameRest(t)
      PROVE  Kept(t)'
  <2>1. /\ p \in Locking /\ p \notin {"report", "claimed", "running", "resolve"}
        /\ p \in {"cancel", "unclaim"} => p \notin Unclaimed
        /\ act[a].pc # "report"
    BY <1>3, Zenon DEF Locking, Retrying, Cancelling, Unclaimed
  <2>2. Others(a) /\ act'[a].task = t /\ act'[a].pc = p
    BY <1>3, Zenon DEF Goes
  <2>3. row'[t] = row[t] \/ row'[t] \notin {None, "CANCELLED"}
    BY <1>3, TaskAssumption, Zenon DEF InFlight
  <2>4. p \notin {"claimed", "running"} /\ p # "resolve" /\ p # "report"
    BY <2>1, Zenon
  <2> QED
    BY <1>3, <2>1, <2>2, <2>3, <2>4, KeptGoes, Zenon
<1>4. CASE RetryLock(a)
  <2>1. CASE /\ act[a].task = t /\ act[a].pc = "retry" /\ lock[t] # None
    <3>1. "retry" \notin Locking /\ "report" \notin Locking
      BY DEF Locking, Retrying, Cancelling
    <3>2. ASSUME NEW r \in Runners, act[r].task = t, act[r].pc \in Locking PROVE FALSE
      <4>1. r \in Actors /\ act[r].pc # "report"
        BY <3>1, <3>2 DEF Actors
      <4>2. Holds(r, t)
        BY <3>2, <4>1, KeptRunner, Zenon
      <4>3. r = a
        BY <1>2, <2>1, <4>1, <4>2, Zenon
      <4> QED
        BY <2>1, <3>1, <3>2, <4>3, Zenon
    <3> QED
      BY <2>1, <3>2, Zenon DEF Kept, Guarded
  <2>2. CASE /\ act[a].task = t /\ act[a].pc = "retry" /\ row'[t] = row[t]
             /\ SameState(t) /\ SameQueue(t) /\ SameBeats(t) /\ SameRest(t)
             /\ lock'[t] = a /\ (Goes(a, "cancel") \/ Goes(a, "unclaim"))
    <3>1. entry'[t] # None
      BY <1>2, <2>2, Zenon DEF SameState
    <3> QED
      BY <1>3, <2>2, <3>1, Zenon
  <2> QED
    BY <1>1, <1>4, <2>1, <2>2, RetryLockEffect, Zenon
<1>5. CASE RetryUnclaim(a)
  <2>1. CASE /\ act[a].task = t /\ act[a].pc = "unclaim" /\ Goes(a, "reindex") /\ KeepsCalls
             /\ row'[t] = row[t] /\ entry'[t] = entry[t] /\ t \notin claimed'
             /\ SameQueue(t) /\ SameBeats(t) /\ SameRest(t)
    BY <1>2, <1>3, <2>1, Zenon DEF KeepsCalls
  <2> QED
    BY <1>1, <1>5, <2>1, RetryUnclaimEffect, Zenon
<1>6. ASSUME act[a].task = t, act[a].pc \in {"reindex", "reenter", "retryRow"}
      PROVE  t \notin claimed
  <2>1. act[a].pc \in Unclaimed
    BY <1>6, Zenon DEF Unclaimed
  <2>2. \A b \in Actors : Holds(b, t) => b = a
    BY <1>2, <1>6, Zenon
  <2> QED
    BY <2>1, <2>2, Zenon DEF Kept, Claimant, Actors
<1>7. CASE RetryIndex(a)
  <2>1. CASE /\ act[a].task = t /\ act[a].pc = "reindex" /\ Goes(a, "reenter") /\ KeepsCalls
             /\ row'[t] = row[t] /\ SameState(t)
             /\ SameQueue(t) /\ SameBeats(t) /\ SameRest(t)
    BY <1>2, <1>3, <1>6, <2>1, Zenon DEF KeepsCalls, SameState
  <2> QED
    BY <1>1, <1>7, <2>1, RetryIndexEffect, Zenon
<1>8. CASE RetryEntry(a)
  <2>1. CASE /\ act[a].task = t /\ act[a].pc = "reenter" /\ Goes(a, "retryRow") /\ KeepsCalls
             /\ row'[t] = row[t] /\ entry'[t] = act[a].retries + 1
             /\ t \in claimed' <=> t \in claimed
             /\ SameQueue(t) /\ SameBeats(t) /\ SameRest(t)
    <3>1. entry'[t] # None
      BY <2>1, TaskAssumption DEF Typed, ActTyped, Activity
    <3> QED
      BY <1>3, <1>6, <2>1, <3>1 DEF KeepsCalls
  <2> QED
    BY <1>1, <1>8, <2>1, RetryEntryEffect, Zenon
<1>9. CASE RetryRow(a)
  <2>1. CASE /\ act[a].task = t /\ act[a].pc = "retryRow" /\ row[t] = None
    BY <1>2, <2>1, Zenon DEF Kept, RowSound
  <2>2. CASE /\ act[a].task = t /\ act[a].pc = "retryRow" /\ SameState(t)
             /\ SameQueue(t) /\ SameBeats(t) /\ SameRest(t)
             /\ row'[t] = "RETRY" /\ Goes(a, "push") /\ KeepsCalls
    BY <1>2, <1>3, <1>6, <2>2, Zenon DEF KeepsCalls, SameState
  <2> QED
    BY <1>1, <1>9, <2>1, <2>2, RetryRowEffect, Zenon
<1> QED
  BY <1>4, <1>5, <1>7, <1>8, <1>9

\* RetryTask ends: t is in the queue, with its entry.
LEMMA KeptPush ==
  ASSUME Typed, NEW t \in Tasks, Kept(t), NEW a \in Actors, RetryPush(a)
  PROVE  Kept(t)'
<1>1. CASE Elsewhere(t)
  BY <1>1, KeptElsewhere
<1>2. CASE /\ act[a].task = t /\ act[a].pc = "push" /\ Ends(a) /\ DropsCalls(a)
           /\ row'[t] = row[t] /\ SameState(t)
           /\ Queued(t)' /\ (~Queued(t) => QueuedOnce(t)')
           /\ put'[t] = put[t]
  <2>1. "push" # "report" /\ "push" \in Unclaimed
    BY DEF Unclaimed
  <2>2. /\ a \in Runners /\ Holds(a, t) /\ Tended(a, t) /\ put[t] = "done" /\ ~Queued(t)
        /\ \A b \in Actors : Holds(b, t) => b = a
    BY <1>2, <2>1, KeptRunner, Zenon
  <2>3. Others(a) /\ act'[a].task # t /\ \A b \in Actors : b # a => act'[b] = act[b]
    BY <1>2, TaskAssumption, Zenon DEF Ends, Others
  <2>4. \A b \in Actors : ~Holds(b, t)'
    BY <2>2, <2>3, Zenon DEF Holds
  <2>5. Single(t)'
    BY <1>2, <2>2, <2>4, Zenon DEF Single
  <2>6. t \notin claimed'
    BY <1>2, <2>1, <2>2, Zenon DEF Kept, Claimant, SameState, Actors
  <2>7. entry'[t] # None
    BY <1>2, <2>2, Zenon DEF Tended, SameState
  <2>8. InHand(t)'
    BY <1>2, Zenon DEF InHand, Queued
  <2>9. lock'[t] = None \/ (lock'[t] = lock[t] /\ lock[t] # a)
    BY <1>2, LockDropped
  <2> QED
    BY <1>2, <2>1, <2>2, <2>3, <2>5, <2>6, <2>7, <2>8, <2>9, KeptDrops, Zenon
<1> QED
  BY <1>1, <1>2, RetryPushEffect, Zenon

\* Cancel completes the row before Complete deletes the entry.
LEMMA KeptCancel ==
  ASSUME Typed, NEW t \in Tasks, Kept(t), NEW a \in Actors,
         CancelRead(a) \/ CancelRow(a) \/ Resolve(a)
  PROVE  Kept(t)'
<1>1. CASE Elsewhere(t)
  BY <1>1, KeptElsewhere
<1>2. ASSUME act[a].task = t, act[a].pc \in Cancelling
      PROVE  act[a].pc # "report" /\ Tended(a, t) /\ put[t] = "done"
  <2>1. act[a].pc # "report"
    BY <1>2 DEF Cancelling
  <2> QED
    BY <1>2, <2>1, KeptRunner, Zenon
<1>3. ASSUME NEW p \in {"cancelRow", "resolve"}, act[a].task = t, act[a].pc \in Cancelling,
             Goes(a, p), KeepsCalls, row'[t] = row[t] \/ row'[t] \in Verdicts,
             p = "resolve" => row'[t] \notin InFlight,
             SameState(t), SameQueue(t), SameBeats(t), SameRest(t)
      PROVE  Kept(t)'
  <2>1. p \in Locking /\ p \notin Unclaimed /\ p \notin {"claimed", "running"} /\ p # "report"
    BY <1>3 DEF Locking, Cancelling, Unclaimed
  <2>2. Others(a) /\ act'[a].task = t /\ act'[a].pc = p /\ lock'[t] = lock[t]
    BY <1>3, Zenon DEF Goes, KeepsCalls
  <2>3. row'[t] = row[t] \/ row'[t] \notin {None, "CANCELLED"}
    BY <1>3, TaskAssumption DEF Verdicts, Completed
  <2>4. act[a].pc # "report" /\ entry'[t] # None
    BY <1>2, <1>3, Zenon DEF Tended, SameState
  <2> QED
    BY <1>3, <2>1, <2>2, <2>3, <2>4, KeptGoes, Zenon
<1>4. "cancel" \in Cancelling /\ "cancelRow" \in Cancelling /\ "resolve" \in Cancelling
  BY DEF Cancelling
<1>5. CASE CancelRead(a)
  <2>1. CASE act[a].task = t /\ act[a].pc = "cancel" /\ row[t] = None
    BY <1>2, <1>4, <2>1, Zenon DEF Kept, RowSound
  <2>2. CASE /\ act[a].task = t /\ act[a].pc = "cancel" /\ row'[t] = row[t]
             /\ SameState(t) /\ SameQueue(t) /\ SameBeats(t) /\ SameRest(t) /\ KeepsCalls
             /\ Goes(a, "cancelRow") \/ (row[t] \notin InFlight /\ Goes(a, "resolve"))
    BY <1>3, <1>4, <2>2
  <2> QED
    BY <1>1, <1>5, <2>1, <2>2, CancelReadEffect, Zenon
<1>6. CASE CancelRow(a)
  <2>1. CASE /\ act[a].task = t /\ act[a].pc = "cancelRow" /\ Goes(a, "resolve") /\ KeepsCalls
             /\ row'[t] \in Verdicts
             /\ SameState(t) /\ SameQueue(t) /\ SameBeats(t) /\ SameRest(t)
    <3>1. row'[t] \notin InFlight
      BY <2>1 DEF Verdicts, InFlight
    <3> QED
      BY <1>3, <1>4, <2>1, <3>1
  <2> QED
    BY <1>1, <1>6, <2>1, CancelRowEffect, Zenon
<1>7. CASE Resolve(a)
  <2>1. CASE /\ act[a].task = t /\ act[a].pc = "resolve" /\ Ends(a) /\ DropsCalls(a)
             /\ row'[t] = row[t] /\ entry'[t] = None /\ t \notin claimed'
             /\ SameQueue(t) /\ SameBeats(t) /\ SameRest(t)
    <3>1. row[t] \notin InFlight /\ act[a].pc # "report"
      BY <1>2, <1>4, <2>1, Zenon DEF Tended
    <3>2. lock'[t] = None \/ (lock'[t] = lock[t] /\ lock[t] # a)
      BY <2>1, LockDropped
    <3> QED
      BY <2>1, <3>1, <3>2, KeptEnds, Zenon
  <2> QED
    BY <1>1, <1>7, <2>1, ResolveEffect, Zenon
<1> QED
  BY <1>5, <1>6, <1>7

\* A pop hands t over with its entry and a heartbeat.
LEMMA KeptPop ==
  ASSUME Typed, NEW t \in Tasks, Kept(t), NEW r \in Runners, Pop(r)
  PROVE  Kept(t)'
<1>1. CASE Elsewhere(t)
  BY <1>1, KeptElsewhere
<1> DEFINE Popping ==
      /\ Refreshed(t) /\ Queued(t) /\ (QueuedOnce(t) => ~Queued(t)' /\ QueuedOnce(t)')
      /\ SameState(t) /\ SameRest(t) /\ KeepsCalls /\ row'[t] = row[t]
<1>2. ASSUME Popping
      PROVE  /\ ~Queued(t)' /\ QueuedOnce(t)' /\ put[t] = "done" /\ put'[t] = put[t]
             /\ \A a \in Actors : ~Holds(a, t)
             /\ t \in heartbeat' /\ lock'[t] = lock[t]
             /\ entry'[t] = entry[t] /\ entry[t] # None /\ (t \in claimed' <=> t \in claimed)
             /\ t \notin claimed'
  <2>1. ~Queued(t)' /\ QueuedOnce(t)' /\ put[t] = "done" /\ \A a \in Actors : ~Holds(a, t)
    BY <1>2, Zenon DEF Kept, Single
  <2>2. t \notin claimed
    BY <2>1, Zenon DEF Kept, Claimant, Actors
  <2> QED
    BY <1>2, <2>1, <2>2, Zenon DEF Kept, SameRest, Refreshed, KeepsCalls, SameState
<1>3. CASE Popping /\ row[t] \notin InFlight /\ act' = act
  <2>1. SameAct(t) /\ \A a \in Actors : ~Holds(a, t)'
    BY <1>2, <1>3, Zenon DEF SameAct, Holds
  <2>2. Single(t)'
    BY <1>2, <1>3, <2>1, Zenon DEF Single
  <2>3. RowSound(t)'
    BY <1>2, <1>3, Zenon DEF Kept, RowSound
  <2> QED
    BY <1>2, <1>3, <2>1, <2>2, <2>3, KeptStays, Zenon DEF Actors
<1>4. CASE /\ Popping /\ act[r].pc = "idle" /\ Others(r)
           /\ act'[r].pc = "popped" /\ act'[r].task = t
  <2>1. /\ "popped" # "report" /\ "idle" \notin Locking /\ "popped" # "resolve"
        /\ "popped" \notin {"claimed", "running"}
    BY DEF Locking, Retrying, Cancelling
  <2>2. \A a \in Actors : Holds(a, t)' => a = r
    BY <1>2, <1>4, Zenon DEF Holds, Others
  <2>3. Single(t)'
    BY <1>2, <1>4, <2>2, Zenon DEF Single
  <2>4. \A q \in Runners : Holds(q, t)' => q = r
    BY <2>2, Zenon DEF Actors
  <2> QED
    BY <1>2, <1>4, <2>1, <2>3, <2>4, KeptMoves, Zenon
<1> QED
  BY <1>1, <1>3, <1>4, PopEffect, Zenon

\* The claim and the start of t.
LEMMA KeptBegin ==
  ASSUME Typed, NEW t \in Tasks, Kept(t), NEW r \in Runners, Claim(r) \/ Start(r)
  PROVE  Kept(t)'
<1>1. CASE Elsewhere(t)
  BY <1>1, KeptElsewhere
<1>2. r \in Actors
  BY DEF Actors
<1>3. /\ {"popped", "claimed"} \cap Locking = {} /\ {"running", "claimed"} \cap Unclaimed = {}
      /\ "report" \notin {"popped", "claimed", "running"} /\ "resolve" \notin {"claimed", "running"}
      /\ "claimed" \in {"claimed", "running"}
  BY DEF Locking, Retrying, Cancelling, Unclaimed
<1>4. ASSUME NEW p \in {"claimed", "running"}, act[r].task = t, act[r].pc \in {"popped", "claimed"},
             Goes(r, p), lock' = lock, row'[t] = row[t] \/ row'[t] = "RUNNING",
             entry'[t] = entry[t], t \in claimed', p = "running" => HasStream(r)',
             SameQueue(t), SameBeats(t), SameRest(t)
      PROVE  Kept(t)'
  <2>1. act[r].pc # "report" /\ act[r].pc \notin Locking /\ p # "report" /\ p # "resolve" /\ p \notin Unclaimed
    BY <1>3, <1>4
  <2>2. Others(r) /\ act'[r].task = t /\ act'[r].pc = p /\ lock'[t] = lock[t]
    BY <1>4, Zenon DEF Goes
  <2>3. row'[t] = row[t] \/ row'[t] \notin {None, "CANCELLED"}
    BY <1>4, TaskAssumption DEF InFlight
  <2>4. entry'[t] # None
    BY <1>2, <1>4, <2>1, KeptRunner, Zenon DEF Tended
  <2> QED
    BY <1>2, <1>4, <2>1, <2>2, <2>3, <2>4, KeptGoes, Zenon
<1>5. CASE Claim(r)
  <2>1. CASE /\ act[r].task = t /\ act[r].pc = "popped" /\ Goes(r, "claimed") /\ KeepsCalls
             /\ row'[t] = row[t] /\ entry'[t] = entry[t] /\ t \in claimed'
             /\ SameQueue(t) /\ SameBeats(t) /\ SameRest(t)
    BY <1>4, <2>1 DEF KeepsCalls
  <2> QED
    BY <1>1, <1>5, <2>1, ClaimEffect, Zenon
<1>6. CASE Start(r)
  <2>1. CASE /\ act[r].task = t /\ act[r].pc = "claimed" /\ Goes(r, "running")
             /\ row'[t] = "RUNNING" /\ lock' = lock /\ HasStream(r)'
             /\ SameState(t) /\ SameQueue(t) /\ SameBeats(t) /\ SameRest(t)
    <3>1. act[r].pc # "report" /\ act[r].pc \in {"claimed", "running"}
      BY <2>1
    <3>2. t \in claimed'
      BY <1>2, <2>1, <3>1, KeptRunner, Zenon DEF Tended, SameState
    <3> QED
      BY <1>4, <2>1, <3>2 DEF SameState
  <2> QED
    BY <1>1, <1>6, <2>1, StartEffect, Zenon
<1> QED
  BY <1>5, <1>6

\* The stream of t's runner never finds the claim gone.
LEMMA KeptStream ==
  ASSUME Typed, NEW t \in Tasks, Kept(t), NEW s \in streams, Watch(s) \/ Beat(s)
  PROVE  Kept(t)'
<1>1. CASE Elsewhere(t)
  BY <1>1, KeptElsewhere
<1>2. CASE /\ act' = act /\ row'[t] = row[t] /\ lock' = lock
           /\ SameState(t) /\ SameQueue(t) /\ Refreshed(t) /\ SameRest(t)
           /\ t \in claimed => SameStreams
  <2>1. SameAct(t) /\ \A b \in Actors : Holds(b, t)' <=> Holds(b, t)
    BY <1>2, Zenon DEF SameAct, Holds
  <2>2. /\ put'[t] = put[t] /\ lock'[t] = lock[t] /\ (Queued(t)' <=> Queued(t)) /\ entry'[t] = entry[t]
        /\ (t \in claimed' <=> t \in claimed) /\ t \in heartbeat'
    BY <1>2, Zenon DEF SameRest, SameQueue, SameState, Refreshed
  <2>3. Single(t)'
    BY <1>2, <2>1, <2>2, SingleKept, Zenon DEF Kept
  <2>4. RowSound(t)'
    BY <1>2, <2>2, Zenon DEF Kept, RowSound
  <2>5. \A r \in Runners : Holds(r, t) /\ act[r].pc = "running" => HasStream(r)'
    <3>1. "running" \in {"claimed", "running"}
      OBVIOUS
    <3> QED
      BY <1>2, <3>1, Zenon DEF Kept, Tended, SameStreams
  <2>6. InHand(t) => InHand(t)'
    BY <1>2, <2>2, Zenon DEF InHand, Queued
  <2> QED
    BY <1>2, <2>1, <2>2, <2>3, <2>4, <2>5, <2>6, KeptStays, Zenon DEF Kept
<1> QED
  BY <1>1, <1>2, WatchEffect, BeatEffect, Zenon

\* The end of a run deletes t only when its row is about to be completed.
LEMMA KeptEnd ==
  ASSUME Typed, NEW t \in Tasks, Kept(t), NEW r \in Runners,
         \/ CompleteRetry(r)
         \/ \E s \in {"COMPLETE", "ERROR"} : Complete(r, s)
  PROVE  Kept(t)'
<1>1. CASE Elsewhere(t)
  BY <1>1, KeptElsewhere
<1>2. r \in Actors
  BY DEF Actors
<1>3. ASSUME act[r].task = t, act[r].pc = "running"
      PROVE  act[r].pc # "report" /\ Tended(r, t) /\ (lock[t] = None \/ lock[t] # r)
  <2>1. act[r].pc # "report" /\ "running" \notin Locking
    BY <1>3 DEF Locking, Retrying, Cancelling
  <2>2. lock[t] = None \/ lock[t] # r
    BY <1>3, <2>1, Zenon DEF Kept, Guarded
  <2> QED
    BY <1>2, <1>3, <2>1, <2>2, KeptRunner, Zenon
<1>4. CASE \E s \in {"COMPLETE", "ERROR"} : Complete(r, s)
  <2>1. CASE /\ act[r].task = t /\ act[r].pc = "running" /\ Goes(r, "report") /\ KeepsCalls
             /\ row'[t] = row[t] /\ entry'[t] = None /\ t \notin claimed'
             /\ SameQueue(t) /\ SameBeats(t) /\ SameRest(t)
    <3>1. lock'[t] = None \/ (lock'[t] = lock[t] /\ lock[t] # r)
      BY <1>3, <2>1, Zenon DEF KeepsCalls
    <3> QED
      BY <1>2, <1>3, <2>1, <3>1, KeptEnds, Zenon
  <2> QED
    BY <1>1, <1>4, <2>1, CompleteEffect, Zenon
<1>5. CASE CompleteRetry(r)
  <2>1. CASE act[r].task = t /\ act[r].pc = "running" /\ entry[t] = None
    BY <1>3, <2>1, Zenon DEF Tended
  <2>2. CASE /\ act[r].task = t /\ act[r].pc = "running" /\ row'[t] = row[t]
             /\ SameState(t) /\ SameQueue(t) /\ SameBeats(t) /\ SameRest(t)
             /\ entry[t] # None /\ act'[r].pc = "retry" /\ act'[r].task = t
             /\ Others(r) /\ KeepsCalls
    <3>1. /\ "retry" # "report" /\ "running" \notin Locking /\ "retry" \notin Unclaimed
          /\ "retry" \notin {"claimed", "running"} /\ "retry" # "resolve" /\ "running" # "report"
      BY DEF Locking, Retrying, Cancelling, Unclaimed
    <3>2. entry'[t] # None /\ lock'[t] = lock[t]
      BY <2>2, Zenon DEF SameState, KeepsCalls
    <3> QED
      BY <1>2, <2>2, <3>1, <3>2, KeptGoes, Zenon
  <2> QED
    BY <1>1, <1>5, <2>1, <2>2, CompleteRetryEffect, Zenon
<1> QED
  BY <1>4, <1>5

\* Whoever reports has deleted t's state before, and nobody waits for t.
LEMMA KeptReport ==
  ASSUME Typed, NEW t \in Tasks, Kept(t), NEW r \in Runners, CompleteRow(r)
  PROVE  Kept(t)'
<1>1. CASE Elsewhere(t)
  BY <1>1, KeptElsewhere
<1>2. CASE /\ act[r].task = t /\ act[r].pc = "report" /\ Ends(r) /\ DropsCalls(r)
           /\ row'[t] \in Verdicts
           /\ SameState(t) /\ SameQueue(t) /\ SameBeats(t) /\ SameRest(t)
  <2>1. /\ act'[r].task # t /\ r \in Actors /\ r \notin Gateways
        /\ (\A q \in Runners : q \in Actors) /\ (\A g \in Gateways : g \in Actors)
        /\ \A b \in Actors : b # r => act'[b] = act[b]
    BY <1>2, TaskAssumption DEF Ends, Others, Actors
  <2>2. \A b \in Actors : (Holds(b, t)' <=> Holds(b, t)) /\ (Holds(b, t) => b # r /\ act'[b] = act[b])
    BY <1>2, <2>1, Zenon DEF Holds
  <2>3. put'[t] = put[t] /\ entry'[t] = entry[t] /\ (t \in claimed' <=> t \in claimed)
        /\ (t \in heartbeat' <=> t \in heartbeat) /\ (Queued(t)' <=> Queued(t))
    BY <1>2, Zenon DEF SameRest, SameState, SameBeats, SameQueue
  <2>4. Single(t)'
    BY <1>2, <2>2, <2>3, SingleKept, Zenon DEF Kept
  <2>5. row'[t] \notin InFlight /\ row'[t] \notin {None, "CANCELLED"}
    BY <1>2, TaskAssumption DEF Verdicts, InFlight, Completed
  <2>6. RowSound(t)'
    BY <2>5 DEF RowSound
  <2>7. Guarded(t)'
    <3>1. lock'[t] = None \/ (lock'[t] = lock[t] /\ lock[t] # r)
      BY <1>2, <2>1, LockDropped
    <3> QED
      BY <2>1, <3>1, Zenon DEF Kept, Guarded
  <2>8. Claimant(t)'
    BY <2>1, <2>2, <2>3, Zenon DEF Kept, Claimant
  <2>9. \A g \in Gateways : act'[g].task # t
    BY <2>1, Zenon DEF Kept
  <2>10. \A q \in Runners : q # r => (HasStream(q)' <=> HasStream(q))
    BY <1>2, Zenon DEF DropsCalls, OtherStreams
  <2>11. \A q \in Runners : Holds(q, t)' => Tended(q, t)'
    BY <2>1, <2>2, <2>3, <2>5, <2>10, Zenon DEF Kept, Tended
  <2> QED
    BY <2>3, <2>4, <2>5, <2>6, <2>7, <2>8, <2>9, <2>11, Zenon DEF Kept
<1> QED
  BY <1>1, <1>2, CompleteRowEffect, Zenon

\* No monitor has a reason to touch t.
LEMMA KeptMonitor ==
  ASSUME Typed, NEW t \in Tasks, Kept(t), t \notin expired, NEW g \in Gateways, Monitor(g)
  PROVE  Kept(t)'
<1>1. CASE Elsewhere(t)
  BY <1>1, KeptElsewhere
<1>2. CASE MonitorList(g)
  BY <1>1, <1>2, MonitorListEffect
<1>3. ASSUME NEW v \in Tasks, MonitorFetch(g, v) PROVE Kept(t)'
  <2>1. CASE /\ act' = act /\ KeepsCalls /\ row'[t] = row[t]
             /\ SameQueue(t) /\ SameRest(t) /\ (t \in heartbeat' <=> t \in heartbeat)
             /\ \/ entry[t] = None /\ entry'[t] = None /\ t \notin claimed'
                \/ SameState(t)
    <3>1. \A r \in Runners : Holds(r, t) => entry[t] # None
      BY Zenon DEF Kept, Tended
    <3>2. entry[t] = None => t \notin claimed
      BY <3>1, Zenon DEF Kept, Claimant
    <3>3. SameState(t)
      BY <2>1, <3>2, Zenon DEF SameState
    <3>4. SameAct(t) /\ \A b \in Actors : Holds(b, t)' <=> Holds(b, t)
      BY <2>1, Zenon DEF SameAct, Holds
    <3>5. put'[t] = put[t] /\ lock'[t] = lock[t] /\ (Queued(t)' <=> Queued(t)) /\ entry'[t] = entry[t]
          /\ (t \in claimed' <=> t \in claimed)
      BY <2>1, <3>3, Zenon DEF SameRest, KeepsCalls, SameQueue, SameState
    <3>6. Single(t)'
      BY <2>1, <3>4, <3>5, SingleKept, Zenon DEF Kept
    <3>7. RowSound(t)'
      BY <2>1, <3>5, Zenon DEF Kept, RowSound
    <3>8. \A r \in Runners : Holds(r, t) =>
            /\ t \in heartbeat'
            /\ act[r].pc = "running" => HasStream(r)'
      BY <2>1, Zenon DEF Kept, Tended, KeepsCalls, HasStream
    <3>9. InHand(t) => InHand(t)'
      BY <2>1, <3>5, Zenon DEF InHand, Queued
    <3> QED
      BY <2>1, <3>4, <3>5, <3>6, <3>7, <3>8, <3>9, KeptStays, Zenon DEF Kept
  <2> QED
    BY <1>1, <1>3, <2>1, MonitorFetchEffect, Zenon DEF SameBeats
<1>4. ASSUME NEW v \in Tasks, MonitorCheck(g, v) PROVE Kept(t)'
  <2> DEFINE Taken ==
        /\ Others(g) /\ KeepsCalls /\ row'[t] = row[t]
        /\ SameState(t) /\ SameQueue(t) /\ SameRest(t) /\ (t \in heartbeat' <=> t \in heartbeat)
  <2>1. CASE Taken /\ Ends(g)
    <3>1. act[g].task # t /\ act'[g].task # t /\ g \in Actors
      BY <2>1, TaskAssumption DEF Kept, Ends, Actors
    <3>2. SameAct(t)
      BY <2>1, <3>1, ActorElsewhere
    <3>3. \A b \in Actors : Holds(b, t)' <=> Holds(b, t)
      BY <3>2, HoldsElsewhere, Zenon
    <3>4. put'[t] = put[t] /\ lock'[t] = lock[t] /\ (Queued(t)' <=> Queued(t)) /\ entry'[t] = entry[t]
          /\ (t \in claimed' <=> t \in claimed)
      BY <2>1, Zenon DEF SameRest, KeepsCalls, SameQueue, SameState
    <3>5. Single(t)'
      BY <2>1, <3>3, <3>4, SingleKept, Zenon DEF Kept
    <3>6. RowSound(t)'
      BY <2>1, <3>4, Zenon DEF Kept, RowSound
    <3>7. \A r \in Runners : Holds(r, t) =>
            /\ t \in heartbeat'
            /\ act[r].pc = "running" => HasStream(r)'
      BY <2>1, Zenon DEF Kept, Tended, KeepsCalls, HasStream
    <3>8. InHand(t) => InHand(t)'
      <4>1. \A a \in Actors : act[a].task = t => act'[a].task = t
        BY <3>2, Zenon DEF SameAct
      <4> QED
        BY <3>4, <4>1, Zenon DEF InHand, Queued
    <3> QED
      BY <2>1, <3>2, <3>4, <3>5, <3>6, <3>7, <3>8, KeptStays, Zenon DEF Kept
  <2>2. CASE t \in claimed /\ t \notin heartbeat
    BY <2>2, Zenon DEF Kept, Claimant, Tended
  <2> QED
    BY <1>1, <1>4, <2>1, <2>2, MonitorCheckEffect, Zenon
<1> QED
  BY <1>2, <1>3, <1>4 DEF Monitor

\* t's entry is written before its row and its message.
LEMMA KeptPut ==
  ASSUME Typed, NEW t \in Tasks, Kept(t), "crash" \notin faults, NEW v \in Tasks, PutNext(v)
  PROVE  Kept(t)'
<1>1. CASE Elsewhere(t)
  BY <1>1, KeptElsewhere
<1>2. ASSUME ~Elsewhere(t) PROVE Kept(t)'
  <2>1. /\ Calm(t) /\ (t \in claimed' <=> t \in claimed) /\ put[t] # "done"
        /\ put'[t] \in {"created", "done"} => row'[t] # None
        /\ row'[t] # "CANCELLED"
        /\ put'[t] \in {"entered", "created", "done"} => entry'[t] # None
        /\ \/ put'[t] # "done" /\ SameQueue(t)
           \/ put'[t] = "done" /\ Queued(t)' /\ (~Queued(t) => QueuedOnce(t)')
        /\ row'[t] = row[t] \/ put'[t] = "created"
    <3>1. "PENDING" \notin {None, "CANCELLED"} /\ 0 # None
      BY TaskAssumption DEF InFlight
    <3>2. /\ row[t] # "CANCELLED" /\ (put[t] \in {"created", "done"} => row[t] # None)
          /\ put[t] \in {"entered", "created"} => entry[t] # None
      BY Zenon DEF Kept, RowSound
    <3> QED
      BY <1>2, <3>1, <3>2, PutEffect
  <2>2. ~Queued(t) /\ \A a \in Actors : ~Holds(a, t)
    BY <2>1, Zenon DEF Kept, Single
  <2>3. SameAct(t) /\ lock'[t] = lock[t] /\ act' = act /\ \A a \in Actors : ~Holds(a, t)'
    BY <2>1, <2>2, Zenon DEF Calm, SameAct, Holds
  <2>4. Single(t)'
    BY <2>1, <2>2, <2>3, Zenon DEF Kept, Single, SameQueue
  <2>5. RowSound(t)'
    BY <2>1, Zenon DEF RowSound
  <2>6. put'[t] \in {"entered", "created"} \/ Queued(t)' => entry'[t] # None
    BY <2>1, <2>2 DEF SameQueue
  <2>7. row'[t] \in InFlight => InHand(t)'
    <3>1. put'[t] = "created" => InHand(t)'
      BY DEF InHand
    <3>2. put'[t] = "done" => InHand(t)'
      BY <2>1, Zenon DEF InHand, Queued
    <3>3. ASSUME row'[t] = row[t], row[t] \in InFlight, put'[t] \notin {"created", "done"}
          PROVE  InHand(t)'
      <4>1. row[t] # None
        BY <3>3, TaskAssumption DEF InFlight
      <4>2. InHand(t)
        BY <3>3, Zenon DEF Kept
      <4>3. CASE \E a \in Actors : act[a].task = t
        BY <2>3, <4>3, Zenon DEF InHand
      <4>4. CASE put[t] \in {"checked", "indexed", "entered", "created"}
        <5>1. put'[t] \in {"indexed", "entered"}
          BY <1>2, <3>3, <4>4, PutEffect
        <5> QED
          BY <5>1 DEF InHand
      <4> QED
        BY <2>2, <4>2, <4>3, <4>4, Zenon DEF InHand, Queued
    <3> QED
      BY <2>1, <3>1, <3>2, <3>3, Zenon
  <2> QED
    BY <2>1, <2>2, <2>3, <2>4, <2>5, <2>6, <2>7, KeptStays, Zenon DEF Actors
<1> QED
  BY <1>1, <1>2

\* Time passes: the heartbeat of a task with a runner does not expire.
LEMMA KeptTime ==
  ASSUME Typed, NEW t \in Tasks, Kept(t), "lapse" \notin faults, stop[t] = "no", NEW v \in Tasks,
         \/ Expire(v) \/ Stop(v) \/ StopDelete(v) \/ StopRow(v) \/ HeartbeatExpires(v) \/ LockExpires(v)
  PROVE  t \in expired' \/ Kept(t)'
<1>1. CASE Elsewhere(t)
  BY <1>1, KeptElsewhere
<1>2. CASE StopDelete(v)
  BY <1>1, <1>2, StopDeleteEffect, Zenon
<1>3. CASE /\ SameAct(t) /\ SameStream(t) /\ SameState(t) /\ SameQueue(t) /\ put'[t] = put[t]
           /\ row'[t] = row[t] /\ (lock'[t] = lock[t] \/ lock'[t] = None)
           /\ (t \in heartbeat' <=> t \in heartbeat) \/ ~Attended(t)
  <2>1. \A b \in Actors : Holds(b, t)' <=> Holds(b, t)
    BY <1>3, HoldsElsewhere, Zenon
  <2>2. Single(t)'
    BY <1>3, <2>1, SingleKept, Zenon DEF Kept
  <2>3. RowSound(t)'
    BY <1>3, Zenon DEF Kept, RowSound
  <2>4. \A r \in Runners : Holds(r, t) => (HasStream(r)' <=> HasStream(r))
    BY <1>3, Zenon DEF Holds, SameStream
  <2>5. \A r \in Runners : Holds(r, t) => Attended(t)
    BY Zenon DEF Kept, Tended, Attended, Holds, At
  <2>6. \A r \in Runners : Holds(r, t) =>
          /\ entry'[t] = entry[t] /\ t \in heartbeat'
          /\ act[r].pc = "running" => HasStream(r)'
    BY <1>3, <2>4, <2>5, Zenon DEF Kept, Tended, SameState
  <2>7. InHand(t) => InHand(t)'
    <3>1. \A a \in Actors : act[a].task = t => act'[a].task = t
      BY <1>3, Zenon DEF SameAct
    <3> QED
      BY <1>3, <3>1, Zenon DEF InHand, Queued, SameQueue
  <2>8. put'[t] \in {"entered", "created"} \/ Queued(t)' => entry'[t] # None
    BY <1>3, Zenon DEF Kept, SameQueue, SameState
  <2> QED
    BY <1>3, <2>2, <2>3, <2>6, <2>7, <2>8, KeptStays, Zenon DEF Kept, SameState
<1> QED
  BY <1>1, <1>2, <1>3, TimeEffect, Zenon

Calmly == faults \subseteq {"twice", "slow"}

\* Every step keeps t, or t expires.
LEMMA KeptNext ==
  ASSUME Typed, StopSound, ExitSound, Calmly, NEW t \in Tasks, t \notin expired, Kept(t), Next
  PROVE  t \in expired' \/ Kept(t)'
<1>1. /\ "crash" \notin faults /\ "lapse" \notin faults /\ "stop" \notin faults
      /\ "timeout" \notin faults
  BY DEF Calmly
<1>2. stop[t] = "no"
  BY <1>1, Zenon DEF StopSound
<1>3. ASSUME NEW a \in Actors, RetryTask(a) PROVE Kept(t)'
  BY <1>3, KeptRetry, KeptPush, KeptCancel, Zenon DEF RetryTask
<1>4. ASSUME NEW r \in Runners, Run(r) PROVE Kept(t)'
  BY <1>4, KeptPop, KeptBegin, KeptEnd, KeptReport, Zenon DEF Run
<1>5. ASSUME NEW a \in Actors, Crash(a) PROVE FALSE
  BY <1>1, <1>5, CrashEffect, Zenon
<1>6. ASSUME NEW s \in streams, StreamStep(s) \/ Timeout(s) PROVE Kept(t)'
  <2>1. s.pc # "ending" /\ s.pc # "exiting"
    BY <1>1 DEF ExitSound
  <2>2. Watch(s) \/ Beat(s)
    BY <1>1, <1>6, <2>1, Zenon DEF StreamStep, StreamCompletes, ExitRunner, Timeout
  <2> QED
    BY <2>2, KeptStream, Zenon
<1> QED
  BY <1>1, <1>2, <1>3, <1>4, <1>5, <1>6, KeptMonitor, KeptPut, KeptTime, Zenon DEF Next

KeptInv ==
  /\ Typed
  /\ StopSound
  /\ ExitSound
  /\ Calmly => \A t \in Tasks \ expired : Kept(t)

\* The invariant holds at first.
LEMMA KeptInvInit == Init => KeptInv
<1> SUFFICES ASSUME Init PROVE KeptInv
  OBVIOUS
<1>1. Typed /\ StopSound /\ ExitSound
  BY TypedInit, ExitSoundInit DEF Init, StopSound
<1>2. ASSUME NEW t \in Tasks PROVE Kept(t)
  <2>1. /\ put[t] = "new" /\ t \notin claimed /\ entry[t] = None /\ row[t] = None
        /\ lock[t] = None /\ queue = <<>>
    BY DEF Init
  <2>2. \A a \in Actors : ~Holds(a, t) /\ act[a].task # t
    BY TaskAssumption DEF Init, Holds, Idle
  <2>3. ~Queued(t) /\ QueuedOnce(t)
    BY <2>1 DEF Queued, QueuedOnce
  <2>4. Single(t) /\ Guarded(t) /\ Claimant(t)
    BY <2>1, <2>2, <2>3, Zenon DEF Single, Guarded, Claimant
  <2>5. RowSound(t) /\ row[t] \notin InFlight
    BY <2>1, TaskAssumption DEF RowSound, Completed, InFlight
  <2> QED
    BY <2>1, <2>2, <2>3, <2>4, <2>5, Zenon DEF Kept, Actors
<1> QED
  BY <1>1, <1>2, Zenon DEF KeptInv

\* Every step keeps it.
LEMMA KeptInvNext == KeptInv /\ [Next]_vars => KeptInv'
<1> SUFFICES ASSUME KeptInv, [Next]_vars PROVE KeptInv'
  OBVIOUS
<1>1. Typed'
  BY TypedNext, Zenon DEF KeptInv
<1>2. CASE UNCHANGED vars
  <2>1. \A t \in Tasks : Elsewhere(t)
    BY <1>2, Zenon
    DEF vars, Elsewhere, SameAct, SameStream, HasStream, SameState, SameQueue, Queued, QueuedOnce, SameBeats, SameRest
  <2>2. faults' = faults /\ expired' = expired /\ (StopSound => StopSound') /\ (ExitSound => ExitSound')
    BY <1>2, Zenon DEF vars, StopSound, ExitSound
  <2> QED
    BY <1>1, <2>1, <2>2, KeptElsewhere, Zenon DEF KeptInv, Calmly
<1>3. CASE Next
  <2>1. faults' = faults /\ StopSound' /\ ExitSound'
    BY <1>3, FaultsKept, ExitSoundNext, Zenon DEF KeptInv
  <2>2. ASSUME Calmly', NEW t \in Tasks, t \notin expired' PROVE Kept(t)'
    <3>1. Calmly /\ t \notin expired
      BY <1>3, <2>1, <2>2, ExpiredKept, Zenon DEF Calmly
    <3>2. Kept(t)
      BY <3>1 DEF KeptInv
    <3> QED
      BY <1>3, <2>2, <3>1, <3>2, KeptNext, Zenon DEF KeptInv
  <2> QED
    BY <1>1, <2>1, <2>2 DEF KeptInv
<1> QED
  BY <1>2, <1>3

\* For any number of tasks, runners and monitors, slow ones too: while nothing crashes or
\* times out and nobody stops it, a task that its row says is in flight, and that has not
\* expired, is known to the monitors or being put, in the queue, or in the hands of a call,
\* although monitors delete the state of tasks whose entry they do not find and the streams
\* of earlier runs go on.
THEOREM NotLostAlways == Spec => []NotLost
<1>1. KeptInv => NotLost
  BY Zenon DEF KeptInv, Calmly, Kept, NotLost
<1> QED
  BY <1>1, KeptInvInit, KeptInvNext, PTL DEF Spec

=============================================================================
