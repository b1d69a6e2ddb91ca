---------------------- MODULE ContainerLifecycleProofs ----------------------
(***************************************************************************)
(* Proofs about ContainerLifecycle, for any number of containers that      *)
(* share a worker, its lock and its request loop, and any limit on         *)
(* retries: a request is in one place, a container completes at most once, *)
(* its status and its listing tell the truth.                              *)
(***************************************************************************)
EXTENDS ContainerLifecycle, TLAPS

\* Phases from which clearContainer is still to come.
Uncleared == {"none", "starting", "spawning", "running", "exited"}

(***************************************************************************)
(* What holds of each container.  The request is in one place, and before  *)
(* it is on the worker; a retry is pending only below the limit; a clear   *)
(* is pending only for a finalized container, which has not been completed *)
(* before; nobody watches a container that was not spawned, or has         *)
(* reported it running.                                                    *)
(***************************************************************************)
Sound(c) ==
  /\ \A p, q \in place[c] : p = q
  /\ place[c] # {} => main # c /\ inst[c] = "none"
  /\ failed[c] => place[c] = {} /\ main # c /\ inst[c] = "none"
  /\ "new" \in place[c] \/ "admitted" \in place[c] => retries[c] = 0
  /\ "backoff" \in place[c] => retries[c] < MaxRetryCount
  /\ inst[c] \in Uncleared => clears[c] = 0
  /\ inst[c] \in Uncleared \cup {"finalized"} => completed[c] = 0
  /\ inst[c] \in {"cleared", "deleting", "gone"} => clears[c] = 0
  /\ completed[c] <= 1
  /\ inst[c] \in {"none", "starting"} =>
       starter[c] = "off" /\ ticker[c] = "off" /\ state[c].status # "RUNNING"

IndInv == TypeOK /\ \A c \in Containers : Sound(c)

-----------------------------------------------------------------------------

\* The state hashes the code writes.
LEMMA StatesWritten ==
  /\ Missing \in States /\ Missing.status # "RUNNING" /\ Missing.id = FALSE
  /\ SetContainerState \in States /\ SetContainerState.status = "PENDING"
  /\ \A st \in States :
       /\ UpdateAssignedContainerGPU(st) \in States
       /\ UpdateAssignedContainerGPU(st).status = st.status
       /\ UpdateAssignedContainerGPU(st).id = st.id
       /\ \A s \in Status : /\ UpdateContainerStatus(st, s) \in States
                            /\ UpdateContainerStatus(st, s).status = s
                            /\ UpdateContainerStatus(st, s).id = st.id
<1>1. "" # "RUNNING"
  BY Zenon
<1>. QED
  BY <1>1, Zenon DEF Missing, SetContainerState, UpdateAssignedContainerGPU, UpdateContainerStatus,
              States, Status

\* At the start every request is new.
LEMMA InitIndInv == Init => IndInv
<1>. SUFFICES ASSUME Init PROVE IndInv
  OBVIOUS
<1>1. state \in [Containers -> States] /\ \A c \in Containers : state[c].status # "RUNNING"
  BY StatesWritten DEF Init
<1>2. TypeOK
  <2>1. place \in [Containers -> SUBSET Places] /\ inst \in [Containers -> Phases]
    BY DEF Init, Places, Phases
  <2>2. /\ retries \in [Containers -> 0 .. MaxRetryCount] /\ main \in Containers \cup {Idle}
        /\ clears \in [Containers -> 0 .. 1] /\ completed \in [Containers -> Nat]
    BY ConstantsAssumption DEF Init
  <2>3. /\ late \in [Containers -> BOOLEAN] /\ failed \in [Containers -> BOOLEAN]
        /\ stopped \in [Containers -> BOOLEAN] /\ reaper \in [Containers -> BOOLEAN]
    BY DEF Init
  <2>4. /\ events \in [Containers -> SUBSET Signals] /\ stopChan \in [Containers -> SUBSET Signals]
        /\ starter \in [Containers -> {"off", "wait", "write"}]
        /\ ticker \in [Containers -> {"off", "wait", "checked"} \cup Status]
        /\ worker \in {"up", "cancelled", "down"} /\ lock \in Holders
    BY DEF Init, Holders
  <2>. QED
    BY <1>1, <2>1, <2>2, <2>3, <2>4 DEF TypeOK
<1>3. ASSUME NEW c \in Containers PROVE Sound(c)
  <2>1. /\ place[c] = {"new"} /\ main # c /\ inst[c] = "none" /\ retries[c] = 0
        /\ failed[c] = FALSE /\ clears[c] = 0 /\ completed[c] = 0 /\ starter[c] = "off"
        /\ ticker[c] = "off"
    BY ConstantsAssumption DEF Init
  <2>2. \A p, q \in place[c] : p = q
    BY <2>1
  <2>3. "backoff" \notin place[c]
    BY <2>1
  <2>. QED
    BY <1>1, <2>1, <2>2, <2>3 DEF Sound
<1>. QED
  BY <1>2, <1>3 DEF IndInv

\* Writing the hash of one container.
LEMMA StateWritten ==
  ASSUME state \in [Containers -> States], NEW d \in Containers, NEW st \in States,
         state' = [state EXCEPT ![d] = st]
  PROVE  /\ state' \in [Containers -> States]
         /\ state'[d] = st
         /\ \A c \in Containers \ {d} : state'[c] = state[c]
  OBVIOUS

\* What a step of the scheduler leaves alone, and what it may do to a request.
LEMMA Scheduled ==
  ASSUME IndInv, NEW d \in Containers,
         UNCHANGED <<loopVars, inst, clears, completed, watchVars>>,
         place' \in [Containers -> SUBSET Places],
         retries' \in [Containers -> 0 .. MaxRetryCount],
         failed' \in [Containers -> BOOLEAN],
         state' \in [Containers -> States],
         late' \in [Containers -> BOOLEAN],
         stopped' \in [Containers -> BOOLEAN],
         events' \in [Containers -> SUBSET Signals],
         \A c \in Containers \ {d} : /\ place'[c] = place[c] /\ retries'[c] = retries[c]
                                     /\ failed'[c] = failed[c] /\ state'[c] = state[c],
         \A p, q \in place'[d] : p = q,
         place'[d] # {} => place[d] # {},
         "new" \in place'[d] \/ "admitted" \in place'[d] => retries'[d] = 0,
         "backoff" \in place'[d] => retries'[d] < MaxRetryCount,
         failed'[d] => place'[d] = {} /\ (failed[d] \/ place[d] # {}),
         state'[d].status = "RUNNING" => state[d].status = "RUNNING"
  PROVE  IndInv'
<1>. USE DEF loopVars, watchVars
<1>1. TypeOK'
  BY DEF IndInv, TypeOK
<1>2. ASSUME NEW c \in Containers PROVE Sound(c)'
  BY DEF IndInv, Sound, TypeOK
<1>. QED
  BY <1>1, <1>2 DEF IndInv

\* The scheduler keeps the invariant.
LEMMA SchedulerStep ==
  ASSUME IndInv, NEW d \in Containers, SchedulerNext(d)
  PROVE  IndInv'
<1>. USE DEF schedulerVars, workerVars, loopVars, watchVars
<1>1. /\ place \in [Containers -> SUBSET Places]
      /\ retries \in [Containers -> 0 .. MaxRetryCount]
      /\ failed \in [Containers -> BOOLEAN] /\ state \in [Containers -> States]
      /\ late \in [Containers -> BOOLEAN] /\ stopped \in [Containers -> BOOLEAN]
      /\ events \in [Containers -> SUBSET Signals]
  BY DEF IndInv, TypeOK
<1>2. Sound(d)
  BY DEF IndInv
<1>3. \A from \in Places : from \in place[d] => place[d] \ {from} = {}
  BY <1>2, Zenon DEF Sound
<1>4. CASE Run(d)
  <2>1. /\ state' \in [Containers -> States]
        /\ state'[d].status = "RUNNING" => state[d].status = "RUNNING"
        /\ \A c \in Containers \ {d} : state'[c] = state[c]
    BY <1>1, <1>4, StatesWritten, StateWritten, SMTT(60) DEF Run
  <2>. QED
    BY <1>1, <1>2, <1>3, <1>4, <2>1, Scheduled DEF Run, Move, Sound, Places
<1>5. CASE RunRejected(d) \/ Pop(d) \/ WorkerAdded(d) \/ ScheduleContainerRequest(d)
  BY <1>1, <1>2, <1>3, <1>5, Scheduled, SMTT(60)
     DEF RunRejected, Pop, WorkerAdded, ScheduleContainerRequest, Move, Sound, Places
<1>6. CASE Push(d)
  BY <1>1, <1>2, <1>3, <1>6, ConstantsAssumption, Scheduled, SMTT(60) DEF Push, Move, Sound, Places
<1>7. CASE SelectWorker(d)
  <2>1. PICK to \in {{"assigning"}, {"adding"}, {}} : Move(d, "inhand", to)
    BY <1>7 DEF SelectWorker
  <2>2. place[d] # {} /\ place' = [place EXCEPT ![d] = to]
    BY <1>3, <1>7, <2>1, Zenon DEF SelectWorker, Move, Places
  <2>. QED
    BY <1>1, <1>2, <1>7, <2>1, <2>2, Scheduled DEF SelectWorker, Sound, Places
<1>8. CASE AssignGpu(d)
  <2>1. /\ state' \in [Containers -> States]
        /\ state'[d].status = "RUNNING" => state[d].status = "RUNNING"
        /\ \A c \in Containers \ {d} : state'[c] = state[c]
    <3>. DEFINE st == UpdateAssignedContainerGPU(state[d])
    <3>1. st \in States /\ (st.status = "RUNNING" => state[d].status = "RUNNING")
      BY <1>1, StatesWritten, Zenon DEF Status
    <3>2. state' = [state EXCEPT ![d] = st]
      BY <1>8, Zenon DEF AssignGpu
    <3>. HIDE DEF st
    <3>. QED
      BY <1>1, <3>1, <3>2, StateWritten
  <2>. QED
    BY <1>1, <1>2, <1>3, <1>8, <2>1, Scheduled DEF AssignGpu, Move, Sound, Places
<1>9. CASE AttemptFails(d)
  BY <1>1, <1>2, <1>3, <1>9, Scheduled, SMTT(60)
     DEF AttemptFails, AddRequestToBacklog, Move, Sound, Places
<1>10. CASE Backoff(d)
  BY <1>1, <1>2, <1>3, <1>10, ConstantsAssumption, Scheduled, SMTT(60) DEF Backoff, Move, Sound, Places
<1>11. CASE GiveUp(d)
  <2>1. /\ state' \in [Containers -> States]
        /\ state'[d].status = "RUNNING" => state[d].status = "RUNNING"
        /\ \A c \in Containers \ {d} : state'[c] = state[c]
    <3>1. PICK st \in {Missing, state[d]} : state' = [state EXCEPT ![d] = st]
      BY <1>11, Zenon DEF GiveUp
    <3>2. st \in States /\ (st.status = "RUNNING" => state[d].status = "RUNNING")
      BY <1>1, <3>1, StatesWritten
    <3>. QED
      BY <1>1, <3>1, <3>2, StateWritten
  <2>. QED
    BY <1>1, <1>2, <1>3, <1>11, <2>1, Scheduled DEF GiveUp, Move, Sound, Places
<1>12. CASE SetContainerRequestStatus(d)
  BY <1>1, <1>2, <1>3, <1>12, Scheduled, ZenonT(60) DEF SetContainerRequestStatus, Move, Sound, Places
<1>13. CASE CrashScheduler(d)
  BY <1>1, <1>2, <1>3, <1>13, Scheduled DEF CrashScheduler, Move, Sound, Places
<1>14. CASE Age(d)
  BY <1>1, <1>2, <1>14, Scheduled, Zenon DEF Age, Sound
<1>15. ASSUME NEW s \in Signals, Stop(d, s) PROVE IndInv'
  <2>1. /\ state' \in [Containers -> States]
        /\ state'[d].status = "RUNNING" => state[d].status = "RUNNING"
        /\ \A c \in Containers \ {d} : state'[c] = state[c]
    <3>. DEFINE st == UpdateContainerStatus(state[d], "STOPPING")
    <3>1. st \in States /\ (st.status = "RUNNING" => state[d].status = "RUNNING")
      BY <1>1, StatesWritten, Zenon DEF Status
    <3>2. state' = [state EXCEPT ![d] = st]
      BY <1>15, Zenon DEF Stop
    <3>. HIDE DEF st
    <3>. QED
      BY <1>1, <3>1, <3>2, StateWritten, Zenon
  <2>. QED
    BY <1>1, <1>2, <1>15, <2>1, Scheduled, ZenonT(60) DEF Stop, Sound
<1>16. CASE LoseEvent(d)
  BY <1>1, <1>2, <1>16, Scheduled, Zenon DEF LoseEvent, Sound
<1>17. CASE Expire(d)
  BY <1>1, <1>2, <1>17, StatesWritten, Scheduled DEF Expire, Sound
<1>. QED
  BY <1>4, <1>5, <1>6, <1>7, <1>8, <1>9, <1>10, <1>11, <1>12, <1>13, <1>14, <1>15, <1>16, <1>17, Zenon
     DEF SchedulerNext

-----------------------------------------------------------------------------
(* The worker                                                              *)

\* What the code of one container on the worker leaves alone.
LEMMA Handled ==
  ASSUME IndInv, NEW d \in Containers, TypeOK', Sound(d)',
         UNCHANGED <<retries, failed>>, main' \in {main, d, Idle},
         \A c \in Containers \ {d} :
           /\ place'[c] = place[c] /\ inst'[c] = inst[c] /\ clears'[c] = clears[c]
           /\ completed'[c] = completed[c] /\ starter'[c] = starter[c]
           /\ ticker'[c] = ticker[c] /\ state'[c] = state[c]
  PROVE  IndInv'
<1>1. ASSUME NEW c \in Containers \ {d} PROVE Sound(c)'
  <2>1. Sound(c) /\ main' = c => main = c
    BY ConstantsAssumption DEF IndInv
  <2>. QED
    BY <2>1 DEF IndInv, Sound
<1>. QED
  BY <1>1, Zenon DEF IndInv

\* The loop, the container and its end.
LEMMA HandlerStep ==
  ASSUME IndInv, NEW d \in Containers,
         \/ Receive(d) \/ LoseRequest(d) \/ HandleContainerRequest(d) \/ RunContainer(d)
         \/ RunContainerFails(d) \/ StartRuntime(d) \/ Exit(d) \/ FinalizeContainer(d)
         \/ ClearContainer(d) \/ DeleteInstance(d)
  PROVE  IndInv'
<1>. USE DEF schedulerVars, clientVars, workerVars, loopVars, watchVars
<1>1. TypeOK /\ Sound(d)
  BY Zenon DEF IndInv
<1>2. CASE Receive(d)
  <2>1. TypeOK'
    BY <1>1, <1>2, Zenon DEF Receive, Move, TypeOK
  <2>2. Sound(d)'
    BY <1>1, <1>2, Zenon DEF Receive, Move, TypeOK, Sound
  <2>. QED
    BY <1>1, <1>2, <2>1, <2>2, Handled, Zenon DEF Receive, Move, TypeOK
<1>3. CASE LoseRequest(d)
  <2>1. TypeOK'
    BY <1>1, <1>3, Zenon DEF LoseRequest, Move, TypeOK
  <2>2. Sound(d)'
    BY <1>1, <1>3, Zenon DEF LoseRequest, Move, TypeOK, Sound
  <2>. QED
    BY <1>1, <1>3, <2>1, <2>2, Handled, Zenon DEF LoseRequest, Move, TypeOK
<1>4. CASE HandleContainerRequest(d)
  <2>1. TypeOK'
    BY <1>1, <1>4, Zenon DEF HandleContainerRequest, TypeOK, Phases, Holders
  <2>2. Sound(d)'
    BY <1>1, <1>4, ConstantsAssumption, Zenon DEF HandleContainerRequest, TypeOK, Sound, Uncleared
  <2>. QED
    BY <1>1, <1>4, <2>1, <2>2, Handled, Zenon DEF HandleContainerRequest, TypeOK
<1>5. CASE RunContainer(d)
  <2>1. TypeOK'
    BY <1>1, <1>5, Zenon DEF RunContainer, TypeOK, Phases, Holders
  <2>2. Sound(d)'
    BY <1>1, <1>5, ConstantsAssumption, Zenon DEF RunContainer, TypeOK, Sound, Uncleared
  <2>. QED
    BY <1>1, <1>5, <2>1, <2>2, Handled, Zenon DEF RunContainer, TypeOK
<1>6. CASE RunContainerFails(d)
  <2>1. TypeOK'
    BY <1>1, <1>6, SMTT(60) DEF RunContainerFails, TypeOK, Phases, Holders, Sound, Uncleared
  <2>2. Sound(d)'
    BY <1>1, <1>6, Zenon DEF RunContainerFails, TypeOK, Sound, Uncleared
  <2>. QED
    BY <1>1, <1>6, <2>1, <2>2, Handled, Zenon DEF RunContainerFails, TypeOK
<1>7. CASE StartRuntime(d) \/ Exit(d) \/ DeleteInstance(d)
  <2>1. TypeOK'
    BY <1>1, <1>7, Zenon DEF StartRuntime, Exit, DeleteInstance, Advance, TypeOK, Phases
  <2>2. Sound(d)'
    BY <1>1, <1>7, SMTT(60) DEF StartRuntime, Exit, DeleteInstance, Advance, TypeOK, Sound, Uncleared
  <2>. QED
    BY <1>1, <1>7, <2>1, <2>2, Handled, Zenon
    DEF StartRuntime, Exit, DeleteInstance, Advance, TypeOK
<1>8. CASE FinalizeContainer(d)
  <2>1. TypeOK'
    BY <1>1, <1>8, SMTT(60) DEF FinalizeContainer, Advance, TypeOK, Phases, Sound, Uncleared
  <2>2. Sound(d)'
    BY <1>1, <1>8, Zenon DEF FinalizeContainer, Advance, TypeOK, Sound, Uncleared
  <2>. QED
    BY <1>1, <1>8, <2>1, <2>2, Handled, ZenonT(60) DEF FinalizeContainer, Advance, TypeOK
<1>9. CASE ClearContainer(d)
  <2>0. inst[d] = "finalized"
    BY <1>1, <1>9, SMTT(60) DEF ClearContainer, TypeOK, Sound, Phases, Uncleared
  <2>1. TypeOK'
    BY <1>1, <1>9, <2>0, SMTT(60) DEF ClearContainer, TypeOK, Phases
  <2>2. Sound(d)'
    BY <1>1, <1>9, <2>0, ConstantsAssumption, SMTT(60) DEF ClearContainer, TypeOK, Sound, Uncleared
  <2>. QED
    BY <1>1, <1>9, <2>1, <2>2, Handled, Zenon DEF ClearContainer, TypeOK
<1>. QED
  BY <1>2, <1>3, <1>4, <1>5, <1>6, <1>7, <1>8, <1>9

\* A kill ends a running container, and changes no other phase.
LEMMA Killed ==
  ASSUME TypeOK, NEW d \in Containers, NEW signal, StopContainer(d, signal)
  PROVE  /\ inst' \in [Containers -> Phases]
         /\ inst'[d] = inst[d] \/ (inst[d] = "running" /\ inst'[d] = "exited")
         /\ \A c \in Containers \ {d} : inst'[c] = inst[c]
  BY DEF StopContainer, TypeOK, Phases

\* The steps that write the state hash.
LEMMA WriterStep ==
  ASSUME IndInv, NEW d \in Containers,
         DeleteContainerState(d) \/ StarterWrites(d) \/ TickerWrites(d)
  PROVE  IndInv'
<1>. USE DEF schedulerVars, loopVars, watchVars
<1>1. TypeOK /\ Sound(d) /\ state \in [Containers -> States] /\ state[d] \in States
  BY Zenon DEF IndInv, TypeOK
<1>2. CASE DeleteContainerState(d)
  <2>1. PICK st \in {Missing, state[d]} : state' = [state EXCEPT ![d] = st]
    BY <1>2, Zenon DEF DeleteContainerState
  <2>2. st \in States /\ (st.status = "RUNNING" => state[d].status = "RUNNING")
    BY <1>1, <2>1, StatesWritten, ZenonT(60)
  <2>3. TypeOK'
    BY <1>1, <1>2, <2>1, <2>2, Zenon DEF DeleteContainerState, Advance, TypeOK, Phases
  <2>4. Sound(d)'
    BY <1>1, <1>2, <2>1, <2>2, Zenon DEF DeleteContainerState, Advance, TypeOK, Sound, Uncleared
  <2>. QED
    BY <1>1, <1>2, <2>1, <2>3, <2>4, Handled, SMTT(60) DEF DeleteContainerState, Advance, TypeOK
<1>3. CASE StarterWrites(d)
  <2>1. PICK st \in {UpdateContainerStatus(state[d], "RUNNING"), state[d]} :
               state' = [state EXCEPT ![d] = st]
    BY <1>3, Zenon DEF StarterWrites
  <2>2. st \in States
    <3>1. "RUNNING" \in Status
      BY DEF Status
    <3>2. UpdateContainerStatus(state[d], "RUNNING") \in States
      BY <1>1, <3>1, StatesWritten, ZenonT(60)
    <3>. QED
      BY <1>1, <2>1, <3>2, Zenon
  <2>3. TypeOK'
    BY <1>1, <1>3, <2>1, <2>2, SMTT(60) DEF StarterWrites, TypeOK, Holders
  <2>4. inst[d] \notin {"none", "starting"}
    BY <1>1, <1>3, ZenonT(60) DEF StarterWrites, Sound
  <2>5. Sound(d)'
    BY <1>1, <1>3, <2>4 DEF StarterWrites, TypeOK, Sound
  <2>. QED
    BY <1>1, <1>3, <2>1, <2>3, <2>5, Handled, SMTT(60) DEF StarterWrites, TypeOK
<1>4. CASE TickerWrites(d)
  <2>0. ticker[d] \in Status
    BY <1>4, Zenon DEF TickerWrites
  <2>1. PICK st \in {UpdateContainerStatus(state[d], ticker[d]), state[d]} :
               state' = [state EXCEPT ![d] = st]
    BY <1>4, Zenon DEF TickerWrites
  <2>2. st \in States
    <3>1. UpdateContainerStatus(state[d], ticker[d]) \in States
      BY <1>1, <2>0, StatesWritten
    <3>. QED
      BY <1>1, <2>1, <3>1
  <2>3. TypeOK'
    BY <1>1, <1>4, <2>1, <2>2, Zenon DEF TickerWrites, TypeOK
  <2>4. ticker[d] # "off"
    BY <2>0, Zenon DEF Status
  <2>5. inst[d] \notin {"none", "starting"}
    BY <1>1, <2>4 DEF Sound
  <2>6. Sound(d)'
    BY <1>1, <1>4, <2>5, Zenon DEF TickerWrites, TypeOK, Sound
  <2>. QED
    BY <1>1, <1>4, <2>1, <2>3, <2>6, Handled, ZenonT(60) DEF TickerWrites, TypeOK
<1>. QED
  BY <1>2, <1>3, <1>4, Zenon

\* The other steps of the goroutines that watch and stop a container.
LEMMA WatcherStep ==
  ASSUME IndInv, NEW d \in Containers,
         \/ StarterReads(d) \/ StarterReadFails(d) \/ TickerChecks(d) \/ TickerReturns(d)
         \/ TickerReads(d) \/ TickerReadFails(d) \/ Reap(d)
         \/ \E signal \in Signals : \/ HandleStopContainerEvent(d, signal)
                                     \/ ProcessStopContainerEvent(d, signal)
  PROVE  IndInv'
<1>. USE DEF schedulerVars, loopVars, watchVars
<1>1. TypeOK /\ Sound(d)
  BY Zenon DEF IndInv
<1>2. CASE StarterReads(d)
  <2>1. /\ inst' \in [Containers -> Phases]
        /\ inst'[d] = inst[d] \/ (inst[d] = "running" /\ inst'[d] = "exited")
        /\ \A c \in Containers \ {d} : inst'[c] = inst[c]
    BY <1>1, <1>2, Killed, ZenonT(60) DEF StarterReads, TypeOK
  <2>2. TypeOK'
    BY <1>1, <1>2, <2>1, Zenon DEF StarterReads, TypeOK, Holders
  <2>3. inst[d] \notin {"none", "starting"}
    BY <1>1, <1>2, Zenon DEF StarterReads, Sound
  <2>4. Sound(d)'
    BY <1>1, <1>2, <2>1, <2>3, Zenon DEF StarterReads, TypeOK, Sound, Uncleared
  <2>. QED
    BY <1>1, <1>2, <2>1, <2>2, <2>4, Handled, SMTT(60) DEF StarterReads, TypeOK
<1>3. CASE StarterReadFails(d)
  <2>1. TypeOK'
    BY <1>1, <1>3, Zenon DEF StarterReadFails, TypeOK, Holders
  <2>2. Sound(d)'
    BY <1>1, <1>3, Zenon DEF StarterReadFails, TypeOK, Sound
  <2>. QED
    BY <1>1, <1>3, <2>1, <2>2, Handled, Zenon DEF StarterReadFails, TypeOK
<1>4. CASE TickerChecks(d) \/ TickerReturns(d) \/ TickerReadFails(d)
  <2>1. TypeOK'
    BY <1>1, <1>4, Zenon DEF TickerChecks, TickerReturns, TickerReadFails, TypeOK
  <2>2. Sound(d)'
    BY <1>1, <1>4, Zenon DEF TickerChecks, TickerReturns, TickerReadFails, TypeOK, Sound
  <2>. QED
    BY <1>1, <1>4, <2>1, <2>2, Handled, Zenon
    DEF TickerChecks, TickerReturns, TickerReadFails, TypeOK
<1>5. CASE TickerReads(d)
  <2>1. state[d].status \in Status /\ "RUNNING" \in Status
    BY <1>1, ZenonT(60) DEF TypeOK, States, Status
  <2>2. TypeOK'
    BY <1>1, <1>5, <2>1, SMTT(60) DEF TickerReads, TypeOK, Signals
  <2>3. Sound(d)'
    BY <1>1, <1>5, Zenon DEF TickerReads, TypeOK, Sound
  <2>. QED
    BY <1>1, <1>5, <2>2, <2>3, Handled DEF TickerReads, TypeOK
<1>6. CASE Reap(d)
  <2>1. TypeOK'
    BY <1>1, <1>6, Zenon DEF Reap, TypeOK, Signals
  <2>2. Sound(d)'
    BY <1>1, <1>6, Zenon DEF Reap, TypeOK, Sound
  <2>. QED
    BY <1>1, <1>6, <2>1, <2>2, Handled, Zenon DEF Reap, TypeOK
<1>7. ASSUME NEW signal \in Signals, HandleStopContainerEvent(d, signal) PROVE IndInv'
  <2>1. TypeOK'
    BY <1>1, <1>7, Zenon DEF HandleStopContainerEvent, TypeOK
  <2>2. Sound(d)'
    BY <1>1, <1>7, Zenon DEF HandleStopContainerEvent, TypeOK, Sound
  <2>. QED
    BY <1>1, <1>7, <2>1, <2>2, Handled, Zenon DEF HandleStopContainerEvent, TypeOK
<1>8. ASSUME NEW signal \in Signals, ProcessStopContainerEvent(d, signal) PROVE IndInv'
  <2>1. /\ inst' \in [Containers -> Phases]
        /\ inst'[d] = inst[d] \/ (inst[d] = "running" /\ inst'[d] = "exited")
        /\ \A c \in Containers \ {d} : inst'[c] = inst[c]
    BY <1>1, <1>8, Killed DEF ProcessStopContainerEvent
  <2>2. TypeOK'
    BY <1>1, <1>8, <2>1, ZenonT(60) DEF ProcessStopContainerEvent, TypeOK
  <2>3. Sound(d)'
    BY <1>1, <1>8, <2>1 DEF ProcessStopContainerEvent, TypeOK, Sound, Uncleared
  <2>. QED
    BY <1>1, <1>8, <2>1, <2>2, <2>3, Handled, Zenon DEF ProcessStopContainerEvent, TypeOK
<1>. QED
  BY <1>2, <1>3, <1>4, <1>5, <1>6, <1>7, <1>8, Zenon

\* The end of the worker's process, which forgets all of its containers.
LEMMA ProcessEndsStep ==
  ASSUME IndInv, CrashWorker \/ ShutDown
  PROVE  IndInv'
<1>. USE DEF clientVars
<1>1. TypeOK /\ ProcessEnds
  BY Zenon DEF IndInv, CrashWorker, ShutDown
<1>2. /\ place' \in [Containers -> SUBSET Places]
      /\ worker' \in {"up", "cancelled", "down"}
      /\ \A c \in Containers : place'[c] \subseteq place[c]
  BY <1>1 DEF CrashWorker, ShutDown, TypeOK
<1>3. inst' \in [Containers -> Phases]
  BY <1>1, Zenon DEF ProcessEnds, Phases
<1>4. TypeOK'
  BY <1>1, <1>2, <1>3, SMTT(60) DEF ProcessEnds, TypeOK, Holders
<1>5. ASSUME NEW c \in Containers PROVE Sound(c)'
  <2>1. Sound(c)
    BY Zenon DEF IndInv
  <2>2. /\ inst'[c] = IF inst[c] = "none" THEN "none" ELSE "gone"
        /\ main' # c /\ clears'[c] = 0 /\ starter'[c] = "off" /\ ticker'[c] = "off"
        /\ completed'[c] = completed[c] /\ retries'[c] = retries[c]
        /\ failed'[c] = failed[c] /\ state'[c] = state[c]
    BY <1>1, ConstantsAssumption DEF ProcessEnds
  <2>. QED
    BY <1>2, <2>1, <2>2 DEF Sound, Uncleared
<1>. QED
  BY <1>4, <1>5 DEF IndInv

\* Every step keeps the invariant.
LEMMA StepIndInv == IndInv /\ [Next]_vars => IndInv'
<1>. SUFFICES ASSUME IndInv, [Next]_vars PROVE IndInv'
  OBVIOUS
<1>1. ASSUME NEW d \in Containers, ContainerNext(d) PROVE IndInv'
  BY <1>1, HandlerStep, WriterStep, WatcherStep DEF ContainerNext
<1>2. CASE Signal
  <2>. USE DEF schedulerVars, watchVars
  <2>1. TypeOK'
    BY <1>2, Zenon DEF Signal, IndInv, TypeOK
  <2>2. ASSUME NEW c \in Containers PROVE Sound(c)'
    BY <1>2, Zenon DEF Signal, IndInv, Sound
  <2>. QED
    BY <2>1, <2>2, Zenon DEF IndInv
<1>3. CASE UNCHANGED vars
  <2>1. TypeOK'
    BY <1>3, Zenon DEF vars, IndInv, TypeOK
  <2>2. ASSUME NEW c \in Containers PROVE Sound(c)'
    BY <1>3 DEF vars, IndInv, Sound
  <2>. QED
    BY <2>1, <2>2 DEF IndInv
<1>4. CASE NeighbourMountFails
  <2>. USE DEF schedulerVars, watchVars
  <2>1. TypeOK'
    BY <1>4, Zenon DEF NeighbourMountFails, IndInv, TypeOK, Holders
  <2>2. ASSUME NEW c \in Containers PROVE Sound(c)'
    BY <1>4, Zenon DEF NeighbourMountFails, IndInv, Sound
  <2>. QED
    BY <2>1, <2>2, Zenon DEF IndInv
<1>. QED
  BY <1>1, <1>2, <1>3, <1>4, SchedulerStep, ProcessEndsStep DEF Next

\* So the invariant holds throughout.
LEMMA AlwaysIndInv == Spec => []IndInv
  BY InitIndInv, StepIndInv, PTL DEF Spec

-----------------------------------------------------------------------------

\* Type correctness; with it RetryCount never passes maxScheduleRetryCount, however
\* often addRequestToBacklog is called, and no container waits for two clears.
THEOREM LifecycleTyped == Spec => []TypeOK
<1>1. IndInv => TypeOK
  BY Zenon DEF IndInv
<1>. QED
  BY <1>1, AlwaysIndInv, PTL

\* A request is in one place, in the scheduler, in the worker's list or on the worker,
\* and one that the scheduler has failed never reaches a worker: for any number of
\* containers on the worker and any crash of scheduler or worker.
THEOREM RequestInOnePlace == Spec => []OneCopy
<1>1. IndInv => OneCopy
  BY Zenon DEF IndInv, Sound, OneCopy
<1>. QED
  BY <1>1, AlwaysIndInv, PTL

\* clearContainer hands the capacity of a request back at most once, whether it is
\* called by the loop after a failed RunContainer or by finalizeContainer.
THEOREM CapacityHandedBackOnce == Spec => []CompletedOnce
<1>1. IndInv => CompletedOnce
  BY Zenon DEF IndInv, Sound, CompletedOnce
<1>. QED
  BY <1>1, AlwaysIndInv, PTL

\* The goroutines of spawn and updateContainerStatus report no container running that
\* was not spawned.
THEOREM ReportedRunningWasSpawned == Spec => []RunningWasSpawned
<1>1. IndInv => RunningWasSpawned
  BY DEF IndInv, Sound, RunningWasSpawned
<1>. QED
  BY <1>1, AlwaysIndInv, PTL

-----------------------------------------------------------------------------
(* Listings                                                                *)

\* A step that writes the hash of d keeps its id, or deletes it; only Run gives it one.
LEMMA IdWritten ==
  ASSUME TypeOK, NEW d \in Containers, SchedulerNext(d) \/ ContainerNext(d)
  PROVE  \E st \in States : /\ state' = [state EXCEPT ![d] = st]
                            /\ "new" \in place[d] \/ st.id \in {FALSE, state[d].id}
<1>. USE DEF schedulerVars, clientVars, workerVars, loopVars, watchVars
<1>1. state[d] \in States /\ (UNCHANGED state => state' = [state EXCEPT ![d] = state[d]])
  BY Zenon DEF TypeOK
<1>2. UNCHANGED state
        \/ Run(d) \/ AssignGpu(d) \/ GiveUp(d) \/ Expire(d) \/ (\E s \in Signals : Stop(d, s))
        \/ DeleteContainerState(d) \/ StarterWrites(d) \/ TickerWrites(d)
  <2>1. ASSUME SchedulerNext(d), ~Run(d), ~AssignGpu(d), ~GiveUp(d), ~Expire(d),
               \A s \in Signals : ~Stop(d, s)
        PROVE  UNCHANGED state
    BY <2>1, ZenonT(60) DEF SchedulerNext, RunRejected, Push, Pop, SelectWorker, WorkerAdded,
                ScheduleContainerRequest, AttemptFails, Backoff, SetContainerRequestStatus,
                CrashScheduler, Age, LoseEvent
  <2>2. ASSUME ContainerNext(d), ~DeleteContainerState(d), ~StarterWrites(d), ~TickerWrites(d)
        PROVE  UNCHANGED state
    BY <2>2, ZenonT(60) DEF ContainerNext, Receive, LoseRequest, HandleContainerRequest, RunContainer,
                RunContainerFails, StartRuntime, Exit, FinalizeContainer, ClearContainer,
                DeleteInstance, StarterReads, StarterReadFails, TickerChecks, TickerReturns,
                TickerReads, TickerReadFails, Reap, HandleStopContainerEvent,
                ProcessStopContainerEvent
  <2>. QED
    BY <2>1, <2>2
<1>3. CASE GiveUp(d) \/ DeleteContainerState(d) \/ Expire(d)
  BY <1>1, <1>3, StatesWritten, Zenon DEF GiveUp, DeleteContainerState, Expire
<1>4. CASE Run(d) \/ AssignGpu(d)
  BY <1>1, <1>4, StatesWritten, Zenon DEF Run, AssignGpu
<1>5. CASE \E s \in Signals : Stop(d, s)
  BY <1>1, <1>5, StatesWritten, ZenonT(60) DEF Stop, Status
<1>6. CASE StarterWrites(d)
  <2>1. /\ UpdateContainerStatus(state[d], "RUNNING") \in States
        /\ UpdateContainerStatus(state[d], "RUNNING").id = state[d].id
    BY <1>1, StatesWritten, Zenon DEF Status
  <2>. QED
    BY <1>1, <1>6, <2>1, Zenon DEF StarterWrites
<1>7. CASE TickerWrites(d)
  <2>1. ticker[d] \in Status
    BY <1>7, Zenon DEF TickerWrites
  <2>2. /\ UpdateContainerStatus(state[d], ticker[d]) \in States
        /\ UpdateContainerStatus(state[d], ticker[d]).id = state[d].id
    BY <1>1, <2>1, StatesWritten, Zenon
  <2>. QED
    BY <1>1, <1>7, <2>2, Zenon DEF TickerWrites
<1>8. CASE UNCHANGED state
  BY <1>1, <1>8, Zenon
<1>. QED
  BY <1>2, <1>3, <1>4, <1>5, <1>6, <1>7, <1>8, Zenon

\* A container whose state was deleted or has expired is never listed again, although
\* Stop, the GPU's assignment and the status goroutines bring the hash back.
THEOREM DeletedNeverListed == Spec => NeverListedAgain
<1>1. ASSUME IndInv, [Next]_vars,
             NEW c \in Containers, "new" \notin place[c], ~state[c].id
      PROVE  ~state'[c].id
  <2>1. TypeOK /\ state[c] \in States
    BY <1>1, Zenon DEF IndInv, TypeOK
  <2>2. state[c].id = FALSE
    BY <1>1, <2>1 DEF States
  <2>3. ASSUME NEW d \in Containers, SchedulerNext(d) \/ ContainerNext(d)
        PROVE  state'[c].id = FALSE
    <3>1. PICK st \in States : /\ state' = [state EXCEPT ![d] = st]
                               /\ "new" \in place[d] \/ st.id \in {FALSE, state[d].id}
      BY <2>1, <2>3, IdWritten, Zenon
    <3>. QED
      BY <1>1, <2>1, <2>2, <3>1, Zenon DEF TypeOK
  <2>4. CrashWorker \/ Signal \/ NeighbourMountFails \/ ShutDown \/ UNCHANGED vars => UNCHANGED state
    BY DEF CrashWorker, Signal, NeighbourMountFails, ShutDown, ProcessEnds, vars
  <2>. QED
    BY <1>1, <2>2, <2>3, <2>4, Zenon DEF Next
<1>2. IndInv /\ [Next]_vars =>
        [\A c \in Containers : "new" \notin place[c] /\ ~state[c].id => ~state'[c].id]_vars
  BY <1>1
<1>. QED
  BY <1>2, AlwaysIndInv, PTL DEF Spec, NeverListedAgain
=============================================================================
