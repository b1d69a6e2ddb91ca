-------------------------- MODULE WorkerPoolProofs --------------------------
(***************************************************************************)
(* Proofs that the workers of an external pool fit on their machines, and  *)
(* that a pool is given one worker per gateway above its minimum at most,  *)
(* for any number of gateways, workers and machines and any capacity.      *)
(***************************************************************************)
EXTENDS WorkerPool, FiniteSetTheorems, TLAPS

\* g is creating a worker.
Creating(g) == sizer[g].pc \in {"create", "index", "state"}

\* The state of a worker that is being created is not AddWorker's yet.
Unknown(w) == state[w] = None \/ ~state[w].real

\* A gateway that creates a worker on a machine has the machine's lock, has the worker for
\* itself, and has left room for it: no other gateway can have added one.
CreatingSafely ==
  \A g \in Gateways : Creating(g) =>
    /\ sizer[g].w \in Workers
    /\ Unknown(sizer[g].w)
    /\ sizer[g].pc # "create" => place[sizer[g].w] = sizer[g].m
    /\ sizer[g].m # None => machineLock[sizer[g].m] = g /\ Remaining(sizer[g].m) >= 1

Distinct ==
  \A g, h \in Gateways : g # h /\ Creating(g) /\ Creating(h) => sizer[g].w # sizer[h].w

\* A gateway that creates no worker has no machine in hand.
Resting == \A g \in Gateways : ~Creating(g) => sizer[g].m = None

\* The types of the variables the argument is about.
Typed ==
  /\ place \in [Workers -> Machines \cup {None}]
  /\ state \in [Workers -> States \cup {None}]
  /\ index \in SUBSET Workers
  /\ sizer \in [Gateways -> Sizers]
  /\ machineLock \in [Machines -> Gateways \cup {None}]
  /\ ready \in SUBSET Machines
  /\ admin \in [w : Workers, status : {"available", "disabled"}] \cup {None}
  /\ cfg \in Configs

IndInv == Typed /\ CreatingSafely /\ Distinct /\ Resting /\ MachineFits

-----------------------------------------------------------------------------
\* A pool starts without workers, and its sizers rest.
LEMMA InitIndInv == Init => IndInv
<1>. SUFFICES ASSUME Init PROVE IndInv
  OBVIOUS
<1>1. Typed
  BY DEF Init, Typed, Idle, Sizers
<1>2. CreatingSafely /\ Distinct /\ Resting
  BY DEF Init, CreatingSafely, Distinct, Resting, Creating, Idle
<1>3. MachineFits
  <2>1. \A m \in Machines : OnMachine(m) = {}
    BY DEF Init, OnMachine, InPool, Found
  <2>2. Size \in Nat
    BY PoolAssumption DEF Init, Size
  <2>3. Capacity \in Nat
    BY PoolAssumption
  <2>4. \A m \in Machines : Cardinality(OnMachine(m)) = 0
    BY <2>1, FS_EmptySet, Zenon
  <2>5. Size * 0 <= Capacity
    BY <2>2, <2>3
  <2>. QED
    BY <2>4, <2>5, Zenon DEF MachineFits
<1>. QED
  BY <1>1, <1>2, <1>3, Zenon DEF IndInv

\* The steps of everyone but the sizers leave the sizers, their locks and the places of the
\* workers alone, and make no state a state of AddWorker.
Quiet ==
  /\ UNCHANGED <<place, sizer, machineLock, cfg>>
  /\ index' \in SUBSET index
  /\ state' \in [Workers -> States \cup {None}]
  /\ \A w \in Workers : Unknown(w) => Unknown(w)'
  /\ ready' \in SUBSET Machines
  /\ admin' \in [w : Workers, status : {"available", "disabled"}] \cup {None}

\* UpdateWorkerStatus puts no worker on a machine: a state it makes up is not real.
LEMMA StatusIsQuiet ==
  ASSUME Typed, NEW w, NEW s \in {"available", "disabled"}, UpdateWorkerStatus(w, s)
  PROVE  /\ state' \in [Workers -> States \cup {None}]
         /\ \A v \in Workers : Unknown(v) => Unknown(v)'
  BY ZenonT(60) DEF Typed, UpdateWorkerStatus, Blank, States, Unknown

\* RemoveWorker puts no worker on a machine.
LEMMA RemovalIsQuiet ==
  ASSUME Typed, NEW w, RemoveWorker(w)
  PROVE  /\ state' \in [Workers -> States \cup {None}]
         /\ \A v \in Workers : Unknown(v) => Unknown(v)'
         /\ index' \in SUBSET index
  BY ZenonT(60) DEF Typed, RemoveWorker, States, Unknown

\* Whatever the monitor, the cleaner, the workers, machines and administrators do is quiet.
LEMMA StepIsQuiet ==
  ASSUME Typed, [Next]_vars, \A g \in Gateways : ~SizerStep(g)
  PROVE  Quiet
<1>. USE DEF Typed, work, sizing, upkeep, setup, Quiet, Unknown
<1>2. CASE SizerLockExpires
  BY <1>2, Zenon DEF SizerLockExpires
<1>3. CASE MonitorStep
  <2>. USE DEF GetWorkers, Found
  <2>1. CASE CheckHealth
    BY <2>1, Zenon DEF CheckHealth
  <2>2. CASE CheckHealthSlow
    BY <2>2 DEF CheckHealthSlow
  <2>3. CASE CordonAllPending
    BY <2>3 DEF CordonAllPending
  <2>4. ASSUME NEW w \in Workers, Cordon(w) PROVE Quiet
    BY <2>4, StatusIsQuiet DEF Cordon
  <2>5. CASE SetPoolState
    BY <2>5, Zenon DEF SetPoolState
  <2>. QED
    BY <1>3, <2>1, <2>2, <2>3, <2>4, <2>5, Zenon DEF MonitorStep
<1>4. ASSUME NEW w \in Workers, Find(w) PROVE Quiet
  BY <1>4, Zenon DEF Find
<1>5. CASE CleanState
  BY <1>5, RemovalIsQuiet, Zenon DEF CleanState
<1>6. CASE CleanJob
  BY <1>6, Zenon DEF CleanJob
<1>7. ASSUME NEW w \in Workers, WorkerStep(w) PROVE Quiet
  <2>1. CASE Startup(w)
    BY <2>1, StatusIsQuiet, Zenon DEF Startup
  <2>2. CASE Shutdown(w)
    BY <2>2, RemovalIsQuiet, Zenon DEF Shutdown
  <2>3. CASE Expire(w)
    BY <2>3, Zenon DEF Expire
  <2>4. CASE Crash(w)
    BY <2>4, Zenon DEF Crash
  <2>5. CASE Stuck(w)
    BY <2>5 DEF Stuck
  <2>6. CASE Schedule(w)
    BY <2>6, Zenon DEF Schedule, InPool, Found, States
  <2>7. CASE ContainerEnds(w)
    BY <2>7, ZenonT(60) DEF ContainerEnds, InUse, States
  <2>8. CASE SlowStart(w)
    BY <2>8, ZenonT(60) DEF SlowStart, InUse, States
  <2>. QED
    BY <1>7, <2>1, <2>2, <2>3, <2>4, <2>5, <2>6, <2>7, <2>8, Zenon DEF WorkerStep
<1>8. ASSUME NEW m \in Machines, MachineLost(m) \/ MachineBack(m) PROVE Quiet
  BY <1>8, Zenon DEF MachineLost, MachineBack
<1>9. CASE AdminStep
  <2>1. ASSUME NEW w \in Workers, NEW s \in {"available", "disabled"}, AdminLooksUp(w, s)
        PROVE Quiet
    BY <2>1, Zenon DEF AdminLooksUp
  <2>2. CASE AdminUpdates
    <3>1. admin.status \in {"available", "disabled"}
      BY <2>2, Zenon DEF AdminUpdates
    <3>. QED
      BY <2>2, <3>1, StatusIsQuiet, ZenonT(60) DEF AdminUpdates
  <2>. QED
    BY <1>9, <2>1, <2>2, Zenon DEF AdminStep
<1>10. CASE UNCHANGED vars
  BY <1>10, Zenon DEF vars
<1>. QED
  BY <1>2, <1>3, <1>4, <1>5, <1>6, <1>7, <1>8, <1>9, <1>10, Zenon DEF Next

-----------------------------------------------------------------------------
\* A machine has a size and a number of workers.
LEMMA Counts ==
  ASSUME Typed, NEW m
  PROVE  /\ Size \in Nat \ {0} /\ Capacity \in Nat \ {0}
         /\ (Size = 1 \/ Size = Capacity)
         /\ IsFiniteSet(OnMachine(m)) /\ Cardinality(OnMachine(m)) \in Nat
<1>1. OnMachine(m) \subseteq Workers
  BY DEF Typed, OnMachine, InPool, Found
<1>2. IsFiniteSet(OnMachine(m)) /\ Cardinality(OnMachine(m)) \in Nat
  BY <1>1, PoolAssumption, FS_Subset, FS_CardinalityType
<1>. QED
  BY <1>2, PoolAssumption DEF Size

\* Fewer workers of a size need less.
LEMMA Times ==
  ASSUME NEW n \in Nat \ {0}, NEW i \in Nat, NEW j \in Nat, i <= j
  PROVE  n * i \in Nat /\ n * j \in Nat /\ n * i <= n * j
  OBVIOUS

\* Where no worker comes to a machine, what remains of it does not shrink.
LEMMA Shrink ==
  ASSUME Typed, Typed', UNCHANGED cfg, NEW m, OnMachine(m)' \subseteq OnMachine(m)
  PROVE  /\ Remaining(m) >= 1 => Remaining(m)' >= 1
         /\ Size * Cardinality(OnMachine(m)) <= Capacity
              => (Size * Cardinality(OnMachine(m)) <= Capacity)'
<1>1. Size' = Size
  BY DEF Size
<1>2. /\ Size \in Nat \ {0} /\ Capacity \in Nat \ {0}
      /\ IsFiniteSet(OnMachine(m)) /\ Cardinality(OnMachine(m)) \in Nat
  BY Counts, Zenon
<1>3. Cardinality(OnMachine(m)') \in Nat
      /\ Cardinality(OnMachine(m)') <= Cardinality(OnMachine(m))
  BY <1>2, FS_Subset, FS_CardinalityType, Zenon
<1>. DEFINE c == Cardinality(OnMachine(m))
            d == Cardinality(OnMachine(m)')
<1>4. Size * c \in Nat /\ Size * d \in Nat /\ Size * d <= Size * c
  BY <1>2, <1>3, Times, Zenon
<1>5. Remaining(m) = Capacity - Size * c /\ Remaining(m)' = Capacity - Size * d
  BY <1>1, Zenon DEF Remaining
<1>. QED
  BY <1>1, <1>2, <1>4, <1>5

\* Where there is room for a worker, there is room for one more worker of the size it gets.
LEMMA Room ==
  ASSUME Typed, Typed', UNCHANGED cfg, NEW m, NEW w, Remaining(m) >= 1,
         OnMachine(m)' \subseteq OnMachine(m) \cup {w}
  PROVE  (Size * Cardinality(OnMachine(m)) <= Capacity)'
<1>1. Size' = Size
  BY DEF Size
<1>2. /\ Size \in Nat \ {0} /\ Capacity \in Nat \ {0}
      /\ (Size = 1 \/ Size = Capacity)
      /\ IsFiniteSet(OnMachine(m)) /\ Cardinality(OnMachine(m)) \in Nat
  BY Counts, Zenon
<1>. DEFINE c == Cardinality(OnMachine(m))
            d == Cardinality(OnMachine(m)')
<1>3. /\ IsFiniteSet(OnMachine(m) \cup {w})
      /\ Cardinality(OnMachine(m) \cup {w}) \in Nat
      /\ Cardinality(OnMachine(m) \cup {w}) <= c + 1
  <2>1. /\ IsFiniteSet(OnMachine(m) \cup {w})
        /\ Cardinality(OnMachine(m) \cup {w}) = IF w \in OnMachine(m) THEN c ELSE c + 1
    BY <1>2, FS_AddElement, Zenon
  <2>. QED
    BY <2>1, <1>2
<1>4. d \in Nat /\ d <= c + 1
  BY <1>3, FS_Subset, FS_CardinalityType
<1>5. Size * c <= Capacity - 1
  BY <1>2, Times, SMTT(60) DEF Remaining
<1>6. CASE Size = 1
  <2>1. Size * c = c /\ Size * d = d
    BY <1>6, <1>2, <1>4
  <2>. QED
    BY <2>1, <1>1, <1>2, <1>4, <1>5, SMTT(60)
<1>7. CASE Size = Capacity
  <2>1. c = 0
    <3>1. SUFFICES ASSUME c # 0 PROVE FALSE
      OBVIOUS
    <3>2. Capacity * 1 <= Capacity * c
      BY <3>1, <1>2, Times
    <3>. QED
      BY <3>2, <1>2, <1>5, <1>7
  <2>2. d = 0 \/ d = 1
    BY <2>1, <1>4
  <2>3. Size * d <= Capacity
    BY <2>2, <1>2, <1>7
  <2>. QED
    BY <2>3, <1>1, Zenon
<1>. QED
  BY <1>2, <1>6, <1>7

\* Quiet steps keep the invariant, as the workers of a machine only become fewer.
LEMMA QuietStep == IndInv /\ Quiet => IndInv'
<1>. SUFFICES ASSUME IndInv, Quiet PROVE IndInv'
  OBVIOUS
<1>1. Typed'
  BY Zenon DEF IndInv, Typed, Quiet
<1>2. \A m : OnMachine(m)' \subseteq OnMachine(m)
  BY Zenon DEF IndInv, Typed, Quiet, OnMachine, InPool, Found, Unknown, States
<1>3. \A m : /\ Remaining(m) >= 1 => Remaining(m)' >= 1
             /\ Size * Cardinality(OnMachine(m)) <= Capacity
                  => (Size * Cardinality(OnMachine(m)) <= Capacity)'
  BY <1>1, <1>2, Shrink, Zenon DEF IndInv, Quiet
<1>4. MachineFits'
  BY <1>3, Zenon DEF MachineFits, IndInv
<1>5. CreatingSafely'
  BY <1>3, Zenon DEF CreatingSafely, IndInv, Quiet, Creating
<1>6. Distinct' /\ Resting'
  BY Zenon DEF Distinct, Resting, IndInv, Quiet, Creating
<1>. QED
  BY <1>1, <1>4, <1>5, <1>6, Zenon DEF IndInv

\* A step of g's sizer after which g is not creating a worker.
LEMMA NotCreating ==
  ASSUME IndInv, Typed', UNCHANGED cfg, NEW g \in Gateways, ~Creating(g)', sizer'[g].m = None,
         \A h \in Gateways \ {g} : sizer'[h] = sizer[h],
         \A m \in Machines : machineLock'[m] = machineLock[m] \/ machineLock[m] = g,
         UNCHANGED <<place, state>>, index' \in SUBSET index
  PROVE  IndInv'
<1>1. \A m : OnMachine(m)' \subseteq OnMachine(m)
  BY Zenon DEF OnMachine, InPool, Found
<1>2. \A m : /\ Remaining(m) >= 1 => Remaining(m)' >= 1
             /\ Size * Cardinality(OnMachine(m)) <= Capacity
                  => (Size * Cardinality(OnMachine(m)) <= Capacity)'
  BY <1>1, Shrink, Zenon DEF IndInv
<1>3. MachineFits'
  BY <1>2, Zenon DEF MachineFits, IndInv
<1>4. CreatingSafely'
  <2>. SUFFICES ASSUME NEW h \in Gateways, Creating(h)'
                PROVE  /\ sizer'[h].w \in Workers
                       /\ Unknown(sizer[h].w)'
                       /\ sizer'[h].pc # "create" => place'[sizer'[h].w] = sizer'[h].m
                       /\ sizer'[h].m # None => /\ machineLock'[sizer'[h].m] = h
                                               /\ Remaining(sizer[h].m)' >= 1
    BY Zenon DEF CreatingSafely
  <2>1. h # g /\ sizer'[h] = sizer[h] /\ Creating(h)
    BY Zenon DEF Creating
  <2>2. sizer[h].m \in Machines \cup {None}
    BY Zenon DEF IndInv, Typed, Sizers
  <2>. QED
    BY <2>1, <2>2, <1>2, SMTT(60) DEF IndInv, CreatingSafely, Unknown
<1>5. Distinct' /\ Resting'
  BY ZenonT(60) DEF Distinct, Resting, IndInv, Creating
<1>. QED
  BY <1>3, <1>4, <1>5, Zenon DEF IndInv

\* Tick and Assign start the creation of a worker w that no one else knows of.
LEMMA StartCreating ==
  ASSUME IndInv, Typed', UNCHANGED cfg, NEW g \in Gateways, ~Creating(g),
         NEW w \in Workers, Fresh(w), NEW m \in Machines \cup {None},
         sizer'[g].pc = "create", sizer'[g].w = w, sizer'[g].m = m,
         \A h \in Gateways \ {g} : sizer'[h] = sizer[h],
         m # None => machineLock[m] = None /\ machineLock'[m] = g /\ Remaining(m) >= 1,
         \A n \in Machines \ {m} : machineLock'[n] = machineLock[n],
         UNCHANGED <<place, state>>, index' \in SUBSET index
  PROVE  IndInv'
<1>1. \A n : OnMachine(n)' \subseteq OnMachine(n)
  BY Zenon DEF OnMachine, InPool, Found
<1>2. \A n : /\ Remaining(n) >= 1 => Remaining(n)' >= 1
             /\ Size * Cardinality(OnMachine(n)) <= Capacity
                  => (Size * Cardinality(OnMachine(n)) <= Capacity)'
  BY <1>1, Shrink, Zenon DEF IndInv
<1>3. MachineFits'
  BY <1>2, Zenon DEF MachineFits, IndInv
<1>4. CreatingSafely'
  <2>. SUFFICES ASSUME NEW h \in Gateways, Creating(h)'
                PROVE  /\ sizer'[h].w \in Workers
                       /\ Unknown(sizer[h].w)'
                       /\ sizer'[h].pc # "create" => place'[sizer'[h].w] = sizer'[h].m
                       /\ sizer'[h].m # None => /\ machineLock'[sizer'[h].m] = h
                                               /\ Remaining(sizer[h].m)' >= 1
    BY Zenon DEF CreatingSafely
  <2>1. CASE h = g
    BY <2>1, <1>2, Zenon DEF Fresh, Unknown
  <2>2. CASE h # g
    <3>1. sizer'[h] = sizer[h] /\ Creating(h)
      BY <2>2, Zenon DEF Creating
    <3>2. sizer[h].m # None => sizer[h].m \in Machines \ {m}
      BY <3>1, PoolAssumption, SMTT(60) DEF IndInv, CreatingSafely, Typed, Sizers
    <3>. QED
      BY <3>1, <3>2, <1>2, ZenonT(60) DEF IndInv, CreatingSafely, Unknown
  <2>. QED
    BY <2>1, <2>2, Zenon
<1>5. Distinct' /\ Resting'
  BY SMTT(60) DEF Distinct, Resting, IndInv, Creating, Fresh
<1>. QED
  BY <1>3, <1>4, <1>5, Zenon DEF IndInv

-----------------------------------------------------------------------------
(* The steps of a sizer *)

\* The sizers' steps keep the types.
LEMMA SizerTyped ==
  ASSUME Typed, CreatingSafely, NEW g \in Gateways, SizerStep(g)
  PROVE  Typed'
<1>. USE DEF Typed, work, sizing, upkeep, setup, GetWorkers, Found
<1>. DEFINE s == sizer[g]
<1>a. s \in Sizers /\ Unlocked \in SUBSET Machines
  BY Zenon DEF Unlocked
<1>b. ASSUME NEW t \in Sizers, sizer' = [sizer EXCEPT ![g] = t]
      PROVE  sizer' \in [Gateways -> Sizers]
  BY <1>b
<1>c. \A c \in {"idle", "assign", "occupy"} : [Idle EXCEPT !.pc = c] \in Sizers
  BY Zenon DEF Idle, Sizers
<1>e. Idle \in Sizers
  BY DEF Idle, Sizers
<1>d. ASSUME Continue(g) PROVE sizer' \in [Gateways -> Sizers]
  <2>. DEFINE t == [s EXCEPT !.pc = "assign", !.todo = s.todo \ {s.m}, !.w = None, !.m = None]
  <2>1. t \in Sizers
    BY <1>a, Zenon DEF Sizers
  <2>2. sizer' = [sizer EXCEPT ![g] = t]
    BY <1>d, <1>a, Zenon DEF Continue, Sizers
  <2>. QED
    BY <2>1, <2>2, <1>b, Zenon
<1>1. CASE Tick(g)
  BY <1>1, <1>a, SMTT(60) DEF Tick, Sizers
<1>2. CASE OccupyAvailableMachines(g)
  <2>1. [Idle EXCEPT !.pc = "assign", !.phase = "occupy", !.todo = Unlocked] \in Sizers
    BY <1>a, ZenonT(60) DEF Idle, Sizers
  <2>2. sizer' \in [Gateways -> Sizers]
    BY <1>2, <1>b, <1>e, <2>1, Zenon DEF OccupyAvailableMachines
  <2>. QED
    BY <1>2, <2>2 DEF OccupyAvailableMachines
<1>3. ASSUME NEW m \in Machines, Assign(g, m) PROVE Typed'
  <2>1. [s EXCEPT !.todo = @ \ {m}] \in Sizers
        /\ \A w \in Workers : [s EXCEPT !.pc = "create", !.w = w, !.m = m] \in Sizers
    BY <1>a, Zenon DEF Sizers
  <2>2. sizer' \in [Gateways -> Sizers]
    BY <1>3, <1>b, <2>1, ZenonT(60) DEF Assign
  <2>3. machineLock' \in [Machines -> Gateways \cup {None}]
    BY <1>3, ZenonT(60) DEF Assign
  <2>4. index' \in SUBSET index /\ UNCHANGED <<place, state, ready, admin, cfg>>
    BY <1>3, Zenon DEF Assign
  <2>. QED
    BY <2>2, <2>3, <2>4, Zenon
<1>4. CASE AssignDone(g)
  <2>1. sizer' \in [Gateways -> Sizers]
    BY <1>4, <1>b, <1>c, <1>e DEF AssignDone
  <2>. QED
    BY <1>4, <2>1 DEF AssignDone
<1>5. CASE CreateJob(g)
  BY <1>5, ZenonT(60) DEF CreateJob, Sizers
<1>6. CASE CreateRefused(g)
  <2>1. sizer' \in [Gateways -> Sizers]
    BY <1>6, <1>b, <1>e, <1>d, Zenon DEF CreateRefused
  <2>. QED
    BY <1>6, <2>1, Zenon DEF CreateRefused, Unlock
<1>7. CASE AddIndex(g)
  BY <1>7 DEF AddIndex, CreatingSafely, Creating, Sizers
<1>8. CASE AddState(g)
  <2>1. sizer' \in [Gateways -> Sizers]
    BY <1>8, <1>b, <1>c, <1>e, <1>d, Zenon DEF AddState
  <2>. QED
    BY <1>8, <2>1, Zenon DEF AddState, Unlock, Blank, States
<1>. QED
  BY <1>1, <1>2, <1>3, <1>4, <1>5, <1>6, <1>7, <1>8, ZenonT(60) DEF SizerStep

\* addWorkerIfNeeded starts with a worker nobody knows, without a machine.
LEMMA TickIndInv ==
  ASSUME IndInv, Typed', NEW g \in Gateways, Tick(g)
  PROVE  IndInv'
<1>1. /\ ~Creating(g) /\ sizer[g].m = None /\ UNCHANGED <<place, state, machineLock, cfg>>
      /\ index' \in SUBSET index
  BY Zenon DEF IndInv, Resting, Creating, Tick, GetWorkers, Found, setup
<1>2. ASSUME NEW w \in Workers, Fresh(w),
             sizer' = [sizer EXCEPT ![g].pc = "create", ![g].w = w]
      PROVE  IndInv'
  <2>1. /\ sizer'[g].pc = "create" /\ sizer'[g].w = w /\ sizer'[g].m = None
        /\ \A h \in Gateways \ {g} : sizer'[h] = sizer[h]
    BY <1>1, <1>2, ZenonT(60) DEF IndInv, Typed, Sizers
  <2>. QED
    BY <1>1, <1>2, <2>1, StartCreating, ZenonT(60)
<1>3. ASSUME \/ sizer' = [sizer EXCEPT ![g].pc = "assign", ![g].todo = Unlocked]
             \/ sizer' = [sizer EXCEPT ![g].pc = "occupy"]
             \/ UNCHANGED sizer
      PROVE  IndInv'
  <2>1. /\ ~Creating(g)' /\ sizer'[g].m = None
        /\ \A h \in Gateways \ {g} : sizer'[h] = sizer[h]
    BY <1>1, <1>3 DEF IndInv, Typed, Sizers, Creating
  <2>. QED
    BY <1>1, <2>1, NotCreating, Zenon
<1>. QED
  BY <1>2, <1>3, Zenon DEF Tick

\* A sizer that chooses a machine holds its lock and has found room on it.
LEMMA AssignIndInv ==
  ASSUME IndInv, Typed', NEW g \in Gateways, NEW m \in Machines, Assign(g, m)
  PROVE  IndInv'
<1>1. /\ ~Creating(g) /\ sizer[g].m = None /\ UNCHANGED <<place, state, cfg>>
      /\ index' \in SUBSET index
  BY ZenonT(60) DEF IndInv, Resting, Creating, Assign, GetWorkers, Found, setup
<1>2. ASSUME NEW w \in Workers, Fresh(w), machineLock[m] = None, Remaining(m) >= 1,
             sizer' = [sizer EXCEPT ![g].pc = "create", ![g].w = w, ![g].m = m],
             machineLock' = [machineLock EXCEPT ![m] = g]
      PROVE  IndInv'
  <2>1. /\ sizer'[g].pc = "create" /\ sizer'[g].w = w /\ sizer'[g].m = m
        /\ \A h \in Gateways \ {g} : sizer'[h] = sizer[h]
        /\ machineLock'[m] = g
        /\ \A n \in Machines \ {m} : machineLock'[n] = machineLock[n]
    BY <1>2 DEF IndInv, Typed, Sizers
  <2>. QED
    BY <1>1, <1>2, <2>1, StartCreating, ZenonT(60)
<1>3. ASSUME sizer' = [sizer EXCEPT ![g].todo = @ \ {m}], UNCHANGED machineLock
      PROVE  IndInv'
  <2>1. /\ ~Creating(g)' /\ sizer'[g].m = None
        /\ \A h \in Gateways \ {g} : sizer'[h] = sizer[h]
    BY <1>1, <1>3 DEF IndInv, Typed, Sizers, Creating
  <2>. QED
    BY <1>1, <1>3, <2>1, NotCreating
<1>. QED
  BY <1>2, <1>3, Zenon DEF Assign

\* What the sizer's other ways to its next machine, or to its next tick, have in common.
LEMMA Moves ==
  ASSUME Typed, NEW g \in Gateways,
         \/ sizer' = [sizer EXCEPT ![g] = Idle]
         \/ \E c \in {"assign", "occupy"} : sizer' = [sizer EXCEPT ![g] = [Idle EXCEPT !.pc = c]]
         \/ sizer' = [sizer EXCEPT ![g] = [Idle EXCEPT !.pc = "assign", !.phase = "occupy",
                                                        !.todo = Unlocked]]
         \/ Continue(g)
  PROVE  /\ ~Creating(g)' /\ sizer'[g].m = None
         /\ \A h \in Gateways \ {g} : sizer'[h] = sizer[h]
<1>1. ASSUME NEW t, t.m = None, t.pc \in {"idle", "assign", "occupy"}, sizer' = [sizer EXCEPT ![g] = t]
      PROVE  /\ ~Creating(g)' /\ sizer'[g].m = None
             /\ \A h \in Gateways \ {g} : sizer'[h] = sizer[h]
  BY <1>1 DEF Typed, Creating
<1>2. CASE Continue(g)
  BY <1>2 DEF Continue, Typed, Sizers, Creating
<1>3. CASE sizer' = [sizer EXCEPT ![g] = Idle]
  BY <1>1, <1>3, Zenon DEF Idle
<1>4. ASSUME NEW c \in {"assign", "occupy"}, sizer' = [sizer EXCEPT ![g] = [Idle EXCEPT !.pc = c]]
      PROVE  /\ ~Creating(g)' /\ sizer'[g].m = None
             /\ \A h \in Gateways \ {g} : sizer'[h] = sizer[h]
  BY <1>1, <1>4, Zenon DEF Idle
<1>5. CASE sizer' = [sizer EXCEPT ![g] = [Idle EXCEPT !.pc = "assign", !.phase = "occupy",
                                                       !.todo = Unlocked]]
  BY <1>1, <1>5, Zenon DEF Idle
<1>. QED
  BY <1>2, <1>3, <1>4, <1>5, Zenon

\* A sizer that moves on without a new worker in the pool: OccupyAvailableMachines, AssignDone
\* and CreateRefused.
LEMMA MoveIndInv ==
  ASSUME IndInv, Typed', NEW g \in Gateways,
         OccupyAvailableMachines(g) \/ AssignDone(g) \/ CreateRefused(g)
  PROVE  IndInv'
<1>1. UNCHANGED <<place, state, index, cfg>>
  BY Zenon DEF OccupyAvailableMachines, AssignDone, CreateRefused, work, setup
<1>2. \A m \in Machines : machineLock'[m] = machineLock[m] \/ machineLock[m] = g
  <2>1. CASE CreateRefused(g)
    <3>1. sizer[g].m # None => machineLock[sizer[g].m] = g
      BY <2>1 DEF CreateRefused, IndInv, CreatingSafely, Creating
    <3>. QED
      BY <2>1, <3>1, PoolAssumption, Zenon DEF CreateRefused, Unlock
  <2>2. CASE OccupyAvailableMachines(g)
    BY <2>2 DEF OccupyAvailableMachines
  <2>3. CASE AssignDone(g)
    BY <2>3 DEF AssignDone
  <2>. QED
    BY <2>1, <2>2, <2>3, Zenon
<1>3. /\ ~Creating(g)' /\ sizer'[g].m = None
      /\ \A h \in Gateways \ {g} : sizer'[h] = sizer[h]
  BY Moves, Zenon DEF IndInv, OccupyAvailableMachines, AssignDone, CreateRefused
<1>. QED
  BY <1>1, <1>2, <1>3, NotCreating, Zenon

\* CreateJob and AddIndex go on with a worker whose state is not written yet.
LEMMA CreateIndInv ==
  ASSUME IndInv, Typed', NEW g \in Gateways, CreateJob(g) \/ AddIndex(g)
  PROVE  IndInv'
<1>. DEFINE w == sizer[g].w
            m == sizer[g].m
<1>1. /\ Creating(g) /\ w \in Workers /\ Unknown(w)
      /\ m # None => machineLock[m] = g /\ Remaining(m) >= 1
  BY Zenon DEF IndInv, CreatingSafely, Creating, CreateJob, AddIndex
<1>2. /\ UNCHANGED <<state, machineLock, cfg>>
      /\ \A v \in Workers \ {w} : place'[v] = place[v]
      /\ place'[w] = m
      /\ index' \in SUBSET (index \cup {w})
      /\ Creating(g)' /\ sizer'[g].w = w /\ sizer'[g].m = m
      /\ \A h \in Gateways \ {g} : sizer'[h] = sizer[h]
  <2>1. CASE CreateJob(g)
    BY <2>1, <1>1, SMTT(60) DEF CreateJob, setup, IndInv, Typed, Sizers, Creating
  <2>2. CASE AddIndex(g)
    BY <2>2, SMTT(60) DEF AddIndex, setup, IndInv, Creating, CreatingSafely
  <2>. QED
    BY <2>1, <2>2, Zenon
<1>3. \A n : OnMachine(n)' \subseteq OnMachine(n)
  BY <1>1, <1>2, Zenon DEF OnMachine, InPool, Found, Unknown, IndInv, Typed
<1>4. \A n : /\ Remaining(n) >= 1 => Remaining(n)' >= 1
             /\ Size * Cardinality(OnMachine(n)) <= Capacity
                  => (Size * Cardinality(OnMachine(n)) <= Capacity)'
  BY <1>2, <1>3, Shrink, Zenon DEF IndInv
<1>5. MachineFits'
  BY <1>4, Zenon DEF MachineFits, IndInv
<1>6. CreatingSafely'
  <2>. SUFFICES ASSUME NEW h \in Gateways, Creating(h)'
                PROVE  /\ sizer'[h].w \in Workers
                       /\ Unknown(sizer[h].w)'
                       /\ sizer'[h].pc # "create" => place'[sizer'[h].w] = sizer'[h].m
                       /\ sizer'[h].m # None => /\ machineLock'[sizer'[h].m] = h
                                               /\ Remaining(sizer[h].m)' >= 1
    BY Zenon DEF CreatingSafely
  <2>1. CASE h = g
    BY <2>1, <1>1, <1>2, <1>4, Zenon DEF Unknown
  <2>2. CASE h # g
    <3>1. sizer'[h] = sizer[h] /\ Creating(h) /\ sizer[h].w # w /\ sizer[h].w \in Workers
      BY <2>2, <1>1, <1>2, Zenon DEF Creating, IndInv, Distinct, CreatingSafely
    <3>. QED
      BY <3>1, <1>2, <1>4, SMTT(60) DEF IndInv, CreatingSafely, Unknown
  <2>. QED
    BY <2>1, <2>2, Zenon
<1>7. Distinct' /\ Resting'
  BY <1>1, <1>2 DEF Distinct, Resting, IndInv, Creating
<1>. QED
  BY <1>5, <1>6, <1>7, Zenon DEF IndInv

\* AddState makes the worker one of the pool.
LEMMA AddStateIndInv ==
  ASSUME IndInv, Typed', NEW g \in Gateways, AddState(g)
  PROVE  IndInv'
<1>. DEFINE w == sizer[g].w
            m == sizer[g].m
<1>1. /\ Creating(g) /\ w \in Workers /\ place[w] = m
      /\ m # None => machineLock[m] = g /\ Remaining(m) >= 1
  BY DEF IndInv, CreatingSafely, Creating, AddState
<1>2. /\ UNCHANGED <<place, index, cfg>>
      /\ \A v \in Workers \ {w} : state'[v] = state[v]
      /\ \A n \in Machines \ {m} : machineLock'[n] = machineLock[n]
  BY DEF AddState, Unlock, setup, IndInv, Typed
<1>3. /\ ~Creating(g)' /\ sizer'[g].m = None
      /\ \A h \in Gateways \ {g} : sizer'[h] = sizer[h]
  BY Moves, Zenon DEF AddState, IndInv
<1>4. \A n : n # m => OnMachine(n)' \subseteq OnMachine(n)
  BY <1>1, <1>2, Zenon DEF OnMachine, InPool, Found, IndInv, Typed
<1>5. PICK v \in Workers : \A n : OnMachine(n)' \subseteq OnMachine(n) \cup {v}
  BY <1>1, <1>2, SMTT(60) DEF OnMachine, InPool, Found, Typed
<1>6. \A n : n # m => /\ Remaining(n) >= 1 => Remaining(n)' >= 1
                      /\ Size * Cardinality(OnMachine(n)) <= Capacity
                           => (Size * Cardinality(OnMachine(n)) <= Capacity)'
  BY <1>2, <1>4, Shrink, Zenon DEF IndInv
<1>7. MachineFits'
  <2>. SUFFICES ASSUME NEW n \in Machines
                PROVE  (Size * Cardinality(OnMachine(n)) <= Capacity)'
    BY Zenon DEF MachineFits
  <2>1. CASE n # m
    BY <2>1, <1>6, Zenon DEF MachineFits, IndInv
  <2>2. CASE n = m
    <3>1. Remaining(n) >= 1
      BY <2>2, <1>1, PoolAssumption, Zenon
    <3>. QED
      BY <3>1, <2>2, <1>2, <1>5, Room, Zenon DEF IndInv
  <2>. QED
    BY <2>1, <2>2, Zenon
<1>8. CreatingSafely'
  <2>. SUFFICES ASSUME NEW h \in Gateways, Creating(h)'
                PROVE  /\ sizer'[h].w \in Workers
                       /\ Unknown(sizer[h].w)'
                       /\ sizer'[h].pc # "create" => place'[sizer'[h].w] = sizer'[h].m
                       /\ sizer'[h].m # None => /\ machineLock'[sizer'[h].m] = h
                                               /\ Remaining(sizer[h].m)' >= 1
    BY Zenon DEF CreatingSafely
  <2>1. h # g /\ sizer'[h] = sizer[h] /\ Creating(h)
    BY <1>3, Zenon DEF Creating
  <2>2. sizer[h].w # w /\ sizer[h].w \in Workers
    BY <2>1, <1>1, Zenon DEF IndInv, Distinct, CreatingSafely
  <2>3. sizer[h].m # None => sizer[h].m \in Machines \ {m}
    BY <2>1, <1>1, ZenonT(60) DEF IndInv, CreatingSafely, Typed, Sizers
  <2>. QED
    BY <2>1, <2>2, <2>3, <1>2, <1>6, SMTT(60) DEF IndInv, CreatingSafely, Unknown
<1>9. Distinct' /\ Resting'
  BY <1>3 DEF Distinct, Resting, IndInv, Creating
<1>. QED
  BY <1>7, <1>8, <1>9, Zenon DEF IndInv

-----------------------------------------------------------------------------
\* Every step of the pool keeps the invariant.
LEMMA StepIndInv == IndInv /\ [Next]_vars => IndInv'
<1>. SUFFICES ASSUME IndInv, [Next]_vars PROVE IndInv'
  OBVIOUS
<1>1. ASSUME NEW g \in Gateways, SizerStep(g) PROVE IndInv'
  <2>1. Typed'
    BY <1>1, SizerTyped, Zenon DEF IndInv
  <2>. QED
    BY <1>1, <2>1, TickIndInv, AssignIndInv, MoveIndInv, CreateIndInv, AddStateIndInv, Zenon
    DEF SizerStep
<1>2. CASE \A g \in Gateways : ~SizerStep(g)
  BY <1>2, StepIsQuiet, QuietStep DEF IndInv
<1>. QED
  BY <1>1, <1>2

\* The workers found on a machine never need more than the machine has, whatever the gateways,
\* the monitor, the cleaner, the workers and the administrator do and however they interleave:
\* attemptToAssignWorkerToMachine subtracts and adds under the machine's lock.
THEOREM PoolMachineFits == Spec => []MachineFits
<1>1. IndInv => MachineFits
  BY DEF IndInv
<1>. QED
  BY <1>1, InitIndInv, StepIndInv, PTL DEF Spec

-----------------------------------------------------------------------------
(* How far a pool overshoots *)

\* Nothing takes from the pool's free capacity, and nothing cordons a worker.
Undisturbed ==
  ~cfg.external /\ ~cfg.failover /\ cfg.load = 0 /\ cfg.faults \subseteq {"refused", "race"}

\* So every worker of the pool is free and counts.
Calm ==
  /\ load = 0 /\ admin = None
  /\ mon \in [pc : {"idle", "set"}, status : {"healthy", "degraded"}, todo : SUBSET Workers]
  /\ \A w \in Workers : state[w] # None =>
       state[w].status # "disabled" /\ (state[w].real => state[w].free)

Creators == {g \in Gateways : Creating(g)}

\* The workers being created come on top: a sizer creates one only if what it has counted is
\* below the minimum, and the other gateways create one each at most.
Limited ==
  /\ \A g \in Gateways : sizer[g].pc \notin {"assign", "occupy"}
  /\ Creators \subseteq cfg.up
  /\ Cardinality(InPool) + Cardinality(Creators) <= cfg.min + Cardinality(cfg.up) - 1

Steady == Undisturbed => Calm /\ Limited

\* Workers and gateways can be counted.
LEMMA PoolCounts ==
  ASSUME Typed
  PROVE  /\ IsFiniteSet(InPool) /\ Cardinality(InPool) \in Nat
         /\ IsFiniteSet(Creators) /\ Cardinality(Creators) \in Nat
         /\ IsFiniteSet(cfg.up) /\ Cardinality(cfg.up) \in Nat /\ Cardinality(cfg.up) >= 1
         /\ cfg.min \in Nat
<1>1. cfg.up \in SUBSET Gateways /\ cfg.up # {} /\ cfg.min \in Nat
  BY PoolAssumption DEF Typed
<1>2. InPool \in SUBSET Workers /\ Creators \in SUBSET Gateways
  BY DEF InPool, Found, Creators, Typed
<1>3. IsFiniteSet(InPool) /\ IsFiniteSet(Creators) /\ IsFiniteSet(cfg.up)
  BY <1>1, <1>2, PoolAssumption, FS_Subset
<1>4. Cardinality(cfg.up) # 0
  BY <1>1, <1>3, FS_EmptySet
<1>. QED
  BY <1>1, <1>3, <1>4, FS_CardinalityType

\* A step that gives the pool no worker, and lets no one create one.
LEMMA LimitedKept ==
  ASSUME Typed, Typed', Limited, UNCHANGED cfg, InPool' \in SUBSET InPool, Creators' \in SUBSET Creators,
         \A g \in Gateways : sizer'[g].pc \notin {"assign", "occupy"}
  PROVE  Limited'
<1>. DEFINE i == Cardinality(InPool)
            c == Cardinality(Creators)
            j == Cardinality(InPool')
            d == Cardinality(Creators')
            max == cfg.min + Cardinality(cfg.up) - 1
<1>1. i \in Nat /\ c \in Nat /\ max \in Int /\ i + c <= max
  BY PoolCounts DEF Limited
<1>2. j \in Nat /\ d \in Nat /\ j <= i /\ d <= c
  BY PoolCounts, FS_Subset, FS_CardinalityType, Zenon
<1>. HIDE DEF i, c, j, d, max
<1>3. j + d <= max
  BY <1>1, <1>2
<1>. QED
  BY <1>3, Zenon DEF Limited, j, d, max

\* The monitor, the cleaner and the workers cordon nothing, and take nothing.
LEMMA StepCalm ==
  ASSUME Typed, Calm, Undisturbed, [Next]_vars, \A g \in Gateways : ~SizerStep(g)
  PROVE  Calm'
<1>. USE DEF work, sizing, upkeep, setup
<1>1. ASSUME UNCHANGED <<load, admin, mon>>,
             \A w \in Workers : \/ state'[w] = None
                                \/ state'[w] = state[w]
                                \/ ~state'[w].real /\ state'[w].status # "disabled"
                                \/ /\ state[w] # None /\ state'[w].status # "disabled"
                                   /\ state'[w].real = state[w].real /\ state'[w].free = state[w].free
      PROVE  Calm'
  BY <1>1, Zenon DEF Calm
<1>2. ASSUME NEW w \in Workers, UpdateWorkerStatus(w, "available"), NEW v \in Workers
      PROVE  \/ state'[v] = state[v]
             \/ ~state'[v].real /\ state'[v].status # "disabled"
             \/ /\ state[v] # None /\ state'[v].status # "disabled"
                /\ state'[v].real = state[v].real /\ state'[v].free = state[v].free
  <2>1. CASE v # w
    BY <1>2, <2>1 DEF UpdateWorkerStatus, Typed
  <2>2. CASE v = w /\ state[w] = None
    BY <1>2, <2>2 DEF UpdateWorkerStatus, Blank, Typed
  <2>3. CASE v = w /\ state[w] # None
    <3>1. state'[w] = [state[w] EXCEPT !.status = "available"] /\ state[w] \in States
      BY <1>2, <2>3 DEF UpdateWorkerStatus, Typed
    <3>. QED
      BY <2>3, <3>1 DEF States
  <2>. QED
    BY <2>1, <2>2, <2>3
<1>3. ASSUME NEW w, RemoveWorker(w), NEW v \in Workers PROVE state'[v] = None \/ state'[v] = state[v]
  BY <1>3 DEF RemoveWorker, Typed
<1>4. CASE MonitorStep
  <2>1. CASE CheckHealth \/ CheckHealthSlow
    <3>1. UNCHANGED <<load, admin, state>>
      BY <2>1, Zenon DEF CheckHealth, CheckHealthSlow
    <3>2. PICK s \in {"healthy", "degraded"} : CheckStatus(s)
      BY <2>1, Zenon DEF CheckHealth, CheckHealthSlow
    <3>3. mon' = [mon EXCEPT !.status = s, !.pc = "set"]
      BY <3>2, Zenon DEF CheckStatus, Undisturbed
    <3>4. mon' \in [pc : {"idle", "set"}, status : {"healthy", "degraded"}, todo : SUBSET Workers]
      BY <3>3, Zenon DEF Calm
    <3>. QED
      BY <3>1, <3>4, Zenon DEF Calm
  <2>2. ~CordonAllPending /\ \A w \in Workers : ~Cordon(w)
    <3>1. mon.pc # "cordon" /\ mon.pc # "update"
      BY DEF Calm
    <3>. QED
      BY <3>1, Zenon DEF CordonAllPending, Cordon
  <2>3. CASE SetPoolState
    <3>1. UNCHANGED <<load, admin, state>> /\ mon' = [mon EXCEPT !.pc = "idle"]
      BY <2>3, Zenon DEF SetPoolState
    <3>2. mon' \in [pc : {"idle", "set"}, status : {"healthy", "degraded"}, todo : SUBSET Workers]
      BY <3>1 DEF Calm
    <3>. QED
      BY <3>1, <3>2, Zenon DEF Calm
  <2>. QED
    BY <1>4, <2>1, <2>2, <2>3, Zenon DEF MonitorStep
<1>5. ASSUME NEW w \in Workers, Find(w) PROVE Calm'
  BY <1>1, <1>5, Zenon DEF Find
<1>6. CASE CleanState
  BY <1>1, <1>3, <1>6, Zenon DEF CleanState
<1>7. CASE CleanJob \/ SizerLockExpires \/ UNCHANGED vars
  BY <1>1, <1>7, Zenon DEF CleanJob, SizerLockExpires, vars
<1>8. ASSUME NEW w \in Workers, WorkerStep(w) PROVE Calm'
  <2>1. CASE Startup(w)
    BY <1>1, <1>2, <2>1, Zenon DEF Startup
  <2>2. CASE Shutdown(w)
    BY <1>1, <1>3, <2>2, Zenon DEF Shutdown
  <2>3. CASE Expire(w)
    <3>1. \A v \in Workers : state'[v] = None \/ state'[v] = state[v]
      BY <2>3, Zenon DEF Expire, Typed
    <3>. QED
      BY <1>1, <2>3, <3>1, Zenon DEF Expire
  <2>4. CASE Crash(w) \/ Stuck(w)
    BY <1>1, <2>4, Zenon DEF Crash, Stuck
  <2>5. ~Schedule(w)
    BY DEF Schedule, Calm
  <2>6. ~ContainerEnds(w) /\ ~SlowStart(w)
    BY Zenon DEF ContainerEnds, SlowStart, InUse, Calm
  <2>. QED
    BY <1>8, <2>1, <2>2, <2>3, <2>4, <2>5, <2>6, Zenon DEF WorkerStep
<1>9. ASSUME NEW m \in Machines, MachineLost(m) \/ MachineBack(m) PROVE Calm'
  BY <1>1, <1>9, Zenon DEF MachineLost, MachineBack
<1>10. ~AdminStep
  <2>1. "admin" \notin cfg.faults
    BY DEF Undisturbed
  <2>. QED
    BY <2>1, Zenon DEF AdminStep, AdminLooksUp, AdminUpdates, Fault, Calm
<1>. QED
  BY <1>4, <1>5, <1>6, <1>7, <1>8, <1>9, <1>10, Zenon DEF Next

\* In an undisturbed pool a sizer finds all workers of the pool free.
LEMMA FreeIsInPool ==
  ASSUME Typed, Calm
  PROVE  FreeCapacity = Cardinality(InPool)
<1>1. {w \in InPool : state[w].free /\ state[w].status # "disabled"} = InPool
  BY Zenon DEF InPool, Found, Calm, Typed
<1>. QED
  BY <1>1, Zenon DEF FreeCapacity

\* addWorkerIfNeeded adds a worker below the minimum only.
LEMMA TickLimited ==
  ASSUME IndInv, Typed', Undisturbed, Calm, Limited, NEW g \in Gateways, Tick(g)
  PROVE  Limited'
<1>0. Typed
  BY DEF IndInv
<1>1. /\ UNCHANGED <<state, cfg>> /\ index' = Found /\ g \in cfg.up /\ sizer[g].pc = "idle"
  BY Zenon DEF Tick, GetWorkers, setup
<1>2. InPool' = InPool
  BY <1>1, Zenon DEF InPool, Found
<1>3. CASE UNCHANGED sizer
  BY <1>0, <1>1, <1>2, <1>3, LimitedKept, Zenon DEF Limited, Creators, Creating
<1>4. ASSUME NEW w \in Workers, FreeCapacity < cfg.min,
             sizer' = [sizer EXCEPT ![g].pc = "create", ![g].w = w]
      PROVE  Limited'
  <2>1. sizer'[g].pc = "create" /\ \A q \in Gateways \ {g} : sizer'[q] = sizer[q]
    BY <1>0, <1>4 DEF Typed, Sizers
  <2>2. Creators' \in SUBSET cfg.up
    BY <1>1, <2>1, Zenon DEF Creators, Creating, Limited
  <2>3. \A q \in Gateways : sizer'[q].pc \notin {"assign", "occupy"}
    BY <2>1 DEF Limited
  <2>. DEFINE i == Cardinality(InPool)
              d == Cardinality(Creators')
              u == Cardinality(cfg.up)
  <2>4. i \in Nat /\ u \in Nat /\ cfg.min \in Nat /\ i < cfg.min
    BY <1>0, <1>4, PoolCounts, FreeIsInPool
  <2>5. d \in Nat /\ d <= u
    BY <1>0, <2>2, PoolCounts, FS_Subset, FS_CardinalityType, Zenon
  <2>. HIDE DEF i, d, u
  <2>6. i + d <= cfg.min + u - 1
    BY <2>4, <2>5
  <2>. QED
    BY <1>1, <1>2, <2>2, <2>3, <2>6, Zenon DEF Limited, i, d, u
<1>. QED
  BY <1>3, <1>4, Zenon DEF Tick, Undisturbed

\* The worker that AddWorker adds is no longer one being created.
LEMMA AddStateLimited ==
  ASSUME IndInv, Typed', Undisturbed, Limited, NEW g \in Gateways, AddState(g)
  PROVE  Limited'
<1>0. Typed
  BY DEF IndInv
<1>. DEFINE w == sizer[g].w
<1>1. Creating(g) /\ w \in Workers
  BY Zenon DEF IndInv, CreatingSafely, Creating, AddState
<1>2. UNCHANGED <<index, cfg>> /\ sizer' = [sizer EXCEPT ![g] = Idle]
      /\ \A v \in Workers \ {w} : state'[v] = state[v]
  <2>1. UNCHANGED <<index, cfg>> /\ sizer' = [sizer EXCEPT ![g] = Idle]
    BY Zenon DEF AddState, Undisturbed, setup
  <2>. QED
    BY <1>0, <2>1, Zenon DEF AddState, Typed
<1>3. sizer'[g].pc = "idle" /\ \A q \in Gateways \ {g} : sizer'[q] = sizer[q]
  BY <1>0, <1>2 DEF Typed, Idle
<1>4. InPool' \in SUBSET (InPool \cup {w})
  BY <1>0, <1>1, <1>2, Zenon DEF InPool, Found, Typed
<1>5. g \in Creators /\ Creators' \in SUBSET (Creators \ {g})
  <2>1. ~Creating(g)'
    BY <1>3 DEF Creating
  <2>. QED
    BY <1>1, <1>3, <2>1, Zenon DEF Creators, Creating
<1>6. \A q \in Gateways : sizer'[q].pc \notin {"assign", "occupy"}
  BY <1>3 DEF Limited
<1>. DEFINE i == Cardinality(InPool)
            c == Cardinality(Creators)
            j == Cardinality(InPool')
            d == Cardinality(Creators')
            max == cfg.min + Cardinality(cfg.up) - 1
<1>7. i \in Nat /\ c \in Nat /\ max \in Int /\ i + c <= max
  BY <1>0, PoolCounts DEF Limited
<1>8. j \in Nat /\ j <= i + 1
  <2>1. IsFiniteSet(InPool) /\ i \in Nat
    BY <1>0, PoolCounts
  <2>2. /\ IsFiniteSet(InPool \cup {w})
        /\ Cardinality(InPool \cup {w}) = IF w \in InPool THEN i ELSE i + 1
    BY <2>1, FS_AddElement, Zenon
  <2>3. j \in Nat /\ j <= Cardinality(InPool \cup {w})
    BY <1>4, <2>2, FS_Subset, FS_CardinalityType, Zenon
  <2>. HIDE DEF i, j, w
  <2>. QED
    BY <2>1, <2>2, <2>3
<1>9. d \in Nat /\ d <= c - 1
  <2>1. IsFiniteSet(Creators) /\ c \in Nat
    BY <1>0, PoolCounts
  <2>2. IsFiniteSet(Creators \ {g}) /\ Cardinality(Creators \ {g}) = c - 1
    <3>1. /\ IsFiniteSet(Creators \ {g})
          /\ Cardinality(Creators \ {g}) = IF g \in Creators THEN c - 1 ELSE c
      BY <2>1, FS_RemoveElement, Zenon
    <3>. QED
      BY <1>5, <3>1, Zenon
  <2>3. d \in Nat /\ d <= Cardinality(Creators \ {g})
    BY <1>5, <2>2, FS_Subset, FS_CardinalityType, Zenon
  <2>. HIDE DEF c, d
  <2>. QED
    BY <2>1, <2>2, <2>3
<1>. HIDE DEF i, c, j, d, max, w
<1>10. j + d <= max
  BY <1>7, <1>8, <1>9
<1>. QED
  BY <1>2, <1>5, <1>6, <1>10, Zenon DEF Limited, j, d, max

\* The other steps of a sizer.
LEMMA SizerSteady ==
  ASSUME IndInv, Typed', Undisturbed, Calm, Limited, NEW g \in Gateways, SizerStep(g)
  PROVE  Calm' /\ Limited'
<1>. USE DEF work, sizing, upkeep, setup
<1>0. Typed /\ sizer[g].pc \notin {"assign", "occupy"}
  BY Zenon DEF IndInv, Limited
<1>1. UNCHANGED <<load, admin, mon, cfg>>
  BY ZenonT(60) DEF SizerStep, Tick, OccupyAvailableMachines, Assign, AssignDone, CreateJob, CreateRefused,
                    AddIndex, AddState
<1>2. ASSUME UNCHANGED state PROVE Calm'
  BY <1>1, <1>2, Zenon DEF Calm
<1>3. CASE Tick(g)
  <2>1. UNCHANGED state
    BY <1>3, Zenon DEF Tick
  <2>. QED
    BY <1>2, <1>3, <2>1, TickLimited
<1>4. CASE CreateJob(g) \/ AddIndex(g)
  <2>. DEFINE w == sizer[g].w
  <2>1. UNCHANGED state
    BY <1>4, Zenon DEF CreateJob, AddIndex
  <2>2. Creating(g) /\ w \in Workers /\ Unknown(w)
    BY <1>4, Zenon DEF IndInv, CreatingSafely, Creating, CreateJob, AddIndex
  <2>3. index' \in SUBSET (index \cup {w})
    BY <1>4, Zenon DEF CreateJob, AddIndex
  <2>4. InPool' \in SUBSET InPool
    BY <2>1, <2>2, <2>3, Zenon DEF InPool, Found, Unknown
  <2>5. PICK p \in {"index", "state"} : sizer' = [sizer EXCEPT ![g].pc = p]
    BY <1>4 DEF CreateJob, AddIndex
  <2>6. sizer'[g].pc = p /\ \A q \in Gateways \ {g} : sizer'[q] = sizer[q]
    BY <1>0, <2>5 DEF Typed, Sizers
  <2>7. Creators' \in SUBSET Creators
    BY <2>2, <2>6, Zenon DEF Creators, Creating
  <2>8. \A q \in Gateways : sizer'[q].pc \notin {"assign", "occupy"}
    BY <2>6 DEF Limited
  <2>. QED
    BY <1>0, <1>1, <1>2, <2>1, <2>4, <2>7, <2>8, LimitedKept, Zenon
<1>5. CASE CreateRefused(g)
  <2>1. UNCHANGED <<state, index>> /\ sizer' = [sizer EXCEPT ![g] = Idle]
    BY <1>5, Zenon DEF CreateRefused, Undisturbed
  <2>2. sizer'[g].pc = "idle" /\ \A q \in Gateways \ {g} : sizer'[q] = sizer[q]
    BY <1>0, <2>1 DEF Typed, Idle
  <2>3. ~Creating(g)'
    BY <2>2 DEF Creating
  <2>4. Creators' \in SUBSET Creators
    BY <2>2, <2>3, Zenon DEF Creators, Creating
  <2>5. InPool' = InPool
    BY <2>1, Zenon DEF InPool, Found
  <2>6. \A q \in Gateways : sizer'[q].pc \notin {"assign", "occupy"}
    BY <2>2 DEF Limited
  <2>. QED
    BY <1>0, <1>1, <1>2, <2>1, <2>4, <2>5, <2>6, LimitedKept, Zenon
<1>6. CASE AddState(g)
  <2>1. \A w \in Workers : \/ state'[w] = state[w]
                           \/ state'[w] = [status |-> "pending", real |-> TRUE, free |-> TRUE,
                                           slow |-> FALSE]
    BY <1>0, <1>6, Zenon DEF AddState, Blank, Typed
  <2>2. Calm'
    BY <1>1, <2>1 DEF Calm
  <2>. QED
    BY <1>6, <2>2, AddStateLimited
<1>7. ~OccupyAvailableMachines(g) /\ ~AssignDone(g) /\ \A m \in Machines : ~Assign(g, m)
  <2>1. sizer[g].pc # "assign" /\ sizer[g].pc # "occupy"
    BY <1>0
  <2>. QED
    BY <2>1, Zenon DEF OccupyAvailableMachines, AssignDone, Assign
<1>. QED
  BY <1>3, <1>4, <1>5, <1>6, <1>7, Zenon DEF SizerStep

\* Every step keeps an undisturbed pool within its limit.
LEMMA StepSteady == IndInv /\ Steady /\ [Next]_vars => Steady'
<1>. SUFFICES ASSUME IndInv, Steady, [Next]_vars, Undisturbed' PROVE Calm' /\ Limited'
  BY Zenon DEF Steady
<1>0. Typed /\ Typed'
  BY StepIndInv DEF IndInv
<1>1. ASSUME NEW g \in Gateways, SizerStep(g) PROVE Calm' /\ Limited'
  <2>1. UNCHANGED cfg
    BY <1>1, ZenonT(60) DEF SizerStep, Tick, OccupyAvailableMachines, Assign, AssignDone, CreateJob,
                            CreateRefused, AddIndex, AddState, setup
  <2>2. Undisturbed
    BY <2>1, Zenon DEF Undisturbed
  <2>. QED
    BY <1>0, <1>1, <2>2, SizerSteady, Zenon DEF Steady
<1>2. CASE \A g \in Gateways : ~SizerStep(g)
  <2>1. Quiet
    BY <1>0, <1>2, StepIsQuiet
  <2>2. Undisturbed /\ UNCHANGED cfg
    BY <2>1, Zenon DEF Quiet, Undisturbed
  <2>3. Calm'
    BY <1>0, <1>2, <2>2, StepCalm, Zenon DEF Steady
  <2>4. InPool' \in SUBSET InPool
    BY <1>0, <2>1, Zenon DEF Quiet, InPool, Found, Unknown, Typed
  <2>5. Creators' \in SUBSET Creators /\ \A g \in Gateways : sizer'[g].pc \notin {"assign", "occupy"}
    BY <2>1, <2>2, Zenon DEF Quiet, Creators, Creating, Steady, Limited
  <2>. QED
    BY <1>0, <2>2, <2>3, <2>4, <2>5, LimitedKept, Zenon DEF Steady
<1>. QED
  BY <1>1, <1>2

\* A new pool has no workers, and there is a gateway.
LEMMA InitSteady == Init => Steady
<1>. SUFFICES ASSUME Init PROVE Undisturbed => Calm /\ Limited
  BY Zenon DEF Steady
<1>0. Typed
  BY InitIndInv DEF IndInv
<1>1. InPool = {} /\ Creators = {}
  BY DEF Init, InPool, Found, Creators, Creating, Idle
<1>2. Cardinality(InPool) = 0 /\ Cardinality(Creators) = 0
  BY <1>1, FS_EmptySet
<1>3. Limited
  BY <1>0, <1>1, <1>2, PoolCounts DEF Init, Limited, Idle
<1>4. Undisturbed => Calm
  BY DEF Init, Undisturbed, Calm
<1>. QED
  BY <1>3, <1>4

\* The sizers of any number of gateways, none of which sees what the others are creating, do
\* not give an undisturbed pool more than one worker each above its minimum.
THEOREM PoolOvershoot == Spec => []Overshoot
<1>1. IndInv /\ Steady => Overshoot
  <2>. SUFFICES ASSUME IndInv, Calm, Limited PROVE FreeCapacity <= cfg.min + Cardinality(cfg.up) - 1
    BY Zenon DEF Steady, Overshoot, Undisturbed
  <2>1. Typed
    BY DEF IndInv
  <2>2. FreeCapacity = Cardinality(InPool)
    BY <2>1, FreeIsInPool
  <2>. QED
    BY <2>1, <2>2, PoolCounts DEF Limited
<1>2. Init => IndInv /\ Steady
  BY InitIndInv, InitSteady
<1>3. IndInv /\ Steady /\ [Next]_vars => (IndInv /\ Steady)'
  BY StepIndInv, StepSteady
<1>. QED
  BY <1>1, <1>2, <1>3, PTL DEF Spec
=============================================================================
