----------------------- MODULE AutoscaledInstanceProofs -----------------------
(***************************************************************************)
(* A stub never has more containers than its limit, for any number of      *)
(* gateways, warm-ups and containers.  The lock alone does not show it:    *)
(* the invariant says what its holder may still start.                     *)
(***************************************************************************)
EXTENDS AutoscaledInstance, FiniteSetTheorems, SequenceTheorems, TLAPS

\* The instance lock is not lost under its holder, and no status is written late.
Sound == cfg.faults \cap {"lapse", "revive"} = {}

Active == {c \in Containers : status[c] \in {"PENDING", "RUNNING"}}

Handler == [pc : {"idle", "state", "start", "list", "filter", "stop", "release"},
            at : Gateways \cup {None}, n : Int, victims : SUBSET Containers,
            of : {"map", "active", "inactive"}]

\* No autoscaler asks for more than the limit.
Typed ==
  /\ cfg \in Configs
  /\ status \in [Containers -> Statuses \cup {None}]
  /\ h \in [Handlers -> Handler]
  /\ lock \in Handlers \cup {None}
  /\ scale \in [Gateways -> Seq(0 .. Limit)]
  /\ inst \in [Gateways -> {None, "live", "dead"}]
  /\ puts \in [Gateways -> BOOLEAN]
  /\ runner \in [Containers -> Runner]
  /\ queue \in Nat /\ retry \in Nat /\ lost \in Nat

\* Whoever is at a scaling event holds the lock.
Exclusive == \A x \in Handlers : h[x].pc # "idle" => lock = x

\* What a handler wants, and what it may still start beside the containers there are.
Bounded ==
  \A x \in Handlers : /\ h[x].pc = "state" => h[x].n <= Limit
                      /\ h[x].pc = "start" => h[x].n >= 1 /\ Cardinality(Active) + h[x].n <= Limit

IndInv ==
  /\ Typed
  /\ Sound => Exclusive /\ Bounded /\ Cardinality(Active) <= Limit

-----------------------------------------------------------------------------

\* The limit is positive, and the containers can be counted.
LEMMA Counting ==
  ASSUME Typed
  PROVE  /\ Limit \in Nat /\ Limit >= 1 /\ Limit >= cfg.max /\ Limit >= cfg.min
         /\ cfg.max \in Nat /\ cfg.min \in Nat
         /\ IsFiniteSet(Active) /\ Cardinality(Active) \in Nat
<1>1. IsFiniteSet(Active) /\ Cardinality(Active) \in Nat
  BY AutoscaleAssumption, FS_Subset, FS_CardinalityType DEF Active
<1>. QED
  BY <1>1, AutoscaleAssumption DEF Typed, Limit

\* What State() counts as pending and as running are the active containers.
LEMMA CurrentIsActive ==
  ASSUME Typed
  PROVE  Count("RUNNING") + Count("PENDING") = Cardinality(Active)
<1>. DEFINE R == {c \in Containers : status[c] = "RUNNING"}
            P == {c \in Containers : status[c] = "PENDING"}
<1>1. IsFiniteSet(R) /\ IsFiniteSet(P)
  BY AutoscaleAssumption, FS_Subset
<1>2. R \cup P = Active /\ R \cap P = {}
  BY DEF Active
<1>3. Cardinality(R \cup P) = Cardinality(R) + Cardinality(P) - Cardinality(R \cap P)
  BY <1>1, FS_Union
<1>4. Cardinality(R) \in Nat /\ Cardinality(P) \in Nat /\ Cardinality({}) = 0
  BY <1>1, FS_CardinalityType, FS_EmptySet
<1>5. Count("RUNNING") = Cardinality(R) /\ Count("PENDING") = Cardinality(P)
  BY DEF Count
<1>6. Cardinality(R \cup P) = Cardinality(Active) /\ Cardinality(R \cap P) = 0
  BY <1>2, <1>4, Zenon
<1>. QED
  BY <1>3, <1>4, <1>5, <1>6

\* An instance starts with no containers and nobody at work.
LEMMA InitIndInv == Init => IndInv
<1>. SUFFICES ASSUME Init PROVE IndInv
  OBVIOUS
<1>1. Typed
  BY AutoscaleAssumption DEF Init, Typed, Statuses, Handler, Handlers, Idle, Runner, Limit, Loaded
<1>2. Active = {}
  BY AutoscaleAssumption DEF Init, Active
<1>3. Cardinality(Active) = 0
  BY <1>2, FS_EmptySet
<1>. QED
  BY <1>1, <1>3, Counting DEF Init, IndInv, Exclusive, Bounded, Idle

-----------------------------------------------------------------------------
(* Steps that are not a handler's                                          *)

\* What the other steps leave alone.
Quiet ==
  /\ UNCHANGED <<cfg, lock>>
  /\ \A x \in Handlers : h'[x].pc = h[x].pc /\ h'[x].n = h[x].n
  /\ Sound => Active' \subseteq Active

\* Where containers only become fewer and the handlers rest, the invariant stays.
LEMMA QuietStep ==
  ASSUME IndInv, Typed', Quiet
  PROVE  IndInv'
<1>. SUFFICES ASSUME Sound' PROVE (Exclusive /\ Bounded /\ Cardinality(Active) <= Limit)'
  BY DEF IndInv
<1>1. Sound /\ Limit' = Limit
  BY DEF Quiet, Sound, Limit
<1>2. IsFiniteSet(Active) /\ Cardinality(Active) \in Nat /\ Limit \in Nat
  BY Counting DEF IndInv
<1>3. Cardinality(Active') \in Nat /\ Cardinality(Active') <= Cardinality(Active)
  BY <1>1, <1>2, FS_Subset, FS_CardinalityType, Zenon DEF Quiet
<1>4. Exclusive'
  BY <1>1, Zenon DEF Quiet, IndInv, Exclusive
<1>5. Bounded'
  <2>. SUFFICES ASSUME NEW x \in Handlers
                PROVE  /\ h[x].pc = "state" => h[x].n <= Limit
                       /\ h[x].pc = "start" => /\ h[x].n >= 1
                                               /\ Cardinality(Active)' + h[x].n <= Limit
    BY <1>1, Zenon DEF Quiet, Bounded
  <2>1. h[x].n \in Int
    BY DEF IndInv, Typed, Handler
  <2>. QED
    BY <1>1, <1>2, <1>3, <2>1, SMTT(60) DEF IndInv, Bounded
<1>. QED
  BY <1>1, <1>2, <1>3, <1>4, <1>5, SMTT(60) DEF IndInv

\* The autoscaler's answer is within the limit.
LEMMA DesiredBounded ==
  ASSUME Typed
  PROVE  DesiredContainers(TasksInFlight) \in 0 .. Limit
<1>1. TasksInFlight \in Nat
  <2>1. Cardinality(Holding) \in Nat /\ Cardinality({g \in Gateways : puts[g]}) \in Nat
    BY AutoscaleAssumption, FS_Subset, FS_CardinalityType, Zenon DEF Holding
  <2>. QED
    BY <2>1 DEF TasksInFlight, Typed
<1>2. cfg.per \in Nat \ {0}
  BY AutoscaleAssumption DEF Typed
<1>3. (TasksInFlight + cfg.per - 1) \div cfg.per \in Int
  BY <1>1, <1>2
<1>. QED
  BY <1>3, Counting DEF DesiredContainers

\* Getting or creating an instance keeps the types.
LEMMA GetOrCreateTyped ==
  ASSUME Typed, NEW g \in Gateways, GetOrCreate(g)
  PROVE  /\ inst' \in [Gateways -> {None, "live", "dead"}]
         /\ scale' \in [Gateways -> Seq(0 .. Limit)]
  BY ZenonT(60) DEF Typed, GetOrCreate, map

\* An instance is forgotten: what its handlers count stays.
LEMMA ForgetQuiet ==
  ASSUME Typed, NEW g \in Gateways, Forget(g)
  PROVE  Quiet /\ Typed'
<1>. DEFINE of(x) == IF isActive[g] THEN "active" ELSE "inactive"
            t(x) == IF h[x].at = g /\ h[x].of = "map" THEN [h[x] EXCEPT !.of = of(x)] ELSE h[x]
<1>1. /\ UNCHANGED <<cfg, lock, status, runner, puts, queue, retry, lost>>
      /\ inst' = [inst EXCEPT ![g] = None] /\ scale' = [scale EXCEPT ![g] = <<>>]
      /\ h' = [x \in Handlers |-> t(x)]
  BY Zenon DEF Forget, row, cont, tasks, setup
<1>2. ASSUME NEW x \in Handlers
      PROVE  t(x) \in Handler /\ t(x).pc = h[x].pc /\ t(x).n = h[x].n
  <2>1. h[x] \in Handler /\ of(x) \in {"map", "active", "inactive"}
    BY Zenon DEF Typed
  <2>. HIDE DEF of
  <2>2. /\ [h[x] EXCEPT !.of = of(x)] \in Handler
        /\ [h[x] EXCEPT !.of = of(x)].pc = h[x].pc
        /\ [h[x] EXCEPT !.of = of(x)].n = h[x].n
    BY <2>1, Zenon DEF Handler
  <2>. QED
    BY <2>1, <2>2, Zenon
<1>. HIDE DEF t
<1>3. Quiet /\ Limit' = Limit /\ h' \in [Handlers -> Handler]
  BY <1>1, <1>2, Zenon DEF Quiet, Active, Limit
<1>4. <<>> \in Seq(0 .. Limit)
  OBVIOUS
<1>. QED
  BY <1>1, <1>3, <1>4, Zenon DEF Typed

\* The steps of a gateway outside of scaling events are quiet.
LEMMA GatewayQuiet ==
  ASSUME IndInv, NEW g \in cfg.up,
         \/ GatewayStep(g) \/ ReloadLost(g) \/ PutIndex(g) \/ RetryTask(g)
  PROVE  Quiet /\ Typed'
<1>. g \in Gateways /\ Typed
  BY AutoscaleAssumption DEF IndInv, Typed
<1>. USE DEF row, map, scaling, cont, tasks, setup, Fault
<1>. DEFINE Kept == UNCHANGED <<cfg, h, lock, status, runner>>
<1>1. Kept => Quiet /\ Limit' = Limit
  BY DEF Quiet, Active, Limit
<1>2. CASE Forget(g)
  BY <1>2, ForgetQuiet, Zenon
<1>3. CASE Reload(g)
  BY <1>1, <1>3, GetOrCreateTyped, Zenon DEF Reload, Typed
<1>4. CASE Sample(g)
  <2>1. Append(scale[g], DesiredContainers(TasksInFlight)) \in Seq(0 .. Limit)
    BY DesiredBounded, SMTT(60) DEF Typed
  <2>. QED
    BY <1>1, <1>4, <2>1, Zenon DEF Sample, Typed
<1>5. CASE SkipEvent(g)
  <2>1. Tail(scale[g]) \in Seq(0 .. Limit)
    BY <1>5, SMTT(60) DEF SkipEvent, Typed
  <2>. QED
    BY <1>1, <1>5, <2>1, ZenonT(60) DEF SkipEvent, Typed
<1>6. CASE StopIgnoring(g)
  BY <1>1, <1>6, Zenon DEF StopIgnoring, Typed
<1>7. CASE ContainerEvent(g)
  BY <1>1, <1>7, GetOrCreateTyped, ZenonT(60) DEF ContainerEvent, Typed
<1>8. CASE PutPush(g)
  BY <1>1, <1>8, GetOrCreateTyped, SMTT(60) DEF PutPush, Typed
<1>9. CASE ReloadLost(g)
  BY <1>1, <1>9, Zenon DEF ReloadLost, Typed
<1>10. CASE PutIndex(g)
  BY <1>1, <1>10, GetOrCreateTyped, Zenon DEF PutIndex, Typed
<1>11. CASE RetryTask(g)
  BY <1>1, <1>11, GetOrCreateTyped, SMTT(60) DEF RetryTask, Typed
<1>. QED
  BY <1>2, <1>3, <1>4, <1>5, <1>6, <1>7, <1>8, <1>9, <1>10, <1>11, ZenonT(60) DEF GatewayStep

\* Containers start, end and work; none of it makes another container active, as long as
\* none is revived.
LEMMA ContainerQuiet ==
  ASSUME IndInv, NEW c \in Containers, ContainerStep(c) \/ ContainerFails(c) \/ Revive(c)
  PROVE  Quiet /\ Typed'
<1>. Typed
  BY DEF IndInv
<1>. USE DEF row, map, scaling, cont, tasks, setup, Fault, Statuses, Runner
<1>1. UNCHANGED cfg => Limit' = Limit
  BY Zenon DEF Limit
<1>2. CASE ContainerStarts(c)
  BY <1>1, <1>2, Zenon DEF ContainerStarts, Typed, Quiet, Active
<1>3. ASSUME Remove(c), UNCHANGED cfg PROVE Quiet /\ Typed'
  <2>1. /\ status' = [status EXCEPT ![c] = None] /\ runner' = [runner EXCEPT ![c] = "free"]
        /\ UNCHANGED <<h, lock, scale, inst, puts, queue>>
    BY <1>3, Zenon DEF Remove
  <2>2. retry' \in Nat /\ lost' \in Nat
    <3>1. (retry' = retry \/ retry' = retry + 1) /\ (lost' = lost \/ lost' = lost + 1)
      BY <1>3, Zenon DEF Remove
    <3>. QED
      BY <3>1 DEF Typed
  <2>3. Quiet
    BY <1>3, <2>1, AutoscaleAssumption, Zenon DEF Quiet, Active, Typed
  <2>. QED
    BY <1>1, <1>3, <2>1, <2>2, <2>3, Zenon DEF Typed
<1>4. CASE KeepWarmExpires(c)
  BY <1>1, <1>4, Zenon DEF KeepWarmExpires, Typed, Quiet, Active
<1>5. ASSUME NEW g \in cfg.up, TaskQueuePop(c, g) PROVE Quiet /\ Typed'
  <2>1. g \in Gateways
    BY AutoscaleAssumption, Zenon DEF Typed
  <2>2. UNCHANGED <<cfg, h, lock, status, puts, queue, retry, lost>> /\ GetOrCreate(g)
        /\ runner' \in [Containers -> Runner]
    BY <1>5, Zenon DEF TaskQueuePop, Typed
  <2>. QED
    BY <1>1, <2>1, <2>2, GetOrCreateTyped, Zenon DEF Typed, Quiet, Active
<1>6. CASE PopTask(c)
  BY <1>1, <1>6, SMTT(60) DEF PopTask, Typed, Quiet, Active
<1>7. CASE ClaimTask(c)
  BY <1>1, <1>7, Zenon DEF ClaimTask, Typed, Quiet, Active
<1>8. CASE CompleteTask(c)
  BY <1>1, <1>8, Zenon DEF CompleteTask, Typed, Quiet, Active
<1>9. CASE ContainerGone(c) \/ ContainerFails(c) \/ RunnerExits(c)
  BY <1>3, <1>9, Zenon DEF ContainerGone, ContainerFails, RunnerExits
<1>10. CASE Revive(c)
  BY <1>1, <1>10, Zenon DEF Revive, Typed, Quiet, Sound
<1>. QED
  BY <1>2, <1>4, <1>5, <1>6, <1>7, <1>8, <1>9, <1>10, ZenonT(60) DEF ContainerStep

\* Users stop and start the deployment, exit codes are forgotten, and tasks expire.
LEMMA UserQuiet ==
  ASSUME IndInv,
         \/ ExitCodeExpires \/ StopContainers \/ DisableDeployment \/ StartDeployment
         \/ SendReload \/ TaskExpires
  PROVE  Quiet /\ Typed'
<1>. Typed
  BY DEF IndInv
<1>. USE DEF row, map, scaling, cont, tasks, setup
<1>1. UNCHANGED cfg => Limit' = Limit
  BY Zenon DEF Limit
<1>2. CASE ExitCodeExpires
  BY <1>1, <1>2, Zenon DEF ExitCodeExpires, Typed, Quiet, Active
<1>3. CASE StopContainers
  BY <1>1, <1>3, Zenon DEF StopContainers, Stopped, Statuses, Typed, Quiet, Active
<1>4. CASE DisableDeployment
  BY <1>1, <1>4, Zenon DEF DisableDeployment, Typed, Quiet, Active
<1>5. CASE StartDeployment
  BY <1>1, <1>5, Zenon DEF StartDeployment, Typed, Quiet, Active
<1>6. CASE SendReload
  BY <1>1, <1>6, Zenon DEF SendReload, Typed, Quiet, Active
<1>7. CASE TaskExpires
  <2>1. lost' \in Nat
    BY <1>7 DEF TaskExpires, Typed
  <2>. QED
    BY <1>1, <1>7, <2>1, Zenon DEF TaskExpires, Typed, Quiet, Active
<1>. QED
  BY <1>2, <1>3, <1>4, <1>5, <1>6, <1>7, Zenon

-----------------------------------------------------------------------------
(* The steps of a handler                                                  *)

\* Two handlers are not at work at once, as both would hold the lock.
LEMMA Alone ==
  ASSUME IndInv, Sound, NEW x \in Handlers, h[x].pc # "idle" \/ lock = None
  PROVE  \A y \in Handlers \ {x} : h[y].pc = "idle"
<1>1. None \notin Handlers
  BY AutoscaleAssumption DEF Handlers
<1>. QED
  BY <1>1, Zenon DEF IndInv, Exclusive

\* A handler that starts with what an autoscaler or a warm-up wants.
LEMMA AcquireStep ==
  ASSUME IndInv, Typed', UNCHANGED <<cfg, status>>,
         NEW x \in Handlers, NEW g, NEW n \in 0 .. Limit, Acquire(x, g, n)
  PROVE  IndInv'
<1>. SUFFICES ASSUME Sound' PROVE (Exclusive /\ Bounded /\ Cardinality(Active) <= Limit)'
  BY Zenon DEF IndInv
<1>1. Sound /\ Limit' = Limit /\ Active' = Active
  BY Zenon DEF Sound, Limit, Active
<1>2. \A y \in Handlers \ {x} : h[y].pc = "idle" /\ h'[y] = h[y]
  BY <1>1, Alone, Zenon DEF Acquire, IndInv, Typed
<1>3. h'[x].pc = "state" /\ h'[x].n = n /\ lock' = x
  BY Zenon DEF Acquire, IndInv, Typed
<1>4. Exclusive'
  BY <1>2, <1>3, Zenon DEF Exclusive
<1>5. Bounded'
  BY <1>1, <1>2, <1>3, Counting, SMTT(60) DEF Bounded, IndInv
<1>. QED
  BY <1>1, <1>4, <1>5, Zenon DEF IndInv

\* The monitor takes an event of its autoscaler.
LEMMA TakeEventStep ==
  ASSUME IndInv, NEW g \in cfg.up, TakeEvent(g)
  PROVE  IndInv'
<1>. g \in Gateways /\ g \in Handlers /\ Typed
  BY AutoscaleAssumption DEF IndInv, Typed, Handlers
<1>. USE DEF row, map, scaling, cont, tasks, setup
<1>1. Head(scale[g]) \in 0 .. Limit /\ Tail(scale[g]) \in Seq(0 .. Limit)
  <2>1. scale[g] \in Seq(0 .. Limit) /\ scale[g] # <<>>
    BY Zenon DEF TakeEvent, Typed
  <2>. QED
    BY <2>1, HeadTailProperties, ZenonT(60)
<1>2. Limit' = Limit
  BY Zenon DEF TakeEvent, Limit
<1>3. [pc |-> "state", at |-> g, n |-> Head(scale[g]), victims |-> {}, of |-> "map"] \in Handler
  BY <1>1, SMTT(60) DEF Handler
<1>4. Typed'
  BY <1>1, <1>2, <1>3, Zenon DEF TakeEvent, Acquire, Typed
<1>. QED
  BY <1>1, <1>4, AcquireStep, Zenon DEF TakeEvent

\* A warm-up wants one container.
LEMMA WarmupStep ==
  ASSUME IndInv, NEW w \in Warmups, NEW g \in cfg.up, Warmup(w, g)
  PROVE  IndInv'
<1>. g \in Gateways /\ w \in Handlers /\ Typed
  BY AutoscaleAssumption, Zenon DEF IndInv, Typed, Handlers
<1>. USE DEF row, map, scaling, cont, tasks, setup
<1>1. Limit' = Limit /\ 1 \in 0 .. Limit
  BY Counting, SMTT(60) DEF Warmup, Limit
<1>2. [pc |-> "state", at |-> g, n |-> 1, victims |-> {}, of |-> "map"] \in Handler
  BY SMTT(60) DEF Handler
<1>3. GetOrCreate(g) /\ UNCHANGED <<cfg, status, runner, queue, puts, retry, lost>>
  BY Zenon DEF Warmup
<1>4. CASE Acquire(w, g, 1)
  <2>1. Typed'
    BY <1>1, <1>2, <1>3, <1>4, GetOrCreateTyped, ZenonT(60) DEF Acquire, Typed
  <2>. QED
    BY <1>1, <1>3, <1>4, <2>1, AcquireStep, ZenonT(60)
<1>5. CASE UNCHANGED <<h, lock>>
  <2>1. Typed'
    BY <1>1, <1>3, <1>5, GetOrCreateTyped, ZenonT(60) DEF Typed
  <2>2. Quiet
    BY <1>3, <1>5, Zenon DEF Quiet, Active
  <2>. QED
    BY <2>1, <2>2, QuietStep, Zenon
<1>. QED
  BY <1>4, <1>5, Zenon DEF Warmup

\* A handler that neither reads the state nor starts a container.
LEMMA OtherwiseStep ==
  ASSUME IndInv, Typed', UNCHANGED <<cfg, lock>>, Sound => Active' \subseteq Active,
         NEW x \in Handlers, h[x].pc # "idle",
         NEW t, h' = [h EXCEPT ![x] = t], t.pc \notin {"state", "start"}
  PROVE  IndInv'
<1>. SUFFICES ASSUME Sound' PROVE (Exclusive /\ Bounded /\ Cardinality(Active) <= Limit)'
  BY Zenon DEF IndInv
<1>1. Sound /\ Limit' = Limit
  BY DEF Sound, Limit
<1>2. IsFiniteSet(Active) /\ Cardinality(Active) \in Nat /\ Limit \in Nat
  BY Counting, Zenon DEF IndInv
<1>3. Cardinality(Active') \in Nat /\ Cardinality(Active') <= Cardinality(Active)
  BY <1>1, <1>2, FS_Subset, FS_CardinalityType, ZenonT(60)
<1>4. h'[x] = t /\ \A y \in Handlers \ {x} : h[y].pc = "idle" /\ h'[y] = h[y]
  BY <1>1, Alone, Zenon DEF IndInv, Typed
<1>5. Exclusive'
  BY <1>1, <1>4, Zenon DEF IndInv, Exclusive
<1>6. Bounded'
  BY <1>4, Zenon DEF Bounded
<1>. QED
  BY <1>1, <1>2, <1>3, <1>5, <1>6, SMTT(60) DEF IndInv

\* HandleScalingEvent decides on the containers there are: it starts what is missing.
LEMMA ReadStateStep ==
  ASSUME IndInv, NEW x \in Handlers, ReadState(x)
  PROVE  IndInv'
<1>. Typed
  BY DEF IndInv
<1>. DEFINE g == h[x].at
            current == Count("RUNNING") + Count("PENDING")
            desired == IF failed >= Threshold \/ ~IsActive(x) THEN 0 ELSE h[x].n
            cancel == Unneeded(desired)
            pc == IF ~cancel /\ desired > current THEN "start"
                  ELSE IF ~cancel /\ desired < current THEN "list" ELSE "release"
            n == IF pc = "start" THEN desired - current
                 ELSE IF pc = "list" THEN current - desired ELSE 0
            t == [h[x] EXCEPT !.pc = pc, !.n = n]
<1>1. /\ h[x].pc = "state" /\ h' = [h EXCEPT ![x] = t]
      /\ inst' = [inst EXCEPT ![g] = IF cancel /\ h[x].of = "map" THEN "dead" ELSE @]
      /\ UNCHANGED <<cfg, status, lock, scale, puts, runner, queue, retry, lost>>
  BY ZenonT(60) DEF ReadState, Decide, row, cont, tasks, setup
<1>2. Limit' = Limit /\ Active' = Active /\ current = Cardinality(Active) /\ current \in Nat
  BY <1>1, CurrentIsActive, Counting, Zenon DEF Limit, Active
<1>. HIDE DEF current
<1>3. desired \in Int /\ n \in Int /\ pc \in {"start", "list", "release"}
  BY <1>2 DEF Typed, Handler
<1>4. t \in Handler
  <2>1. h[x] \in Handler
    BY Zenon DEF Typed
  <2>. QED
    BY <1>3, <2>1, Zenon DEF Handler
<1>5. /\ t.pc = pc /\ t.n = n
      /\ pc = "start" => desired > current /\ n = desired - current
  <2>1. h[x] \in Handler
    BY DEF Typed
  <2>2. t.pc = pc /\ t.n = n
    BY <2>1, Zenon DEF Handler
  <2>. QED
    BY <2>2, Zenon
<1>6. Typed'
  BY <1>1, <1>2, <1>4, Zenon DEF Typed
<1>7. h[x].n <= Limit \/ ~Sound
  BY <1>1, Zenon DEF IndInv, Bounded
<1>8. desired <= Limit \/ ~Sound
  BY <1>7, Counting
<1>. HIDE DEF t, pc, n, desired
<1>9. CASE pc # "start"
  <2>1. t.pc \notin {"state", "start"} /\ h[x].pc # "idle" /\ Active' \subseteq Active
    BY <1>1, <1>2, <1>3, <1>5, <1>9, Zenon
  <2>. QED
    BY <1>1, <1>6, <2>1, OtherwiseStep, ZenonT(60)
<1>10. CASE pc = "start"
  <2>. SUFFICES ASSUME Sound' PROVE (Exclusive /\ Bounded /\ Cardinality(Active) <= Limit)'
    BY <1>6, Zenon DEF IndInv
  <2>1. Sound /\ h'[x] = t /\ lock = x
        /\ \A y \in Handlers \ {x} : h[y].pc = "idle" /\ h'[y] = h[y]
    BY <1>1, Alone, Zenon DEF IndInv, Typed, Sound, Exclusive
  <2>2. /\ h'[x].pc = "start" /\ h'[x].n >= 1
        /\ Cardinality(Active)' + h'[x].n <= Limit'
    BY <1>2, <1>3, <1>5, <1>8, <1>10, <2>1, Counting, SMTT(60)
  <2>3. Exclusive'
    BY <1>1, <2>1, Zenon DEF Exclusive
  <2>4. Bounded'
    BY <2>1, <2>2, Zenon DEF Bounded
  <2>. QED
    BY <1>2, <2>1, <2>3, <2>4, Zenon DEF IndInv
<1>. QED
  BY <1>9, <1>10, Zenon

\* startContainers: one more container, one less to start.
LEMMA StartContainerStep ==
  ASSUME IndInv, NEW x \in Handlers, NEW c \in Containers, StartContainer(x, c)
  PROVE  IndInv'
<1>. Typed
  BY DEF IndInv
<1>. DEFINE t == [h[x] EXCEPT !.n = @ - 1, !.pc = IF h[x].n = 1 THEN "release" ELSE @]
<1>1. /\ h[x].pc = "start" /\ status[c] = None /\ h' = [h EXCEPT ![x] = t]
      /\ status' = [status EXCEPT ![c] = "PENDING"]
      /\ UNCHANGED <<cfg, lock, scale, inst, puts, runner, queue, retry, lost>>
  BY Zenon DEF StartContainer, row, map, tasks, setup
<1>2. Limit' = Limit
  BY <1>1, Zenon DEF Limit
<1>3. Active' = Active \cup {c} /\ c \notin Active
  BY <1>1, AutoscaleAssumption DEF Active, Typed
<1>4. Cardinality(Active') = Cardinality(Active) + 1 /\ Cardinality(Active) \in Nat
  BY <1>3, Counting, FS_AddElement, ZenonT(60)
<1>5. t \in Handler
  <2>1. h[x] \in Handler
    BY Zenon DEF Typed
  <2>2. h[x].n - 1 \in Int
    BY <2>1 DEF Handler
  <2>. QED
    BY <2>1, <2>2, Zenon DEF Handler
<1>6. Typed'
  BY <1>1, <1>2, <1>5, Zenon DEF Typed, Statuses
<1>. SUFFICES ASSUME Sound' PROVE (Exclusive /\ Bounded /\ Cardinality(Active) <= Limit)'
  BY <1>6, Zenon DEF IndInv
<1>7. Sound /\ h'[x] = t /\ lock = x
      /\ \A y \in Handlers \ {x} : h[y].pc = "idle" /\ h'[y] = h[y]
  BY <1>1, Alone, Zenon DEF IndInv, Typed, Sound, Exclusive
<1>8. /\ h[x].n \in Int /\ t.n = h[x].n - 1 /\ t.pc \in {"start", "release"}
      /\ h[x].n >= 1 /\ Cardinality(Active) + h[x].n <= Limit
      /\ t.pc = "start" => t.n >= 1
  BY <1>1, <1>7, SMTT(60) DEF IndInv, Bounded, Typed, Handler
<1>. HIDE DEF t
<1>9. Exclusive'
  BY <1>1, <1>7, Zenon DEF Exclusive
<1>10. Bounded'
  BY <1>2, <1>4, <1>7, <1>8, Counting, SMTT(60) DEF Bounded
<1>. QED
  BY <1>2, <1>4, <1>8, <1>9, <1>10, Counting, SMTT(60)

\* The other steps of a handler: listing, filtering and stopping, refusals, and the release.
LEMMA HandlerStep ==
  ASSUME IndInv, NEW x \in Handlers,
         \/ ListContainers(x) \/ FilterContainers(x) \/ StopContainer(x)
         \/ StartRefused(x) \/ StopRefused(x)
  PROVE  IndInv'
<1>. Typed /\ h[x] \in Handler
  BY Zenon DEF IndInv, Typed
<1>. USE DEF row, map, scaling, cont, tasks, setup, Fault
<1>1. UNCHANGED cfg => Limit' = Limit
  BY DEF Limit
<1>2. ASSUME NEW t \in Handler, h' = [h EXCEPT ![x] = t], t.pc \notin {"state", "start"},
             h[x].pc # "idle", UNCHANGED <<cfg, lock, scale, inst, puts, runner, queue, retry, lost>>,
             status' = status \/ \E c \in Containers : status' = Stopped({c})
      PROVE  IndInv'
  <2>1. Active' \subseteq Active /\ status' \in [Containers -> Statuses \cup {None}]
    BY <1>2, Zenon DEF Active, Stopped, Typed, Statuses
  <2>2. Typed'
    BY <1>1, <1>2, <2>1, Zenon DEF Typed
  <2>. QED
    BY <1>2, <2>1, <2>2, OtherwiseStep, ZenonT(60)
<1>3. CASE ListContainers(x)
  <2>. DEFINE v == {c \in Containers : /\ status[c] = "RUNNING"
                                       /\ IsActive(x) => c \notin warm}
              t == [h[x] EXCEPT !.pc = "filter", !.victims = v]
  <2>1. t \in Handler /\ t.pc = "filter"
    BY Zenon DEF Handler
  <2>2. h' = [h EXCEPT ![x] = t] /\ h[x].pc = "list"
        /\ UNCHANGED <<cfg, lock, scale, inst, puts, runner, queue, retry, lost, status>>
    BY <1>3, ZenonT(60) DEF ListContainers
  <2>. QED
    BY <1>2, <2>1, <2>2, Zenon
<1>4. CASE FilterContainers(x)
  <2>. DEFINE v == {c \in h[x].victims : IsActive(x) => runner[c] = "free"}
              t == [h[x] EXCEPT !.pc = "stop", !.victims = v]
  <2>1. t \in Handler /\ t.pc = "stop"
    BY Zenon DEF Handler
  <2>2. h' = [h EXCEPT ![x] = t] /\ h[x].pc = "filter"
        /\ UNCHANGED <<cfg, lock, scale, inst, puts, runner, queue, retry, lost, status>>
    BY <1>4, Zenon DEF FilterContainers
  <2>. QED
    BY <1>2, <2>1, <2>2, Zenon
<1>5. ASSUME h' = [h EXCEPT ![x].pc = "release", ![x].victims = {}], h[x].pc = "stop",
             UNCHANGED <<cfg, lock, scale, inst, puts, runner, queue, retry, lost, status>>
      PROVE  IndInv'
  <2>. DEFINE t == [h[x] EXCEPT !.pc = "release", !.victims = {}]
  <2>1. t \in Handler /\ t.pc = "release"
    BY Zenon DEF Handler
  <2>2. h' = [h EXCEPT ![x] = t]
    BY <1>5, Zenon
  <2>. QED
    BY <1>2, <1>5, <2>1, <2>2, Zenon
<1>6. CASE StopContainer(x)
  <2>1. CASE h' = [h EXCEPT ![x].pc = "release", ![x].victims = {}] /\ UNCHANGED status
    BY <1>5, <1>6, <2>1, Zenon DEF StopContainer
  <2>2. ASSUME NEW c \in h[x].victims, status' = Stopped({c}),
               h' = [h EXCEPT ![x].n = @ - 1, ![x].victims = @ \ {c}]
        PROVE  IndInv'
    <3>. DEFINE t == [h[x] EXCEPT !.n = @ - 1, !.victims = @ \ {c}]
    <3>1. h[x].n - 1 \in Int /\ c \in Containers
      BY DEF Handler
    <3>2. t \in Handler /\ t.pc = h[x].pc
      BY <3>1, Zenon DEF Handler
    <3>3. h' = [h EXCEPT ![x] = t] /\ h[x].pc = "stop"
          /\ UNCHANGED <<cfg, lock, scale, inst, puts, runner, queue, retry, lost>>
      BY <1>6, <2>2, Zenon DEF StopContainer
    <3>. QED
      BY <1>2, <2>2, <3>1, <3>2, <3>3, ZenonT(60)
  <2>. QED
    BY <1>6, <2>1, <2>2, ZenonT(60) DEF StopContainer
<1>7. CASE StopRefused(x)
  BY <1>5, <1>7, Zenon DEF StopRefused
<1>8. CASE StartRefused(x)
  <2>. DEFINE t == [h[x] EXCEPT !.pc = "release"]
  <2>1. t \in Handler /\ t.pc = "release"
    BY Zenon DEF Handler
  <2>2. h' = [h EXCEPT ![x] = t] /\ h[x].pc = "start"
        /\ UNCHANGED <<cfg, lock, scale, inst, puts, runner, queue, retry, lost, status>>
    BY <1>8, Zenon DEF StartRefused
  <2>. QED
    BY <1>2, <2>1, <2>2, ZenonT(60)
<1>. QED
  BY <1>3, <1>4, <1>6, <1>7, <1>8, ZenonT(60)

\* The lock is released or expires, or its holder's gateway crashes.
LEMMA LockStep ==
  ASSUME IndInv,
         \/ \E x \in Handlers : Release(x)
         \/ LockExpires
         \/ \E g \in cfg.up : Crash(g)
  PROVE  IndInv'
<1>. Typed
  BY Zenon DEF IndInv
<1>. USE DEF row, map, scaling, cont, tasks, setup, Fault
<1>1. Idle \in Handler /\ Idle.pc = "idle"
  BY SMTT(60) DEF Idle, Handler
<1>2. UNCHANGED cfg => Limit' = Limit
  BY Zenon DEF Limit
<1>3. ASSUME UNCHANGED <<cfg, status>>, Typed',
             \A y \in Handlers : h'[y] = h[y] \/ h'[y] = Idle, Sound => Exclusive'
      PROVE  IndInv'
  <2>1. Sound' = Sound /\ Active' = Active /\ Limit' = Limit
    BY <1>2, <1>3, Zenon DEF Sound, Active
  <2>2. Sound => Bounded'
    BY <1>1, <1>3, <2>1, Zenon DEF IndInv, Bounded
  <2>. QED
    BY <1>3, <2>1, <2>2, Zenon DEF IndInv
<1>4. ASSUME NEW x \in Handlers, Release(x) PROVE IndInv'
  <2>1. Typed' /\ \A y \in Handlers : h'[y] = IF y = x THEN Idle ELSE h[y]
    BY <1>1, <1>2, <1>4, Zenon DEF Release, Typed
  <2>2. Sound => Exclusive'
    BY <1>1, <1>4, <2>1, Zenon DEF Release, IndInv, Exclusive
  <2>. QED
    BY <1>3, <1>4, <2>1, <2>2, Zenon DEF Release
<1>5. CASE LockExpires
  <2>1. Typed'
    BY <1>2, <1>5, Zenon DEF LockExpires, Typed
  <2>2. Sound => Exclusive'
    BY <1>1, <1>5, ZenonT(60) DEF LockExpires, IndInv, Exclusive, Sound
  <2>. QED
    BY <1>3, <1>5, <2>1, <2>2, Zenon DEF LockExpires
<1>6. ASSUME NEW g \in cfg.up, Crash(g) PROVE IndInv'
  <2>1. /\ UNCHANGED <<cfg, status, lock, queue, retry>>
        /\ inst' = [inst EXCEPT ![g] = Loaded] /\ puts' = [puts EXCEPT ![g] = FALSE]
        /\ scale' = [scale EXCEPT ![g] = <<>>]
        /\ h' = [x \in Handlers |-> IF x = g \/ h[x].at = g THEN Idle ELSE h[x]]
    BY <1>6, Zenon DEF Crash
  <2>2. <<>> \in Seq(0 .. Limit) /\ Loaded \in {None, "live", "dead"}
    BY DEF Loaded
  <2>3. PICK pops \in SUBSET Containers :
          /\ runner' = [c \in Containers |-> IF c \in pops THEN "broken" ELSE runner[c]]
          /\ lost' = lost + Cardinality({c \in pops : runner[c] = "popped"})
                          + (IF puts[g] THEN 1 ELSE 0)
    BY <1>6, Zenon DEF Crash
  <2>4. Cardinality({c \in pops : runner[c] = "popped"}) \in Nat
    BY AutoscaleAssumption, FS_Subset, FS_CardinalityType, Zenon
  <2>5. lost' \in Nat
    BY <2>3, <2>4 DEF Typed
  <2>6. runner' \in [Containers -> Runner]
    BY <2>3, Zenon DEF Typed, Runner
  <2>7. Typed'
    BY <1>1, <1>2, <2>1, <2>2, <2>5, <2>6, ZenonT(60) DEF Typed
  <2>8. Sound => Exclusive'
    BY <1>1, <2>1, Zenon DEF IndInv, Exclusive
  <2>. QED
    BY <1>3, <2>1, <2>7, <2>8, ZenonT(60)
<1>. QED
  BY <1>4, <1>5, <1>6, Zenon

-----------------------------------------------------------------------------

\* Every step keeps the invariant.
LEMMA StepIndInv == IndInv /\ [Next]_vars => IndInv'
<1>. SUFFICES ASSUME IndInv, [Next]_vars PROVE IndInv'
  OBVIOUS
<1>1. CASE UNCHANGED vars
  BY <1>1, ZenonT(60) DEF vars, IndInv, Typed, Sound, Exclusive, Bounded, Active, Limit
<1>2. ASSUME NEW x \in Handlers, Handle(x) \/ StartRefused(x) \/ StopRefused(x) PROVE IndInv'
  BY <1>2, ReadStateStep, StartContainerStep, HandlerStep, LockStep, ZenonT(60) DEF Handle
<1>3. ASSUME NEW c \in Containers, ContainerStep(c) \/ ContainerFails(c) \/ Revive(c)
      PROVE  IndInv'
  BY <1>3, ContainerQuiet, QuietStep, Zenon
<1>4. ASSUME NEW g \in cfg.up,
             GatewayStep(g) \/ TakeEvent(g) \/ ReloadLost(g) \/ PutIndex(g) \/ RetryTask(g) \/ Crash(g)
      PROVE  IndInv'
  BY <1>4, GatewayQuiet, QuietStep, TakeEventStep, LockStep, Zenon
<1>5. ASSUME NEW w \in Warmups, NEW g \in cfg.up, Warmup(w, g) PROVE IndInv'
  BY <1>5, WarmupStep, Zenon
<1>6. CASE LockExpires
  BY <1>6, LockStep, Zenon
<1>7. CASE \/ ExitCodeExpires \/ StopContainers \/ DisableDeployment \/ StartDeployment
            \/ SendReload \/ TaskExpires
  BY <1>7, UserQuiet, QuietStep, Zenon
<1>. QED
  BY <1>1, <1>2, <1>3, <1>4, <1>5, <1>6, <1>7, ZenonT(60) DEF Next

\* However many gateways and warm-ups call HandleScalingEvent at once, the stub has no more
\* containers pending or running than its limit.
THEOREM StubWithinMax == Spec => []WithinMax
<1>1. IndInv => WithinMax
  <2>. SUFFICES ASSUME IndInv, Sound PROVE Count("PENDING") + Count("RUNNING") <= Limit
    BY Zenon DEF WithinMax, Sound
  <2>1. Count("RUNNING") \in Nat /\ Count("PENDING") \in Nat
    BY AutoscaleAssumption, FS_Subset, FS_CardinalityType, Zenon DEF Count
  <2>. QED
    BY <2>1, CurrentIsActive DEF IndInv
<1>. QED
  BY <1>1, InitIndInv, StepIndInv, PTL, Zenon DEF Spec

-----------------------------------------------------------------------------
(* Types                                                                   *)

\* What Typed leaves out.
Rest ==
  /\ active \in BOOLEAN
  /\ reload \subseteq Gateways /\ noticed \subseteq Gateways /\ ignoring \subseteq Gateways
  /\ isActive \in [Gateways -> BOOLEAN]
  /\ warm \subseteq Containers
  /\ putCount \in Nat /\ failed \in Nat /\ faultCount \in Nat

\* A handler never starts or stops more containers than it has counted.
Counts ==
  \A x \in Handlers : /\ h[x].n >= 0
                      /\ h[x].pc = "start" => h[x].n >= 1

\* The events of a crashed gateway are lost, and none is sent to one that is not up.
LEMMA StepRest ==
  ASSUME Typed, Rest, [Next]_vars
  PROVE  Rest'
<1>0. cfg.up \subseteq Gateways
  BY AutoscaleAssumption DEF Typed
<1>. USE DEF row, map, scaling, cont, tasks, setup
<1>1. ASSUME NEW g \in Gateways, GetOrCreate(g)
      PROVE  isActive' \in [Gateways -> BOOLEAN] /\ ignoring' \subseteq Gateways
  BY <1>1 DEF GetOrCreate, Rest
<1>2. ASSUME NEW f, Fault(f) PROVE faultCount' \in Nat
  BY <1>2 DEF Fault, Rest
<1>3. ASSUME NEW x \in Handlers, Handle(x) \/ StartRefused(x) \/ StopRefused(x) PROVE Rest'
  <2>1. CASE ReadState(x) \/ ListContainers(x) \/ FilterContainers(x) \/ StopContainer(x) \/ Release(x)
    BY <2>1, Zenon DEF ReadState, Decide, ListContainers, FilterContainers, StopContainer, Release, Rest
  <2>2. ASSUME NEW c \in Containers, StartContainer(x, c) PROVE Rest'
    BY <2>2 DEF StartContainer, Rest
  <2>3. CASE StartRefused(x)
    BY <1>2, <2>3 DEF StartRefused, Rest
  <2>4. CASE StopRefused(x)
    BY <1>2, <2>4, Zenon DEF StopRefused, Rest
  <2>. QED
    BY <1>3, <2>1, <2>2, <2>3, <2>4, Zenon DEF Handle
<1>4. ASSUME NEW c \in Containers, ContainerStep(c) \/ ContainerFails(c) \/ Revive(c) PROVE Rest'
  <2>0. ASSUME NEW g \in cfg.up, TaskQueuePop(c, g) PROVE Rest'
    <3>1. UNCHANGED <<active, warm, failed, faultCount, reload, noticed, putCount>> /\ GetOrCreate(g)
      BY <2>0, Zenon DEF TaskQueuePop
    <3>. QED
      BY <1>0, <1>1, <3>1, Zenon DEF Rest
  <2>1. CASE ContainerStarts(c) \/ PopTask(c) \/ ClaimTask(c)
    BY <2>1, Zenon DEF ContainerStarts, PopTask, ClaimTask, Rest
  <2>2. CASE KeepWarmExpires(c) \/ CompleteTask(c)
    BY <2>2 DEF KeepWarmExpires, CompleteTask, Rest
  <2>3. ASSUME Remove(c), failed' \in {failed, failed + 1}, faultCount' \in Nat PROVE Rest'
    <3>1. UNCHANGED <<active, reload, ignoring, isActive, putCount>> /\ noticed' = cfg.up
          /\ warm' = warm \ {c}
      BY <2>3, Zenon DEF Remove
    <3>. QED
      BY <1>0, <2>3, <3>1 DEF Rest
  <2>4. CASE ContainerGone(c) \/ ContainerFails(c) \/ RunnerExits(c)
    <3>1. Remove(c) /\ failed' \in {failed, failed + 1}
      BY <2>4, Zenon DEF ContainerGone, ContainerFails, RunnerExits
    <3>2. faultCount' \in Nat
      BY <1>2, <2>4, Zenon DEF ContainerGone, ContainerFails, RunnerExits, Rest
    <3>. QED
      BY <2>3, <3>1, <3>2, Zenon
  <2>5. CASE Revive(c)
    BY <1>2, <2>5, Zenon DEF Revive, Rest
  <2>. QED
    BY <1>4, <2>0, <2>1, <2>2, <2>4, <2>5, Zenon DEF ContainerStep
<1>5. ASSUME NEW g \in cfg.up,
             GatewayStep(g) \/ TakeEvent(g) \/ ReloadLost(g) \/ PutIndex(g) \/ RetryTask(g)
      PROVE  Rest'
  <2>0. g \in Gateways
    BY <1>0
  <2>1. CASE Sample(g) \/ SkipEvent(g) \/ TakeEvent(g)
    BY <2>1, Zenon DEF Sample, SkipEvent, TakeEvent, Rest
  <2>2. CASE Reload(g)
    <3>1. isActive' \in [Gateways -> BOOLEAN] /\ ignoring' \subseteq Gateways
      <4>1. CASE inst[g] = None
        BY <1>1, <2>0, <2>2, <4>1 DEF Reload
      <4>2. CASE inst[g] # None
        BY <2>0, <2>2, <4>2 DEF Reload, Rest
      <4>. QED
        BY <4>1, <4>2
    <3>2. UNCHANGED <<active, warm, putCount, failed, faultCount, noticed>> /\ reload' = reload \ {g}
      BY <2>2, Zenon DEF Reload
    <3>. QED
      BY <3>1, <3>2 DEF Rest
  <2>3. CASE StopIgnoring(g) \/ ReloadLost(g)
    BY <1>2, <2>3 DEF StopIgnoring, ReloadLost, Rest
  <2>4. CASE ContainerEvent(g)
    <3>1. UNCHANGED <<active, warm, putCount, failed, faultCount, reload>> /\ noticed' = noticed \ {g}
      BY <2>4, Zenon DEF ContainerEvent
    <3>. QED
      BY <1>1, <2>0, <2>4, <3>1 DEF ContainerEvent, Rest
  <2>5. CASE PutPush(g) \/ PutIndex(g) \/ RetryTask(g)
    <3>1. UNCHANGED <<active, warm, failed, faultCount, reload, noticed>> /\ GetOrCreate(g)
          /\ putCount' \in {putCount, putCount + 1}
      BY <2>5 DEF PutPush, PutIndex, RetryTask
    <3>. QED
      BY <1>1, <2>0, <3>1 DEF Rest
  <2>6. CASE Forget(g)
    BY <2>0, <2>6, Zenon DEF Forget, Rest
  <2>. QED
    BY <1>5, <2>1, <2>2, <2>3, <2>4, <2>5, <2>6, Zenon DEF GatewayStep
<1>6. ASSUME NEW g \in cfg.up, Crash(g) PROVE Rest'
  BY <1>0, <1>2, <1>6 DEF Crash, Rest
<1>7. ASSUME NEW w \in Warmups, NEW g \in cfg.up, Warmup(w, g) PROVE Rest'
  <2>1. UNCHANGED <<active, warm, failed, faultCount, reload, noticed>> /\ GetOrCreate(g)
        /\ putCount' = putCount + 1
    BY <1>7, Zenon DEF Warmup
  <2>. QED
    BY <1>0, <1>1, <2>1 DEF Rest
<1>8. CASE LockExpires
  BY <1>2, <1>8, Zenon DEF LockExpires, Rest
<1>9. CASE ExitCodeExpires \/ StopContainers \/ DisableDeployment \/ StartDeployment \/ TaskExpires
  <2>1. CASE ExitCodeExpires
    <3>1. failed' \in Nat
      BY <2>1 DEF ExitCodeExpires, Rest
    <3>. QED
      BY <2>1, <3>1, Zenon DEF ExitCodeExpires, Rest
  <2>2. CASE StopContainers \/ DisableDeployment \/ StartDeployment \/ TaskExpires
    BY <2>2, Zenon DEF StopContainers, DisableDeployment, StartDeployment, TaskExpires, Rest
  <2>. QED
    BY <1>9, <2>1, <2>2
<1>10. CASE SendReload
  BY <1>0, <1>10, Zenon DEF SendReload, Rest
<1>11. CASE UNCHANGED vars
  BY <1>11, Zenon DEF vars, Rest
<1>. QED
  BY <1>3, <1>4, <1>5, <1>6, <1>7, <1>8, <1>9, <1>10, <1>11, Zenon DEF Next

\* The number a handler counts down is never below zero, although other handlers, after
\* the lock has lapsed, start and stop the same containers.
LEMMA StepCounts ==
  ASSUME Typed, Counts, [Next]_vars
  PROVE  Counts'
<1>0. h \in [Handlers -> Handler] /\ \A x \in Handlers : h[x].n \in Int
  BY DEF Typed, Handler
<1>. USE DEF row, map, scaling, cont, tasks, setup
<1>1. ASSUME UNCHANGED h PROVE Counts'
  BY <1>1, Zenon DEF Counts
<1>2. ASSUME NEW x \in Handlers, \A y \in Handlers \ {x} : h'[y] = h[y],
             h'[x].n >= 0, h'[x].pc = "start" => h'[x].n >= 1
      PROVE  Counts'
  BY <1>2, Zenon DEF Counts
<1>3. ASSUME NEW x \in Handlers, ReadState(x) PROVE Counts'
  <2>1. PICK current : Decide(x, current) /\ current \in Nat
    <3>1. Count("RUNNING") + Count("PENDING") \in Nat
      BY CurrentIsActive, Counting
    <3>. QED
      BY <1>3, <3>1 DEF ReadState
  <2>. DEFINE desired == IF failed >= Threshold \/ ~IsActive(x) THEN 0 ELSE h[x].n
              pc == IF ~Unneeded(desired) /\ desired > current THEN "start"
                    ELSE IF ~Unneeded(desired) /\ desired < current THEN "list" ELSE "release"
  <2>2. /\ desired \in Nat
        /\ pc = "start" => desired > current
        /\ pc = "list" => desired < current
        /\ h' = [h EXCEPT ![x].pc = pc,
                          ![x].n = IF pc = "start" THEN desired - current
                                   ELSE IF pc = "list" THEN current - desired ELSE 0]
    <3>1. h[x].n \in Nat
      BY <1>0 DEF Counts
    <3>2. desired \in Nat
      BY <3>1
    <3>3. (pc = "start" => desired > current) /\ (pc = "list" => desired < current)
      OBVIOUS
    <3>4. h' = [h EXCEPT ![x].pc = pc,
                         ![x].n = IF pc = "start" THEN desired - current
                                  ELSE IF pc = "list" THEN current - desired ELSE 0]
      BY <2>1, Zenon DEF Decide
    <3>. QED
      BY <3>2, <3>3, <3>4, Zenon
  <2>. HIDE DEF desired, pc
  <2>3. /\ \A y \in Handlers \ {x} : h'[y] = h[y]
        /\ h'[x].pc = pc
        /\ h'[x].n = IF pc = "start" THEN desired - current
                     ELSE IF pc = "list" THEN current - desired ELSE 0
    BY <1>0, <2>2 DEF Handler
  <2>4. h'[x].n >= 0 /\ (h'[x].pc = "start" => h'[x].n >= 1)
    BY <2>1, <2>2, <2>3
  <2>. QED
    BY <1>2, <2>3, <2>4
<1>4. ASSUME NEW x \in Handlers, NEW c \in Containers, StartContainer(x, c) PROVE Counts'
  <2>1. /\ h[x].pc = "start"
        /\ h' = [h EXCEPT ![x].n = @ - 1, ![x].pc = IF h[x].n = 1 THEN "release" ELSE @]
    BY <1>4 DEF StartContainer
  <2>2. h[x].n >= 1
    BY <2>1 DEF Counts
  <2>3. /\ \A y \in Handlers \ {x} : h'[y] = h[y]
        /\ h'[x].n = h[x].n - 1
        /\ h'[x].pc = IF h[x].n = 1 THEN "release" ELSE h[x].pc
    BY <1>0, <2>1 DEF Handler
  <2>. QED
    BY <1>0, <1>2, <2>1, <2>2, <2>3
<1>5. ASSUME NEW x \in Handlers, NEW p \in {"filter", "stop", "release"},
             \A y \in Handlers \ {x} : h'[y] = h[y], h'[x].pc = p,
             h'[x].n = h[x].n \/ (h[x].n > 0 /\ h'[x].n = h[x].n - 1)
      PROVE  Counts'
  <2>1. h'[x].n >= 0 /\ h'[x].pc # "start"
    BY <1>0, <1>5 DEF Counts
  <2>. QED
    BY <1>2, <1>5, <2>1
<1>6. ASSUME NEW x \in Handlers,
             ListContainers(x) \/ FilterContainers(x) \/ StartRefused(x) \/ StopRefused(x)
      PROVE  Counts'
  <2>1. PICK p \in {"filter", "stop", "release"} :
          h' = [h EXCEPT ![x].pc = p] \/ \E v : h' = [h EXCEPT ![x].pc = p, ![x].victims = v]
    BY <1>6 DEF ListContainers, FilterContainers, StartRefused, StopRefused
  <2>2. (\A y \in Handlers \ {x} : h'[y] = h[y]) /\ h'[x].pc = p /\ h'[x].n = h[x].n
    BY <1>0, <2>1 DEF Handler
  <2>. QED
    BY <1>5, <2>2
<1>7. ASSUME NEW x \in Handlers, StopContainer(x) PROVE Counts'
  <2>1. CASE h' = [h EXCEPT ![x].pc = "release", ![x].victims = {}]
    <3>1. (\A y \in Handlers \ {x} : h'[y] = h[y]) /\ h'[x].pc = "release" /\ h'[x].n = h[x].n
      BY <1>0, <2>1 DEF Handler
    <3>. QED
      BY <1>5, <3>1
  <2>2. ASSUME h[x].n > 0, NEW c, h' = [h EXCEPT ![x].n = @ - 1, ![x].victims = @ \ {c}] PROVE Counts'
    <3>1. h[x].pc = "stop"
      BY <1>7 DEF StopContainer
    <3>2. (\A y \in Handlers \ {x} : h'[y] = h[y]) /\ h'[x].pc = "stop" /\ h'[x].n = h[x].n - 1
      BY <1>0, <2>2, <3>1 DEF Handler
    <3>. QED
      BY <1>5, <2>2, <3>2, Zenon
  <2>. QED
    BY <1>7, <2>1, <2>2, Zenon DEF StopContainer
<1>8. ASSUME NEW x \in Handlers, Release(x) PROVE Counts'
  <2>1. (\A y \in Handlers \ {x} : h'[y] = h[y]) /\ h'[x] = Idle
    BY <1>0, <1>8 DEF Release
  <2>. QED
    BY <1>2, <2>1 DEF Idle
<1>9. ASSUME NEW x \in Handlers, NEW g, NEW n \in Nat, Acquire(x, g, n) PROVE Counts'
  <2>1. (\A y \in Handlers \ {x} : h'[y] = h[y]) /\ h'[x].n = n /\ h'[x].pc = "state"
    BY <1>0, <1>9 DEF Acquire
  <2>. QED
    BY <1>2, <2>1
<1>10. ASSUME NEW g \in cfg.up, TakeEvent(g) PROVE Counts'
  <2>1. g \in Gateways /\ g \in Handlers
    BY AutoscaleAssumption DEF Typed, Handlers
  <2>2. scale[g] \in Seq(0 .. Limit) /\ scale[g] # <<>> /\ Limit \in Nat
    BY <1>10, <2>1, Counting DEF TakeEvent, Typed
  <2>3. Head(scale[g]) \in Nat
    BY <2>2
  <2>. QED
    BY <1>9, <1>10, <2>1, <2>3 DEF TakeEvent
<1>11. ASSUME NEW w \in Warmups, NEW g \in cfg.up, Warmup(w, g) PROVE Counts'
  <2>1. w \in Handlers /\ 1 \in Nat
    BY DEF Handlers
  <2>. QED
    BY <1>1, <1>9, <1>11, <2>1, Zenon DEF Warmup
<1>12. ASSUME NEW g \in cfg.up, Crash(g) PROVE Counts'
  <2>1. \A x \in Handlers : h'[x] = h[x] \/ h'[x] = Idle
    BY <1>12, Zenon DEF Crash
  <2>. QED
    BY <2>1 DEF Counts, Idle
<1>13. ASSUME NEW c \in Containers, ContainerStep(c) \/ ContainerFails(c) \/ Revive(c) PROVE UNCHANGED h
  BY <1>13, Zenon DEF ContainerStep, ContainerStarts, ContainerGone, Remove, KeepWarmExpires, TaskQueuePop,
                      PopTask, ClaimTask, CompleteTask, ContainerFails, RunnerExits, Revive
<1>14. ASSUME NEW g \in cfg.up, GatewayStep(g) \/ ReloadLost(g) \/ PutIndex(g) \/ RetryTask(g)
       PROVE  UNCHANGED h \/ Forget(g)
  BY <1>14, Zenon DEF GatewayStep, Reload, Sample, SkipEvent, StopIgnoring, ContainerEvent, PutPush,
                      ReloadLost, PutIndex, RetryTask
<1>15. ASSUME LockExpires \/ ExitCodeExpires \/ StopContainers \/ DisableDeployment \/ StartDeployment
                \/ SendReload \/ TaskExpires \/ UNCHANGED vars
       PROVE  UNCHANGED h
  BY <1>15, Zenon DEF LockExpires, ExitCodeExpires, StopContainers, DisableDeployment, StartDeployment,
                      SendReload, TaskExpires, vars
<1>16. ASSUME NEW g \in cfg.up, Forget(g) PROVE Counts'
  <2>1. g \in Gateways
    BY AutoscaleAssumption, Zenon DEF Typed
  <2>2. Quiet
    BY <1>16, <2>1, ForgetQuiet, Zenon
  <2>. QED
    BY <2>2, Zenon DEF Quiet, Counts
<1>. QED
  BY <1>1, <1>3, <1>4, <1>6, <1>7, <1>8, <1>10, <1>11, <1>12, <1>13, <1>14, <1>15, <1>16, ZenonT(60)
  DEF Next, Handle

\* Rows, instances and handlers stay well formed, and the counts of HandleScalingEvent do
\* not go below zero, also when the lock lapses, statuses come late or gateways crash.
THEOREM AutoscaleTypeCorrect == Spec => []TypeOK
<1>1. Init => IndInv /\ Rest /\ Counts
  <2>1. Init => Rest
    BY DEF Init, Rest
  <2>2. Init => Counts
    BY DEF Init, Counts, Idle
  <2>. QED
    BY <2>1, <2>2, InitIndInv
<1>2. IndInv /\ Rest /\ Counts /\ [Next]_vars => (IndInv /\ Rest /\ Counts)'
  BY StepIndInv, StepRest, StepCounts DEF IndInv
<1>3. IndInv /\ Rest /\ Counts => TypeOK
  <2>. SUFFICES ASSUME Typed, Rest, Counts PROVE TypeOK
    BY DEF IndInv
  <2>1. scale \in [Gateways -> Seq(Nat)]
    <3>1. Limit \in Nat
      BY Counting
    <3>2. \A g \in Gateways : scale[g] \in Seq(Nat)
      BY <3>1 DEF Typed
    <3>. QED
      BY <3>2 DEF Typed
  <2>2. h \in [Handlers -> [pc : {"idle", "state", "start", "list", "filter", "stop", "release"},
                            at : Gateways \cup {None}, n : Nat, victims : SUBSET Containers,
                            of : {"map", "active", "inactive"}]]
    BY DEF Typed, Handler, Counts
  <2>. QED
    BY <2>1, <2>2 DEF Typed, Rest, TypeOK
<1>. QED
  BY <1>1, <1>2, <1>3, PTL DEF Spec
=============================================================================
