--------------------------- MODULE GpuAssignment ---------------------------
(***************************************************************************)
(* The GPUs of one worker.  The scheduler counts them (FreeGpuCount), the  *)
(* worker hands them out by index (ContainerNvidiaManager).  The two meet  *)
(* only through the life of a container: it is charged when it is placed,  *)
(* gets its devices in spawn, gives them back in clearContainer, and is    *)
(* credited when its completed request is processed.                       *)
(***************************************************************************)
EXTENDS Integers, FiniteSets

CONSTANTS
  Containers,
  Devices,     \* the indexes of the GPUs of the worker
  Demand       \* Demand[c]: GpuCount of the request

ASSUME GpuAssumption ==
  /\ Devices \subseteq Int /\ IsFiniteSet(Devices)
  /\ Demand \in [Containers -> Nat]

VARIABLES
  free,    \* FreeGpuCount
  phase,   \* phase[c]: see Phases
  mu,      \* who holds the mutex of the manager: at most one container
  seen,    \* seen[c]: currentAllocations of c's chooseDevices
  alloc    \* gpuAllocationMap

gpuVars == <<free, phase, mu, seen, alloc>>

(***************************************************************************)
(* waiting    not placed                                                   *)
(* placed     charged and sent to the worker                               *)
(* choosing   in chooseDevices, the allocations are read                   *)
(* running    has its devices                                              *)
(* short      too few devices were left, although all were listed          *)
(* over       spawn returns, finalizeContainer is due                      *)
(* cleared    the devices are unassigned, the completed request is queued  *)
(* done       credited                                                     *)
(***************************************************************************)
Phases == {"waiting", "placed", "choosing", "running", "short", "over", "cleared", "done"}

GpuInit ==
  /\ free = Cardinality(Devices)
  /\ phase = [c \in Containers |-> "waiting"]
  /\ mu = {}
  /\ seen = [c \in Containers |-> {}]
  /\ alloc = [c \in Containers |-> {}]

Go(c, p) == phase' = [phase EXCEPT ![c] = p]

-----------------------------------------------------------------------------

\* UpdateWorkerCapacity with RemoveCapacity, under the lock of the worker.
ChargeGpus(c) ==
  /\ phase[c] = "waiting"
  /\ Demand[c] <= free
  /\ free' = free - Demand[c]
  /\ Go(c, "placed")
  /\ UNCHANGED <<mu, seen, alloc>>

\* spawn fails on the way to AssignGPUDevices.
SpawnFails(c) ==
  /\ phase[c] = "placed"
  /\ Go(c, "over")
  /\ UNCHANGED <<free, mu, seen, alloc>>

Allocated == UNION {alloc[c] : c \in Containers}

\* Mutant: chooseDevices does not take the mutex.
ChooseReadsUnlocked(c) ==
  /\ phase[c] = "placed"
  /\ mu' = {c}
  /\ seen' = [seen EXCEPT ![c] = Allocated]
  /\ Go(c, "choosing")
  /\ UNCHANGED <<free, alloc>>

\* chooseDevices takes the mutex and reads the map, under the map's own lock.
ChooseReads(c) ==
  /\ phase[c] = "placed"
  /\ mu = {}
  /\ mu' = {c}
  /\ seen' = [seen EXCEPT ![c] = Allocated]
  /\ Go(c, "choosing")
  /\ UNCHANGED <<free, alloc>>

\* What AvailableGPUDevices may return: checkGPUExists may leave devices out.
Available == SUBSET Devices

Allocable(c, available) ==
  IF Cardinality(seen[c]) < Cardinality(available) THEN available \ seen[c] ELSE {}

\* The first n of S, by index.
First(n, S) == {d \in S : Cardinality({e \in S : e < d}) < n}

\* chooseDevices asks for the devices, sets the map and leaves the mutex.
ChooseSets(c, available) ==
  /\ phase[c] = "choosing"
  /\ Cardinality(Allocable(c, available)) >= Demand[c]
  /\ alloc' = [alloc EXCEPT ![c] = First(Demand[c], Allocable(c, available))]
  /\ mu' = mu \ {c}
  /\ Go(c, "running")
  /\ UNCHANGED <<free, seen>>

ChooseIsShort(c, available) ==
  /\ phase[c] = "choosing"
  /\ Cardinality(Allocable(c, available)) < Demand[c]
  /\ mu' = mu \ {c}
  /\ Go(c, IF available = Devices THEN "short" ELSE "over")
  /\ UNCHANGED <<free, seen, alloc>>

\* AvailableGPUDevices returns an error.
ChooseFails(c) ==
  /\ phase[c] = "choosing"
  /\ mu' = mu \ {c}
  /\ Go(c, "over")
  /\ UNCHANGED <<free, seen, alloc>>

\* The container exits or could not be started, and spawn returns.
Exit(c) ==
  /\ phase[c] \in {"running", "short"}
  /\ Go(c, "over")
  /\ UNCHANGED <<free, mu, seen, alloc>>

\* Mutant: the completed request is sent and the devices are kept.
UnassignForgets(c) ==
  /\ phase[c] = "over"
  /\ Go(c, "cleared")
  /\ UNCHANGED <<free, mu, seen, alloc>>

\* clearContainer up to completedRequests; the delete takes only the map's lock.
Unassign(c) ==
  /\ phase[c] = "over"
  /\ alloc' = [alloc EXCEPT ![c] = {}]
  /\ Go(c, "cleared")
  /\ UNCHANGED <<free, mu, seen>>

\* processCompletedRequest, UpdateWorkerCapacity with AddCapacity.
CreditGpus(c) ==
  /\ phase[c] = "cleared"
  /\ free' = free + Demand[c]
  /\ Go(c, "done")
  /\ UNCHANGED <<mu, seen, alloc>>

GpuNext ==
  \E c \in Containers :
    \/ ChargeGpus(c) \/ SpawnFails(c) \/ ChooseReads(c) \/ ChooseFails(c)
    \/ \E available \in Available :
         ChooseSets(c, available) \/ ChooseIsShort(c, available)
    \/ Exit(c) \/ Unassign(c) \/ CreditGpus(c)

GpuSpec == GpuInit /\ [][GpuNext]_gpuVars

-----------------------------------------------------------------------------
(* Properties                                                              *)

GpuTypeOK ==
  /\ free \in Int
  /\ phase \in [Containers -> Phases]
  /\ mu \in SUBSET Containers
  /\ seen \in [Containers -> SUBSET Devices]
  /\ alloc \in [Containers -> SUBSET Devices]

\* No device is assigned to two containers, although chooseDevices decides on a
\* copy of the map and UnassignGPUDevices changes the map without the mutex.
Exclusive ==
  \A c, d \in Containers : c # d => alloc[c] \cap alloc[d] = {}

\* What the scheduler counted as free is there: chooseDevices finds devices for
\* every container the scheduler has placed, if none is hidden, because clearContainer unassigns the
\* devices before the completed request can credit them.
NeverShort == \A c \in Containers : phase[c] # "short"

\* The inductive form of Exclusive: whoever is choosing holds the mutex, and what
\* is allocated in the meantime is among what it has seen.
ChoosingSafely ==
  \A c \in Containers :
    phase[c] = "choosing" =>
      /\ mu = {c}
      /\ alloc[c] = {}
      /\ Allocated \subseteq seen[c]

\* A container has no devices before it has chosen.
EmptyBefore ==
  \A c \in Containers : phase[c] \in {"waiting", "placed"} => alloc[c] = {}

\* Exclusive and what it rests on, preserved by every step of the manager.
GpuIndInv == GpuTypeOK /\ Exclusive /\ ChoosingSafely /\ EmptyBefore
=============================================================================
