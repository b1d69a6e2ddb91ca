------------------------ MODULE WorkerCapacityProofs ------------------------
(***************************************************************************)
(* Proofs about WorkerCapacity: the accounting invariant is inductive, and *)
(* with it no worker is overcommitted, in cpu, memory or GPUs, for any     *)
(* number of workers, requests and concurrent schedulers.  And about       *)
(* GpuAssignment: no GPU is assigned twice, and those counted as free are  *)
(* there, for any set of containers and devices and any demand.            *)
(***************************************************************************)
EXTENDS WorkerCapacity, GpuAssignment, FiniteSetTheorems, TLAPS

-----------------------------------------------------------------------------
(* Sums of demands, counted as sets of units.                              *)

\* The units of one request are as many as it demands.
LEMMA UnitsOfOne ==
  ASSUME NEW r, NEW n \in Nat
  PROVE  /\ IsFiniteSet({r} \X (1 .. n))
         /\ Cardinality({r} \X (1 .. n)) = n
<1>1. IsFiniteSet({r}) /\ Cardinality({r}) = 1
  BY FS_Singleton
<1>2. IsFiniteSet(1 .. n) /\ Cardinality(1 .. n) = n
  BY FS_Interval
<1>3. /\ IsFiniteSet({r} \X (1 .. n))
      /\ Cardinality({r} \X (1 .. n)) = Cardinality({r}) * Cardinality(1 .. n)
  BY <1>1, <1>2, FS_Product, Zenon
<1> QED
  BY <1>1, <1>2, <1>3

\* A set of requests has finitely many units, so its load is a number.
LEMMA LoadType ==
  ASSUME NEW S \in SUBSET Requests, NEW d \in [Requests -> Nat]
  PROVE  IsFiniteSet(Units(d, S)) /\ Load(d, S) \in Nat
<1> DEFINE f == [r \in S |-> {r} \X (1 .. d[r])]
           U == {{r} \X (1 .. d[r]) : r \in S}
<1>1. IsFiniteSet(S)
  BY RequestsAssumption, FS_Subset
<1>2. f \in Surjection(S, U)
  BY Zenon DEF Surjection
<1>3. IsFiniteSet(U)
  BY <1>1, <1>2, FS_Surjection, Zenon
<1>4. \A r \in S : IsFiniteSet({r} \X (1 .. d[r]))
  <2> TAKE r \in S
  <2>1. d[r] \in Nat
    OBVIOUS
  <2> QED
    BY <2>1, UnitsOfOne, Zenon
<1>5. IsFiniteSet(UNION U)
  <2>1. \A T \in U : IsFiniteSet(T)
    BY <1>4
  <2> QED
    BY <1>3, <2>1, FS_UNION, Zenon
<1> QED
  BY <1>5, FS_CardinalityType DEF Units, Load

\* No requests, no load.
LEMMA LoadEmpty == ASSUME NEW d PROVE Load(d, {}) = 0
<1>1. Units(d, {}) = {}
  BY DEF Units
<1> QED
  BY <1>1, FS_EmptySet DEF Load

\* Fewer requests are no more load.
LEMMA LoadMonotone ==
  ASSUME NEW S \in SUBSET Requests, NEW T \in SUBSET S,
         NEW d \in [Requests -> Nat]
  PROVE  Load(d, T) <= Load(d, S)
<1>1. Units(d, T) \in SUBSET Units(d, S)
  BY DEF Units
<1>2. IsFiniteSet(Units(d, S))
  BY LoadType
<1> QED
  BY <1>1, <1>2, FS_Subset DEF Load

\* A request adds its own demand to the load.
LEMMA LoadAdd ==
  ASSUME NEW S \in SUBSET Requests, NEW r \in Requests, r \notin S,
         NEW d \in [Requests -> Nat]
  PROVE  Load(d, S \cup {r}) = Load(d, S) + d[r]
<1> DEFINE A == Units(d, S)
           B == {r} \X (1 .. d[r])
<1>1. Units(d, S \cup {r}) = A \cup B
  BY DEF Units
<1>2. A \cap B = {}
  BY DEF Units
<1>3. IsFiniteSet(A) /\ Cardinality(A) \in Nat
  BY LoadType DEF Load
<1>4. IsFiniteSet(B) /\ Cardinality(B) = d[r] /\ d[r] \in Nat
  BY UnitsOfOne, Zenon
<1>5. Cardinality(A \cup B)
        = Cardinality(A) + Cardinality(B) - Cardinality(A \cap B)
  BY <1>3, <1>4, FS_Union, Zenon
<1>6. Cardinality(A \cap B) = 0
  BY <1>2, FS_EmptySet
<1>7. Load(d, S) = Cardinality(A) /\ Load(d, S \cup {r}) = Cardinality(A \cup B)
  BY <1>1, Zenon DEF Load
<1> QED
  BY <1>3, <1>4, <1>5, <1>6, <1>7

\* And takes it away again when it goes.
LEMMA LoadRemove ==
  ASSUME NEW S \in SUBSET Requests, NEW r \in S,
         NEW d \in [Requests -> Nat]
  PROVE  Load(d, S \ {r}) = Load(d, S) - d[r]
<1>1. (S \ {r}) \cup {r} = S
  OBVIOUS
<1>2. Load(d, (S \ {r}) \cup {r}) = Load(d, S \ {r}) + d[r]
  BY LoadAdd
<1>3. Load(d, S \ {r}) \in Nat /\ Load(d, S) \in Nat /\ d[r] \in Nat
  BY LoadType
<1> QED
  BY <1>1, <1>2, <1>3

-----------------------------------------------------------------------------
(* Type correctness.                                                       *)

\* A number below the modulus is its own remainder.
LEMMA ModIdentity ==
  ASSUME NEW m \in Nat \ {0}, NEW x \in 0 .. m - 1
  PROVE  x % m = x
OBVIOUS

\* A capacity update keeps a record a record.
LEMMA CapacityUpdateType ==
  ASSUME NEW rec \in Records, NEW r \in Requests, TypeOK
  PROVE  AddCapacity(rec, r) \in Records /\ RemoveCapacity(rec, r) \in Records
<1>1. Cpu[r] \in Nat /\ GpuDemand(r) \in Nat /\ UintModulus \in Nat \ {0}
  BY RequestsAssumption, BoundsAssumption DEF TypeOK, GpuDemand
<1>2. /\ (rec.gpu + GpuDemand(r)) % UintModulus \in 0 .. UintModulus - 1
      /\ (rec.gpu - GpuDemand(r)) % UintModulus \in 0 .. UintModulus - 1
  BY <1>1 DEF Records
<1>3. rec.cpu + Cpu[r] \in Int /\ rec.cpu - Cpu[r] \in Int /\ rec.ver + 1 \in Nat
  BY <1>1 DEF Records
<1> DEFINE Change(c, g) == [rec EXCEPT !.exists = TRUE, !.cpu = c, !.gpu = g,
                                       !.ver = rec.ver + 1]
<1>4. ASSUME NEW c \in Int, NEW g \in 0 .. UintModulus - 1
      PROVE  Change(c, g) \in Records
  BY <1>3, <1>4, Zenon DEF Records
<1> HIDE DEF Change
<1>5. /\ AddCapacity(rec, r)
           = Change(rec.cpu + Cpu[r], (rec.gpu + GpuDemand(r)) % UintModulus)
      /\ RemoveCapacity(rec, r)
           = Change(rec.cpu - Cpu[r], (rec.gpu - GpuDemand(r)) % UintModulus)
  BY Zenon DEF AddCapacity, RemoveCapacity, Change
<1> QED
  BY <1>2, <1>3, <1>4, <1>5

\* The zero Worker and a freshly added one are records.
LEMMA ConstantRecords ==
  /\ ZeroWorker \in Records
  /\ \A w \in Workers : NewRecord(w) \in Records
BY WorkersAssumption, BoundsAssumption
DEF ZeroWorker, NewRecord, Records, Statuses

\* Initially every variable has its type.
LEMMA InitTypeOK == Init => TypeOK
BY ConstantRecords
DEF Init, TypeOK, Snapshots, NoSnapshot, Stages

\* A request past the backlog is assigned to a worker.
LEMMA AssignedToWorker ==
  ASSUME TypeOK, OnlyAddedWorkers, NEW r \in Requests, stage[r] # "backlog"
  PROVE  snap[r].worker \in Workers /\ snap[r].worker \in added
BY DEF OnlyAddedWorkers, TypeOK

\* A missing record reads as zeros.
LEMMA MissingRecord ==
  ASSUME OnlyAddedWorkers, NEW w \in Workers, ~record[w].exists
  PROVE  record[w].cpu = 0 /\ record[w].gpu = 0 /\ record[w].ver = 0
<1>1. record[w] = ZeroWorker
  BY DEF OnlyAddedWorkers
<1>2. ZeroWorker.cpu = 0 /\ ZeroWorker.gpu = 0 /\ ZeroWorker.ver = 0
  BY Zenon DEF ZeroWorker
<1> QED
  BY <1>1, <1>2

\* Every step of a request keeps the types.
LEMMA RequestTypeOK ==
  ASSUME TypeOK, OnlyAddedWorkers, NEW r \in Requests, RequestNext(r)
  PROVE  TypeOK'
<1> USE DEF TypeOK, history
<1>1. ASSUME NEW w \in Workers, SelectWorker(r, w) PROVE TypeOK'
  BY <1>1, SMTT(60) DEF SelectWorker, Snapshots, Records, Stages
<1>2. ASSUME NEW w \in Workers, AddWorkerForRequest(r, w) PROVE TypeOK'
  BY <1>2, ConstantRecords DEF AddWorkerForRequest, Snapshots, Stages
<1>3. CASE Charge(r)
  <2>1. snap[r].worker \in Workers
    BY <1>3, AssignedToWorker, Zenon DEF Charge
  <2>2. outlived' \subseteq Requests /\ misled' \subseteq Workers
    BY <1>3, <2>1 DEF Charge
  <2>3. record' \in [Workers -> Records]
    BY <1>3, <2>1, CapacityUpdateType, Zenon DEF Charge
  <2>4. stage' \in [Requests -> Stages]
    BY <1>3, Zenon DEF Charge, Stages
  <2> QED
    BY <1>3, <2>2, <2>3, <2>4, Zenon DEF Charge
<1>4. CASE ChargeFails(r)
  BY <1>4 DEF ChargeFails, Stages
<1>5. CASE PushRequest(r)
  <2> DEFINE w == snap[r].worker
  <2>1. w \in Workers
    BY <1>5, AssignedToWorker DEF PushRequest
  <2>2. Append(queue[w], r) \in Seq(Requests)
    BY <2>1
  <2> QED
    BY <1>5, <2>1, <2>2 DEF PushRequest, Stages
<1>6. CASE PushRequestFails(r)
  BY <1>6 DEF PushRequestFails, Stages
<1>7. CASE ClearContainer(r)
  BY <1>7 DEF ClearContainer, Stages
<1>8. CASE ReadForReturn(r)
  <2> DEFINE w == snap[r].worker
  <2>1. w \in Workers
    BY <1>8, AssignedToWorker DEF ReadForReturn
  <2>2. record[w].ver \in Nat
    BY <2>1 DEF Records
  <2>3. [snap[r] EXCEPT !.ver = record[w].ver] \in Snapshots
    BY <2>2, Zenon DEF Snapshots
  <2>4. snap' = [snap EXCEPT ![r] = [snap[r] EXCEPT !.ver = record[w].ver]]
    BY <1>8 DEF ReadForReturn
  <2> QED
    BY <1>8, <2>3, <2>4 DEF ReadForReturn, Stages
<1>9. CASE ReturnNotFound(r)
  BY <1>9 DEF ReturnNotFound, Abandoned, Stages
<1>10. CASE ReturnCapacity(r)
  BY <1>10, CapacityUpdateType, ZenonT(60) DEF ReturnCapacity, Stages
<1>11. CASE ReturnFails(r)
  BY <1>11 DEF ReturnFails, Stages
<1> QED
  BY <1>1, <1>2, <1>3, <1>4, <1>5, <1>6, <1>7, <1>8, <1>9, <1>10, <1>11, Zenon
  DEF RequestNext

\* So does every step of a worker.
LEMMA WorkerTypeOK ==
  ASSUME TypeOK, NEW w \in Workers, WorkerNext(w)
  PROVE  TypeOK'
<1> USE DEF TypeOK, history
<1>1. CASE AddWorker(w)
  BY <1>1, ConstantRecords DEF AddWorker
<1>2. CASE GetNextContainerRequest(w)
  BY <1>2 DEF GetNextContainerRequest, Stages
<1>3. CASE CrashWorker(w)
  BY <1>3 DEF CrashWorker, Abandoned, Stages
<1>4. ASSUME NEW status \in {"available", "disabled"},
             UpdateWorkerStatus(w, status)
      PROVE  TypeOK'
  <2>1. record[w] \in Records /\ record[w].ver + 1 \in Nat
    BY DEF Records
  <2>3. status \in Statuses
    BY <1>4, Zenon DEF Statuses
  <2>2. ASSUME NEW rec \in Records, NEW s \in Statuses, NEW v \in Nat
        PROVE  [rec EXCEPT !.exists = TRUE, !.status = s, !.ver = v] \in Records
    BY ZenonT(60) DEF Records
  <2> QED
    BY <1>4, <2>1, <2>2, <2>3, Zenon DEF UpdateWorkerStatus
<1>5. CASE RemoveWorker(w)
  BY <1>5, ConstantRecords DEF RemoveWorker, Holders, Stages
<1>6. CASE ExpireWorker(w)
  BY <1>6, ConstantRecords DEF ExpireWorker, Holders
<1> QED
  BY <1>1, <1>2, <1>3, <1>4, <1>5, <1>6, Zenon DEF WorkerNext

-----------------------------------------------------------------------------
(* Lists and assignments.                                                  *)

\* Appending a request that is not in a list, and taking the head off, keep
\* the members of the list distinct.
LEMMA AppendTail ==
  ASSUME NEW q \in Seq(Requests), \A i, j \in DOMAIN q : q[i] = q[j] => i = j
  PROVE  /\ \A r \in Requests :
              (\A i \in DOMAIN q : q[i] # r) =>
                /\ \A i \in DOMAIN Append(q, r) :
                     Append(q, r)[i] = r \/ \E k \in DOMAIN q : Append(q, r)[i] = q[k]
                /\ \A i, j \in DOMAIN Append(q, r) :
                     Append(q, r)[i] = Append(q, r)[j] => i = j
         /\ q # <<>> =>
              /\ Head(q) \in Requests
              /\ \E k \in DOMAIN q : Head(q) = q[k]
              /\ \A i \in DOMAIN Tail(q) : /\ Tail(q)[i] # Head(q)
                                           /\ \E k \in DOMAIN q : Tail(q)[i] = q[k]
              /\ \A i, j \in DOMAIN Tail(q) : Tail(q)[i] = Tail(q)[j] => i = j
<1>1. DOMAIN q = 1 .. Len(q) /\ Len(q) \in Nat
  OBVIOUS
<1>2. ASSUME NEW r \in Requests
      PROVE  /\ DOMAIN Append(q, r) = 1 .. Len(q) + 1
             /\ \A i \in 1 .. Len(q) : Append(q, r)[i] = q[i]
             /\ Append(q, r)[Len(q) + 1] = r
  OBVIOUS
<1>3. ASSUME q # <<>>
      PROVE  /\ Len(q) > 0
             /\ Head(q) = q[1]
             /\ DOMAIN Tail(q) = 1 .. Len(q) - 1
             /\ \A i \in 1 .. Len(q) - 1 : Tail(q)[i] = q[i + 1]
  BY <1>3
<1>4. ASSUME NEW r \in Requests, \A i \in DOMAIN q : q[i] # r,
             NEW i \in DOMAIN Append(q, r)
      PROVE  Append(q, r)[i] = r \/ \E k \in DOMAIN q : Append(q, r)[i] = q[k]
  BY <1>1, <1>2, <1>4
<1>5. ASSUME NEW r \in Requests, \A i \in DOMAIN q : q[i] # r,
             NEW i \in DOMAIN Append(q, r), NEW j \in DOMAIN Append(q, r),
             Append(q, r)[i] = Append(q, r)[j]
      PROVE  i = j
  BY <1>1, <1>2, <1>5
<1>6. ASSUME q # <<>>, NEW i \in DOMAIN Tail(q)
      PROVE  /\ Tail(q)[i] # Head(q)
             /\ \E k \in DOMAIN q : Tail(q)[i] = q[k]
  BY <1>1, <1>3, <1>6
<1>7. ASSUME q # <<>>, NEW i \in DOMAIN Tail(q), NEW j \in DOMAIN Tail(q),
             Tail(q)[i] = Tail(q)[j]
      PROVE  i = j
  BY <1>1, <1>3, <1>7
<1>8. ASSUME q # <<>>
      PROVE  Head(q) \in Requests /\ \E k \in DOMAIN q : Head(q) = q[k]
  BY <1>8, SMTT(60)
<1> QED
  BY <1>4, <1>5, <1>6, <1>7, <1>8, Zenon

\* Requests keep going to workers that were added.
LEMMA OnlyAddedWorkersStep ==
  ASSUME TypeOK, OnlyAddedWorkers, QueuesConsistent, Next
  PROVE  OnlyAddedWorkers'
<1> USE DEF OnlyAddedWorkers, TypeOK
<1>1. ASSUME NEW r \in Requests, NEW w \in Workers, SelectWorker(r, w)
      PROVE  OnlyAddedWorkers'
  <2>1. w \in added
    <3>1. record[w].cpu \in Int /\ Cpu[r] \in Nat \ {0} /\ record[w].cpu >= Cpu[r]
      BY <1>1, RequestsAssumption, ZenonT(60) DEF SelectWorker, Fits, Records
    <3>2. record[w].cpu # 0
      BY <3>1, SMTT(60)
    <3> QED
      BY <3>2
  <2> QED
    BY <1>1, <2>1, WorkersAssumption, Zenon DEF SelectWorker
<1>2. ASSUME NEW r \in Requests, NEW w \in Workers, AddWorkerForRequest(r, w)
      PROVE  OnlyAddedWorkers'
  BY <1>2, WorkersAssumption, Zenon DEF AddWorkerForRequest, NewRecord
<1>3. ASSUME NEW r \in Requests, Charge(r)
      PROVE  OnlyAddedWorkers'
  <2>1. snap[r].worker \in Workers /\ snap[r].worker \in added
    BY <1>3, AssignedToWorker, Zenon DEF Charge
  <2> QED
    BY <1>3, <2>1, SMTT(60) DEF Charge, RemoveCapacity
<1>4. ASSUME NEW r \in Requests, ReturnCapacity(r)
      PROVE  OnlyAddedWorkers'
  <2>1. snap[r].worker \in Workers /\ snap[r].worker \in added
    BY <1>4, AssignedToWorker, Zenon DEF ReturnCapacity
  <2> QED
    BY <1>4, <2>1 DEF ReturnCapacity, AddCapacity
<1>5. ASSUME NEW r \in Requests,
             \/ ChargeFails(r) \/ PushRequest(r) \/ PushRequestFails(r)
             \/ ClearContainer(r) \/ ReturnNotFound(r) \/ ReturnFails(r)
      PROVE  OnlyAddedWorkers'
  BY <1>5 DEF ChargeFails, PushRequest, PushRequestFails, ClearContainer,
              ReturnNotFound, Abandoned, ReturnFails
<1>6. ASSUME NEW r \in Requests, ReadForReturn(r)
      PROVE  OnlyAddedWorkers'
  BY <1>6, Zenon DEF ReadForReturn, Snapshots
<1>7. ASSUME NEW w \in Workers, AddWorker(w)
      PROVE  OnlyAddedWorkers'
  BY <1>7, Zenon DEF AddWorker, NewRecord
<1>8. ASSUME NEW w \in Workers, GetNextContainerRequest(w)
      PROVE  OnlyAddedWorkers'
  <2>1. Head(queue[w]) \in Requests /\ stage[Head(queue[w])] = "queued"
    BY <1>8, AppendTail DEF GetNextContainerRequest, QueuesConsistent
  <2> QED
    BY <1>8, <2>1, Zenon DEF GetNextContainerRequest
<1>9. ASSUME NEW w \in Workers, CrashWorker(w)
      PROVE  OnlyAddedWorkers'
  BY <1>9, Zenon DEF CrashWorker, Abandoned
<1>10. ASSUME NEW w \in Workers, NEW status, UpdateWorkerStatus(w, status)
       PROVE  OnlyAddedWorkers'
  BY <1>10, SMTT(60) DEF UpdateWorkerStatus, Records
<1>11. ASSUME NEW w \in Workers, RemoveWorker(w)
       PROVE  OnlyAddedWorkers'
  <2>1. \A i \in DOMAIN queue[w] : stage[queue[w][i]] = "queued"
    BY DEF QueuesConsistent
  <2> QED
    BY <1>11, <2>1, ZenonT(60) DEF RemoveWorker, ZeroWorker
<1>12. ASSUME NEW w \in Workers, ExpireWorker(w)
       PROVE  OnlyAddedWorkers'
  BY <1>12, ZenonT(60) DEF ExpireWorker, ZeroWorker
<1> QED
  BY <1>1, <1>2, <1>3, <1>4, <1>5, <1>6, <1>7, <1>8, <1>9, <1>10, <1>11, <1>12, ZenonT(60)
  DEF Next, RequestNext, WorkerNext

\* A deleted list holds nothing.
LEMMA EmptyList == DOMAIN <<>> = {}
  OBVIOUS

\* Lists keep holding the requests pushed to their worker, each once.
LEMMA QueuesConsistentStep ==
  ASSUME TypeOK, OnlyAddedWorkers, QueuesConsistent, Next
  PROVE  QueuesConsistent'
<1> USE DEF QueuesConsistent, TypeOK
<1>1. ASSUME queue' = queue,
             \A r \in Requests : stage[r] = "queued" =>
               stage'[r] = "queued" /\ snap'[r].worker = snap[r].worker
      PROVE  QueuesConsistent'
  BY <1>1, SMTT(60)
<1>2. ASSUME NEW r \in Requests, NEW w \in Workers,
             SelectWorker(r, w) \/ AddWorkerForRequest(r, w)
      PROVE  QueuesConsistent'
  BY <1>1, <1>2, SMTT(60) DEF SelectWorker, AddWorkerForRequest
<1>3. ASSUME NEW r \in Requests,
             \/ Charge(r) \/ ChargeFails(r) \/ PushRequestFails(r)
             \/ ClearContainer(r) \/ ReturnNotFound(r) \/ ReturnCapacity(r)
             \/ ReturnFails(r)
      PROVE  QueuesConsistent'
  BY <1>1, <1>3, SMTT(60) DEF Charge, ChargeFails, PushRequestFails, ClearContainer,
                    ReturnNotFound, Abandoned, ReturnCapacity, ReturnFails
<1>4. ASSUME NEW r \in Requests, ReadForReturn(r)
      PROVE  QueuesConsistent'
  BY <1>1, <1>4, SMTT(60) DEF ReadForReturn
<1>5. ASSUME NEW r \in Requests, PushRequest(r)
      PROVE  QueuesConsistent'
  <2> DEFINE w == snap[r].worker
  <2>1. w \in Workers
    BY <1>5, AssignedToWorker, Zenon DEF PushRequest
  <2>2. \A v \in Workers : \A i \in DOMAIN queue[v] : queue[v][i] # r
    BY <1>5, Zenon DEF PushRequest
  <2>3. \A v \in Workers \ {w} : queue'[v] = queue[v]
    BY <1>5, ZenonT(60) DEF PushRequest
  <2>4. queue'[w] = Append(queue[w], r) /\ queue[w] \in Seq(Requests)
    BY <1>5, <2>1, ZenonT(60) DEF PushRequest
  <2>5. /\ \A i \in DOMAIN queue'[w] :
             queue'[w][i] = r \/ \E k \in DOMAIN queue[w] : queue'[w][i] = queue[w][k]
        /\ \A i, j \in DOMAIN queue'[w] : queue'[w][i] = queue'[w][j] => i = j
    BY <2>1, <2>2, <2>4, AppendTail, SMTT(60)
  <2>6. /\ snap' = snap /\ stage'[r] = "queued"
        /\ \A x \in Requests : stage[x] = "queued" => stage'[x] = "queued"
    BY <1>5, ZenonT(60) DEF PushRequest
  <2>7. ASSUME NEW v \in Workers, NEW i \in DOMAIN queue'[v]
        PROVE  stage'[queue'[v][i]] = "queued" /\ snap'[queue'[v][i]].worker = v
    <3>1. CASE v = w
      <4>1. CASE queue'[w][i] = r
        BY <2>6, <3>1, <4>1, Zenon
      <4>2. CASE queue'[w][i] # r
        <5>1. PICK k \in DOMAIN queue[w] : queue'[w][i] = queue[w][k]
          BY <2>5, <2>7, <3>1, <4>2, Zenon
        <5>2. queue[w][k] \in Requests
          BY <2>1, SMTT(60)
        <5> QED
          BY <2>1, <2>6, <3>1, <5>1, <5>2, SMTT(60)
      <4> QED
        BY <4>1, <4>2, Zenon
    <3>2. CASE v # w
      <4>1. queue'[v] = queue[v] /\ i \in DOMAIN queue[v]
        BY <2>3, <2>7, <3>2, Zenon
      <4>2. queue[v][i] \in Requests
        BY <4>1, SMTT(60)
      <4> QED
        BY <2>6, <4>1, <4>2, SMTT(60)
    <3> QED
      BY <3>1, <3>2, Zenon
  <2>8. ASSUME NEW v \in Workers, NEW i \in DOMAIN queue'[v],
               NEW j \in DOMAIN queue'[v], queue'[v][i] = queue'[v][j]
        PROVE  i = j
    <3>1. CASE v = w
      BY <2>5, <2>8, <3>1, Zenon
    <3>2. CASE v # w
      <4>1. queue'[v] = queue[v]
        BY <2>3, <3>2, Zenon
      <4> QED
        BY <2>8, <4>1, ZenonT(60)
    <3> QED
      BY <3>1, <3>2, Zenon
  <2> QED
    BY <2>7, <2>8, Zenon
<1>6. ASSUME NEW w \in Workers, GetNextContainerRequest(w)
      PROVE  QueuesConsistent'
  <2>1. queue'[w] = Tail(queue[w]) /\ queue[w] \in Seq(Requests) /\ queue[w] # <<>>
    BY <1>6, ZenonT(60) DEF GetNextContainerRequest
  <2>2. \A v \in Workers \ {w} : queue'[v] = queue[v]
    BY <1>6, ZenonT(60) DEF GetNextContainerRequest
  <2>3. /\ \A i \in DOMAIN queue'[w] :
             /\ queue'[w][i] # Head(queue[w])
             /\ \E k \in DOMAIN queue[w] : queue'[w][i] = queue[w][k]
        /\ \A i, j \in DOMAIN queue'[w] : queue'[w][i] = queue'[w][j] => i = j
        /\ \E k \in DOMAIN queue[w] : Head(queue[w]) = queue[w][k]
    BY <2>1, AppendTail, SMTT(60)
  <2>4. /\ snap' = snap
        /\ \A x \in Requests \ {Head(queue[w])} : stage'[x] = stage[x]
    BY <1>6, ZenonT(60) DEF GetNextContainerRequest
  <2>5. ASSUME NEW v \in Workers, NEW i \in DOMAIN queue'[v]
        PROVE  stage'[queue'[v][i]] = "queued" /\ snap'[queue'[v][i]].worker = v
    <3>1. CASE v = w
      <4>1. PICK k \in DOMAIN queue[w] : queue'[w][i] = queue[w][k]
        BY <2>3, <2>5, <3>1, Zenon
      <4>2. queue[w][k] \in Requests /\ queue[w][k] # Head(queue[w])
        BY <2>3, <2>5, <3>1, <4>1, SMTT(60)
      <4> QED
        BY <2>4, <3>1, <4>1, <4>2, SMTT(60)
    <3>2. CASE v # w
      <4>1. queue'[v] = queue[v]
        BY <2>2, <3>2, Zenon
      <4>2. queue[v][i] \in Requests /\ snap[queue[v][i]].worker = v
        BY <4>1, <2>5, SMTT(60)
      <4>3. snap[Head(queue[w])].worker = w
        BY <2>3, SMTT(60)
      <4>4. queue[v][i] # Head(queue[w])
        BY <4>2, <4>3, <3>2, Zenon
      <4> QED
        BY <2>4, <2>5, <4>1, <4>2, <4>4, SMTT(60)
    <3> QED
      BY <3>1, <3>2, Zenon
  <2>6. ASSUME NEW v \in Workers, NEW i \in DOMAIN queue'[v],
               NEW j \in DOMAIN queue'[v], queue'[v][i] = queue'[v][j]
        PROVE  i = j
    BY <2>2, <2>3, <2>6, SMTT(60)
  <2> QED
    BY <2>5, <2>6, Zenon
<1>7. ASSUME NEW w \in Workers, RemoveWorker(w)
      PROVE  QueuesConsistent'
  <2>1. queue'[w] = <<>> /\ snap' = snap
    BY <1>7, ZenonT(60) DEF RemoveWorker
  <2>2. \A v \in Workers \ {w} : queue'[v] = queue[v]
    BY <1>7, ZenonT(60) DEF RemoveWorker
  <2>3. \A x \in Requests : snap[x].worker # w => stage'[x] = stage[x]
    BY <1>7, SMTT(60) DEF RemoveWorker
  <2>4. \A v \in Workers : \A i \in DOMAIN queue[v] : queue[v][i] \in Requests
    BY SMTT(60)
  <2> HIDE DEF TypeOK
  <2>5. ASSUME NEW v \in Workers, v # w, NEW i \in DOMAIN queue[v]
        PROVE  stage'[queue[v][i]] = "queued" /\ snap'[queue[v][i]].worker = v
    <3>1. stage[queue[v][i]] = "queued" /\ snap[queue[v][i]].worker = v
      BY <2>5, Zenon
    <3>2. queue[v][i] \in Requests
      BY <2>4, <2>5, Zenon
    <3>3. stage'[queue[v][i]] = stage[queue[v][i]]
      BY <2>3, <2>5, <3>1, <3>2, Zenon
    <3> QED
      BY <2>1, <3>1, <3>3, Zenon
  <2>6. DOMAIN queue'[w] = {}
    BY <2>1, EmptyList, Zenon
  <2>7. ASSUME NEW v \in Workers
        PROVE  /\ \A i \in DOMAIN queue'[v] : /\ stage'[queue'[v][i]] = "queued"
                                             /\ snap'[queue'[v][i]].worker = v
               /\ \A i, j \in DOMAIN queue'[v] : queue'[v][i] = queue'[v][j] => i = j
    <3>1. CASE v = w
      BY <2>6, <3>1, Zenon
    <3>2. CASE v # w
      <4>1. queue'[v] = queue[v]
        BY <2>2, <3>2, Zenon
      <4>2. \A i, j \in DOMAIN queue[v] : queue[v][i] = queue[v][j] => i = j
        BY Zenon
      <4> QED
        BY <2>5, <3>2, <4>1, <4>2
    <3> QED
      BY <3>1, <3>2, Zenon
  <2> QED
    BY <2>7, Zenon
<1>8. ASSUME NEW w \in Workers,
             \/ AddWorker(w) \/ CrashWorker(w) \/ ExpireWorker(w)
             \/ \E status \in {"available", "disabled"} : UpdateWorkerStatus(w, status)
      PROVE  QueuesConsistent'
  <2>1. CASE CrashWorker(w)
    BY <1>1, <2>1, Zenon DEF CrashWorker, Abandoned
  <2>2. CASE ~CrashWorker(w)
    BY <1>1, <1>8, <2>2, Zenon DEF AddWorker, ExpireWorker, UpdateWorkerStatus
  <2> QED
    BY <2>1, <2>2, Zenon
<1> HIDE DEF TypeOK, QueuesConsistent
<1> QED
  BY <1>2, <1>3, <1>4, <1>5, <1>6, <1>7, <1>8, ZenonT(60) DEF Next, RequestNext, WorkerNext

-----------------------------------------------------------------------------
(* Free capacity.                                                          *)

\* The requests charged to a worker, and their loads, are what they should be.
LEMMA ChargedTypes ==
  ASSUME NEW w
  PROVE  /\ Charged(w) \in SUBSET Requests
         /\ GpuCharged(w) \in SUBSET Requests
         /\ Load(Cpu, Charged(w)) \in Nat
         /\ Load(Gpu, GpuCharged(w)) \in Nat
         /\ Cpu \in [Requests -> Nat]
<1>1. /\ Charged(w) \in SUBSET Requests
      /\ GpuCharged(w) \in SUBSET Requests
  BY DEF Charged, GpuCharged
<1>2. Cpu \in [Requests -> Nat] /\ Gpu \in [Requests -> Nat]
  BY RequestsAssumption, Zenon
<1> QED
  BY <1>1, <1>2, LoadType, Zenon

\* Dropping requests, or the free counts of a record, keeps capacity backed.
LEMMA BackedByFewer ==
  ASSUME TypeOK, FreeCapacityBacked,
         NEW w \in Workers, w \in misled => w \in misled',
         record'[w].cpu = record[w].cpu \/ record'[w].cpu = 0,
         record'[w].gpu = record[w].gpu \/ record'[w].gpu = 0,
         Charged(w)' \subseteq Charged(w),
         GpuCharged(w)' \subseteq GpuCharged(w)
  PROVE  /\ record'[w].cpu >= 0
         /\ record'[w].cpu + Load(Cpu, Charged(w)') <= TotalCpu[w]
         /\ w \notin misled' => record'[w].gpu + Load(Gpu, GpuCharged(w)') <= TotalGpu[w]
<1>1. /\ Load(Cpu, Charged(w)') <= Load(Cpu, Charged(w))
      /\ Load(Gpu, GpuCharged(w)') <= Load(Gpu, GpuCharged(w))
  BY ChargedTypes, RequestsAssumption, LoadMonotone, Zenon
<1>2. /\ Load(Cpu, Charged(w)') \in Nat
      /\ Load(Gpu, GpuCharged(w)') \in Nat
      /\ Load(Cpu, Charged(w)) \in Nat
      /\ Load(Gpu, GpuCharged(w)) \in Nat
  BY ChargedTypes, RequestsAssumption, LoadType, Zenon
<1>3. record[w].cpu \in Int /\ record[w].gpu \in Nat
  BY BoundsAssumption, SMTT(60) DEF TypeOK, Records
<1>4. TotalCpu[w] \in Nat /\ TotalGpu[w] \in Int
  BY WorkersAssumption, BoundsAssumption, SMTT(60)
<1> QED
  BY <1>1, <1>2, <1>3, <1>4, SMTT(60) DEF FreeCapacityBacked

\* FreeCapacityBacked, one worker at a time.
LEMMA BackedPointwise ==
  ASSUME \A w \in Workers :
           /\ record'[w].cpu >= 0
           /\ record'[w].cpu + Load(Cpu, Charged(w)') <= TotalCpu[w]
           /\ w \notin misled' => record'[w].gpu + Load(Gpu, GpuCharged(w)') <= TotalGpu[w]
  PROVE  FreeCapacityBacked'
BY Zenon DEF FreeCapacityBacked

Holding == {"charged", "queued", "hosted", "completed", "returning",
            "orphaned"}

\* Stages in which a gateway holds a version it read for the request.
Reading == {"returning", "orphaned"}

\* A step after which no more requests hold capacity, and which leaves the free
\* counts alone or clears them, keeps capacity backed.
LEMMA NoNewHolder ==
  ASSUME TypeOK, FreeCapacityBacked, misled' = misled,
         \A w \in Workers :
           /\ record'[w].cpu = record[w].cpu \/ record'[w].cpu = 0
           /\ record'[w].gpu = record[w].gpu \/ record'[w].gpu = 0,
         \A r \in Requests :
           stage'[r] \in Holding => /\ stage[r] \in Holding
                                   /\ snap'[r].worker = snap[r].worker
                                   /\ snap'[r].isGpu = snap[r].isGpu
  PROVE  FreeCapacityBacked'
<1>1. ASSUME NEW w \in Workers
      PROVE  /\ Charged(w)' \subseteq Charged(w)
             /\ GpuCharged(w)' \subseteq GpuCharged(w)
  BY Zenon DEF Charged, GpuCharged, Holding
<1> QED
  BY <1>1, BackedByFewer, BackedPointwise, Zenon

\* Taking capacity: free counts go down by what the new holder demands.
LEMMA ChargeKeepsBacked ==
  ASSUME Accounting, NEW r \in Requests, Charge(r)
  PROVE  FreeCapacityBacked'
<1> USE DEF Accounting, TypeOK
<1>0. PICK w \in Workers : w = snap[r].worker
  BY AssignedToWorker, Zenon DEF Charge
<1>1. w \in Workers /\ w = snap[r].worker /\ stage[r] = "selected" /\ snap' = snap
      /\ stage' = [stage EXCEPT ![r] = "charged"]
  BY <1>0, SMTT(60) DEF Charge
<1>2. record[w] \in Records /\ Cpu[r] \in Nat \ {0} /\ Gpu[r] \in Nat
      /\ GpuDemand(r) \in Nat
  BY <1>1, RequestsAssumption, ZenonT(60) DEF GpuDemand
<1>3. /\ record'[w] = RemoveCapacity(record[w], r)
      /\ ~(RemoveCapacity(record[w], r).cpu < 0)
      /\ record[w].ver = snap[r].ver
      /\ \A v \in Workers \ {w} : record'[v] = record[v]
  BY <1>1, Zenon DEF Charge, OutOfCapacity, VersionMatches
<1>4. RemoveCapacity(record[w], r).cpu = record[w].cpu - Cpu[r]
  BY <1>2 DEF RemoveCapacity, Records
<1>5. RemoveCapacity(record[w], r).gpu = (record[w].gpu - GpuDemand(r)) % UintModulus
  BY <1>2, Zenon DEF RemoveCapacity, Records
<1>6. record[w].cpu >= Cpu[r] /\ record[w].cpu \in Int
  BY <1>2, <1>3, <1>4, SMTT(60) DEF Records
<1>7. record[w].exists
  <2>1. record[w].cpu # 0
    BY <1>2, <1>6, SMTT(60)
  <2> QED
    BY <2>1, MissingRecord, Zenon
<1>8. r \notin outlived => record[w].gpu >= GpuDemand(r)
  BY <1>1, <1>3, Zenon DEF SnapshotsSound
<1>9. ASSUME r \notin outlived
      PROVE  record'[w].gpu = record[w].gpu - GpuDemand(r)
  <2>1. record[w].gpu \in 0 .. UintModulus - 1 /\ UintModulus \in Nat \ {0}
    BY <1>2, BoundsAssumption, Zenon DEF Records
  <2>2. record[w].gpu - GpuDemand(r) \in 0 .. UintModulus - 1
    BY <1>2, <1>8, <1>9, <2>1, SMTT(60)
  <2>3. (record[w].gpu - GpuDemand(r)) % UintModulus = record[w].gpu - GpuDemand(r)
    BY <2>1, <2>2, ModIdentity, Zenon
  <2> QED
    BY <1>3, <1>5, <2>3, Zenon
<1>10. r \notin Charged(w) /\ Charged(w)' = Charged(w) \cup {r}
  BY <1>1, Zenon DEF Charged
<1>11. GpuCharged(w)' = IF snap[r].isGpu THEN GpuCharged(w) \cup {r} ELSE GpuCharged(w)
  BY <1>1, <1>10, SMTT(60) DEF GpuCharged
<1>12. Load(Cpu, Charged(w)') = Load(Cpu, Charged(w)) + Cpu[r]
  BY <1>10, ChargedTypes, LoadAdd, Zenon
<1>13. Load(Gpu, GpuCharged(w)') = Load(Gpu, GpuCharged(w)) + GpuDemand(r)
  <2>1. CASE snap[r].isGpu
    <3>1. r \notin GpuCharged(w) /\ GpuCharged(w)' = GpuCharged(w) \cup {r}
      BY <1>10, <1>11, <2>1, Zenon DEF GpuCharged
    <3> QED
      BY <2>1, <3>1, ChargedTypes, LoadAdd, RequestsAssumption, ZenonT(60) DEF GpuDemand
  <2>2. CASE ~snap[r].isGpu
    BY <1>11, <2>2, ChargedTypes, SMTT(60) DEF GpuDemand
  <2> QED
    BY <2>1, <2>2, Zenon
<1>14. /\ record'[w].cpu >= 0
       /\ record'[w].cpu + Load(Cpu, Charged(w)') <= TotalCpu[w]
       /\ w \notin misled' => record'[w].gpu + Load(Gpu, GpuCharged(w)') <= TotalGpu[w]
  <2>1. record[w].gpu \in Int /\ TotalCpu[w] \in Int /\ TotalGpu[w] \in Int
    BY <1>1, <1>2, WorkersAssumption DEF Records
  <2>2. record[w].cpu + Load(Cpu, Charged(w)) <= TotalCpu[w]
    BY <1>1, Zenon DEF FreeCapacityBacked
  <2>3. ASSUME w \notin misled'
        PROVE  record'[w].gpu + Load(Gpu, GpuCharged(w)') <= TotalGpu[w]
    <3>1. r \notin outlived /\ w \notin misled
      BY <1>1, <2>3, Zenon DEF Charge
    <3>2. record[w].gpu + Load(Gpu, GpuCharged(w)) <= TotalGpu[w]
      BY <3>1, Zenon DEF FreeCapacityBacked
    <3>3. record'[w].gpu = record[w].gpu - GpuDemand(r)
      BY <1>9, <3>1, Zenon
    <3> HIDE DEF Accounting, TypeOK
    <3> QED
      BY <1>2, <1>13, <2>1, <3>2, <3>3, ChargedTypes, SMTT(60)
  <2>4. /\ record'[w].cpu >= 0
        /\ record'[w].cpu + Load(Cpu, Charged(w)') <= TotalCpu[w]
    <3> HIDE DEF Accounting, TypeOK
    <3> QED
      BY <1>2, <1>3, <1>4, <1>6, <1>12, <2>1, <2>2, ChargedTypes, SMTT(60)
  <2> QED
    BY <2>3, <2>4, Zenon
<1>15. ASSUME NEW v \in Workers \ {w}
       PROVE  /\ record'[v].cpu >= 0
              /\ record'[v].cpu + Load(Cpu, Charged(v)') <= TotalCpu[v]
              /\ v \notin misled' => record'[v].gpu + Load(Gpu, GpuCharged(v)') <= TotalGpu[v]
  <2>1. Charged(v)' \subseteq Charged(v) /\ GpuCharged(v)' \subseteq GpuCharged(v)
    BY <1>1, Zenon DEF Charged, GpuCharged
  <2>2. v \in misled => v \in misled'
    BY Zenon DEF Charge
  <2> QED
    BY <1>3, <2>1, <2>2, BackedByFewer, ZenonT(60)
<1>16. \A v \in Workers :
         /\ record'[v].cpu >= 0
         /\ record'[v].cpu + Load(Cpu, Charged(v)') <= TotalCpu[v]
         /\ v \notin misled' => record'[v].gpu + Load(Gpu, GpuCharged(v)') <= TotalGpu[v]
  BY <1>14, <1>15, Zenon
<1> QED
  BY <1>16, BackedPointwise, Zenon

\* Giving capacity back: free counts go up by what the old holder demanded.
LEMMA ReturnKeepsBacked ==
  ASSUME Accounting, NEW r \in Requests, ReturnCapacity(r)
  PROVE  FreeCapacityBacked'
<1> USE DEF Accounting, TypeOK
<1>0. PICK w \in Workers : w = snap[r].worker
  BY AssignedToWorker, Zenon DEF ReturnCapacity
<1>1. w = snap[r].worker /\ stage[r] \in Reading /\ snap' = snap
      /\ stage' = [stage EXCEPT ![r] = "done"]
  BY <1>0, Zenon DEF Reading, ReturnCapacity
<1>2. record[w] \in Records /\ Cpu[r] \in Nat \ {0} /\ Gpu[r] \in Nat
      /\ GpuDemand(r) \in Nat
  BY <1>1, RequestsAssumption, Zenon DEF GpuDemand
<1>3. /\ record'[w] = AddCapacity(record[w], r)
      /\ \A v \in Workers \ {w} : record'[v] = record[v]
      /\ misled' = misled
  BY <1>1, Zenon DEF ReturnCapacity, history
<1>4. /\ record'[w].cpu = record[w].cpu + Cpu[r]
      /\ record'[w].gpu = (record[w].gpu + GpuDemand(r)) % UintModulus
  BY <1>2, <1>3, Zenon DEF AddCapacity, Records
<1>5. r \in Charged(w) /\ Charged(w)' = Charged(w) \ {r}
  BY <1>1, Zenon DEF Reading, Charged
<1>6. GpuCharged(w)' = IF snap[r].isGpu THEN GpuCharged(w) \ {r} ELSE GpuCharged(w)
  BY <1>1, <1>5, Zenon DEF GpuCharged
<1>7. Load(Cpu, Charged(w)') = Load(Cpu, Charged(w)) - Cpu[r]
  BY <1>5, ChargedTypes, LoadRemove, Zenon
<1>8. Load(Gpu, GpuCharged(w)') = Load(Gpu, GpuCharged(w)) - GpuDemand(r)
  <2>1. CASE snap[r].isGpu
    <3>1. r \in GpuCharged(w) /\ GpuCharged(w)' = GpuCharged(w) \ {r}
      BY <1>5, <1>6, <2>1, Zenon DEF GpuCharged
    <3> QED
      BY <2>1, <3>1, ChargedTypes, LoadRemove, RequestsAssumption, ZenonT(60) DEF GpuDemand
  <2>2. CASE ~snap[r].isGpu
    BY <1>6, <2>2, ChargedTypes, SMTT(60) DEF GpuDemand
  <2> QED
    BY <2>1, <2>2, Zenon
<1>9. /\ record[w].cpu \in Int /\ record[w].cpu >= 0
      /\ record[w].gpu \in Int /\ record[w].gpu >= 0
      /\ TotalCpu[w] \in Int
      /\ TotalGpu[w] \in Int /\ TotalGpu[w] <= UintModulus - 1
      /\ record[w].cpu + Load(Cpu, Charged(w)) <= TotalCpu[w]
      /\ w \notin misled => record[w].gpu + Load(Gpu, GpuCharged(w)) <= TotalGpu[w]
      /\ UintModulus \in Nat \ {0}
  <2>1. UintModulus \in Nat \ {0}
    BY BoundsAssumption, Zenon
  <2>2. TotalCpu[w] \in Int /\ TotalGpu[w] \in Int /\ TotalGpu[w] <= UintModulus - 1
    BY <2>1, WorkersAssumption, SMTT(60)
  <2>3. record[w].cpu \in Int /\ record[w].gpu \in Int /\ record[w].gpu >= 0
    BY <1>2, <2>1, SMTT(60) DEF Records
  <2> QED
    BY <2>1, <2>2, <2>3, Zenon DEF FreeCapacityBacked
<1>10. /\ Load(Cpu, Charged(w)') \in Nat /\ Load(Gpu, GpuCharged(w)') \in Nat
       /\ Load(Cpu, Charged(w)) \in Nat /\ Load(Gpu, GpuCharged(w)) \in Nat
  <2>1. Charged(w)' \in SUBSET Requests /\ GpuCharged(w)' \in SUBSET Requests
    BY <1>5, <1>6, ChargedTypes, Zenon
  <2> QED
    BY <2>1, ChargedTypes, LoadType, RequestsAssumption, Zenon
<1>11. ASSUME w \notin misled
       PROVE  record'[w].gpu = record[w].gpu + GpuDemand(r)
  <2>1. record[w].gpu + GpuDemand(r) \in 0 .. UintModulus - 1
    <3> DEFINE g == record[w].gpu
               d == GpuDemand(r)
               before == Load(Gpu, GpuCharged(w))
               after == Load(Gpu, GpuCharged(w)')
    <3>1. /\ g \in Int /\ g >= 0 /\ d \in Nat /\ before \in Nat /\ after \in Nat
          /\ after = before - d
          /\ g + before <= TotalGpu[w] /\ TotalGpu[w] <= UintModulus - 1
          /\ TotalGpu[w] \in Int /\ UintModulus \in Nat \ {0}
      BY <1>2, <1>8, <1>9, <1>10, <1>11, Zenon
    <3> HIDE DEF g, d, before, after
    <3>2. g + d \in 0 .. UintModulus - 1
      BY <3>1, SMTT(60)
    <3> QED
      BY <3>2 DEF g, d
  <2> QED
    BY <1>4, <1>9, <2>1, ModIdentity, Zenon
<1>12. /\ record'[w].cpu >= 0
       /\ record'[w].cpu + Load(Cpu, Charged(w)') <= TotalCpu[w]
       /\ w \notin misled' => record'[w].gpu + Load(Gpu, GpuCharged(w)') <= TotalGpu[w]
  <2> DEFINE c == Load(Cpu, Charged(w))
             g == Load(Gpu, GpuCharged(w))
  <2>1. /\ record'[w].cpu = record[w].cpu + Cpu[r]
        /\ w \notin misled' => record'[w].gpu = record[w].gpu + GpuDemand(r)
        /\ Load(Cpu, Charged(w)') = c - Cpu[r]
        /\ Load(Gpu, GpuCharged(w)') = g - GpuDemand(r)
    BY <1>3, <1>4, <1>7, <1>8, <1>11, Zenon
  <2>2. /\ record[w].cpu + c <= TotalCpu[w]
        /\ w \notin misled' => record[w].gpu + g <= TotalGpu[w]
        /\ record[w].cpu \in Int /\ record[w].gpu \in Int /\ record[w].cpu >= 0
        /\ c \in Int /\ g \in Int /\ Cpu[r] \in Nat /\ GpuDemand(r) \in Nat
        /\ TotalCpu[w] \in Int /\ TotalGpu[w] \in Int
    BY <1>2, <1>3, <1>9, <1>10, SMTT(60)
  <2> HIDE DEF c, g, Accounting, TypeOK
  <2> QED
    BY <2>1, <2>2, SMTT(60)
<1>13. ASSUME NEW v \in Workers \ {w}
       PROVE  /\ record'[v].cpu >= 0
              /\ record'[v].cpu + Load(Cpu, Charged(v)') <= TotalCpu[v]
              /\ v \notin misled' => record'[v].gpu + Load(Gpu, GpuCharged(v)') <= TotalGpu[v]
  <2>1. Charged(v)' \subseteq Charged(v) /\ GpuCharged(v)' \subseteq GpuCharged(v)
    BY <1>1, Zenon DEF Charged, GpuCharged
  <2> QED
    BY <1>3, <2>1, BackedByFewer, Zenon
<1>14. \A v \in Workers :
         /\ record'[v].cpu >= 0
         /\ record'[v].cpu + Load(Cpu, Charged(v)') <= TotalCpu[v]
         /\ v \notin misled' => record'[v].gpu + Load(Gpu, GpuCharged(v)') <= TotalGpu[v]
  BY <1>12, <1>13, Zenon
<1> QED
  BY <1>14, BackedPointwise, Zenon

\* A worker that is only now added has no requests, and all of it is free.
LEMMA AddWorkerKeepsBacked ==
  ASSUME Accounting, NEW w \in Workers, w \notin added, misled' = misled,
         record' = [record EXCEPT ![w] = NewRecord(w)],
         \A r \in Requests :
           stage'[r] \in Holding => stage[r] = stage'[r] /\ snap'[r] = snap[r]
  PROVE  FreeCapacityBacked'
<1>4. TotalCpu[w] \in Nat /\ TotalGpu[w] \in Int
  BY WorkersAssumption, BoundsAssumption, SMTT(60)
<1> USE DEF Accounting, TypeOK
<1>1. Charged(w)' = {} /\ GpuCharged(w)' = {}
  BY WorkersAssumption, SMTT(60) DEF Charged, GpuCharged, OnlyAddedWorkers, Holding
<1>2. Load(Cpu, Charged(w)') = 0 /\ Load(Gpu, GpuCharged(w)') = 0
  BY <1>1, LoadEmpty, Zenon
<1>3. record'[w].cpu = TotalCpu[w] /\ record'[w].gpu = TotalGpu[w]
  BY Zenon DEF NewRecord
<1>5. /\ record'[w].cpu >= 0
      /\ record'[w].cpu + Load(Cpu, Charged(w)') <= TotalCpu[w]
      /\ w \notin misled' => record'[w].gpu + Load(Gpu, GpuCharged(w)') <= TotalGpu[w]
  BY <1>2, <1>3, <1>4, SMTT(60)
<1>6. ASSUME NEW v \in Workers \ {w}
      PROVE  /\ record'[v].cpu >= 0
             /\ record'[v].cpu + Load(Cpu, Charged(v)') <= TotalCpu[v]
             /\ v \notin misled' => record'[v].gpu + Load(Gpu, GpuCharged(v)') <= TotalGpu[v]
  <2>1. Charged(v)' \subseteq Charged(v) /\ GpuCharged(v)' \subseteq GpuCharged(v)
    BY Zenon DEF Charged, GpuCharged, Holding
  <2> QED
    BY <2>1, BackedByFewer, ZenonT(60)
<1>7. \A v \in Workers :
        /\ record'[v].cpu >= 0
        /\ record'[v].cpu + Load(Cpu, Charged(v)') <= TotalCpu[v]
        /\ v \notin misled' => record'[v].gpu + Load(Gpu, GpuCharged(v)') <= TotalGpu[v]
  BY <1>5, <1>6, Zenon
<1> QED
  BY <1>7, BackedPointwise, Zenon

\* Every step keeps capacity backed.
LEMMA FreeCapacityBackedStep ==
  ASSUME Accounting, Next
  PROVE  FreeCapacityBacked'
<1> USE DEF Accounting, history
<1>1. ASSUME NEW r \in Requests, NEW w \in Workers, SelectWorker(r, w)
      PROVE  FreeCapacityBacked'
  BY <1>1, NoNewHolder, SMTT(60) DEF SelectWorker, Holding, TypeOK
<1>2. ASSUME NEW r \in Requests, NEW w \in Workers, AddWorkerForRequest(r, w)
      PROVE  FreeCapacityBacked'
  BY <1>2, AddWorkerKeepsBacked, Zenon DEF AddWorkerForRequest, Holding, TypeOK
<1>3. ASSUME NEW r \in Requests, Charge(r)
      PROVE  FreeCapacityBacked'
  BY <1>3, ChargeKeepsBacked
<1>4. ASSUME NEW r \in Requests, ReturnCapacity(r)
      PROVE  FreeCapacityBacked'
  BY <1>4, ReturnKeepsBacked, Zenon
<1>5. ASSUME NEW r \in Requests,
             \/ ChargeFails(r) \/ PushRequest(r) \/ PushRequestFails(r)
             \/ ClearContainer(r) \/ ReturnNotFound(r) \/ ReturnFails(r)
      PROVE  FreeCapacityBacked'
  BY <1>5, NoNewHolder, Zenon
  DEF ChargeFails, PushRequest, PushRequestFails, ClearContainer,
      ReturnNotFound, Abandoned, ReturnFails, Holding, TypeOK
<1>6. ASSUME NEW r \in Requests, ReadForReturn(r)
      PROVE  FreeCapacityBacked'
  BY <1>6, NoNewHolder DEF ReadForReturn, Holding, TypeOK, Snapshots
<1>7. ASSUME NEW w \in Workers, AddWorker(w)
      PROVE  FreeCapacityBacked'
  BY <1>7, AddWorkerKeepsBacked, Zenon DEF AddWorker
<1>8. ASSUME NEW w \in Workers, GetNextContainerRequest(w)
      PROVE  FreeCapacityBacked'
  <2>1. Head(queue[w]) \in Requests /\ stage[Head(queue[w])] = "queued"
    BY <1>8, AppendTail DEF GetNextContainerRequest, QueuesConsistent, TypeOK
  <2> QED
    BY <1>8, <2>1, NoNewHolder, Zenon DEF GetNextContainerRequest, Holding, TypeOK
<1>9. ASSUME NEW w \in Workers, CrashWorker(w)
      PROVE  FreeCapacityBacked'
  BY <1>9, NoNewHolder, Zenon DEF CrashWorker, Abandoned, Holding, TypeOK
<1>10. ASSUME NEW w \in Workers, NEW status, UpdateWorkerStatus(w, status)
       PROVE  FreeCapacityBacked'
  BY <1>10, NoNewHolder, ZenonT(60) DEF UpdateWorkerStatus, TypeOK, Records
<1>11. ASSUME NEW w \in Workers, RemoveWorker(w)
       PROVE  FreeCapacityBacked'
  BY <1>11, NoNewHolder, ZenonT(60) DEF RemoveWorker, ZeroWorker, Holding, TypeOK
<1>12. ASSUME NEW w \in Workers, ExpireWorker(w)
       PROVE  FreeCapacityBacked'
  BY <1>12, NoNewHolder, ZenonT(60) DEF ExpireWorker, ZeroWorker, TypeOK
<1> QED
  BY <1>1, <1>2, <1>3, <1>4, <1>5, <1>6, <1>7, <1>8, <1>9, <1>10, <1>11, <1>12, ZenonT(60)
  DEF Next, RequestNext, WorkerNext

-----------------------------------------------------------------------------
(* Versions.                                                               *)

\* A request that reads or changes the record of its worker finds it there.
LEMMA RecordFound ==
  ASSUME Accounting, NEW r \in Requests, Charge(r) \/ ReturnCapacity(r)
  PROVE  record[snap[r].worker].exists
<1> USE DEF Accounting
<1>1. PICK w \in Workers : w = snap[r].worker
  BY AssignedToWorker, Zenon DEF Charge, ReturnCapacity
<1>2. record[w] \in Records
  BY Zenon DEF TypeOK
<1>3. CASE Charge(r)
  <2>1. ~(record[w].cpu - Cpu[r] < 0)
    BY <1>1, <1>2, <1>3, Zenon DEF Charge, OutOfCapacity, RemoveCapacity, Records
  <2>2. record[w].cpu \in Int /\ Cpu[r] \in Nat \ {0}
    BY <1>2, RequestsAssumption, Zenon DEF Records
  <2>3. record[w].cpu # 0
    BY <2>1, <2>2, SMTT(60)
  <2> QED
    BY <1>1, <2>3, MissingRecord, Zenon
<1>4. CASE ReturnCapacity(r)
  <2>1. record[w].ver = snap[r].ver /\ snap[r].ver > 0
    BY <1>1, <1>4, Zenon DEF ReturnCapacity, VersionMatches, HeldRecordsVersioned, Reading
  <2>2. record[w].ver # 0
    BY <1>2, <2>1, SMTT(60) DEF Records
  <2> QED
    BY <1>1, <2>2, MissingRecord, Zenon
<1> QED
  BY <1>3, <1>4, Zenon

\* The three ways a step treats the record of a request's worker: it leaves it,
\* it moves it to the next version, or it drops it.
RecordKept(w) == record'[w] = record[w]
RecordUpdated(w) == /\ record[w].exists /\ record'[w].exists
                    /\ record'[w].ver = record[w].ver + 1
RecordDropped(w) == ~record'[w].exists

\* Snapshots survive a step that takes no new snapshot, and keeps or updates every
\* record of which there is a snapshot after it that has not outlived its record.
LEMMA SnapshotsSurvive ==
  ASSUME Accounting,
         \A w \in Workers :
           \/ RecordKept(w) \/ RecordUpdated(w)
           \/ \A r \in Requests \ outlived' : stage'[r] = "selected" => snap[r].worker # w,
         \A r \in Requests \ outlived' :
           stage'[r] = "selected" =>
             stage[r] = "selected" /\ snap'[r] = snap[r] /\ r \notin outlived
  PROVE  SnapshotsSound'
<1> SUFFICES ASSUME NEW r \in Requests \ outlived', stage'[r] = "selected"
             PROVE  /\ record'[snap'[r].worker].exists
                    /\ snap'[r].ver <= record'[snap'[r].worker].ver
                    /\ snap'[r].ver = record'[snap'[r].worker].ver =>
                         /\ record'[snap'[r].worker].gpu >= GpuDemand(r)'
                         /\ record'[snap'[r].worker].status # "disabled"
  BY Zenon DEF SnapshotsSound
<1>1. /\ stage[r] = "selected" /\ r \notin outlived
      /\ snap'[r] = snap[r] /\ GpuDemand(r)' = GpuDemand(r)
  BY Zenon DEF GpuDemand
<1>2. PICK w \in Workers : w = snap[r].worker
  BY <1>1, AssignedToWorker, Zenon DEF Accounting
<1>3. record[w].ver \in Nat /\ snap[r].ver \in Nat
  BY Zenon DEF Accounting, TypeOK, Records, Snapshots
<1>4. CASE RecordKept(w)
  <2>1. /\ record[w].exists
        /\ snap[r].ver <= record[w].ver
        /\ snap[r].ver = record[w].ver => /\ record[w].gpu >= GpuDemand(r)
                                          /\ record[w].status # "disabled"
    BY <1>1, <1>2, Zenon DEF Accounting, SnapshotsSound
  <2>2. record'[snap'[r].worker] = record[w]
    BY <1>1, <1>2, <1>4, Zenon DEF RecordKept
  <2>3. snap'[r].ver = snap[r].ver
    BY <1>1, Zenon
  <2> QED
    BY <1>1, <2>1, <2>2, <2>3, SMTT(60)
<1>5. CASE RecordUpdated(w)
  <2>1. snap[r].ver <= record[w].ver
    BY <1>1, <1>2, Zenon DEF Accounting, SnapshotsSound
  <2>2. record'[w].exists /\ record'[w].ver = record[w].ver + 1
    BY <1>5, Zenon DEF RecordUpdated
  <2>3. snap[r].ver <= record'[w].ver /\ snap[r].ver # record'[w].ver
    BY <1>3, <2>1, <2>2
  <2> QED
    BY <1>1, <1>2, <2>2, <2>3, Zenon
<1>6. RecordKept(w) \/ RecordUpdated(w)
  BY <1>2, Zenon
<1> QED
  BY <1>4, <1>5, <1>6, Zenon

\* Every step keeps the snapshots of the schedulers sound.
LEMMA SnapshotsSoundStep ==
  ASSUME Accounting, Next
  PROVE  SnapshotsSound'
<1> USE DEF Accounting, history
<1>1. ASSUME NEW r \in Requests, NEW w \in Workers, SelectWorker(r, w)
      PROVE  SnapshotsSound'
  <2>1. /\ record' = record
        /\ record[w].gpu >= Gpu[r] /\ record[w].status # "disabled"
        /\ snap'[r].worker = w /\ snap'[r].ver = record[w].ver
        /\ \A q \in Requests \ {r} : stage'[q] = stage[q] /\ snap'[q] = snap[q]
        /\ outlived' = outlived
    BY <1>1, Zenon DEF SelectWorker, Fits, TypeOK
  <2>2. /\ record[w].ver \in Nat /\ record[w].gpu \in Int
        /\ Gpu[r] \in Nat
    BY RequestsAssumption, BoundsAssumption, SMTT(60) DEF TypeOK, Records
  <2>3. record[w].gpu >= GpuDemand(r)'
    BY <2>1, <2>2, SMTT(60) DEF GpuDemand
  <2>4. \A q \in Requests \ {r} : GpuDemand(q)' = GpuDemand(q)
    BY <2>1, Zenon DEF GpuDemand
  <2>5. record[w].exists
    <3>1. record[w].cpu \in Int /\ Cpu[r] \in Nat \ {0} /\ record[w].cpu >= Cpu[r]
      BY <1>1, RequestsAssumption, Zenon DEF SelectWorker, Fits, TypeOK, Records
    <3>2. record[w].cpu # 0
      BY <3>1
    <3> QED
      BY <3>2, MissingRecord, Zenon
  <2>6. record[w].ver <= record[w].ver
    BY <2>2
  <2>7. ASSUME NEW q \in Requests \ outlived', stage'[q] = "selected"
        PROVE  /\ record'[snap'[q].worker].exists
               /\ snap'[q].ver <= record'[snap'[q].worker].ver
               /\ snap'[q].ver = record'[snap'[q].worker].ver =>
                    /\ record'[snap'[q].worker].gpu >= GpuDemand(q)'
                    /\ record'[snap'[q].worker].status # "disabled"
    <3>1. CASE q = r
      BY <2>1, <2>3, <2>5, <2>6, <3>1, Zenon
    <3>2. CASE q # r
      <4>1. q \in Requests \ outlived /\ stage[q] = "selected" /\ snap'[q] = snap[q]
        BY <2>1, <2>7, <3>2, Zenon
      <4>2. /\ record[snap[q].worker].exists
            /\ snap[q].ver <= record[snap[q].worker].ver
            /\ snap[q].ver = record[snap[q].worker].ver =>
                 /\ record[snap[q].worker].gpu >= GpuDemand(q)
                 /\ record[snap[q].worker].status # "disabled"
        BY <4>1, Zenon DEF SnapshotsSound
      <4> QED
        BY <2>1, <2>4, <3>2, <4>1, <4>2, Zenon
    <3> QED
      BY <3>1, <3>2, Zenon
  <2> QED
    BY <2>7, Zenon DEF SnapshotsSound
<1>2. ASSUME NEW r \in Requests, NEW w \in Workers, AddWorkerForRequest(r, w)
      PROVE  SnapshotsSound'
  <2>1. /\ record'[w] = NewRecord(w)
        /\ \A v \in Workers \ {w} : record'[v] = record[v]
        /\ snap'[r].worker = w /\ snap'[r].ver = 0
        /\ \A q \in Requests \ {r} : stage'[q] = stage[q] /\ snap'[q] = snap[q]
        /\ TotalGpu[w] >= Gpu[r] /\ w \notin added /\ outlived' = outlived
    BY <1>2, Zenon DEF AddWorkerForRequest, TypeOK
  <2>2. /\ NewRecord(w).exists /\ NewRecord(w).ver = 0 /\ NewRecord(w).gpu = TotalGpu[w]
        /\ NewRecord(w).status = "pending"
    BY Zenon DEF NewRecord
  <2>3. TotalGpu[w] >= GpuDemand(r)'
    BY <2>1, RequestsAssumption, WorkersAssumption, BoundsAssumption, SMTT(60)
    DEF GpuDemand
  <2>4. ASSUME NEW q \in Requests \ {r}, stage[q] = "selected"
        PROVE  snap[q].worker \in Workers \ {w} /\ GpuDemand(q)' = GpuDemand(q)
    BY <2>1, <2>4, AssignedToWorker, Zenon DEF GpuDemand
  <2> QED
    BY <2>1, <2>2, <2>3, <2>4 DEF SnapshotsSound
<1>3. ASSUME NEW r \in Requests, Charge(r)
      PROVE  SnapshotsSound'
  <2>1. PICK w \in Workers : w = snap[r].worker
    BY <1>3, AssignedToWorker, Zenon DEF Charge
  <2>2. record[w].exists
    BY <1>3, <2>1, RecordFound, Zenon
  <2>3. record[w] \in Records
    BY DEF TypeOK
  <2>4. RemoveCapacity(record[w], r).exists /\ RemoveCapacity(record[w], r).ver = record[w].ver + 1
    BY <2>3, Zenon DEF RemoveCapacity, Records
  <2>5. \A v \in Workers : RecordKept(v) \/ RecordUpdated(v)
    BY <1>3, <2>1, <2>2, <2>4, Zenon DEF Charge, RecordKept, RecordUpdated, TypeOK
  <2> QED
    BY <1>3, <2>5, SnapshotsSurvive, Zenon DEF Charge, TypeOK
<1>4. ASSUME NEW r \in Requests, ReturnCapacity(r)
      PROVE  SnapshotsSound'
  <2>1. PICK w \in Workers : w = snap[r].worker
    BY <1>4, AssignedToWorker, Zenon DEF ReturnCapacity
  <2>2. record[w].exists
    BY <1>4, <2>1, RecordFound, Zenon
  <2>3. record[w] \in Records
    BY DEF TypeOK
  <2>4. AddCapacity(record[w], r).exists /\ AddCapacity(record[w], r).ver = record[w].ver + 1
    BY <2>3, Zenon DEF AddCapacity, Records
  <2>5. \A v \in Workers : RecordKept(v) \/ RecordUpdated(v)
    BY <1>4, <2>1, <2>2, <2>4, Zenon DEF ReturnCapacity, RecordKept, RecordUpdated, TypeOK
  <2> QED
    BY <1>4, <2>5, SnapshotsSurvive, Zenon DEF ReturnCapacity, TypeOK
<1>5. ASSUME NEW r \in Requests,
             \/ ChargeFails(r) \/ PushRequest(r) \/ PushRequestFails(r)
             \/ ClearContainer(r) \/ ReturnNotFound(r) \/ ReturnFails(r)
             \/ ReadForReturn(r)
      PROVE  SnapshotsSound'
  BY <1>5, SnapshotsSurvive, Zenon
  DEF ChargeFails, PushRequest, PushRequestFails, ClearContainer,
      ReturnNotFound, Abandoned, ReturnFails, ReadForReturn, RecordKept, TypeOK
<1>6. ASSUME NEW w \in Workers, AddWorker(w)
      PROVE  SnapshotsSound'
  <2>1. \A r \in Requests : stage[r] = "selected" => snap[r].worker # w
    BY <1>6, AssignedToWorker, Zenon DEF AddWorker
  <2> QED
    BY <1>6, <2>1, SnapshotsSurvive, Zenon DEF AddWorker, RecordKept, TypeOK
<1>7. ASSUME NEW w \in Workers, GetNextContainerRequest(w) \/ CrashWorker(w)
      PROVE  SnapshotsSound'
  BY <1>7, SnapshotsSurvive, Zenon
  DEF GetNextContainerRequest, CrashWorker, Abandoned, RecordKept, TypeOK
<1>8. ASSUME NEW w \in Workers, NEW status, UpdateWorkerStatus(w, status)
      PROVE  SnapshotsSound'
  <2>1. record'[w].exists /\ record'[w].ver = record[w].ver + 1
    BY <1>8, Zenon DEF UpdateWorkerStatus, TypeOK, Records
  <2>2. \A v \in Workers \ {w} : RecordKept(v)
    BY <1>8, Zenon DEF UpdateWorkerStatus, RecordKept, TypeOK
  <2>3. /\ stage' = stage /\ snap' = snap /\ outlived' = outlived
    BY <1>8, Zenon DEF UpdateWorkerStatus
  <2>4. \/ RecordUpdated(w)
        \/ \A r \in Requests \ outlived' : stage'[r] = "selected" => snap[r].worker # w
    BY <2>1, <2>3, Zenon DEF SnapshotsSound, RecordUpdated
  <2> QED
    BY <2>2, <2>3, <2>4, SnapshotsSurvive, Zenon
<1>9. ASSUME NEW w \in Workers, RemoveWorker(w) \/ ExpireWorker(w)
      PROVE  SnapshotsSound'
  <2>1. \A v \in Workers \ {w} : RecordKept(v)
    BY <1>9, Zenon DEF RemoveWorker, ExpireWorker, RecordKept, TypeOK
  <2>2. outlived' = outlived \cup Holders(w) /\ snap' = snap
    BY <1>9, Zenon DEF RemoveWorker, ExpireWorker
  <2>3. \A r \in Requests : stage'[r] = "selected" => stage[r] = "selected"
    <3>1. CASE ExpireWorker(w)
      BY <3>1, Zenon DEF ExpireWorker
    <3>2. CASE RemoveWorker(w)
      <4>1. "lost" # "selected"
        OBVIOUS
      <4>2. \A r \in Requests : stage'[r] = "lost" \/ stage'[r] = stage[r]
        BY <3>2, Zenon DEF RemoveWorker
      <4> QED
        BY <4>1, <4>2, Zenon
    <3> QED
      BY <1>9, <3>1, <3>2, Zenon
  <2>4. \A r \in Requests \ outlived' : stage'[r] = "selected" => snap[r].worker # w
    BY <2>2, <2>3, Zenon DEF Holders
  <2> QED
    BY <2>1, <2>2, <2>3, <2>4, SnapshotsSurvive, Zenon
<1> QED
  BY <1>1, <1>2, <1>3, <1>4, <1>5, <1>6, <1>7, <1>8, <1>9, Zenon
  DEF Next, RequestNext, WorkerNext

\* Versions of held records stay positive in a step that brings no new holder and
\* no new reader, and treats every record in one of the three ways or leaves it
\* with a positive version.
LEMMA VersionsSurvive ==
  ASSUME Accounting,
         \A w \in Workers :
           \/ RecordKept(w) \/ RecordUpdated(w) \/ RecordDropped(w)
           \/ record'[w].ver > 0
           \/ \A r \in Requests : snap[r].worker = w => ~(stage[r] \in Holding),
         \A r \in Requests :
           /\ stage'[r] \in Reading =>
                stage[r] \in Reading /\ snap'[r] = snap[r]
           /\ stage'[r] \in Holding =>
                stage[r] \in Holding /\ snap'[r].worker = snap[r].worker
  PROVE  HeldRecordsVersioned'
<1> USE DEF Accounting
<1>1. ASSUME NEW r \in Requests, stage'[r] \in Reading
      PROVE  snap'[r].ver > 0
  BY <1>1, Zenon DEF HeldRecordsVersioned, Reading
<1>2. ASSUME NEW r \in Requests, NEW w \in Workers,
             snap'[r].worker = w, stage'[r] \in Holding, record'[w].exists
      PROVE  record'[w].ver > 0
  <2>1. snap[r].worker = w /\ stage[r] \in Holding
    BY <1>2, Zenon
  <2>2. record[w].exists => record[w].ver > 0
    BY <2>1, Zenon DEF HeldRecordsVersioned, Reading, Charged, Holding
  <2>3. record[w].ver \in Nat
    BY Zenon DEF TypeOK, Records
  <2> QED
    BY <1>2, <2>1, <2>2, <2>3, SMTT(60) DEF RecordKept, RecordUpdated, RecordDropped
<1> QED
  BY <1>1, <1>2, Zenon DEF HeldRecordsVersioned, Reading, Charged, Holding

\* Records of which a copy is held keep a version of one or more.
LEMMA HeldRecordsVersionedStep ==
  ASSUME Accounting, Next
  PROVE  HeldRecordsVersioned'
<1> USE DEF Accounting
<1>1. ASSUME NEW r \in Requests, NEW w \in Workers, SelectWorker(r, w)
      PROVE  HeldRecordsVersioned'
  BY <1>1, VersionsSurvive, Zenon DEF SelectWorker, RecordKept, Holding, Reading, TypeOK
<1>2. ASSUME NEW r \in Requests, NEW w \in Workers, AddWorkerForRequest(r, w)
      PROVE  HeldRecordsVersioned'
  <2>1. \A q \in Requests : snap[q].worker # w \/ stage[q] \notin Holding
    BY <1>2, AssignedToWorker, Zenon DEF AddWorkerForRequest, Holding
  <2> QED
    BY <1>2, <2>1, VersionsSurvive, Zenon
    DEF AddWorkerForRequest, RecordKept, Holding, Reading, TypeOK
<1>3. ASSUME NEW r \in Requests, Charge(r)
      PROVE  HeldRecordsVersioned'
  <2>1. PICK w \in Workers : w = snap[r].worker
    BY <1>3, AssignedToWorker DEF Charge
  <2>2. record[w] \in Records
    BY DEF TypeOK
  <2>3. RemoveCapacity(record[w], r).ver > 0
    BY <2>2, SMTT(60) DEF RemoveCapacity, Records
  <2>4. /\ record'[w].ver > 0
        /\ \A v \in Workers \ {w} : record'[v] = record[v]
    BY <1>3, <2>1, <2>3, Zenon DEF Charge, TypeOK
  <2>5. /\ snap' = snap
        /\ stage'[r] = "charged"
        /\ \A q \in Requests \ {r} : stage'[q] = stage[q]
    BY <1>3, Zenon DEF Charge, TypeOK
  <2> QED
    BY <2>1, <2>4, <2>5, ZenonT(60) DEF HeldRecordsVersioned, Reading, Charged
<1>4. ASSUME NEW r \in Requests, ReturnCapacity(r)
      PROVE  HeldRecordsVersioned'
  <2>1. PICK w \in Workers : w = snap[r].worker
    BY <1>4, AssignedToWorker DEF ReturnCapacity
  <2>2. record[w] \in Records
    BY DEF TypeOK
  <2>3. AddCapacity(record[w], r).ver > 0
    BY <2>2, SMTT(60) DEF AddCapacity, Records
  <2>4. \A v \in Workers : RecordKept(v) \/ record'[v].ver > 0
    BY <1>4, <2>1, <2>3, Zenon DEF ReturnCapacity, RecordKept, TypeOK
  <2> QED
    BY <1>4, <2>4, VersionsSurvive, Zenon DEF ReturnCapacity, Holding, Reading, TypeOK
<1>5. ASSUME NEW r \in Requests,
             \/ ChargeFails(r) \/ PushRequest(r) \/ PushRequestFails(r)
             \/ ClearContainer(r) \/ ReturnNotFound(r) \/ ReturnFails(r)
      PROVE  HeldRecordsVersioned'
  BY <1>5, VersionsSurvive, Zenon
  DEF ChargeFails, PushRequest, PushRequestFails, ClearContainer,
      ReturnNotFound, Abandoned, ReturnFails, RecordKept, Holding, Reading, TypeOK
<1>6. ASSUME NEW r \in Requests, ReadForReturn(r)
      PROVE  HeldRecordsVersioned'
  <2>1. PICK w \in Workers : w = snap[r].worker
    BY <1>6, AssignedToWorker, Zenon DEF ReadForReturn
  <2>2. record[w].ver > 0
    BY <1>6, <2>1, Zenon DEF ReadForReturn, HeldRecordsVersioned, Charged
  <2>3. /\ record' = record
        /\ stage[r] = "completed"
        /\ snap'[r].ver > 0
        /\ \A q \in Requests : snap'[q].worker = snap[q].worker
        /\ \A q \in Requests \ {r} : stage'[q] = stage[q] /\ snap'[q] = snap[q]
    BY <1>6, <2>1, <2>2, Zenon DEF ReadForReturn, TypeOK, Snapshots
  <2> QED
    BY <2>3 DEF HeldRecordsVersioned, Reading, Charged
<1>7. ASSUME NEW w \in Workers, AddWorker(w)
      PROVE  HeldRecordsVersioned'
  <2>1. \A r \in Requests : snap[r].worker # w \/ stage[r] \notin Holding
    BY <1>7, AssignedToWorker, Zenon DEF AddWorker, Holding
  <2> QED
    BY <1>7, <2>1, VersionsSurvive, Zenon DEF AddWorker, RecordKept, Holding, Reading, TypeOK
<1>8. ASSUME NEW w \in Workers, GetNextContainerRequest(w)
      PROVE  HeldRecordsVersioned'
  <2>1. Head(queue[w]) \in Requests /\ stage[Head(queue[w])] = "queued"
    BY <1>8, AppendTail DEF GetNextContainerRequest, QueuesConsistent, TypeOK
  <2> QED
    BY <1>8, <2>1, VersionsSurvive, Zenon
    DEF GetNextContainerRequest, RecordKept, Holding, Reading, TypeOK
<1>9. ASSUME NEW w \in Workers, CrashWorker(w)
      PROVE  HeldRecordsVersioned'
  BY <1>9, VersionsSurvive, Zenon DEF CrashWorker, Abandoned, RecordKept, Holding, Reading, TypeOK
<1>10. ASSUME NEW w \in Workers, NEW status, UpdateWorkerStatus(w, status)
       PROVE  HeldRecordsVersioned'
  <2>1. record'[w].ver > 0
    BY <1>10, SMTT(60) DEF UpdateWorkerStatus, TypeOK, Records
  <2> QED
    BY <1>10, <2>1, VersionsSurvive, Zenon DEF UpdateWorkerStatus, RecordKept, TypeOK
<1>11. ASSUME NEW w \in Workers, RemoveWorker(w) \/ ExpireWorker(w)
       PROVE  HeldRecordsVersioned'
  <2>1. ~ZeroWorker.exists
    BY DEF ZeroWorker
  <2> QED
    BY <1>11, <2>1, VersionsSurvive, ZenonT(60)
    DEF RemoveWorker, ExpireWorker, RecordKept, RecordDropped, Holding, Reading, TypeOK
<1> QED
  BY <1>1, <1>2, <1>3, <1>4, <1>5, <1>6, <1>7, <1>8, <1>9, <1>10, <1>11, ZenonT(60)
  DEF Next, RequestNext, WorkerNext

-----------------------------------------------------------------------------
(* The theorems.                                                           *)

\* Without workers and requests there is nothing to account for.
LEMMA InitAccounting == Init => Accounting
<1> SUFFICES ASSUME Init PROVE Accounting
  OBVIOUS
<1>1. TypeOK
  BY InitTypeOK, Zenon
<1>2. ZeroWorker.cpu = 0 /\ ZeroWorker.gpu = 0 /\ NoSnapshot.worker = NoWorker
  BY Zenon DEF ZeroWorker, NoSnapshot
<1>3. QueuesConsistent
  BY DEF Init, QueuesConsistent
<1>4. OnlyAddedWorkers
  BY <1>2, Zenon DEF Init, OnlyAddedWorkers
<1>5. FreeCapacityBacked
  <2>1. \A w \in Workers : Charged(w) = {} /\ GpuCharged(w) = {}
    BY Zenon DEF Init, Charged, GpuCharged
  <2>2. \A w \in Workers : record[w].cpu = 0 /\ record[w].gpu = 0
    BY <1>2 DEF Init
  <2>3. Load(Cpu, {}) = 0 /\ Load(Gpu, {}) = 0
    BY LoadEmpty, Zenon
  <2>4. \A w \in Workers : 0 <= TotalCpu[w] /\ 0 <= TotalGpu[w]
    BY WorkersAssumption, BoundsAssumption, SMTT(60)
  <2> QED
    BY <2>1, <2>2, <2>3, <2>4, SMTT(60) DEF FreeCapacityBacked
<1>6. SnapshotsSound
  BY Zenon DEF Init, SnapshotsSound
<1>7. HeldRecordsVersioned
  BY DEF Init, HeldRecordsVersioned, Charged
<1> QED
  BY <1>1, <1>3, <1>4, <1>5, <1>6, <1>7, Zenon DEF Accounting

\* Every step of scheduler, worker and gateway keeps the accounts.
LEMMA AccountingStep == Accounting /\ [Next]_vars => Accounting'
<1> SUFFICES ASSUME Accounting, [Next]_vars PROVE Accounting'
  OBVIOUS
<1>1. CASE Next
  <2>1. TypeOK'
    BY <1>1, RequestTypeOK, WorkerTypeOK, Zenon DEF Accounting, Next
  <2> QED
    BY <1>1, <2>1, QueuesConsistentStep, OnlyAddedWorkersStep, FreeCapacityBackedStep, SnapshotsSoundStep, HeldRecordsVersionedStep, Zenon
    DEF Accounting
<1>2. CASE UNCHANGED vars
  <2> USE <1>2 DEF vars, history, Accounting
  <2>1. TypeOK' /\ QueuesConsistent' /\ OnlyAddedWorkers'
    BY SMTT(60) DEF TypeOK, QueuesConsistent, OnlyAddedWorkers
  <2>2. FreeCapacityBacked'
    BY ZenonT(60) DEF FreeCapacityBacked, Charged, GpuCharged
  <2>3. SnapshotsSound' /\ HeldRecordsVersioned'
    BY Zenon DEF SnapshotsSound, HeldRecordsVersioned, Charged, GpuDemand
  <2> QED
    BY <2>1, <2>2, <2>3, Zenon
<1> QED
  BY <1>1, <1>2, Zenon

\* The inductive invariant: what the records advertise is backed, whatever
\* schedulers, gateways and workers do concurrently.
THEOREM AccountingCorrect == Spec => []Accounting
BY InitAccounting, AccountingStep, PTL, Zenon DEF Spec

\* The records, requests and queues keep their types.
THEOREM TypeCorrect == Spec => []TypeOK
<1>1. Accounting => TypeOK
  BY DEF Accounting
<1> QED
  BY <1>1, AccountingCorrect, PTL, Zenon

\* Schedulers racing for a worker never overcommit its cpu and memory.
THEOREM NoOvercommitCorrect == Spec => []NoOvercommit
<1>1. ASSUME Accounting PROVE NoOvercommit
  <2> SUFFICES ASSUME NEW w \in Workers
               PROVE  Load(Cpu, Placed(w)) <= TotalCpu[w]
    BY Zenon DEF NoOvercommit
  <2>1. Placed(w) \subseteq Charged(w) /\ Charged(w) \subseteq Requests
    BY Zenon DEF Placed, Charged
  <2>2. Load(Cpu, Placed(w)) <= Load(Cpu, Charged(w))
    BY <2>1, LoadMonotone, RequestsAssumption, Zenon
  <2>3. /\ record[w].cpu >= 0
        /\ record[w].cpu + Load(Cpu, Charged(w)) <= TotalCpu[w]
    BY <1>1, Zenon DEF Accounting, FreeCapacityBacked
  <2>4. Load(Cpu, Placed(w)) \in Nat /\ Load(Cpu, Charged(w)) \in Nat
    BY <2>1, LoadType, RequestsAssumption, Zenon
  <2>5. record[w].cpu \in Int /\ TotalCpu[w] \in Int
    BY <1>1, WorkersAssumption, SMTT(60) DEF Accounting, TypeOK, Records
  <2> QED
    BY <2>2, <2>3, <2>4, <2>5, SMTT(60)
<1> QED
  BY <1>1, AccountingCorrect, PTL, Zenon

\* The same for GPUs, without a check in UpdateWorkerCapacity to rely on, on every
\* worker that was not charged on a snapshot from before its record went.
THEOREM NoGpuOvercommitCorrect == Spec => []NoGpuOvercommit
<1>1. ASSUME Accounting PROVE NoGpuOvercommit
  <2> SUFFICES ASSUME NEW w \in Workers \ misled
               PROVE  Load(Gpu, {r \in Placed(w) : snap[r].isGpu}) <= TotalGpu[w]
    BY Zenon DEF NoGpuOvercommit
  <2> DEFINE P == {r \in Placed(w) : snap[r].isGpu}
  <2>1. P \subseteq GpuCharged(w) /\ GpuCharged(w) \subseteq Requests
    BY Zenon DEF Placed, Charged, GpuCharged
  <2> HIDE DEF P
  <2>2. Load(Gpu, P) <= Load(Gpu, GpuCharged(w))
    BY <2>1, LoadMonotone, RequestsAssumption, Zenon
  <2>3. record[w].gpu + Load(Gpu, GpuCharged(w)) <= TotalGpu[w]
    BY <1>1, Zenon DEF Accounting, FreeCapacityBacked
  <2>4. Load(Gpu, P) \in Nat /\ Load(Gpu, GpuCharged(w)) \in Nat
    BY <2>1, LoadType, RequestsAssumption, Zenon
  <2>5. record[w].gpu \in Nat /\ TotalGpu[w] \in Int
    BY <1>1, WorkersAssumption, BoundsAssumption, SMTT(60) DEF Accounting, TypeOK, Records
  <2>6. Load(Gpu, P) <= TotalGpu[w]
    BY <2>2, <2>3, <2>4, <2>5, SMTT(60)
  <2> QED
    BY <2>6, Zenon DEF P
<1> QED
  BY <1>1, AccountingCorrect, PTL

\* Only Charge takes a request from selected to charged, and it finds its
\* snapshot current, if the record it was taken of is still there.
LEMMA ChargeFindsSnapshotCurrent ==
  ASSUME Accounting, Next, NEW r \in Requests \ outlived,
         stage[r] = "selected", stage'[r] = "charged"
  PROVE  /\ record[snap[r].worker].gpu >= GpuDemand(r)
         /\ record[snap[r].worker].status # "disabled"
<1>1. Charge(r)
  <2>1. ASSUME NEW q \in Requests, NEW w \in Workers,
               SelectWorker(q, w) \/ AddWorkerForRequest(q, w)
        PROVE  FALSE
    BY <2>1, Zenon DEF SelectWorker, AddWorkerForRequest, Accounting, TypeOK
  <2>2. ASSUME NEW q \in Requests,
               \/ Charge(q) /\ q # r
               \/ ChargeFails(q) \/ PushRequest(q) \/ PushRequestFails(q)
               \/ ClearContainer(q) \/ ReadForReturn(q) \/ ReturnNotFound(q)
               \/ ReturnCapacity(q) \/ ReturnFails(q)
        PROVE  FALSE
    BY <2>2, Zenon
    DEF Charge, ChargeFails, PushRequest, PushRequestFails, ClearContainer,
        ReadForReturn, ReturnNotFound, Abandoned, ReturnCapacity, ReturnFails,
        Accounting, TypeOK
  <2>3. ASSUME NEW w \in Workers, WorkerNext(w)
        PROVE  FALSE
    BY <2>3, Zenon
    DEF WorkerNext, AddWorker, GetNextContainerRequest, CrashWorker, Abandoned,
        UpdateWorkerStatus, RemoveWorker, ExpireWorker, Accounting, TypeOK
  <2> QED
    BY <2>1, <2>2, <2>3, Zenon DEF Next, RequestNext
<1>2. snap[r].ver = record[snap[r].worker].ver
  BY <1>1 DEF Charge, VersionMatches
<1> QED
  BY <1>2, Zenon DEF Accounting, SnapshotsSound

\* No capacity is taken from a worker that was cordoned after it was chosen, if its
\* record has been there all the time.
THEOREM CordonRespected == Spec => CordonedNotCharged
<1>1. Accounting /\ [Next]_vars =>
        [\A r \in Requests \ outlived :
           stage[r] = "selected" /\ stage'[r] = "charged"
             => record[snap[r].worker].status # "disabled"]_vars
  BY ChargeFindsSnapshotCurrent DEF vars
<1> QED
  BY <1>1, AccountingCorrect, PTL, Zenon DEF Spec, CordonedNotCharged

\* The unsigned GPU count is never decremented below zero by a scheduler whose
\* snapshot is of the record that is there.
THEOREM GpuCountSound == Spec => GpuNeverWraps
<1>1. Accounting /\ [Next]_vars =>
        [\A r \in Requests \ outlived :
           stage[r] = "selected" /\ stage'[r] = "charged"
             => record[snap[r].worker].gpu >= GpuDemand(r)]_vars
  BY ChargeFindsSnapshotCurrent DEF vars
<1> QED
  BY <1>1, AccountingCorrect, PTL, Zenon DEF Spec, GpuNeverWraps

-----------------------------------------------------------------------------
(* No GPU is assigned twice                                                *)

\* What chooseDevices takes is available and was not allocated when it looked.
LEMMA FirstIsAllocable ==
  ASSUME GpuTypeOK, NEW c \in Containers, NEW available \in Available, NEW n
  PROVE  /\ First(n, Allocable(c, available)) \subseteq Devices
         /\ First(n, Allocable(c, available)) \cap seen[c] = {}
<1>1. available \subseteq Devices
  BY DEF Available
<1>2. Allocable(c, available) \subseteq available \ seen[c]
  BY DEF Allocable
<1>. QED
  BY <1>1, <1>2 DEF First

\* A worker starts with no device allocated and the mutex free.
LEMMA InitGpuIndInv == GpuInit => GpuIndInv
<1>. SUFFICES ASSUME GpuInit PROVE GpuIndInv
  OBVIOUS
<1>1. Cardinality(Devices) \in Int
  BY GpuAssumption, FS_CardinalityType
<1>. QED
  BY <1>1 DEF GpuInit, GpuIndInv, GpuTypeOK, Exclusive, ChoosingSafely, EmptyBefore, Phases

\* The steps that change no allocation and let no one into the mutex.
LEMMA QuietStep ==
  ASSUME GpuIndInv, NEW c \in Containers, NEW p \in Phases \ {"waiting", "placed", "choosing"},
         Go(c, p), free' \in Int, mu' \in SUBSET Containers,
         mu' = mu \/ (phase[c] = "choosing" /\ mu' = mu \ {c}),
         seen' = seen, alloc' = alloc
  PROVE  GpuIndInv'
<1>. USE DEF GpuIndInv, GpuTypeOK, Go
<1>1. GpuTypeOK'
  OBVIOUS
<1>2. Exclusive'
  BY DEF Exclusive
<1>3. ChoosingSafely'
  <2>. SUFFICES ASSUME NEW d \in Containers, phase'[d] = "choosing"
                PROVE  mu' = {d} /\ alloc'[d] = {} /\ Allocated' \subseteq seen'[d]
    BY DEF ChoosingSafely
  <2>1. d # c /\ phase[d] = "choosing"
    OBVIOUS
  <2>2. mu = {d} /\ alloc[d] = {} /\ Allocated \subseteq seen[d]
    BY <2>1 DEF ChoosingSafely
  <2>3. phase[c] # "choosing"
    BY <2>1, <2>2 DEF ChoosingSafely
  <2>4. Allocated' = Allocated
    BY DEF Allocated
  <2>. QED
    BY <2>2, <2>3, <2>4
<1>4. EmptyBefore'
  BY DEF EmptyBefore
<1>. QED
  BY <1>1, <1>2, <1>3, <1>4

\* No step of Assign, Unassign or the scheduler breaks it.
LEMMA StepGpuIndInv == GpuIndInv /\ [GpuNext]_gpuVars => GpuIndInv'
<1>. SUFFICES ASSUME GpuIndInv, [GpuNext]_gpuVars PROVE GpuIndInv'
  OBVIOUS
<1>1. CASE UNCHANGED gpuVars
  BY <1>1 DEF gpuVars, GpuIndInv, GpuTypeOK, Exclusive, ChoosingSafely, EmptyBefore, Allocated
<1>2. ASSUME NEW c \in Containers, ChargeGpus(c) PROVE GpuIndInv'
  <2>. USE <1>2, GpuAssumption DEF ChargeGpus, Go, GpuIndInv, GpuTypeOK, Phases
  <2>1. GpuTypeOK' /\ Exclusive'
    BY DEF Exclusive
  <2>2. ChoosingSafely'
    BY DEF ChoosingSafely, Allocated
  <2>3. EmptyBefore'
    BY DEF EmptyBefore
  <2>. QED
    BY <2>1, <2>2, <2>3
<1>3. ASSUME NEW c \in Containers, SpawnFails(c) PROVE GpuIndInv'
  BY <1>3, QuietStep DEF SpawnFails, Phases, GpuIndInv, GpuTypeOK
<1>4. ASSUME NEW c \in Containers, ChooseReads(c) PROVE GpuIndInv'
  <2>. USE <1>4 DEF ChooseReads, Go, GpuIndInv, GpuTypeOK
  <2>1. Allocated \subseteq Devices /\ Allocated' = Allocated
    BY DEF Allocated
  <2>2. GpuTypeOK'
    BY <2>1 DEF Phases
  <2>3. Exclusive'
    BY DEF Exclusive
  <2>4. ChoosingSafely'
    <3>. SUFFICES ASSUME NEW d \in Containers, phase'[d] = "choosing"
                  PROVE  mu' = {d} /\ alloc'[d] = {} /\ Allocated' \subseteq seen'[d]
      BY DEF ChoosingSafely
    <3>1. d = c
      BY DEF ChoosingSafely
    <3>. QED
      BY <3>1, <2>1 DEF EmptyBefore
  <2>5. EmptyBefore'
    BY DEF EmptyBefore
  <2>. QED
    BY <2>2, <2>3, <2>4, <2>5
<1>5. ASSUME NEW c \in Containers, ChooseFails(c) PROVE GpuIndInv'
  BY <1>5, QuietStep, Zenon DEF ChooseFails, Phases, GpuIndInv, GpuTypeOK
<1>6. ASSUME NEW c \in Containers, NEW available \in Available, ChooseSets(c, available)
      PROVE GpuIndInv'
  <2>. DEFINE taken == First(Demand[c], Allocable(c, available))
  <2>1. taken \subseteq Devices /\ taken \cap seen[c] = {}
    BY FirstIsAllocable DEF GpuIndInv
  <2>2. /\ phase[c] = "choosing" /\ alloc' = [alloc EXCEPT ![c] = taken]
        /\ mu' = mu \ {c} /\ phase' = [phase EXCEPT ![c] = "running"]
        /\ free' = free /\ seen' = seen
    BY <1>6 DEF ChooseSets, Go
  <2>. HIDE DEF taken
  <2>3. mu = {c} /\ \A d \in Containers : alloc[d] \subseteq seen[c]
    BY <2>2 DEF GpuIndInv, ChoosingSafely, Allocated
  <2>4. GpuTypeOK'
    BY <2>1, <2>2 DEF GpuIndInv, GpuTypeOK, Phases
  <2>5. Exclusive'
    BY <2>1, <2>2, <2>3 DEF GpuIndInv, GpuTypeOK, Exclusive
  <2>6. ChoosingSafely'
    BY <2>2, <2>3 DEF GpuIndInv, GpuTypeOK, ChoosingSafely
  <2>7. EmptyBefore'
    BY <2>2 DEF GpuIndInv, GpuTypeOK, EmptyBefore
  <2>. QED
    BY <2>4, <2>5, <2>6, <2>7 DEF GpuIndInv
<1>7. ASSUME NEW c \in Containers, NEW available \in Available, ChooseIsShort(c, available)
      PROVE GpuIndInv'
  BY <1>7, QuietStep, Zenon DEF ChooseIsShort, Phases, GpuIndInv, GpuTypeOK
<1>8. ASSUME NEW c \in Containers, Exit(c) PROVE GpuIndInv'
  BY <1>8, QuietStep, Zenon DEF Exit, Phases, GpuIndInv, GpuTypeOK
<1>9. ASSUME NEW c \in Containers, Unassign(c) PROVE GpuIndInv'
  <2>. USE <1>9 DEF Unassign, Go, GpuIndInv, GpuTypeOK
  <2>1. GpuTypeOK'
    BY DEF Phases
  <2>2. Exclusive'
    BY DEF Exclusive
  <2>3. Allocated' \subseteq Allocated
    BY DEF Allocated
  <2>4. ChoosingSafely'
    BY <2>3 DEF ChoosingSafely
  <2>5. EmptyBefore'
    BY DEF EmptyBefore
  <2>. QED
    BY <2>1, <2>2, <2>4, <2>5
<1>10. ASSUME NEW c \in Containers, CreditGpus(c) PROVE GpuIndInv'
  <2>1. free' \in Int
    BY <1>10, GpuAssumption DEF CreditGpus, GpuIndInv, GpuTypeOK
  <2>. QED
    BY <2>1, <1>10, QuietStep, Zenon DEF CreditGpus, Phases, GpuIndInv, GpuTypeOK
<1>. QED
  BY <1>1, <1>2, <1>3, <1>4, <1>5, <1>6, <1>7, <1>8, <1>9, <1>10 DEF GpuNext

\* Whoever chooses devices holds the mutex and has seen all allocations made before.
THEOREM GpuInvariant == GpuSpec => []GpuIndInv
  BY InitGpuIndInv, StepGpuIndInv, PTL DEF GpuSpec

\* chooseDevices never hands out a device another container has, although the
\* map may change under it through UnassignGPUDevices.
THEOREM DevicesExclusive == GpuSpec => []Exclusive
<1>1. GpuIndInv => Exclusive
  BY DEF GpuIndInv
<1>. QED
  BY <1>1, GpuInvariant, PTL

-----------------------------------------------------------------------------
(* What is counted as free is there                                        *)

\* The rank of d in S.
Below(d, S) == {e \in S : e < d}

\* Elements of a finite set have different ranks, below its size.
LEMMA Ranks ==
  ASSUME NEW S \in SUBSET Int, IsFiniteSet(S)
  PROVE  /\ \A d \in S : Cardinality(Below(d, S)) \in Nat /\ Cardinality(Below(d, S)) < Cardinality(S)
         /\ \A d, e \in S : Cardinality(Below(d, S)) = Cardinality(Below(e, S)) => d = e
<1>1. ASSUME NEW T \in SUBSET Int, IsFiniteSet(T), NEW d \in T
      PROVE  /\ IsFiniteSet(Below(d, T))
             /\ Cardinality(Below(d, T)) \in Nat
             /\ Cardinality(Below(d, T)) < Cardinality(T)
  <2>1. Below(d, T) \in SUBSET T /\ Below(d, T) # T
    BY <1>1 DEF Below
  <2>. QED
    BY <1>1, <2>1, FS_Subset, FS_CardinalityType
<1>2. ASSUME NEW d \in S, NEW e \in S, d < e
      PROVE  Cardinality(Below(d, S)) < Cardinality(Below(e, S))
  <2>1. Below(e, S) \in SUBSET Int /\ IsFiniteSet(Below(e, S)) /\ d \in Below(e, S)
    BY <1>1, <1>2, Zenon DEF Below
  <2>2. Below(d, Below(e, S)) = Below(d, S)
    <3>. SUFFICES ASSUME NEW x \in Int PROVE x < d => x < e
      BY Zenon DEF Below
    <3>. QED
      BY <1>2
  <2>. QED
    BY <1>1, <2>1, <2>2
<1>3. ASSUME NEW d \in S, NEW e \in S, Cardinality(Below(d, S)) = Cardinality(Below(e, S))
      PROVE  d = e
  <2>1. Cardinality(Below(d, S)) \in Nat /\ Cardinality(Below(e, S)) \in Nat
    BY <1>1
  <2>2. d \in Int /\ e \in Int
    OBVIOUS
  <2>. QED
    BY <1>2, <1>3, <2>1, <2>2
<1>. QED
  BY <1>1, <1>3

\* At most n devices are the first n.
LEMMA FirstSize ==
  ASSUME NEW S \in SUBSET Int, IsFiniteSet(S), NEW n \in Nat
  PROVE  IsFiniteSet(First(n, S)) /\ Cardinality(First(n, S)) <= n
<1>. DEFINE F == First(n, S)
            f == [d \in F |-> Cardinality(Below(d, S))]
<1>1. F = {d \in S : Cardinality(Below(d, S)) < n}
  BY DEF First, Below
<1>2. IsFiniteSet(F)
  BY <1>1, FS_Subset
<1>3. IsFiniteSet(0 .. n - 1) /\ Cardinality(0 .. n - 1) = n
  <2>1. /\ IsFiniteSet(0 .. n - 1)
        /\ Cardinality(0 .. n - 1) = IF 0 > n - 1 THEN 0 ELSE n - 1 - 0 + 1
    BY FS_Interval
  <2>. QED
    BY <2>1
<1>4. f \in Injection(F, 0 .. n - 1)
  <2>1. ASSUME NEW d \in F PROVE d \in S /\ Cardinality(Below(d, S)) \in 0 .. n - 1
    <3>1. d \in S /\ Cardinality(Below(d, S)) < n
      BY <1>1
    <3>2. Cardinality(Below(d, S)) \in Nat
      BY <3>1, Ranks
    <3>. QED
      BY <3>1, <3>2
  <2>2. f \in [F -> 0 .. n - 1]
    BY <2>1, Zenon
  <2>3. \A d, e \in F : f[d] = f[e] => d = e
    BY <2>1, Ranks, Zenon
  <2>. QED
    BY <2>2, <2>3, Zenon DEF Injection, IsInjective
<1>5. Cardinality(F) <= Cardinality(0 .. n - 1)
  BY <1>3, <1>4, FS_Injection, Zenon
<1>. QED
  BY <1>2, <1>3, <1>5

\* Containers whose GPUs are charged and not credited yet.
Reserved == {c \in Containers : phase[c] \notin {"waiting", "done"}}

\* The devices of a container are no more than it was charged for, it has none when it
\* is credited, and when it looked there was room for it.
Counting ==
  /\ free >= 0
  /\ IsFiniteSet(Units(Demand, Reserved))
  /\ free + Cardinality(Units(Demand, Reserved)) = Cardinality(Devices)
  /\ \A c \in Containers :
       /\ Cardinality(alloc[c]) <= Demand[c]
       /\ alloc[c] # {} => phase[c] \in {"running", "over"}
       /\ phase[c] = "choosing" => Cardinality(seen[c]) + Demand[c] <= Cardinality(Devices)
       /\ phase[c] # "short"

\* A container adds its demand to what is reserved.
LEMMA ReservedAdd ==
  ASSUME NEW S, NEW c \in Containers, c \notin S, IsFiniteSet(Units(Demand, S))
  PROVE  /\ IsFiniteSet(Units(Demand, S \cup {c}))
         /\ Cardinality(Units(Demand, S \cup {c})) = Cardinality(Units(Demand, S)) + Demand[c]
<1>. DEFINE A == Units(Demand, S)
            B == {c} \X (1 .. Demand[c])
<1>1. Units(Demand, S \cup {c}) = A \cup B
  BY DEF Units
<1>2. A \cap B = {}
  BY DEF Units
<1>3. IsFiniteSet(A) /\ Cardinality(A) \in Nat
  BY FS_CardinalityType
<1>4. IsFiniteSet(B) /\ Cardinality(B) = Demand[c] /\ Demand[c] \in Nat
  BY UnitsOfOne, GpuAssumption, Zenon
<1>5. /\ IsFiniteSet(A \cup B)
      /\ Cardinality(A \cup B) = Cardinality(A) + Cardinality(B) - Cardinality(A \cap B)
  BY <1>3, <1>4, FS_Union, Zenon
<1>6. Cardinality(A \cap B) = 0
  BY <1>2, FS_EmptySet
<1>. HIDE DEF A, B
<1>7. Cardinality(A \cup B) = Cardinality(A) + Demand[c]
  BY <1>3, <1>4, <1>5, <1>6
<1>. QED
  BY <1>1, <1>5, <1>7, Zenon DEF A

\* And takes it away again.
LEMMA ReservedRemove ==
  ASSUME NEW S, NEW c \in Containers, c \in S, IsFiniteSet(Units(Demand, S))
  PROVE  /\ IsFiniteSet(Units(Demand, S \ {c}))
         /\ Cardinality(Units(Demand, S)) = Cardinality(Units(Demand, S \ {c})) + Demand[c]
<1>1. Units(Demand, S \ {c}) \in SUBSET Units(Demand, S)
  BY DEF Units
<1>2. IsFiniteSet(Units(Demand, S \ {c}))
  BY <1>1, FS_Subset, Zenon
<1>3. (S \ {c}) \cup {c} = S /\ c \notin S \ {c}
  OBVIOUS
<1>4. Cardinality(Units(Demand, (S \ {c}) \cup {c})) = Cardinality(Units(Demand, S \ {c})) + Demand[c]
  BY <1>2, <1>3, ReservedAdd
<1>. QED
  BY <1>2, <1>3, <1>4, Zenon

\* All devices in use have been charged for.
LEMMA AllocatedReserved ==
  ASSUME GpuTypeOK, Counting, NEW c \in Containers, phase[c] = "placed"
  PROVE  /\ Cardinality(Allocated) \in Nat
         /\ Cardinality(Allocated) + Demand[c] <= Cardinality(Devices)
<1>. DEFINE Others == Units(Demand, Reserved \ {c})
            Owner(d) == CHOOSE q \in Containers : d \in alloc[q]
            rank == [d \in Allocated |-> <<Owner(d), Cardinality(Below(d, alloc[Owner(d)])) + 1>>]
<1>1. c \in Reserved
  BY DEF Reserved
<1>2. IsFiniteSet(Others) /\ Cardinality(Units(Demand, Reserved)) = Cardinality(Others) + Demand[c]
  BY <1>1, ReservedRemove DEF Counting
<1>3. \A q \in Containers : alloc[q] \in SUBSET Int /\ IsFiniteSet(alloc[q])
  BY GpuAssumption, FS_Subset, Zenon DEF GpuTypeOK
<1>4. ASSUME NEW d \in Allocated
      PROVE  /\ Owner(d) \in Containers /\ d \in alloc[Owner(d)]
             /\ Owner(d) \in Reserved \ {c}
             /\ Cardinality(Below(d, alloc[Owner(d)])) + 1 \in 1 .. Demand[Owner(d)]
             /\ Cardinality(Below(d, alloc[Owner(d)])) \in Nat
  <2>. DEFINE q == Owner(d)
  <2>1. q \in Containers /\ d \in alloc[q]
    <3>1. \E p \in Containers : d \in alloc[p]
      BY DEF Allocated
    <3>. QED
      BY <3>1, Zenon
  <2>. HIDE DEF q
  <2>2. phase[q] \in {"running", "over"} /\ Cardinality(alloc[q]) <= Demand[q]
    BY <2>1 DEF Counting
  <2>3. Cardinality(Below(d, alloc[q])) \in Nat /\ Cardinality(Below(d, alloc[q])) < Cardinality(alloc[q])
    BY <1>3, <2>1, Ranks, Zenon
  <2>4. Cardinality(alloc[q]) \in Nat /\ Demand[q] \in Nat
    BY <1>3, <2>1, FS_CardinalityType, GpuAssumption
  <2>5. q \in Reserved \ {c}
    BY <2>1, <2>2 DEF Reserved
  <2>6. Cardinality(Below(d, alloc[q])) + 1 \in 1 .. Demand[q]
    BY <2>2, <2>3, <2>4
  <2>. QED
    BY <2>1, <2>3, <2>5, <2>6, Zenon DEF q
<1>5. ASSUME NEW d \in Allocated PROVE rank[d] \in Others
  <2>1. \A q \in Reserved \ {c} : \A i \in 1 .. Demand[q] : <<q, i>> \in Others
    BY DEF Units
  <2>. QED
    BY <1>4, <2>1, Zenon
<1>6. ASSUME NEW d \in Allocated, NEW e \in Allocated, rank[d] = rank[e] PROVE d = e
  <2>. DEFINE q == Owner(d)
  <2>1. /\ Owner(d) = Owner(e)
        /\ Cardinality(Below(d, alloc[Owner(d)])) + 1 = Cardinality(Below(e, alloc[Owner(e)])) + 1
    <3>1. <<Owner(d), Cardinality(Below(d, alloc[Owner(d)])) + 1>>
            = <<Owner(e), Cardinality(Below(e, alloc[Owner(e)])) + 1>>
      BY <1>6, Zenon
    <3>. HIDE DEF Owner
    <3>. QED
      BY <3>1
  <2>2. q \in Containers /\ d \in alloc[q] /\ e \in alloc[q]
    BY <1>4, <2>1, Zenon
  <2>3. /\ Cardinality(Below(d, alloc[q])) + 1 = Cardinality(Below(e, alloc[q])) + 1
        /\ Cardinality(Below(d, alloc[q])) \in Nat /\ Cardinality(Below(e, alloc[q])) \in Nat
    BY <1>4, <2>1, Zenon
  <2>. HIDE DEF q
  <2>4. Cardinality(Below(d, alloc[q])) = Cardinality(Below(e, alloc[q]))
    BY <2>3
  <2>. QED
    BY <1>3, <2>2, <2>4, Ranks, Zenon
<1>7. rank \in Injection(Allocated, Others)
  <2>. HIDE DEF Others
  <2>1. rank \in [Allocated -> Others]
    BY <1>5, Zenon
  <2>2. \A d, e \in Allocated : rank[d] = rank[e] => d = e
    BY <1>6, Zenon
  <2>. HIDE DEF rank
  <2>. QED
    BY <2>1, <2>2, Zenon DEF Injection, IsInjective
<1>. HIDE DEF rank, Others
<1>8. IsFiniteSet(Allocated) /\ Cardinality(Allocated) <= Cardinality(Others)
  BY <1>2, <1>7, FS_Injection, Zenon
<1>9. /\ Cardinality(Allocated) \in Nat /\ Cardinality(Others) \in Nat /\ Demand[c] \in Nat
      /\ Cardinality(Devices) \in Nat
  BY <1>2, <1>8, FS_CardinalityType, GpuAssumption
<1>10. free + Cardinality(Units(Demand, Reserved)) = Cardinality(Devices) /\ free \in Nat
  BY DEF Counting, GpuTypeOK
<1>. QED
  BY <1>2, <1>8, <1>9, <1>10

\* Steps that neither charge nor credit.
LEMMA CountingKept ==
  ASSUME GpuTypeOK, Counting, NEW c \in Containers, NEW p \in Phases \ {"waiting", "done", "short"}, Go(c, p),
         phase[c] \notin {"waiting", "done"}, free' = free,
         \A q \in Containers \ {c} : alloc'[q] = alloc[q] /\ seen'[q] = seen[q],
         Cardinality(alloc'[c]) <= Demand[c],
         alloc'[c] # {} => p \in {"running", "over"},
         p = "choosing" => Cardinality(seen'[c]) + Demand[c] <= Cardinality(Devices)
  PROVE  Counting'
<1>1. phase' = [phase EXCEPT ![c] = p] /\ phase'[c] = p
  BY DEF Go, GpuTypeOK
<1>2. \A q \in Containers \ {c} : phase'[q] = phase[q]
  BY <1>1 DEF GpuTypeOK
<1>3. Reserved' = Reserved
  BY <1>1, <1>2 DEF Reserved
<1>4. Units(Demand, Reserved)' = Units(Demand, Reserved)
  BY <1>3 DEF Units
<1>5. \A q \in Containers :
       /\ Cardinality(alloc'[q]) <= Demand[q]
       /\ alloc'[q] # {} => phase'[q] \in {"running", "over"}
       /\ phase'[q] = "choosing" => Cardinality(seen'[q]) + Demand[q] <= Cardinality(Devices)
       /\ phase'[q] # "short"
  <2>. TAKE q \in Containers
  <2>1. CASE q = c
    BY <1>1, <2>1
  <2>2. CASE q # c
    BY <1>2, <2>2, Zenon DEF Counting
  <2>. QED
    BY <2>1, <2>2
<1>. QED
  BY <1>4, <1>5, Zenon DEF Counting

\* Nothing is charged at first.
LEMMA InitCounting == GpuInit => Counting
<1>. SUFFICES ASSUME GpuInit PROVE Counting
  OBVIOUS
<1>1. Units(Demand, Reserved) = {}
  BY DEF GpuInit, Reserved, Units
<1>2. IsFiniteSet({}) /\ Cardinality({}) = 0
  BY FS_EmptySet
<1>3. Cardinality(Devices) \in Nat
  BY GpuAssumption, FS_CardinalityType
<1>. QED
  BY <1>1, <1>2, <1>3, GpuAssumption DEF GpuInit, Counting

\* chooseDevices finds enough devices when it is shown all of them.
LEMMA EnoughDevices ==
  ASSUME GpuTypeOK, Counting, NEW c \in Containers, phase[c] = "choosing"
  PROVE  Cardinality(Allocable(c, Devices)) >= Demand[c]
<1>1. /\ seen[c] \in SUBSET Devices /\ IsFiniteSet(Devices) /\ Demand[c] \in Nat
      /\ Cardinality(seen[c]) + Demand[c] <= Cardinality(Devices)
  BY GpuAssumption DEF GpuTypeOK, Counting
<1>2. /\ IsFiniteSet(seen[c])
      /\ Cardinality(seen[c]) \in Nat /\ Cardinality(Devices) \in Nat
  BY <1>1, FS_Subset, FS_CardinalityType
<1>3. Cardinality(Devices \ seen[c]) = Cardinality(Devices) - Cardinality(Devices \cap seen[c])
  BY <1>1, FS_Difference, Zenon
<1>4. Devices \cap seen[c] = seen[c]
  BY <1>1
<1>5. Cardinality({}) = 0
  BY FS_EmptySet
<1>6. CASE Cardinality(seen[c]) < Cardinality(Devices)
  <2>1. Allocable(c, Devices) = Devices \ seen[c]
    BY <1>6 DEF Allocable
  <2>2. Cardinality(Devices \ seen[c]) = Cardinality(Devices) - Cardinality(seen[c])
    BY <1>3, <1>4, Zenon
  <2>. QED
    BY <1>1, <1>2, <2>1, <2>2
<1>7. CASE ~(Cardinality(seen[c]) < Cardinality(Devices))
  <2>1. Cardinality(Allocable(c, Devices)) = 0
    BY <1>5, <1>7, Zenon DEF Allocable
  <2>. QED
    BY <1>1, <1>2, <1>7, <2>1
<1>. QED
  BY <1>6, <1>7

\* No step of the scheduler or of the manager breaks it.
LEMMA StepCounting == GpuIndInv /\ Counting /\ [GpuNext]_gpuVars => Counting'
<1>. SUFFICES ASSUME GpuIndInv, Counting, [GpuNext]_gpuVars PROVE Counting'
  OBVIOUS
<1>0. GpuTypeOK /\ \A c \in Containers : Demand[c] \in Nat /\ Cardinality(alloc[c]) <= Demand[c]
  BY GpuAssumption DEF GpuIndInv, Counting
<1>1. CASE UNCHANGED gpuVars
  BY <1>1 DEF gpuVars, Counting, Reserved, Units
<1>2. ASSUME NEW c \in Containers, ChargeGpus(c) PROVE Counting'
  <2>1. /\ phase[c] = "waiting" /\ phase' = [phase EXCEPT ![c] = "placed"]
        /\ Demand[c] <= free /\ free' = free - Demand[c] /\ seen' = seen /\ alloc' = alloc
    BY <1>2 DEF ChargeGpus, Go
  <2>2. phase'[c] = "placed" /\ \A q \in Containers \ {c} : phase'[q] = phase[q]
    BY <1>0, <2>1 DEF GpuTypeOK
  <2>3. c \notin Reserved /\ Reserved' = Reserved \cup {c}
    BY <2>1, <2>2 DEF Reserved
  <2>4. /\ IsFiniteSet(Units(Demand, Reserved'))
        /\ Cardinality(Units(Demand, Reserved')) = Cardinality(Units(Demand, Reserved)) + Demand[c]
    BY <2>3, ReservedAdd DEF Counting
  <2>5. Cardinality(Units(Demand, Reserved)) \in Nat
    BY FS_CardinalityType DEF Counting
  <2>6. free' >= 0 /\ free' + Cardinality(Units(Demand, Reserved')) = Cardinality(Devices)
    BY <1>0, <2>1, <2>4, <2>5 DEF Counting, GpuTypeOK
  <2>7. alloc[c] = {}
    BY <2>1 DEF Counting
  <2>. QED
    BY <2>1, <2>2, <2>4, <2>6, <2>7, Zenon DEF Counting, Units
<1>3. ASSUME NEW c \in Containers, SpawnFails(c) PROVE Counting'
  BY <1>0, <1>3, CountingKept DEF SpawnFails, Phases
<1>4. ASSUME NEW c \in Containers, ChooseReads(c) PROVE Counting'
  <2>1. /\ phase[c] = "placed" /\ Go(c, "choosing") /\ free' = free /\ alloc' = alloc
        /\ seen' = [seen EXCEPT ![c] = Allocated]
    BY <1>4 DEF ChooseReads
  <2>2. seen'[c] = Allocated /\ \A q \in Containers \ {c} : seen'[q] = seen[q]
    BY <1>0, <2>1 DEF GpuTypeOK
  <2>3. Cardinality(Allocated) + Demand[c] <= Cardinality(Devices)
    BY <1>0, <2>1, AllocatedReserved
  <2>4. alloc[c] = {}
    BY <2>1 DEF Counting
  <2>. QED
    BY <1>0, <2>1, <2>2, <2>3, <2>4, CountingKept DEF Phases
<1>5. ASSUME NEW c \in Containers, ChooseFails(c) PROVE Counting'
  BY <1>0, <1>5, CountingKept DEF ChooseFails, Phases
<1>6. ASSUME NEW c \in Containers, NEW available \in Available, ChooseSets(c, available)
      PROVE Counting'
  <2>. DEFINE taken == First(Demand[c], Allocable(c, available))
  <2>1. /\ phase[c] = "choosing" /\ alloc' = [alloc EXCEPT ![c] = taken]
        /\ Go(c, "running") /\ free' = free /\ seen' = seen
    BY <1>6 DEF ChooseSets
  <2>2. Allocable(c, available) \in SUBSET Int /\ IsFiniteSet(Allocable(c, available))
    <3>1. Allocable(c, available) \in SUBSET Devices
      BY DEF Allocable, Available
    <3>. QED
      BY <3>1, GpuAssumption, FS_Subset, Zenon
  <2>3. Cardinality(taken) <= Demand[c]
    BY <1>0, <2>2, FirstSize
  <2>. HIDE DEF taken
  <2>4. alloc'[c] = taken /\ \A q \in Containers \ {c} : alloc'[q] = alloc[q]
    BY <1>0, <2>1 DEF GpuTypeOK
  <2>. QED
    BY <1>0, <2>1, <2>3, <2>4, CountingKept DEF Phases
<1>7. ASSUME NEW c \in Containers, NEW available \in Available, ChooseIsShort(c, available)
      PROVE Counting'
  <2>1. available # Devices
    <3>. SUFFICES ASSUME available = Devices PROVE FALSE
      OBVIOUS
    <3>1. Cardinality(Allocable(c, Devices)) >= Demand[c] /\ Demand[c] \in Nat
      BY <1>0, <1>7, EnoughDevices, Zenon DEF ChooseIsShort
    <3>2. Cardinality(Allocable(c, Devices)) < Demand[c]
      BY <1>7 DEF ChooseIsShort
    <3>3. Cardinality(Allocable(c, Devices)) \in Nat
      <4>1. Allocable(c, Devices) \in SUBSET Devices
        BY DEF Allocable
      <4>. QED
        BY <4>1, GpuAssumption, FS_Subset, FS_CardinalityType
    <3>. QED
      BY <3>1, <3>2, <3>3
  <2>. QED
    BY <1>0, <1>7, <2>1, CountingKept DEF ChooseIsShort, Phases
<1>8. ASSUME NEW c \in Containers, Exit(c) PROVE Counting'
  BY <1>0, <1>8, CountingKept, Zenon DEF Exit, Phases
<1>9. ASSUME NEW c \in Containers, Unassign(c) PROVE Counting'
  <2>1. /\ phase[c] = "over" /\ alloc' = [alloc EXCEPT ![c] = {}]
        /\ Go(c, "cleared") /\ free' = free /\ seen' = seen
    BY <1>9 DEF Unassign
  <2>2. alloc'[c] = {} /\ \A q \in Containers \ {c} : alloc'[q] = alloc[q]
    BY <1>0, <2>1 DEF GpuTypeOK
  <2>3. Cardinality(alloc'[c]) <= Demand[c]
    BY <1>0, <2>2, FS_EmptySet
  <2>. QED
    BY <1>0, <2>1, <2>2, <2>3, CountingKept DEF Phases
<1>10. ASSUME NEW c \in Containers, CreditGpus(c) PROVE Counting'
  <2>1. /\ phase[c] = "cleared" /\ phase' = [phase EXCEPT ![c] = "done"]
        /\ free' = free + Demand[c] /\ seen' = seen /\ alloc' = alloc
    BY <1>10 DEF CreditGpus, Go
  <2>2. phase'[c] = "done" /\ \A q \in Containers \ {c} : phase'[q] = phase[q]
    BY <1>0, <2>1 DEF GpuTypeOK
  <2>3. c \in Reserved /\ Reserved' = Reserved \ {c}
    BY <2>1, <2>2 DEF Reserved
  <2>4. /\ IsFiniteSet(Units(Demand, Reserved'))
        /\ Cardinality(Units(Demand, Reserved)) = Cardinality(Units(Demand, Reserved')) + Demand[c]
    BY <2>3, ReservedRemove DEF Counting
  <2>5. Cardinality(Units(Demand, Reserved')) \in Nat
    BY <2>4, FS_CardinalityType
  <2>6. free' >= 0 /\ free' + Cardinality(Units(Demand, Reserved')) = Cardinality(Devices)
    BY <1>0, <2>1, <2>4, <2>5 DEF Counting, GpuTypeOK
  <2>7. alloc[c] = {}
    BY <2>1, Zenon DEF Counting
  <2>. QED
    BY <2>1, <2>2, <2>4, <2>6, <2>7, Zenon DEF Counting, Units
<1>. QED
  BY <1>1, <1>2, <1>3, <1>4, <1>5, <1>6, <1>7, <1>8, <1>9, <1>10 DEF GpuNext

\* chooseDevices finds devices for every container the scheduler has charged, if none
\* is hidden from it: the devices in use are those of containers charged and not
\* credited, because clearContainer unassigns them before the credit.
THEOREM DevicesSuffice == GpuSpec => []NeverShort
<1>1. GpuIndInv /\ Counting => NeverShort
  BY Zenon DEF Counting, NeverShort
<1>2. GpuInit => GpuIndInv /\ Counting
  BY InitGpuIndInv, InitCounting
<1>3. GpuIndInv /\ Counting /\ [GpuNext]_gpuVars => (GpuIndInv /\ Counting)'
  BY StepGpuIndInv, StepCounting
<1>. QED
  BY <1>1, <1>2, <1>3, PTL DEF GpuSpec
=============================================================================
