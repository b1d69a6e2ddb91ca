----------------------- MODULE ConcurrencyLimitProofs -----------------------
(***************************************************************************)
(* Proofs about ConcurrencyLimit: while the lock is obtained and held, no  *)
(* admission takes a workspace over the quota it is tested against, for    *)
(* any number of requests, any limits and any changes of the limit.        *)
(***************************************************************************)
EXTENDS ConcurrencyLimit, FiniteSetTheorems, TLAPS

-----------------------------------------------------------------------------
(* Sums                                                                    *)

\* One request asks for as many units as its need says.
LEMMA OwnUnits ==
  ASSUME NEW r \in Requests, NEW k \in Kinds
  PROVE  /\ Need[r][k] \in Nat
         /\ IsFiniteSet({r} \X (1 .. Need[r][k]))
         /\ Cardinality({r} \X (1 .. Need[r][k])) = Need[r][k]
<1>. DEFINE n == Need[r][k]
<1>1. n \in Nat
  BY LimitAssumption
<1>. HIDE DEF n
<1>2. IsFiniteSet({r}) /\ Cardinality({r}) = 1
  BY FS_Singleton, Zenon
<1>3. IsFiniteSet(1 .. n) /\ Cardinality(1 .. n) = n
  BY <1>1, FS_Interval
<1>4. /\ IsFiniteSet({r} \X (1 .. n))
      /\ Cardinality({r} \X (1 .. n)) = Cardinality({r}) * Cardinality(1 .. n)
  BY <1>2, <1>3, FS_Product, Zenon
<1>5. Cardinality({r} \X (1 .. n)) = n
  BY <1>1, <1>2, <1>3, <1>4
<1>. QED
  BY <1>1, <1>4, <1>5, Zenon DEF n

\* Finitely many requests ask for finitely many units.
LEMMA UnitsFinite ==
  ASSUME NEW S \in SUBSET Requests, NEW k \in Kinds
  PROVE  IsFiniteSet(Units(S, k)) /\ Cardinality(Units(S, k)) \in Nat
<1>. DEFINE own == [r \in S |-> {r} \X (1 .. Need[r][k])]
            all == {{r} \X (1 .. Need[r][k]) : r \in S}
<1>1. IsFiniteSet(S) /\ own \in Surjection(S, all)
  BY LimitAssumption, FS_Subset, Zenon DEF Surjection
<1>2. IsFiniteSet(all)
  BY <1>1, FS_Surjection, Zenon
<1>3. \A u \in all : IsFiniteSet(u)
  BY OwnUnits, SMTT(60)
<1>4. IsFiniteSet(UNION all)
  BY <1>2, <1>3, FS_UNION, Zenon
<1>. QED
  BY <1>4, FS_CardinalityType DEF Units

\* Fewer requests use no more.
LEMMA FewerUnits ==
  ASSUME NEW S \in SUBSET Requests, NEW T \in SUBSET S, NEW k \in Kinds
  PROVE  Cardinality(Units(T, k)) <= Cardinality(Units(S, k))
<1>1. Units(T, k) \in SUBSET Units(S, k)
  BY DEF Units
<1>. QED
  BY <1>1, UnitsFinite, FS_Subset

\* One more request uses its need more.
LEMMA OneMore ==
  ASSUME NEW S \in SUBSET Requests, NEW r \in Requests, NEW k \in Kinds
  PROVE  Cardinality(Units(S \cup {r}, k)) <= Cardinality(Units(S, k)) + Need[r][k]
<1>. DEFINE A == Units(S, k)
            B == {r} \X (1 .. Need[r][k])
<1>1. Units(S \cup {r}, k) = A \cup B
  BY DEF Units
<1>2. IsFiniteSet(A) /\ Cardinality(A) \in Nat
  BY UnitsFinite
<1>3. IsFiniteSet(B) /\ Cardinality(B) = Need[r][k] /\ Need[r][k] \in Nat
  BY OwnUnits
<1>. HIDE DEF A, B
<1>4. /\ IsFiniteSet(A \cup B)
      /\ Cardinality(A \cup B) = Cardinality(A) + Cardinality(B) - Cardinality(A \cap B)
  BY <1>2, <1>3, FS_Union
<1>5. Cardinality(A \cap B) \in Nat
  BY <1>2, FS_Intersection, FS_CardinalityType, Zenon
<1>6. Cardinality(Units(S \cup {r}, k)) = Cardinality(A \cup B)
  BY <1>1, Zenon
<1>. QED
  BY <1>2, <1>3, <1>4, <1>5, <1>6 DEF A

-----------------------------------------------------------------------------
(* The invariant                                                           *)

Typed ==
  /\ limit \in Limits \cup {NoLimit} /\ cache \in Limits \cup {NoLimit}
  /\ recache \subseteq Limits
  /\ stage \in [Requests -> Stages]
  /\ quota \in [Requests -> Limits \cup {NoLimit}]
  /\ used \in [Requests -> [Kinds -> Nat]]
  /\ state \in [Requests -> {"none", "active", "stopping"}]

\* Only the holder of the lock is past it, and what it has measured is still an upper
\* bound on the use: others can only end containers meanwhile.
Measured ==
  \A r \in Requests :
    /\ stage[r] \in {"entered", "measured"} => lock = {r}
    /\ stage[r] = "measured" =>
         /\ quota[r] \in Limits
         /\ \A k \in Kinds : Cardinality(Units(Counted, k)) <= used[r][k]

Ordered == faults \subseteq {"lasting"}

IndInv == Typed /\ (Ordered => Measured)

\* At the start nobody is past the lock.
LEMMA InitIndInv == Init => IndInv
  BY DEF Init, IndInv, Typed, Measured, Stages, Nothing

\* The sum is a number for each kind.
LEMMA TotalType ==
  ASSUME NEW S \in SUBSET Requests
  PROVE  Total(S) \in [Kinds -> Nat]
  BY UnitsFinite DEF Total

\* Types are kept.
LEMMA StepTyped ==
  ASSUME Typed, [Next]_vars
  PROVE  Typed'
<1>. USE DEF limitVars, runVars
<1>1. ASSUME NEW l \in Limits, SetLimit(l) \/ Recache(l) \/ RecacheFails(l) PROVE Typed'
  <2>1. CASE SetLimit(l)
    BY <2>1 DEF SetLimit, Typed
  <2>2. CASE Recache(l)
    BY <2>2 DEF Recache, Copy, Typed
  <2>3. CASE RecacheFails(l)
    BY <2>3 DEF RecacheFails, CopyFails, Typed
  <2>. QED
    BY <1>1, <2>1, <2>2, <2>3
<1>2. CASE DeleteLimit \/ CacheExpires \/ LockExpires
  BY <1>2 DEF DeleteLimit, CacheExpires, LockExpires, Typed
<1>3. ASSUME NEW r \in Requests, RunAgain(r) \/ CacheHit(r) \/ CacheMiss(r) PROVE Typed'
  <2>1. CASE RunAgain(r)
    BY <2>1 DEF RunAgain, Typed, Stages, Nothing
  <2>2. CASE CacheHit(r)
    BY <2>2 DEF CacheHit, Typed, Stages
  <2>3. CASE CacheMiss(r)
    BY <2>3 DEF CacheMiss, Typed, Stages
  <2>. QED
    BY <1>3, <2>1, <2>2, <2>3
<1>4. ASSUME NEW r \in Requests, FillCache(r) \/ LookupFails(r) PROVE Typed'
  BY <1>4 DEF FillCache, LookupFails, Copy, CopyFails, Typed, Stages
<1>5. ASSUME NEW r \in Requests, Obtain(r) \/ NotObtained(r) \/ Throttle(r) PROVE Typed'
  BY <1>5, SMTT(60) DEF Obtain, NotObtained, Throttle, Leave, Typed, Stages
<1>6. ASSUME NEW r \in Requests, Measure(r) PROVE Typed'
  <2>1. PICK S \in SUBSET Counted : used' = [used EXCEPT ![r] = Total(S)]
    BY <1>6, Zenon DEF Measure
  <2>2. Total(S) \in [Kinds -> Nat]
    BY TotalType DEF Counted
  <2>. QED
    BY <1>6, <2>1, <2>2 DEF Measure, Typed, Stages
<1>7. ASSUME NEW r \in Requests, Admit(r) \/ AdmitFails(r) PROVE Typed'
  BY <1>7, SMTT(60) DEF Admit, AdmitFails, Leave, Typed, Stages
<1>8. ASSUME NEW r \in Requests, ContainerEnds(r) \/ LateRunning(r) PROVE Typed'
  BY <1>8 DEF ContainerEnds, LateRunning, Typed
<1>9. CASE UNCHANGED vars
  BY <1>9 DEF vars, Typed
<1>. QED
  BY <1>1, <1>2, <1>3, <1>4, <1>5, <1>6, <1>7, <1>8, <1>9, Zenon DEF Next, Run

\* Steps that let nobody past the lock, and count nobody new.
LEMMA MeasuredKept ==
  ASSUME Typed, Typed', Measured, UNCHANGED lock, Counted' \subseteq Counted,
         \A q \in Requests : stage'[q] \in {"entered", "measured"} =>
           stage'[q] = stage[q] /\ quota'[q] = quota[q] /\ used'[q] = used[q]
  PROVE  Measured'
<1>1. \A k \in Kinds : /\ Cardinality(Units(Counted', k)) <= Cardinality(Units(Counted, k))
                       /\ Cardinality(Units(Counted', k)) \in Nat
                       /\ Cardinality(Units(Counted, k)) \in Nat
  BY FewerUnits, UnitsFinite DEF Counted
<1>2. ASSUME NEW r \in Requests, stage'[r] = "measured", NEW k \in Kinds
      PROVE  Cardinality(Units(Counted', k)) <= used'[r][k]
  <2>1. used[r][k] \in Nat /\ used'[r][k] = used[r][k] /\ stage[r] = "measured"
    BY <1>2 DEF Typed
  <2>2. Cardinality(Units(Counted, k)) <= used[r][k]
    BY <2>1 DEF Measured
  <2>. QED
    BY <1>1, <2>1, <2>2
<1>. QED
  BY <1>2 DEF Measured

\* With the lock obtained and held, every step keeps the bound.
LEMMA StepMeasured ==
  ASSUME Typed, Typed', Measured, Ordered, [Next]_vars
  PROVE  Measured'
<1>. USE DEF limitVars, runVars
<1>1. CASE \/ \E l \in Limits : SetLimit(l) \/ Recache(l) \/ RecacheFails(l)
           \/ DeleteLimit \/ CacheExpires \/ UNCHANGED vars
  <2>1. UNCHANGED <<lock, stage, quota, used, state>>
    BY <1>1 DEF SetLimit, Recache, RecacheFails, DeleteLimit, CacheExpires, vars
  <2>. QED
    BY <2>1 DEF Measured, Counted
<1>2. ~LockExpires /\ \A r \in Requests : ~NotObtained(r) /\ ~LateRunning(r)
  BY DEF Ordered, LockExpires, NotObtained, LateRunning
<1>3. ASSUME NEW r \in Requests,
             RunAgain(r) \/ CacheHit(r) \/ CacheMiss(r) \/ FillCache(r) \/ LookupFails(r)
      PROVE  Measured'
  <2>1. /\ UNCHANGED <<lock, state>> /\ stage'[r] \notin {"entered", "measured"}
        /\ \A q \in Requests \ {r} : /\ stage'[q] = stage[q] /\ quota'[q] = quota[q]
                                     /\ used'[q] = used[q]
    BY <1>3 DEF RunAgain, CacheHit, CacheMiss, FillCache, LookupFails, Typed
  <2>2. Counted' = Counted
    BY <2>1 DEF Counted
  <2>. QED
    BY <2>1, <2>2, MeasuredKept, Zenon
<1>4. ASSUME NEW r \in Requests, ContainerEnds(r) PROVE Measured'
  <2>1. UNCHANGED <<lock, stage, quota, used>> /\ Counted' \subseteq Counted
    BY <1>4 DEF ContainerEnds, Counted, Typed
  <2>. QED
    BY <2>1, MeasuredKept
<1>5. ASSUME NEW r \in Requests, Obtain(r) PROVE Measured'
  <2>1. \A q \in Requests : stage[q] \notin {"entered", "measured"}
    BY <1>5 DEF Obtain, Measured
  <2>2. \A q \in Requests : stage'[q] = IF q = r THEN "entered" ELSE stage[q]
    BY <1>5 DEF Obtain, Typed
  <2>3. lock' = {r}
    BY <1>5, Zenon DEF Obtain
  <2>. QED
    BY <2>1, <2>2, <2>3 DEF Measured
<1>6. ASSUME NEW r \in Requests, Measure(r) PROVE Measured'
  <2>1. /\ stage[r] = "entered" /\ quota[r] # NoLimit /\ UNCHANGED <<lock, quota, state>>
        /\ stage' = [stage EXCEPT ![r] = "measured"]
        /\ used' = [used EXCEPT ![r] = Total(Counted)]
    BY <1>6, ZenonT(60) DEF Measure, Ordered
  <2>2. lock = {r} /\ \A q \in Requests \ {r} : stage[q] \notin {"entered", "measured"}
    BY <2>1 DEF Measured
  <2>3. \A q \in Requests : /\ stage'[q] = IF q = r THEN "measured" ELSE stage[q]
                            /\ used'[q] = IF q = r THEN Total(Counted) ELSE used[q]
    BY <2>1 DEF Typed
  <2>4. Counted' = Counted
    BY <2>1, Zenon DEF Counted
  <2>5. \A k \in Kinds : /\ Cardinality(Units(Counted', k)) = Total(Counted)[k]
                         /\ Total(Counted)[k] \in Nat
    BY <2>4, TotalType DEF Total, Counted
  <2>6. quota'[r] \in Limits
    BY <2>1 DEF Typed
  <2>. QED
    BY <2>1, <2>2, <2>3, <2>5, <2>6 DEF Measured
<1>7. ASSUME NEW r \in Requests, Throttle(r) \/ Admit(r) \/ AdmitFails(r) PROVE Measured'
  <2>1. /\ stage[r] \in {"entered", "measured"}
        /\ stage' = [stage EXCEPT ![r] = "admitted"] \/ stage' = [stage EXCEPT ![r] = "refused"]
    BY <1>7 DEF Throttle, Admit, AdmitFails, MayEnter, Leave
  <2>2. \A q \in Requests \ {r} : stage[q] \notin {"entered", "measured"}
    BY <2>1 DEF Measured
  <2>3. \A q \in Requests : stage'[q] \notin {"entered", "measured"}
    BY <2>1, <2>2, SMTT(60) DEF Typed
  <2>. QED
    BY <2>3, Zenon DEF Measured
<1>. QED
  BY <1>1, <1>2, <1>3, <1>4, <1>5, <1>6, <1>7, Zenon DEF Next, Run

\* Every step keeps the invariant, as the faults of a behaviour are chosen once.
LEMMA StepIndInv == IndInv /\ [Next]_vars => IndInv'
<1>. SUFFICES ASSUME IndInv, [Next]_vars PROVE IndInv'
  OBVIOUS
<1>. USE DEF limitVars, runVars
<1>1. Typed'
  BY StepTyped, Zenon DEF IndInv
<1>2. UNCHANGED faults
  BY Zenon
  DEF Next, Run, SetLimit, Recache, RecacheFails, DeleteLimit, CacheExpires, LockExpires,
       RunAgain, CacheHit, CacheMiss, FillCache, LookupFails, Obtain, NotObtained, Measure,
       Throttle, Admit, AdmitFails, ContainerEnds, LateRunning, vars
<1>. QED
  BY <1>1, <1>2, StepMeasured DEF IndInv, Ordered

\* A container that SetContainerState adds while its request is measured fits.
LEMMA AdmissionFits ==
  ASSUME IndInv, Ordered, [Next]_vars, NEW r \in Requests,
         stage[r] = "measured", state[r] # "active", state'[r] = "active"
  PROVE  Within(Total(Counted'), quota[r])
<1>. USE DEF limitVars, runVars
<1>1. Typed /\ Measured
  BY DEF IndInv
<1>2. ASSUME NEW q \in Requests, ContainerEnds(q) PROVE FALSE
  BY <1>1, <1>2, Zenon DEF ContainerEnds, Typed
<1>3. ASSUME NEW q \in Requests, Run(q), ~Admit(q), ~AdmitFails(q) PROVE FALSE
  BY <1>3 DEF Run, RunAgain, CacheHit, CacheMiss, FillCache, LookupFails, Obtain, NotObtained,
              Measure, Throttle
<1>4. ~\E q \in Requests : LateRunning(q)
  BY Zenon DEF Ordered, LateRunning
<1>5. ~(\/ \E l \in Limits : SetLimit(l) \/ Recache(l) \/ RecacheFails(l)
        \/ DeleteLimit \/ CacheExpires \/ LockExpires \/ UNCHANGED vars)
  BY Zenon DEF SetLimit, Recache, RecacheFails, DeleteLimit, CacheExpires, LockExpires, vars
<1>6. PICK q \in Requests : Admit(q) \/ AdmitFails(q)
  BY <1>2, <1>3, <1>4, <1>5, Zenon DEF Next
<1>7. MayEnter(q) /\ state' = [state EXCEPT ![q] = "active"]
  BY <1>6 DEF Admit, AdmitFails
<1>8. q = r
  BY <1>1, <1>7 DEF Typed
<1>9. ~Exceeds(r) /\ Counted' = Counted \cup {r}
  BY <1>1, <1>7, <1>8, Zenon DEF MayEnter, Counted, Typed
<1>10. ASSUME NEW k \in Kinds PROVE Total(Counted')[k] <= quota[r][k]
  <2>1. Total(Counted')[k] = Cardinality(Units(Counted \cup {r}, k))
    BY <1>9, Zenon DEF Total
  <2>2. /\ Cardinality(Units(Counted \cup {r}, k)) <= Cardinality(Units(Counted, k)) + Need[r][k]
        /\ Cardinality(Units(Counted \cup {r}, k)) \in Nat
        /\ Cardinality(Units(Counted, k)) \in Nat
    BY OneMore, UnitsFinite DEF Counted
  <2>3. /\ Cardinality(Units(Counted, k)) <= used[r][k] /\ used[r][k] \in Nat
        /\ quota[r] \in Limits
    BY <1>1, SMTT(60) DEF Measured, Typed
  <2>4. quota[r][k] \in Nat /\ Need[r][k] \in Nat
    BY <2>3, LimitAssumption, Zenon
  <2>5. used[r][k] + Need[r][k] <= quota[r][k]
    BY <1>9, <2>3, <2>4 DEF Exceeds
  <2>. QED
    BY <2>1, <2>2, <2>3, <2>4, <2>5, SMTT(60)
<1>. QED
  BY <1>10, Zenon DEF Within

\* When SetContainerStateWithConcurrencyLimit adds a container under a quota, the
\* containers that count are within it: for any number of requests and however the
\* limit, its copy and the containers change meanwhile, as long as the lock is obtained
\* and held, the sum is complete, and no container comes back.
THEOREM QuotaKept == Spec => AdmittedWithinQuota
<1>1. IndInv /\ [Next]_vars => [faults \subseteq {"lasting"} => KeepsQuota]_vars
  BY AdmissionFits DEF KeepsQuota, Ordered
<1>2. Spec => []IndInv
  BY InitIndInv, StepIndInv, PTL DEF Spec
<1>. QED
  BY <1>1, <1>2, PTL DEF Spec, AdmittedWithinQuota

-----------------------------------------------------------------------------
(* Types                                                                   *)

\* What Typed leaves out.
Rest ==
  /\ fading \in BOOLEAN
  /\ updates \in 0 .. MaxUpdates
  /\ lock = {} \/ \E r \in Requests : lock = {r}
  /\ faults \in Scenarios

\* The lock has one holder at most.
LEMMA StepRest ==
  ASSUME Rest, [Next]_vars
  PROVE  Rest'
<1>. USE DEF limitVars, runVars
<1>1. ASSUME UNCHANGED <<updates, faults>>, fading' \in {TRUE, FALSE, fading},
             lock' = {} \/ lock' = lock \/ \E r \in Requests : lock' = {r} \/ lock' = lock \ {r}
      PROVE  Rest'
  <2>1. fading' \in BOOLEAN
    BY <1>1, Zenon DEF Rest
  <2>2. lock' = {} \/ \E r \in Requests : lock' = {r}
    <3>1. CASE lock' = {} \/ \E r \in Requests : lock' = {r}
      BY <3>1
    <3>2. CASE lock' = lock
      BY <3>2 DEF Rest
    <3>3. ASSUME NEW r \in Requests, lock' = lock \ {r} PROVE lock' = {} \/ lock' = lock
      BY <3>3 DEF Rest
    <3>. QED
      BY <1>1, <3>1, <3>2, <3>3
  <2>. QED
    BY <1>1, <2>1, <2>2, Zenon DEF Rest
<1>2. ASSUME NEW l \in Limits, SetLimit(l) PROVE Rest'
  BY <1>2, LimitAssumption DEF SetLimit, Rest
<1>3. CASE DeleteLimit
  BY <1>3, LimitAssumption DEF DeleteLimit, Rest
<1>4. ASSUME NEW l \in Limits, Recache(l) \/ RecacheFails(l) PROVE Rest'
  BY <1>1, <1>4, Zenon DEF Recache, RecacheFails, Copy, CopyFails
<1>5. CASE CacheExpires \/ LockExpires \/ UNCHANGED vars
  BY <1>1, <1>5, Zenon DEF CacheExpires, LockExpires, vars
<1>6. ASSUME NEW r \in Requests, Run(r) PROVE Rest'
  <2>1. CASE RunAgain(r) \/ CacheHit(r) \/ CacheMiss(r) \/ FillCache(r) \/ LookupFails(r)
    BY <1>1, <2>1, Zenon DEF RunAgain, CacheHit, CacheMiss, FillCache, LookupFails, Copy, CopyFails
  <2>2. CASE Obtain(r) \/ NotObtained(r) \/ Measure(r)
    BY <1>1, <2>2, Zenon DEF Obtain, NotObtained, Measure
  <2>3. CASE Throttle(r) \/ Admit(r) \/ AdmitFails(r)
    BY <1>1, <2>3, Zenon DEF Throttle, Admit, AdmitFails, Leave
  <2>. QED
    BY <1>6, <2>1, <2>2, <2>3, Zenon DEF Run
<1>7. ASSUME NEW r \in Requests, ContainerEnds(r) \/ LateRunning(r) PROVE Rest'
  BY <1>1, <1>7, Zenon DEF ContainerEnds, LateRunning
<1>. QED
  BY <1>2, <1>3, <1>4, <1>5, <1>6, <1>7, Zenon DEF Next

\* Rows, copies and requests stay well formed, and the lock of a workspace has one holder
\* at most, whatever fails.
THEOREM LimitTypeCorrect == Spec => []TypeOK
<1>1. Init => Typed /\ Rest
  <2>1. Init => Typed
    BY InitIndInv DEF IndInv
  <2>2. 0 \in 0 .. MaxUpdates
    BY LimitAssumption
  <2>3. Init => Rest
    BY <2>2, Zenon DEF Init, Rest
  <2>. QED
    BY <2>1, <2>3
<1>2. Typed /\ Rest /\ [Next]_vars => (Typed /\ Rest)'
  BY StepTyped, StepRest
<1>3. Typed /\ Rest => TypeOK
  <2>. SUFFICES ASSUME Typed, Rest PROVE TypeOK
    OBVIOUS
  <2>1. lock \subseteq Requests /\ Cardinality(lock) <= 1
    <3>1. CASE lock = {}
      BY <3>1, FS_EmptySet
    <3>2. ASSUME NEW r \in Requests, lock = {r} PROVE lock \subseteq Requests /\ Cardinality(lock) <= 1
      <4>1. Cardinality({r}) = 1
        BY FS_Singleton, Zenon
      <4>. QED
        BY <3>2, <4>1
    <3>. QED
      BY <3>1, <3>2 DEF Rest
  <2>. QED
    BY <2>1 DEF Typed, Rest, TypeOK
<1>. QED
  BY <1>1, <1>2, <1>3, PTL DEF Spec
=============================================================================
