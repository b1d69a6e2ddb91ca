----------------------------- MODULE RingBuffer -----------------------------
(***************************************************************************)
(* The ring buffer in which a gateway keeps the requests of an endpoint    *)
(* that no container has taken yet.  Every operation holds the mutex.      *)
(***************************************************************************)
EXTENDS Integers, Sequences

CONSTANTS
  Values,  \* pointers to requests
  Size,    \* the capacity
  Nil      \* the zero value of a slot

ASSUME SizeAssumption == Size \in Nat \ {0}
ASSUME NilAssumption == Nil \notin Values

VARIABLES
  ring,    \* the field buffer, the slots
  head,    \* the slot of the next value to pop
  tail,    \* the slot the next value is appended to
  count    \* how many slots are in use

ringVars == <<ring, head, tail, count>>

Slots == 0 .. Size - 1

RingInit ==
  /\ ring = [i \in Slots |-> Nil]
  /\ head = 0
  /\ tail = 0
  /\ count = 0

\* Mutant: the oldest value is overwritten, and the head stays where it is.
PushKeepsHead(v) ==
  /\ ring' = [ring EXCEPT ![tail] = v]
  /\ tail' = (tail + 1) % Size
  /\ head' = head
  /\ count' = IF count = Size THEN count ELSE count + 1

\* Push with priority FALSE: when the buffer is full the tail is at the head.
Push(v) ==
  /\ ring' = [ring EXCEPT ![tail] = v]
  /\ tail' = (tail + 1) % Size
  /\ head' = IF count = Size THEN (head + 1) % Size ELSE head
  /\ count' = IF count = Size THEN count ELSE count + 1

\* Mutant: the head is moved back without wrapping around.
PushPriorityUnwrapped(v) ==
  LET front == IF count = Size THEN head ELSE head - 1
  IN  /\ ring' = [ring EXCEPT ![front] = v]
      /\ head' = front
      /\ count' = IF count = Size THEN count ELSE count + 1
      /\ UNCHANGED tail

\* Push with priority TRUE: when the buffer is full the head is overwritten.
PushPriority(v) ==
  LET front == IF count = Size THEN head ELSE (head - 1 + Size) % Size
  IN  /\ ring' = [ring EXCEPT ![front] = v]
      /\ head' = front
      /\ count' = IF count = Size THEN count ELSE count + 1
      /\ UNCHANGED tail

\* Mutant: the slot keeps the popped value.
PopKeepsValue ==
  /\ count # 0
  /\ head' = (head + 1) % Size
  /\ count' = count - 1
  /\ UNCHANGED <<ring, tail>>

Pop ==
  /\ count # 0
  /\ ring' = [ring EXCEPT ![head] = Nil]
  /\ head' = (head + 1) % Size
  /\ count' = count - 1
  /\ UNCHANGED tail

RingNext ==
  \/ \E v \in Values : Push(v) \/ PushPriority(v)
  \/ Pop

RingSpec == RingInit /\ [][RingNext]_ringVars

-----------------------------------------------------------------------------

\* The slot of the i-th value from the front.
Slot(i) == (head + i - 1) % Size

Contents == [i \in 1 .. count |-> ring[Slot(i)]]

Deque == INSTANCE BoundedDeque WITH queue <- Contents

RingTypeOK ==
  /\ ring \in [Slots -> Values \cup {Nil}]
  /\ head \in Slots
  /\ tail \in Slots
  /\ count \in 0 .. Size

\* The three counters that Push and Pop update one by one never drift apart, and the
\* slots in use are exactly those that hold a value: what was popped can be freed.
Consistent ==
  /\ tail = (head + count) % Size
  /\ \A s \in Slots : (ring[s] # Nil) <=> (s \in {Slot(i) : i \in 1 .. count})

\* The buffer is a bounded queue in the order its clients expect, however pushes at
\* either end, overwrites and pops follow each other around the ring.
RefinesDeque == Deque!Spec
=============================================================================
