----------------------- MODULE TaskDispatchOnceProofs -----------------------
(***************************************************************************)
(* Proofs that a task runs in one place at a time and is retried as often as *)
(* its policy allows.                                                      *)
(***************************************************************************)
EXTENDS TaskDispatchProofs

-----------------------------------------------------------------------------
(* What keeps a task in one place                                          *)

\* The claim of t is a sign of a task that is running or was, not of a message.
ClaimSound(t) ==
  t \in claimed =>
    /\ put[t] = "done"
    /\ ~Queued(t)
    /\ \A a \in Actors : Holds(a, t) => act[a].pc \notin Unclaimed

\* Every monitor that has t's entry will find t's heartbeat.
Covered(t) ==
  \A g \in Gateways : copies[g][t] # None => copies[g][t].recent /\ t \in heartbeat

Ended(r) == act[r].pc = "running" /\ ~HasStream(r)

\* A runner with t keeps the monitors away, until its stream has found t's claim,
\* and with it t's entry, gone.
Attends(t) ==
  \A r \in Runners :
    Holds(r, t) =>
      /\ Covered(t)
      /\ act[r].pc \in {"claimed", "running"} /\ t \notin claimed => entry[t] = None
      /\ Ended(r) => t \notin claimed
      /\ ~Ended(r) => t \in heartbeat

\* Retries are counted: by the entry, by a holder's copy, and by a monitor's copy
\* that may lead to a retry.
Counted(t) ==
  /\ put[t] # "done" => retried[t] = 0
  /\ retried[t] <= MaxRetries
  /\ entry[t] # None => entry[t] >= retried[t]
  /\ \A g \in Gateways : copies[g][t] # None =>
       copies[g][t].retries >= retried[t] \/ (copies[g][t].recent /\ t \in heartbeat)
  /\ \A a \in Actors : Holds(a, t) =>
       /\ act[a].pc \in Retrying => act[a].retries >= retried[t]
       /\ act[a].pc \in Retrying \ {"retry"} => act[a].retries < MaxRetries
       /\ act[a].pc \in {"retryRow", "push"} =>
            entry[t] = None \/ entry[t] = act[a].retries + 1

\* A monitor that works on t has used its copy of t's entry.
CopyUsed(t) == \A g \in Gateways : act[g].task = t => copies[g][t] = None

Core(t) == Single(t) /\ ClaimSound(t) /\ Attends(t) /\ Counted(t) /\ CopyUsed(t)

\* Steps on other tasks.
LEMMA CoreElsewhere ==
  ASSUME NEW t \in Tasks, Core(t), Elsewhere(t)
  PROVE  Core(t)'
<1>1. \A a \in Actors : (Holds(a, t)' <=> Holds(a, t)) /\ (Holds(a, t) => act'[a] = act[a])
  BY HoldsElsewhere, Zenon DEF Elsewhere
<1>2. \A r \in Runners : r \in Actors
  BY Zenon DEF Actors
<1>3. Single(t)'
  BY <1>1, SingleKept, Zenon DEF Core, Elsewhere, SameRest
<1>4. ClaimSound(t)'
  BY <1>1, Zenon DEF Core, ClaimSound, Elsewhere, SameState, SameQueue, SameRest
<1>5. Covered(t)' <=> Covered(t)
  BY Zenon DEF Covered, Elsewhere, SameBeats
<1>6. \A r \in Runners : Holds(r, t) => (Ended(r)' <=> Ended(r))
  BY <1>1, <1>2, Zenon DEF Ended, Elsewhere, SameStream, Holds
<1>7. Attends(t)'
  BY <1>1, <1>2, <1>5, <1>6, Zenon DEF Core, Attends, Elsewhere, SameState, SameBeats
<1>8. Counted(t)'
  BY <1>1, Zenon DEF Core, Counted, Elsewhere, SameState, SameBeats, SameRest
<1>9. CopyUsed(t)'
  BY Zenon DEF Core, CopyUsed, Elsewhere, SameBeats, SameAct, Actors
<1> QED
  BY <1>3, <1>4, <1>7, <1>8, <1>9, Zenon DEF Core

\* a lets go of t, if it was its holder.
Drops(a, t) ==
  /\ Ends(a) \/ Goes(a, "report")
  /\ SameState(t) \/ (entry'[t] = None /\ t \notin claimed')
  /\ OtherStreams(a)
  /\ SameQueue(t)
  /\ t \in heartbeat' <=> t \in heartbeat
  /\ \A g \in Gateways : copies'[g][t] = copies[g][t] \/ copies'[g][t] = None
  /\ put'[t] = put[t] /\ retried'[t] = retried[t]

\* An actor that lets go of t, with or without deleting its state.
LEMMA CoreDrops ==
  ASSUME NEW t \in Tasks, NEW a \in Actors, Core(t), Drops(a, t), a \in Gateways => Ends(a)
  PROVE  Core(t)'
<1>1. ~Holds(a, t)' /\ \A b \in Actors : b # a => act'[b] = act[b]
  <2>1. None # t
    BY TaskAssumption
  <2> QED
    BY <2>1, Zenon DEF Drops, Ends, Goes, Others, Holds
<1>2. \A b \in Actors : Holds(b, t)' => b # a /\ Holds(b, t) /\ act'[b] = act[b]
  BY <1>1, Zenon DEF Holds
<1>3. \A r \in Runners : r \in Actors
  BY Zenon DEF Actors
<1>4. Single(t)'
  BY <1>2, SingleKept, Zenon DEF Core, Drops
<1>5. t \in claimed' => t \in claimed
  BY Zenon DEF Drops, SameState
<1>6. ClaimSound(t)'
  BY <1>2, <1>5, Zenon DEF Core, ClaimSound, Drops, SameQueue
<1>7. Covered(t) => Covered(t)'
  BY Zenon DEF Covered, Drops
<1>8. \A r \in Runners : Holds(r, t)' => (Ended(r)' <=> Ended(r))
  BY <1>2, <1>3, Zenon DEF Ended, Drops, OtherStreams
<1>9. entry[t] = None => entry'[t] = None
  BY Zenon DEF Drops, SameState
<1>10. t \notin claimed' => t \notin claimed \/ entry'[t] = None
  BY Zenon DEF Drops, SameState
<1>11. Attends(t)'
  BY <1>2, <1>3, <1>5, <1>7, <1>8, <1>9, <1>10, Zenon DEF Core, Attends, Drops
<1>12. entry'[t] = None \/ entry'[t] = entry[t]
  BY Zenon DEF Drops, SameState
<1>13. Counted(t)'
  BY <1>2, <1>12, Zenon DEF Core, Counted, Drops
<1>14. CopyUsed(t)'
  <2>1. \A g \in Gateways : g \in Actors /\ (act'[g].task = t => act[g].task = t)
    <3>1. None # t
      BY TaskAssumption
    <3> QED
      BY <1>1, <3>1, Zenon DEF Actors, Ends, Drops
  <2> QED
    BY <2>1, Zenon DEF Core, CopyUsed, Drops
<1> QED
  BY <1>4, <1>6, <1>11, <1>13, <1>14, Zenon DEF Core

\* a goes on with t at p, and nothing else of t changes but its row and its lock.
Moves(a, t, p) ==
  /\ act[a].task = t /\ Goes(a, p)
  /\ OtherStreams(a)
  /\ SameState(t) /\ SameQueue(t) /\ SameBeats(t) /\ SameRest(t)

\* A call on t goes on.
LEMMA CoreMoves ==
  ASSUME Typed, NEW t \in Tasks, NEW a \in Actors, NEW p, Core(t), Moves(a, t, p),
         act[a].pc \notin {"report", "running"},
         p \in Unclaimed => act[a].pc \in Unclaimed,
         p \in {"claimed", "running"} => act[a].pc \in {"claimed", "running"},
         p = "running" => HasStream(a)',
         p \in Retrying => act[a].pc \in Retrying,
         p \in Retrying \ {"retry"} =>
           act[a].pc \in Retrying \ {"retry"} \/ act[a].retries < MaxRetries,
         p \in {"retryRow", "push"} => act[a].pc \in {"retryRow", "push"}
  PROVE  Core(t)'
<1>1. Holds(a, t)' => Holds(a, t)
  BY Zenon DEF Moves, Goes, Holds
<1>2. \A b \in Actors : b # a => act'[b] = act[b]
  BY Zenon DEF Moves, Goes, Others
<1>3. \A b \in Actors : Holds(b, t)' => Holds(b, t)
  BY <1>1, <1>2, Zenon DEF Holds
<1>4. \A r \in Runners : r \in Actors
  BY Zenon DEF Actors
<1>5. /\ act'[a].pc = p /\ act'[a].retries = act[a].retries /\ act'[a].task = t /\ act[a].task = t
  BY Zenon DEF Moves, Goes
<1>6. Single(t)'
  BY <1>3, SingleKept, Zenon DEF Core, Moves, SameRest
<1>7. \A b \in Actors : Holds(b, t)' /\ act'[b].pc \in Unclaimed => act[b].pc \in Unclaimed
  BY <1>2, <1>5, Zenon
<1>8. ClaimSound(t)'
  BY <1>3, <1>7, Zenon DEF Core, ClaimSound, Moves, SameState, SameQueue, SameRest
<1>9. Covered(t)' <=> Covered(t)
  BY Zenon DEF Covered, Moves, SameBeats
<1>10. \A r \in Runners : Ended(r)' <=> Ended(r)
  <2>1. ASSUME NEW r \in Runners PROVE Ended(r)' <=> Ended(r)
    <3>1. CASE r = a
      <4>1. act[r].pc # "running"
        BY <3>1
      <4> QED
        BY <1>5, <3>1, <4>1, Zenon DEF Ended
    <3>2. CASE r # a
      BY <1>2, <1>4, <3>2, Zenon DEF Ended, Moves, OtherStreams
    <3> QED
      BY <3>1, <3>2, Zenon
  <2> QED
    BY <2>1, Zenon
<1>11. \A r \in Runners :
         act'[r].pc \in {"claimed", "running"} => act[r].pc \in {"claimed", "running"}
  BY <1>2, <1>4, <1>5, Zenon
<1>12. Attends(t)'
  BY <1>3, <1>4, <1>9, <1>10, <1>11, Zenon DEF Core, Attends, Moves, SameState, SameBeats
<1>13. ASSUME NEW b \in Actors, Holds(b, t)'
       PROVE  /\ act'[b].pc \in Retrying => act'[b].retries >= retried'[t]
              /\ act'[b].pc \in Retrying \ {"retry"} => act'[b].retries < MaxRetries
              /\ act'[b].pc \in {"retryRow", "push"} =>
                   entry'[t] = None \/ entry'[t] = act'[b].retries + 1
  <2>1. Holds(b, t) /\ entry'[t] = entry[t] /\ retried'[t] = retried[t]
    BY <1>3, <1>13, Zenon DEF Moves, SameState, SameRest
  <2>2. CASE b = a
    BY <1>5, <2>1, <2>2, Zenon DEF Core, Counted
  <2>3. CASE b # a
    BY <1>2, <2>1, <2>3, Zenon DEF Core, Counted
  <2> QED
    BY <2>2, <2>3, Zenon
<1>14. Counted(t)'
  BY <1>13, Zenon DEF Core, Counted, Moves, SameState, SameBeats, SameRest
<1>15. CopyUsed(t)'
  BY <1>2, <1>5, Zenon DEF Core, CopyUsed, Moves, SameBeats, Actors
<1> QED
  BY <1>6, <1>8, <1>12, <1>14, <1>15, Zenon DEF Core

\* The claim of t goes, and t is in hand to be queued again.
LEMMA CoreUnclaim ==
  ASSUME Typed, NEW t \in Tasks, NEW a \in Actors, Core(t), RetryUnclaim(a)
  PROVE  Core(t)'
<1>1. CASE Elsewhere(t)
  BY <1>1, CoreElsewhere
<1>2. CASE /\ act[a].task = t /\ act[a].pc = "unclaim" /\ Goes(a, "reindex") /\ KeepsCalls
           /\ row'[t] = row[t] /\ entry'[t] = entry[t] /\ t \notin claimed'
           /\ SameQueue(t) /\ SameBeats(t) /\ SameRest(t)
  <2>1. /\ act'[a].pc = "reindex" /\ act'[a].retries = act[a].retries /\ act'[a].task = t
        /\ act[a].task = t /\ act[a].pc = "unclaim" /\ \A b \in Actors : b # a => act'[b] = act[b]
    BY <1>2, Zenon DEF Goes, Others
  <2>2. /\ {"unclaim", "reindex"} \subseteq Retrying \ {"retry", "running", "claimed", "report", "retryRow", "push"}
    BY DEF Retrying
  <2>3. \A b \in Actors : Holds(b, t)' <=> Holds(b, t)
    BY <2>1, <2>2 DEF Holds
  <2>4. Holds(a, t)
    BY <2>1, <2>2 DEF Holds
  <2>5. \A b \in Actors : Holds(b, t) => b = a
    BY <2>4, Zenon DEF Core, Single
  <2>6. Single(t)'
    BY <1>2, <2>3, SingleKept, Zenon DEF Core, SameRest
  <2>7. ClaimSound(t)'
    BY <1>2, Zenon DEF ClaimSound
  <2>8. Covered(t)' <=> Covered(t)
    BY <1>2, Zenon DEF Covered, SameBeats
  <2>9. ~Ended(a) /\ ~Ended(a)' /\ act'[a].pc \notin {"claimed", "running"}
    BY <2>1 DEF Ended
  <2>10. Attends(t)'
    BY <1>2, <2>3, <2>5, <2>8, <2>9, Zenon DEF Core, Attends, SameBeats, Actors
  <2>11. Counted(t)'
    BY <1>2, <2>1, <2>2, <2>3, <2>5 DEF Core, Counted, SameBeats, SameRest
  <2>12. CopyUsed(t)'
    BY <1>2, <2>1, Zenon DEF Core, CopyUsed, SameBeats, Actors
  <2> QED
    BY <2>6, <2>7, <2>10, <2>11, <2>12, Zenon DEF Core
<1> QED
  BY <1>1, <1>2, RetryUnclaimEffect, Zenon

\* The entry counts the retry that a is about to make.
LEMMA CoreEntry ==
  ASSUME Typed, NEW t \in Tasks, NEW a \in Actors, Core(t), RetryEntry(a)
  PROVE  Core(t)'
<1>1. CASE Elsewhere(t)
  BY <1>1, CoreElsewhere
<1>2. CASE /\ act[a].task = t /\ act[a].pc = "reenter" /\ Goes(a, "retryRow") /\ KeepsCalls
           /\ row'[t] = row[t] /\ entry'[t] = act[a].retries + 1
           /\ t \in claimed' <=> t \in claimed
           /\ SameQueue(t) /\ SameBeats(t) /\ SameRest(t)
  <2>1. /\ act'[a].pc = "retryRow" /\ act'[a].retries = act[a].retries /\ act'[a].task = t
        /\ act[a].task = t /\ act[a].pc = "reenter" /\ \A b \in Actors : b # a => act'[b] = act[b]
    BY <1>2, Zenon DEF Goes, Others
  <2>2. /\ {"reenter", "retryRow"} \subseteq Retrying \ {"retry", "running", "claimed", "report"}
        /\ {"reenter", "retryRow"} \subseteq Unclaimed
    BY DEF Retrying, Unclaimed
  <2>3. \A b \in Actors : Holds(b, t)' <=> Holds(b, t)
    BY <2>1, <2>2 DEF Holds
  <2>4. Holds(a, t)
    BY <2>1, <2>2 DEF Holds
  <2>5. \A b \in Actors : Holds(b, t) => b = a
    BY <2>4, Zenon DEF Core, Single
  <2>6. Single(t)'
    BY <1>2, <2>3, SingleKept, Zenon DEF Core, SameRest
  <2>7. t \notin claimed'
    BY <1>2, <2>1, <2>2, <2>4 DEF Core, ClaimSound
  <2>8. ClaimSound(t)'
    BY <2>7, Zenon DEF ClaimSound
  <2>9. Covered(t)' <=> Covered(t)
    BY <1>2, Zenon DEF Covered, SameBeats
  <2>10. ~Ended(a) /\ ~Ended(a)' /\ act'[a].pc \notin {"claimed", "running"}
    BY <2>1 DEF Ended
  <2>11. Attends(t)'
    BY <1>2, <2>3, <2>5, <2>9, <2>10, Zenon DEF Core, Attends, SameBeats, Actors
  <2>12. /\ act[a].retries \in Nat /\ retried[t] \in Nat /\ retried'[t] = retried[t]
         /\ act[a].retries >= retried[t] /\ act[a].retries < MaxRetries
    BY <1>2, <2>1, <2>2, <2>4 DEF Core, Counted, SameRest, Typed, ActTyped, Activity, RestTyped
  <2>13. entry'[t] >= retried'[t]
    BY <1>2, <2>12
  <2>14. Counted(t)'
    BY <1>2, <2>1, <2>3, <2>5, <2>12, <2>13, Zenon DEF Core, Counted, SameBeats, SameRest
  <2>15. CopyUsed(t)'
    BY <1>2, <2>1, Zenon DEF Core, CopyUsed, SameBeats, Actors
  <2> QED
    BY <2>6, <2>8, <2>11, <2>14, <2>15, Zenon DEF Core
<1> QED
  BY <1>1, <1>2, RetryEntryEffect, Zenon

\* Without "twice" one monitor works, the others do nothing.
Alone ==
  "twice" \notin faults =>
    \A g \in Gateways :
      g # (CHOOSE f \in Gateways : TRUE) =>
        act[g].pc = "idle" /\ todo[g] = {} /\ \A t \in Tasks : copies[g][t] = None

\* With it, none of them retries t.
NoRetry(t) == "twice" \in faults => \A g \in Gateways : ~Holds(g, t)

\* The message of a retry goes to the queue; the retries counted for it are not
\* too few, and monitors that have not seen them find the heartbeat.
LEMMA CorePush ==
  ASSUME Typed, NEW t \in Tasks, NEW a \in Actors, Core(t), Alone, NoRetry(t), RetryPush(a)
  PROVE  Core(t)'
<1>1. CASE Elsewhere(t)
  BY <1>1, CoreElsewhere
<1>2. CASE /\ act[a].task = t /\ act[a].pc = "push" /\ Ends(a) /\ DropsCalls(a)
           /\ row'[t] = row[t] /\ SameState(t) /\ SameBeats(t)
           /\ Queued(t)' /\ (~Queued(t) => QueuedOnce(t)')
           /\ put'[t] = put[t] /\ retried'[t] = retried[t] + 1
           /\ t \in expired' <=> t \in expired
  <2>1. /\ act'[a].task # t /\ act[a].task = t /\ act[a].pc = "push"
        /\ \A b \in Actors : b # a => act'[b] = act[b]
    BY <1>2, TaskAssumption DEF Ends, Others
  <2>2. "push" \in Retrying \ {"retry", "report"} /\ "push" \in Unclaimed /\ "push" # "idle"
    BY DEF Retrying, Unclaimed
  <2>3. Holds(a, t)
    BY <2>1, <2>2 DEF Holds
  <2>4. \A b \in Actors : ~Holds(b, t)'
    <3>1. \A b \in Actors : Holds(b, t) => b = a
      BY <2>3, Zenon DEF Core, Single
    <3> QED
      BY <2>1, <3>1, Zenon DEF Holds
  <2>5. put[t] = "done" /\ ~Queued(t)
    BY <2>3, Zenon DEF Core, Single
  <2>6. Single(t)'
    BY <1>2, <2>4, <2>5, Zenon DEF Single
  <2>7. t \notin claimed'
    BY <1>2, <2>1, <2>2, <2>3 DEF Core, ClaimSound, SameState
  <2>8. ClaimSound(t)' /\ Attends(t)'
    BY <2>4, <2>7, Zenon DEF ClaimSound, Attends, Actors
  <2>9. Covered(t)
    <3>1. CASE a \in Runners
      BY <2>3, <3>1, Zenon DEF Core, Attends
    <3>2. CASE a \in Gateways
      <4>1. copies[a][t] = None
        BY <2>1, <3>2, Zenon DEF Core, CopyUsed
      <4>2. "twice" \notin faults
        BY <2>3, <3>2, Zenon DEF NoRetry
      <4>3. a = CHOOSE f \in Gateways : TRUE
        BY <2>1, <2>2, <3>2, <4>2 DEF Alone
      <4>4. \A g \in Gateways : g # a => copies[g][t] = None
        BY <4>2, <4>3 DEF Alone
      <4> QED
        BY <4>1, <4>4, Zenon DEF Covered
    <3> QED
      BY <3>1, <3>2, ActorKinds, Zenon
  <2>10. /\ act[a].retries \in Nat /\ retried[t] \in Nat /\ MaxRetries \in Nat
         /\ act[a].retries >= retried[t] /\ act[a].retries < MaxRetries
         /\ entry[t] = None \/ entry[t] = act[a].retries + 1
    BY <2>1, <2>2, <2>3, TaskAssumption
    DEF Core, Counted, Typed, ActTyped, Activity, RestTyped
  <2>11. /\ retried'[t] <= MaxRetries
         /\ entry'[t] # None => entry'[t] >= retried'[t]
    BY <1>2, <2>10 DEF SameState
  <2>12. \A g \in Gateways : copies'[g][t] # None => copies'[g][t].recent /\ t \in heartbeat'
    BY <1>2, <2>9, Zenon DEF Covered, SameBeats
  <2>13. Counted(t)'
    BY <1>2, <2>4, <2>5, <2>11, <2>12, Zenon DEF Counted
  <2>14. CopyUsed(t)'
    BY <1>2, <2>1, Zenon DEF Core, CopyUsed, SameBeats, Actors
  <2> QED
    BY <2>6, <2>8, <2>13, <2>14, Zenon DEF Core
<1> QED
  BY <1>1, <1>2, RetryPushEffect, Zenon

\* Pop sets the heartbeat, and so covers the monitors that have t's entry.
LEMMA CorePop ==
  ASSUME Typed, NEW t \in Tasks, NEW r \in Runners, Core(t), Pop(r)
  PROVE  Core(t)'
<1>1. CASE Elsewhere(t)
  BY <1>1, CoreElsewhere
<1>2. CASE /\ Refreshed(t) /\ Queued(t)
           /\ QueuedOnce(t) => ~Queued(t)' /\ QueuedOnce(t)'
           /\ SameState(t) /\ SameRest(t) /\ KeepsCalls /\ row'[t] = row[t]
           /\ \/ row[t] \notin InFlight /\ act' = act
              \/ /\ row[t] \in InFlight /\ act[r].pc = "idle" /\ Others(r)
                 /\ act'[r].pc = "popped" /\ act'[r].task = t
  <2>1. \A b \in Actors : ~Holds(b, t)
    BY <1>2, Zenon DEF Core, Single
  <2>2. \A b \in Actors : b # r => act'[b] = act[b]
    BY <1>2, Zenon DEF Others
  <2>3. \A b \in Actors : Holds(b, t)' => b = r /\ act'[r].pc = "popped"
    BY <1>2, <2>1, <2>2, Zenon DEF Holds
  <2>4. put[t] = "done" /\ t \notin claimed
    BY <1>2, Zenon DEF Core, Single, ClaimSound
  <2>5. Single(t)'
    BY <1>2, <2>3, <2>4, Zenon DEF Core, Single, SameRest
  <2>6. t \notin claimed'
    BY <1>2, <2>4, Zenon DEF SameState
  <2>7. Covered(t)' /\ t \in heartbeat'
    BY <1>2, Zenon DEF Covered, Refreshed
  <2>8. "popped" \notin {"claimed", "running"} /\ "popped" # "running"
    OBVIOUS
  <2>9. ClaimSound(t)' /\ Attends(t)'
    BY <2>3, <2>6, <2>7, <2>8, Zenon DEF ClaimSound, Attends, Ended, Actors
  <2>10. "popped" \notin Retrying /\ "popped" \notin {"retryRow", "push"}
    BY DEF Retrying
  <2>11. Counted(t)'
    BY <1>2, <2>3, <2>4, <2>10, Zenon DEF Core, Counted, SameState, SameRest, Refreshed
  <2>12. \A g \in Gateways : g # r /\ g \in Actors
    BY TaskAssumption DEF Actors
  <2>13. CopyUsed(t)'
    BY <1>2, <2>2, <2>12, Zenon DEF Core, CopyUsed, Refreshed
  <2> QED
    BY <2>5, <2>9, <2>11, <2>13, Zenon DEF Core
<1> QED
  BY <1>1, <1>2, PopEffect, Zenon

\* The claim is set by the one who has t.
LEMMA CoreClaim ==
  ASSUME Typed, NEW t \in Tasks, NEW r \in Runners, Core(t), Claim(r)
  PROVE  Core(t)'
<1>1. CASE Elsewhere(t)
  BY <1>1, CoreElsewhere
<1>2. CASE /\ act[r].task = t /\ act[r].pc = "popped" /\ Goes(r, "claimed") /\ KeepsCalls
           /\ row'[t] = row[t] /\ entry'[t] = entry[t] /\ t \in claimed'
           /\ SameQueue(t) /\ SameBeats(t) /\ SameRest(t)
  <2>1. /\ act'[r].pc = "claimed" /\ act'[r].task = t /\ r \in Actors /\ r \notin Gateways
        /\ act[r].task = t /\ act[r].pc = "popped" /\ \A b \in Actors : b # r => act'[b] = act[b]
    BY <1>2, TaskAssumption DEF Goes, Others, Actors
  <2>2. /\ "claimed" \notin Unclaimed /\ "claimed" \notin Retrying
        /\ "claimed" \notin {"retryRow", "push"} /\ "claimed" # "running" /\ "popped" # "report"
        /\ "popped" # "running" /\ "claimed" # "report"
    BY DEF Retrying, Unclaimed
  <2>3. Holds(r, t)
    BY <2>1, <2>2, Zenon DEF Holds
  <2>4. \A b \in Actors : Holds(b, t)' => b = r
    <3>1. \A b \in Actors : Holds(b, t) => b = r
      BY <2>1, <2>3, Zenon DEF Core, Single
    <3> QED
      BY <2>1, <3>1, Zenon DEF Holds
  <2>5. Single(t)'
    BY <1>2, <2>1, <2>3, <2>4, SingleKept, Zenon DEF Core, SameRest
  <2>6. put[t] = "done" /\ ~Queued(t)
    BY <2>1, <2>3, Zenon DEF Core, Single
  <2>7. ClaimSound(t)'
    BY <1>2, <2>1, <2>2, <2>4, <2>6, Zenon DEF ClaimSound, SameQueue, SameRest
  <2>8. t \in heartbeat /\ Covered(t)
    BY <2>1, <2>2, <2>3, Zenon DEF Core, Attends, Ended
  <2>9. Covered(t)' /\ t \in heartbeat' /\ ~Ended(r)'
    BY <1>2, <2>1, <2>2, <2>8, Zenon DEF Covered, SameBeats, Ended
  <2>10. Attends(t)'
    BY <1>2, <2>4, <2>9, Zenon DEF Attends, Actors
  <2>11. Counted(t)'
    BY <1>2, <2>1, <2>2, <2>4, Zenon DEF Core, Counted, SameBeats, SameRest
  <2>12. CopyUsed(t)'
    BY <1>2, <2>1, Zenon DEF Core, CopyUsed, SameBeats, Actors
  <2> QED
    BY <2>5, <2>7, <2>10, <2>11, <2>12, Zenon DEF Core
<1> QED
  BY <1>1, <1>2, ClaimEffect, Zenon

\* The runner asks for a retry: its claim is still there, or there would be no entry.
LEMMA CoreCompleteRetry ==
  ASSUME Typed, NEW t \in Tasks, NEW r \in Runners, Core(t), CompleteRetry(r)
  PROVE  Core(t)'
<1>1. CASE Elsewhere(t)
  BY <1>1, CoreElsewhere
<1>2. CASE /\ Ends(r) /\ DropsCalls(r)
           /\ SameState(t) /\ SameQueue(t) /\ SameBeats(t) /\ SameRest(t)
  <2>1. r \in Actors /\ r \notin Gateways
    BY TaskAssumption DEF Actors
  <2>2. Drops(r, t)
    BY <1>2, Zenon DEF Drops, DropsCalls, SameBeats, SameRest
  <2> QED
    BY <2>1, <2>2, CoreDrops, Zenon
<1>3. CASE /\ act[r].task = t /\ act[r].pc = "running"
           /\ SameState(t) /\ SameQueue(t) /\ SameBeats(t) /\ SameRest(t)
           /\ entry[t] # None /\ act'[r].pc = "retry" /\ act'[r].task = t
           /\ act'[r].retries = entry[t] /\ Others(r) /\ KeepsCalls
  <2>1. r \in Actors /\ r \notin Gateways /\ \A b \in Actors : b # r => act'[b] = act[b]
    BY <1>3, TaskAssumption DEF Others, Actors
  <2>2. /\ "retry" \notin Unclaimed /\ "retry" \notin Retrying \ {"retry"}
        /\ "retry" \notin {"claimed", "running", "retryRow", "push"} /\ "running" # "report"
    BY DEF Retrying, Unclaimed
  <2>3. Holds(r, t)
    BY <1>3, <2>1, <2>2, Zenon DEF Holds
  <2>4. \A b \in Actors : Holds(b, t)' => b = r
    <3>1. \A b \in Actors : Holds(b, t) => b = r
      BY <2>1, <2>3, Zenon DEF Core, Single
    <3> QED
      BY <2>1, <3>1, Zenon DEF Holds
  <2>5. Single(t)'
    BY <1>3, <2>1, <2>3, <2>4, SingleKept, Zenon DEF Core, SameRest
  <2>6. ClaimSound(t)'
    BY <1>3, <2>2, <2>4, Zenon DEF Core, ClaimSound, SameState, SameQueue, SameRest
  <2>7. t \in claimed
    BY <1>3, <2>3 DEF Core, Attends
  <2>8. t \in heartbeat /\ Covered(t)
    BY <2>3, <2>7, Zenon DEF Core, Attends
  <2>9. Covered(t)' /\ t \in heartbeat' /\ ~Ended(r)'
    BY <1>3, <2>2, <2>8, Zenon DEF Covered, SameBeats, Ended
  <2>10. Attends(t)'
    BY <1>3, <2>2, <2>4, <2>9, Zenon DEF Attends, Actors
  <2>11. entry[t] >= retried[t]
    BY <1>3, Zenon DEF Core, Counted
  <2>12. Counted(t)'
    BY <1>3, <2>2, <2>4, <2>11, Zenon DEF Core, Counted, SameState, SameBeats, SameRest
  <2>13. CopyUsed(t)'
    BY <1>3, <2>1, Zenon DEF Core, CopyUsed, SameBeats, Actors
  <2> QED
    BY <2>5, <2>6, <2>10, <2>12, <2>13, Zenon DEF Core
<1> QED
  BY <1>1, <1>2, <1>3, CompleteRetryEffect, Zenon

\* Steps that move no actor that works on t.
LEMMA CoreStays ==
  ASSUME NEW t \in Tasks, Core(t), SameAct(t), SameQueue(t), put'[t] = put[t],
         retried'[t] = retried[t], SameState(t) \/ (entry'[t] = None /\ t \notin claimed'),
         \A r \in Runners : Holds(r, t) =>
           /\ Covered(t)'
           /\ Ended(r)' => t \notin claimed'
           /\ ~Ended(r)' => t \in heartbeat',
         \A g \in Gateways : copies'[g][t] # None =>
           /\ copies'[g][t].retries >= retried[t] \/ (copies'[g][t].recent /\ t \in heartbeat')
           /\ act[g].task = t => copies[g][t] # None
  PROVE  Core(t)'
<1>1. \A a \in Actors : (Holds(a, t)' <=> Holds(a, t)) /\ (Holds(a, t) => act'[a] = act[a])
  BY HoldsElsewhere, Zenon
<1>2. \A r \in Runners : r \in Actors
  BY Zenon DEF Actors
<1>3. Single(t)'
  BY <1>1, SingleKept, Zenon DEF Core
<1>4. /\ t \in claimed' => t \in claimed
      /\ entry'[t] = None \/ (entry'[t] = entry[t] /\ (t \in claimed => t \in claimed'))
  BY Zenon DEF SameState
<1>5. ClaimSound(t)'
  BY <1>1, <1>4, Zenon DEF Core, ClaimSound, SameQueue
<1>6. Attends(t)'
  BY <1>1, <1>2, <1>4, Zenon DEF Core, Attends
<1>7. Counted(t)'
  BY <1>1, <1>4, Zenon DEF Core, Counted
<1>8. CopyUsed(t)'
  BY Zenon DEF Core, CopyUsed, SameAct, Actors
<1> QED
  BY <1>3, <1>5, <1>6, <1>7, <1>8, Zenon DEF Core

\* A stream sets t's heartbeat; it ends only without t's claim.
LEMMA CoreBeat ==
  ASSUME NEW t \in Tasks, Core(t), act' = act, SameState(t), SameQueue(t), Refreshed(t), SameRest(t),
         t \in claimed => SameStreams
  PROVE  Core(t)'
<1>1. SameAct(t)
  BY Zenon DEF SameAct
<1>2. Covered(t)' /\ t \in heartbeat'
  BY Zenon DEF Covered, Refreshed
<1>3. \A r \in Runners : Holds(r, t) => (Ended(r)' => t \notin claimed')
  BY Zenon DEF Core, Attends, Ended, SameStreams, SameState
<1>4. \A g \in Gateways : copies'[g][t] # None =>
        /\ copies'[g][t].retries >= retried[t] \/ (copies'[g][t].recent /\ t \in heartbeat')
        /\ act[g].task = t => copies[g][t] # None
  BY <1>2, Zenon DEF Covered, Refreshed
<1> QED
  BY <1>1, <1>2, <1>3, <1>4, CoreStays, Zenon DEF SameRest

\* A stream has found the timeout, or deletes t's state.
LEMMA CoreStream ==
  ASSUME NEW t \in Tasks, Core(t), act' = act, SameStreams,
         SameState(t) \/ (entry'[t] = None /\ t \notin claimed'),
         SameQueue(t), SameBeats(t), SameRest(t)
  PROVE  Core(t)'
<1>1. SameAct(t) /\ \A r \in Runners : Ended(r)' <=> Ended(r)
  BY Zenon DEF SameAct, Ended, SameStreams
<1>2. Covered(t)' <=> Covered(t)
  BY Zenon DEF Covered, SameBeats
<1>3. \A q \in Runners : Holds(q, t) =>
        Covered(t)' /\ (Ended(q)' => t \notin claimed') /\ (~Ended(q)' => t \in heartbeat')
  BY <1>1, <1>2, Zenon DEF Core, Attends, SameBeats, SameState
<1>4. \A f \in Gateways : copies'[f][t] # None =>
        /\ copies'[f][t].retries >= retried[t] \/ (copies'[f][t].recent /\ t \in heartbeat')
        /\ act[f].task = t => copies[f][t] # None
  BY Zenon DEF Core, Counted, SameBeats
<1> QED
  BY <1>1, <1>3, <1>4, CoreStays, Zenon DEF SameRest

\* A monitor fetches t's entry: with the retries counted so far, and while t has a
\* runner the heartbeat is there.
LEMMA CoreFetch ==
  ASSUME Typed, NEW t \in Tasks, NEW g \in Gateways, NEW v \in Tasks, Core(t), MonitorFetch(g, v)
  PROVE  Core(t)'
<1>1. CASE Elsewhere(t)
  BY <1>1, CoreElsewhere
<1>2. CASE /\ act' = act /\ KeepsCalls /\ SameQueue(t) /\ SameRest(t)
           /\ entry'[t] = None /\ t \notin claimed' /\ SameBeats(t)
  <2>1. SameAct(t) /\ \A r \in Runners : Ended(r)' <=> Ended(r)
    BY <1>2, Zenon DEF SameAct, Ended, KeepsCalls, HasStream
  <2>2. Covered(t)' <=> Covered(t)
    BY <1>2, Zenon DEF Covered, SameBeats
  <2>3. \A q \in Runners : Holds(q, t) =>
          Covered(t)' /\ (Ended(q)' => t \notin claimed') /\ (~Ended(q)' => t \in heartbeat')
    BY <1>2, <2>1, <2>2, Zenon DEF Core, Attends, SameBeats
  <2>4. \A f \in Gateways : copies'[f][t] # None =>
          /\ copies'[f][t].retries >= retried[t] \/ (copies'[f][t].recent /\ t \in heartbeat')
          /\ act[f].task = t => copies[f][t] # None
    BY <1>2, Zenon DEF Core, Counted, SameBeats
  <2> QED
    BY <1>2, <2>1, <2>3, <2>4, CoreStays, Zenon DEF SameRest
<1>3. CASE /\ act[g].pc = "idle" /\ act' = act /\ KeepsCalls
           /\ SameQueue(t) /\ SameRest(t) /\ (t \in heartbeat' <=> t \in heartbeat)
           /\ entry[t] # None /\ SameState(t)
           /\ copies'[g][t] = [retries |-> entry[t], recent |-> Attended(t)]
           /\ \A f \in Gateways : f # g => copies'[f][t] = copies[f][t]
  <2>1. SameAct(t) /\ \A r \in Runners : Ended(r)' <=> Ended(r)
    BY <1>3, Zenon DEF SameAct, Ended, KeepsCalls, HasStream
  <2>2. ASSUME NEW q \in Runners, Holds(q, t)
        PROVE  ~Ended(q) /\ t \in heartbeat /\ Covered(t) /\ Attended(t)
    <3>1. "running" \in {"claimed", "running"}
      OBVIOUS
    <3>2. ~Ended(q)
      BY <1>3, <2>2, <3>1, Zenon DEF Core, Attends, Ended
    <3>3. t \in heartbeat /\ Covered(t)
      BY <2>2, <3>2, Zenon DEF Core, Attends
    <3>4. Attended(t)
      BY <2>2, <3>2, Zenon DEF Attended, Ended, Holds, At
    <3> QED
      BY <3>2, <3>3, <3>4
  <2>3. copies'[g][t].retries = entry[t] /\ (copies'[g][t].recent <=> Attended(t))
    BY <1>3 DEF Attended
  <2>4. ASSUME NEW q \in Runners, Holds(q, t)
        PROVE  Covered(t)' /\ (Ended(q)' => t \notin claimed') /\ (~Ended(q)' => t \in heartbeat')
    <3>1. ~Ended(q)' /\ t \in heartbeat'
      BY <1>3, <2>1, <2>2, <2>4, Zenon
    <3>2. ASSUME NEW f \in Gateways, copies'[f][t] # None
          PROVE  copies'[f][t].recent /\ t \in heartbeat'
      <4>1. CASE f = g
        BY <2>2, <2>3, <2>4, <3>1, <4>1, Zenon
      <4>2. CASE f # g
        BY <1>3, <2>2, <2>4, <3>1, <3>2, <4>2, Zenon DEF Covered
      <4> QED
        BY <4>1, <4>2
    <3> QED
      BY <3>1, <3>2, Zenon DEF Covered
  <2>5. entry[t] >= retried[t]
    BY <1>3, Zenon DEF Core, Counted
  <2>6. act[g].task # t
    <3>1. act[g].task = None /\ None # t
      BY <1>3, TaskAssumption DEF Typed, ActTyped, Actors
    <3> QED
      BY <3>1
  <2>7. \A f \in Gateways : copies'[f][t] # None =>
          /\ copies'[f][t].retries >= retried[t] \/ (copies'[f][t].recent /\ t \in heartbeat')
          /\ act[f].task = t => copies[f][t] # None
    BY <1>3, <2>3, <2>5, <2>6, Zenon DEF Core, Counted
  <2> QED
    BY <1>3, <2>1, <2>4, <2>7, CoreStays, Zenon DEF SameRest
<1> QED
  BY <1>1, <1>2, <1>3, MonitorFetchEffect, Zenon

\* A monitor finds t claimed and without heartbeat only if nobody has t and the one
\* monitor there is comes to it with the retries counted so far.
LEMMA CoreCheck ==
  ASSUME Typed, NEW t \in Tasks, NEW g \in Gateways, NEW v \in Tasks, Core(t), Alone, NoRetry(t),
         MonitorCheck(g, v)
  PROVE  Core(t)'
<1>1. CASE Elsewhere(t)
  BY <1>1, CoreElsewhere
<1> DEFINE Taken ==
      /\ act[g].pc = "idle" /\ Others(g) /\ KeepsCalls
      /\ SameState(t) /\ SameQueue(t) /\ SameRest(t)
      /\ (t \in heartbeat' <=> t \in heartbeat)
      /\ copies[g][t] # None /\ copies'[g][t] = None
      /\ \A f \in Gateways : f # g => copies'[f][t] = copies[f][t]
<1>2. g \in Actors /\ g \notin Runners /\ (\A r \in Runners : r \in Actors)
  BY TaskAssumption DEF Actors
<1>3. CASE Taken /\ Ends(g)
  <2>1. Drops(g, t)
    BY <1>3, Zenon DEF Drops, KeepsCalls, OtherStreams, HasStream, SameRest
  <2> QED
    BY <1>2, <1>3, <2>1, CoreDrops, Zenon
<1>4. ASSUME Taken PROVE Covered(t) => Covered(t)'
  BY <1>4, Zenon DEF Covered
<1>5. ASSUME Taken, act'[g].task = t PROVE CopyUsed(t)'
  BY <1>5, Zenon DEF Core, CopyUsed, Others, Actors
<1>6. ASSUME Taken PROVE \A r \in Runners : act'[r] = act[r] /\ (Ended(r)' <=> Ended(r))
  BY <1>2, <1>6, Zenon DEF Others, KeepsCalls, Ended, HasStream
<1>7. CASE Taken /\ act'[g].task = t /\ act'[g].pc = "cancel"
  <2>1. "cancel" \notin Retrying
    BY DEF Retrying
  <2>2. \A b \in Actors : b # g => act'[b] = act[b]
    BY <1>7, Zenon DEF Others
  <2>3. \A b \in Actors : Holds(b, t)' => b # g /\ Holds(b, t) /\ act'[b] = act[b]
    BY <1>7, <2>1, <2>2, Zenon DEF Holds
  <2>4. Single(t)'
    BY <1>7, <2>3, SingleKept, Zenon DEF Core, SameRest
  <2>5. ClaimSound(t)'
    BY <1>7, <2>3, Zenon DEF Core, ClaimSound, SameState, SameQueue, SameRest
  <2>6. Attends(t)'
    BY <1>2, <1>4, <1>6, <1>7, <2>3, Zenon DEF Core, Attends, SameState
  <2>7. Counted(t)'
    BY <1>7, <2>3, Zenon DEF Core, Counted, SameState, SameRest
  <2> QED
    BY <1>5, <1>7, <2>4, <2>5, <2>6, <2>7, Zenon DEF Core
<1>8. CASE /\ Taken /\ t \in claimed /\ t \notin heartbeat
           /\ act'[g].task = t /\ act'[g].pc = "retry" /\ act'[g].retries = copies[g][t].retries
  <2>1. /\ "retry" \notin Unclaimed /\ "retry" \notin Retrying \ {"retry"}
        /\ "retry" \notin {"claimed", "running", "retryRow", "push"} /\ "idle" \notin Retrying
    BY DEF Retrying, Unclaimed
  <2>2. \A r \in Runners : ~Holds(r, t)
    BY <1>8, Zenon DEF Core, Attends, Covered
  <2>3. \A f \in Gateways : ~Holds(f, t)
    <3>1. CASE "twice" \in faults
      BY <3>1, Zenon DEF NoRetry
    <3>2. CASE "twice" \notin faults
      <4>1. g = CHOOSE f \in Gateways : TRUE
        BY <1>8, <3>2, Zenon DEF Alone
      <4>2. \A f \in Gateways : act[f].pc = "idle"
        BY <1>8, <3>2, <4>1, Zenon DEF Alone
      <4> QED
        BY <2>1, <4>2, Zenon DEF Holds
    <3> QED
      BY <3>1, <3>2
  <2>4. \A b \in Actors : Holds(b, t)' => b = g
    <3>1. \A b \in Actors : ~Holds(b, t) /\ (b # g => act'[b] = act[b])
      BY <1>8, <2>2, <2>3, ActorKinds, Zenon DEF Others
    <3> QED
      BY <3>1, Zenon DEF Holds
  <2>5. put[t] = "done" /\ ~Queued(t)
    BY <1>8, Zenon DEF Core, ClaimSound
  <2>6. Single(t)'
    BY <1>8, <2>4, <2>5, Zenon DEF Core, Single, SameQueue, SameRest
  <2>7. ClaimSound(t)'
    BY <1>8, <2>1, <2>4, <2>5, Zenon DEF ClaimSound, SameQueue, SameRest
  <2>8. Attends(t)'
    BY <1>2, <2>4, Zenon DEF Attends
  <2>9. copies[g][t].retries >= retried[t]
    BY <1>8, Zenon DEF Core, Counted
  <2>10. Counted(t)'
    BY <1>8, <2>1, <2>4, <2>9, Zenon DEF Core, Counted, SameState, SameRest
  <2> QED
    BY <1>5, <1>8, <2>6, <2>7, <2>8, <2>10, Zenon DEF Core
<1> QED
  BY <1>1, <1>3, <1>7, <1>8, MonitorCheckEffect, Zenon

\* Until the put has pushed t's message, nobody has t.
LEMMA CorePut ==
  ASSUME Typed, NEW t \in Tasks, NEW v \in Tasks, Core(t), PutNext(v)
  PROVE  Core(t)'
<1>1. CASE Elsewhere(t)
  BY <1>1, CoreElsewhere
<1>2. ASSUME Calm(t), t \in claimed' <=> t \in claimed, put[t] # "done",
             entry'[t] \in {entry[t], 0},
             \/ put'[t] # "done" /\ SameQueue(t)
             \/ put'[t] = "done" /\ Queued(t)' /\ (~Queued(t) => QueuedOnce(t)')
      PROVE  Core(t)'
  <2>1. ~Queued(t) /\ \A a \in Actors : ~Holds(a, t)
    BY <1>2, Zenon DEF Core, Single
  <2>2. \A a \in Actors : ~Holds(a, t)'
    BY <1>2, <2>1, Zenon DEF Holds, Calm
  <2>3. t \notin claimed'
    BY <1>2, Zenon DEF Core, ClaimSound
  <2>4. Single(t)'
    BY <1>2, <2>1, <2>2, Zenon DEF Core, Single, SameQueue
  <2>5. ClaimSound(t)' /\ Attends(t)'
    BY <2>2, <2>3, Zenon DEF ClaimSound, Attends, Actors
  <2>6. retried[t] = 0 /\ 0 >= 0
    BY <1>2 DEF Core, Counted
  <2>7. entry'[t] # None => entry'[t] >= retried[t]
    BY <1>2, <2>6, Zenon DEF Core, Counted
  <2>8. Counted(t)'
    BY <1>2, <2>2, <2>6, <2>7, Zenon DEF Core, Counted, Calm, SameBeats
  <2>9. CopyUsed(t)'
    BY <1>2, Zenon DEF Core, CopyUsed, Calm, SameBeats
  <2> QED
    BY <2>4, <2>5, <2>8, <2>9, Zenon DEF Core
<1>3. ASSUME ~Elsewhere(t)
      PROVE  /\ Calm(t) /\ (t \in claimed' <=> t \in claimed) /\ put[t] # "done"
             /\ entry'[t] \in {entry[t], 0}
             /\ \/ put'[t] # "done" /\ SameQueue(t)
                \/ put'[t] = "done" /\ Queued(t)' /\ (~Queued(t) => QueuedOnce(t)')
  BY <1>3, PutEffect
<1> QED
  BY <1>1, <1>2, <1>3, Zenon

\* A stop deletes entry and claim together.
LEMMA CoreStopDelete ==
  ASSUME Typed, NEW t \in Tasks, NEW v \in Tasks, Core(t), StopDelete(v)
  PROVE  Core(t)'
<1>1. CASE Elsewhere(t)
  BY <1>1, CoreElsewhere
<1>2. CASE /\ act' = act /\ SameStreams /\ entry'[t] = None /\ t \notin claimed'
           /\ SameQueue(t) /\ SameBeats(t) /\ SameRest(t)
  BY <1>2, CoreStream, Zenon
<1> QED
  BY <1>1, <1>2, StopDeleteEffect, Zenon

\* A heartbeat expires only when no runner keeps it and no monitor relies on it.
LEMMA CoreTime ==
  ASSUME Typed, NEW t \in Tasks, NEW v \in Tasks, Core(t), faults \cap {"lapse", "slow"} = {},
         \/ Expire(v) \/ Stop(v) \/ StopRow(v) \/ HeartbeatExpires(v) \/ LockExpires(v)
  PROVE  Core(t)'
<1>1. CASE Elsewhere(t)
  BY <1>1, CoreElsewhere
<1>2. CASE /\ SameAct(t) /\ SameStream(t) /\ SameState(t) /\ SameQueue(t)
           /\ put'[t] = put[t] /\ retried'[t] = retried[t]
           /\ \A g \in Gateways : copies'[g][t] = copies[g][t]
           /\ \/ t \in heartbeat' <=> t \in heartbeat
              \/ t \notin heartbeat' /\ ("lapse" \in faults \/ ~Attended(t)) /\ ~Recent(t)
  <2>1. \A r \in Runners : Holds(r, t) => (Ended(r)' <=> Ended(r))
    BY <1>2, Zenon DEF Holds, Ended, SameAct, SameStream, Actors
  <2>2. CASE t \in heartbeat' <=> t \in heartbeat
    <3>1. Covered(t)' <=> Covered(t)
      BY <1>2, <2>2, Zenon DEF Covered
    <3>2. \A q \in Runners : Holds(q, t) =>
            Covered(t)' /\ (Ended(q)' => t \notin claimed') /\ (~Ended(q)' => t \in heartbeat')
      BY <1>2, <2>1, <2>2, <3>1, Zenon DEF Core, Attends, SameState
    <3>3. \A f \in Gateways : copies'[f][t] # None =>
            /\ copies'[f][t].retries >= retried[t] \/ (copies'[f][t].recent /\ t \in heartbeat')
            /\ act[f].task = t => copies[f][t] # None
      BY <1>2, <2>2, Zenon DEF Core, Counted
    <3> QED
      BY <1>2, <3>2, <3>3, CoreStays, Zenon
  <2>3. CASE ~Attended(t) /\ ~Recent(t)
    <3>1. "slow" \notin faults
      OBVIOUS
    <3>2. \A g \in Gateways : copies[g][t] # None => ~copies[g][t].recent
      BY <2>3, <3>1, Zenon DEF Recent
    <3>3. \A q \in Runners : Holds(q, t) => Ended(q)
      BY <2>3, Zenon DEF Attended, Ended, Holds, At
    <3>4. \A q \in Runners : Holds(q, t) =>
            Covered(t)' /\ (Ended(q)' => t \notin claimed') /\ (~Ended(q)' => t \in heartbeat')
      BY <1>2, <2>1, <3>2, <3>3, Zenon DEF Core, Attends, SameState, Covered
    <3>5. \A f \in Gateways : copies'[f][t] # None =>
            /\ copies'[f][t].retries >= retried[t] \/ (copies'[f][t].recent /\ t \in heartbeat')
            /\ act[f].task = t => copies[f][t] # None
      BY <1>2, <3>2, Zenon DEF Core, Counted
    <3> QED
      BY <1>2, <3>4, <3>5, CoreStays, Zenon
  <2>4. "lapse" \notin faults
    OBVIOUS
  <2> QED
    BY <1>2, <2>2, <2>3, <2>4, Zenon
<1> QED
  BY <1>1, <1>2, TimeEffect, Zenon

-----------------------------------------------------------------------------
(* Two monitors, with no crash and no stop                                 *)

\* A claim is left behind only where no monitor reads it.
Owned(t) ==
  t \in claimed => (\E r \in Runners : Holds(r, t)) \/ (entry[t] = None /\ Covered(t))

\* Only runners retry t, and none of them loses it.
Together(t) ==
  (\A g \in Gateways : ~Holds(g, t)) /\ RowSound(t) /\ Guarded(t) /\ Owned(t)

\* Steps on other tasks.
LEMMA TogetherElsewhere ==
  ASSUME NEW t \in Tasks, Together(t), Elsewhere(t)
  PROVE  Together(t)'
<1>1. \A a \in Actors : (Holds(a, t)' <=> Holds(a, t)) /\ (Holds(a, t) => act'[a] = act[a])
  BY HoldsElsewhere, Zenon DEF Elsewhere
<1>2. (\A r \in Runners : r \in Actors) /\ (\A g \in Gateways : g \in Actors)
  BY Zenon DEF Actors
<1>3. \A g \in Gateways : ~Holds(g, t)'
  BY <1>1, <1>2, Zenon DEF Together
<1>4. RowSound(t)'
  BY Zenon DEF Together, RowSound, Elsewhere, SameRest
<1>5. Guarded(t)'
  BY <1>2, Zenon DEF Together, Guarded, Elsewhere, SameAct
<1>6. Covered(t) => Covered(t)'
  BY Zenon DEF Covered, Elsewhere, SameBeats
<1>7. Owned(t)'
  BY <1>1, <1>2, <1>6, Zenon DEF Together, Owned, Elsewhere, SameState
<1> QED
  BY <1>3, <1>4, <1>5, <1>7, Zenon DEF Together

\* a begins or goes on with t.
LEMMA TogetherMoves ==
  ASSUME NEW t \in Tasks, Together(t), NEW a \in Actors, NEW p, Others(a),
         act'[a].task = t, act'[a].pc = p, p # "report",
         p \in Retrying => Holds(a, t) \/ a \in Runners,
         act[a].pc \in Locking => p \in Locking,
         lock'[t] = lock[t] \/ (lock'[t] = a /\ p \in Locking /\ Holds(a, t)),
         row'[t] = row[t] \/ row'[t] \notin {None, "CANCELLED"}, put'[t] = put[t],
         (t \in claimed' <=> t \in claimed) \/ Holds(a, t), entry'[t] = entry[t] \/ Holds(a, t),
         Covered(t) => Covered(t)'
  PROVE  Together(t)'
<1>1. \A b \in Actors : b # a => act'[b] = act[b]
  BY Zenon DEF Others
<1>2. (\A r \in Runners : r \in Actors) /\ (\A g \in Gateways : g \in Actors)
  BY Zenon DEF Actors
<1>3. Holds(a, t) => a \in Runners
  BY ActorKinds, Zenon DEF Together
<1>4. \A g \in Gateways : ~Holds(g, t)'
  <2>1. ASSUME NEW g \in Gateways, g = a, Holds(g, t)' PROVE FALSE
    <3>1. p \in Retrying
      BY <2>1, Zenon DEF Holds
    <3> QED
      BY <1>3, <2>1, <3>1, ActorKinds, Zenon
  <2>2. \A g \in Gateways : g # a => ~Holds(g, t)'
    BY <1>1, <1>2, Zenon DEF Together, Holds
  <2> QED
    BY <2>1, <2>2, Zenon
<1>5. RowSound(t)'
  BY DEF Together, RowSound
<1>6. Guarded(t)'
  BY <1>1, <1>2, <1>3, Zenon DEF Together, Guarded
<1>7. a \in Runners => Holds(a, t)'
  BY ActorKinds, Zenon DEF Holds
<1>8. \A r \in Runners : r # a /\ Holds(r, t) => Holds(r, t)'
  BY <1>1, <1>2, Zenon DEF Holds
<1>9. Owned(t)'
  BY <1>3, <1>7, <1>8, Zenon DEF Together, Owned
<1> QED
  BY <1>4, <1>5, <1>6, <1>9, Zenon DEF Together

\* a ends its work on t, or its call that reports the result has begun.
LEMMA TogetherDrops ==
  ASSUME NEW t \in Tasks, Together(t), NEW a \in Actors, Others(a),
         act'[a].task # t \/ act'[a].pc \in Running \ {"popped", "claimed", "running"},
         lock'[t] = None \/ (lock'[t] = lock[t] /\ lock[t] # a),
         row'[t] = row[t] \/ row'[t] \notin {None, "CANCELLED"}, put'[t] = put[t],
         entry'[t] = entry[t] \/ entry'[t] = None,
         t \in claimed' => t \in claimed,
         t \in claimed' /\ Holds(a, t) /\ a \in Runners => entry'[t] = None /\ Covered(t)',
         Covered(t) => Covered(t)'
  PROVE  Together(t)'
<1>1. \A b \in Actors : b # a => act'[b] = act[b]
  BY Zenon DEF Others
<1>2. (\A r \in Runners : r \in Actors) /\ (\A g \in Gateways : g \in Actors)
  BY Zenon DEF Actors
<1>3. \A x \in Running \ {"popped", "claimed", "running"} : x = "report" /\ x \notin Retrying
  BY DEF Running, Retrying
<1>4. ~Holds(a, t)'
  BY <1>3, Zenon DEF Holds
<1>5. \A g \in Gateways : ~Holds(g, t)'
  BY <1>1, <1>2, <1>4, Zenon DEF Together, Holds
<1>6. RowSound(t)'
  BY DEF Together, RowSound
<1>7. Guarded(t)'
  BY <1>1, <1>2, Zenon DEF Together, Guarded
<1>8. \A r \in Runners : r # a /\ Holds(r, t) => Holds(r, t)'
  BY <1>1, <1>2, Zenon DEF Holds
<1>9. Owned(t)'
  BY <1>8, Zenon DEF Together, Owned
<1> QED
  BY <1>5, <1>6, <1>7, <1>9, Zenon DEF Together

\* Nobody who works on t moves.
LEMMA TogetherStays ==
  ASSUME NEW t \in Tasks, Together(t), SameAct(t), lock'[t] = lock[t] \/ lock'[t] = None,
         RowSound(t)', t \in claimed' => t \in claimed,
         t \in claimed' /\ entry[t] = None /\ Covered(t) => entry'[t] = None /\ Covered(t)'
  PROVE  Together(t)'
<1>1. \A a \in Actors : (Holds(a, t)' <=> Holds(a, t)) /\ (Holds(a, t) => act'[a] = act[a])
  BY HoldsElsewhere, Zenon
<1>2. (\A r \in Runners : r \in Actors) /\ (\A g \in Gateways : g \in Actors)
  BY Zenon DEF Actors
<1>3. \A g \in Gateways : ~Holds(g, t)'
  BY <1>1, <1>2, Zenon DEF Together
<1>4. Guarded(t)'
  BY <1>2, Zenon DEF Together, Guarded, SameAct
<1>5. Owned(t)'
  BY <1>1, <1>2, Zenon DEF Together, Owned
<1> QED
  BY <1>3, <1>4, <1>5, Zenon DEF Together

\* SameBeats keeps what covers t.
LEMMA CoveredKept ==
  ASSUME NEW t, SameBeats(t)
  PROVE  Covered(t)' <=> Covered(t)
  BY Zenon DEF Covered, SameBeats

-----------------------------------------------------------------------------
(* RetryTask and Cancel                                                    *)

\* The retry lock: with two monitors, t's holder finds it free.
LEMMA SoundLock ==
  ASSUME Typed, NEW t \in Tasks, NEW a \in Actors, Core(t), RetryLock(a)
  PROVE  Core(t)' /\ (Together(t) => Together(t)')
<1>1. CASE Elsewhere(t)
  BY <1>1, CoreElsewhere, TogetherElsewhere
<1> DEFINE Same == /\ act[a].task = t /\ act[a].pc = "retry" /\ row'[t] = row[t]
                   /\ SameState(t) /\ SameQueue(t) /\ SameBeats(t) /\ SameRest(t)
<1>2. ASSUME Same PROVE Holds(a, t) /\ put'[t] = put[t] /\ (Covered(t) => Covered(t)')
  <2>1. "retry" # "report" /\ "retry" \in Retrying
    BY DEF Retrying
  <2> QED
    BY <1>2, <2>1, CoveredKept, Zenon DEF Holds, SameRest
<1>3. CASE Same /\ lock[t] # None /\ Ends(a) /\ DropsCalls(a)
  <2>1. Drops(a, t)
    BY <1>3, Zenon DEF Drops, DropsCalls, SameBeats, SameRest
  <2>2. "retry" \notin Locking
    BY DEF Locking, Retrying, Cancelling
  <2>3. ~Together(t)
    <3>1. ASSUME NEW r \in Runners, act[r].task = t, act[r].pc \in Locking PROVE FALSE
      <4>1. r \in Actors /\ "report" \notin Locking /\ r \notin Gateways
        BY TaskAssumption DEF Actors, Locking, Retrying, Cancelling
      <4>2. Holds(r, t)
        BY <3>1, <4>1, Zenon DEF Holds
      <4>3. r = a
        BY <1>2, <1>3, <4>1, <4>2, Zenon DEF Core, Single
      <4> QED
        BY <1>3, <2>2, <3>1, <4>3, Zenon
    <3> QED
      BY <1>3, <3>1, Zenon DEF Together, Guarded
  <2> QED
    BY <1>3, <2>1, <2>3, CoreDrops, Zenon
<1>4. ASSUME Same, lock'[t] = a, streams' = streams, NEW p \in {"cancel", "unclaim"}, Goes(a, p),
             p = "unclaim" => act[a].retries < MaxRetries
      PROVE  Core(t)' /\ (Together(t) => Together(t)')
  <2>1. /\ p \in Locking /\ p \notin Unclaimed /\ p \notin {"report", "claimed", "running"}
        /\ p \notin {"retryRow", "push"} /\ "retry" \notin Locking
        /\ p \in Retrying => p = "unclaim"
        /\ "retry" \notin {"report", "running"} /\ "retry" \in Retrying
    BY <1>4 DEF Locking, Retrying, Cancelling, Unclaimed
  <2>2. Moves(a, t, p)
    BY <1>4, Zenon DEF Moves, OtherStreams, HasStream
  <2>3. Core(t)'
    BY <1>4, <2>1, <2>2, CoreMoves, Zenon
  <2>4. Others(a) /\ act'[a].task = t /\ act'[a].pc = p
    BY <1>4, Zenon DEF Goes
  <2>5. Together(t) => Together(t)'
    BY <1>2, <1>4, <2>1, <2>4, TogetherMoves, Zenon DEF SameState
  <2> QED
    BY <2>3, <2>5
<1>5. CASE Same /\ lock'[t] = a /\ streams' = streams /\ Goes(a, "cancel")
  BY <1>4, <1>5
<1>6. CASE Same /\ lock'[t] = a /\ streams' = streams /\ act[a].retries < MaxRetries /\ Goes(a, "unclaim")
  BY <1>4, <1>6
<1> QED
  BY <1>1, <1>3, <1>5, <1>6, RetryLockEffect, Zenon

\* Between the lock and the push the call goes on with the next step; only the last
\* of the steps needs more than that for Core.
LEMMA TogetherCall ==
  ASSUME NEW t \in Tasks, Together(t), NEW a \in Actors, NEW p \in Locking, Goes(a, p),
         act[a].task = t, act[a].pc \in Retrying, KeepsCalls,
         row'[t] = row[t] \/ row'[t] \notin {None, "CANCELLED"}, SameBeats(t), SameRest(t)
  PROVE  Together(t)'
<1>1. "report" \notin Locking /\ "report" \notin Retrying
  BY DEF Locking, Retrying, Cancelling
<1>2. Holds(a, t) /\ p # "report"
  BY <1>1, Zenon DEF Holds
<1>3. Others(a) /\ act'[a].task = t /\ act'[a].pc = p /\ lock'[t] = lock[t] /\ put'[t] = put[t]
  BY Zenon DEF Goes, KeepsCalls, SameRest
<1>4. Covered(t) => Covered(t)'
  BY CoveredKept
<1> QED
  BY <1>2, <1>3, <1>4, TogetherMoves, Zenon

\* RetryTask up to the entry.
LEMMA SoundRetry ==
  ASSUME Typed, NEW t \in Tasks, NEW a \in Actors, Core(t),
         RetryUnclaim(a) \/ RetryIndex(a) \/ RetryEntry(a)
  PROVE  Core(t)' /\ (Together(t) => Together(t)')
<1>1. /\ {"reindex", "reenter", "retryRow"} \subseteq Locking
      /\ {"unclaim", "reindex", "reenter"} \subseteq Retrying
  BY DEF Locking, Retrying
<1>2. CASE RetryUnclaim(a)
  <2>1. Elsewhere(t) \/
          (/\ act[a].task = t /\ act[a].pc = "unclaim" /\ Goes(a, "reindex") /\ KeepsCalls
           /\ row'[t] = row[t] /\ SameBeats(t) /\ SameRest(t))
    BY <1>2, RetryUnclaimEffect, Zenon
  <2>2. Together(t) => Together(t)'
    BY <1>1, <2>1, TogetherElsewhere, TogetherCall
  <2> QED
    BY <1>2, <2>2, CoreUnclaim
<1>3. CASE RetryEntry(a)
  <2>1. Elsewhere(t) \/
          (/\ act[a].task = t /\ act[a].pc = "reenter" /\ Goes(a, "retryRow") /\ KeepsCalls
           /\ row'[t] = row[t] /\ SameBeats(t) /\ SameRest(t))
    BY <1>3, RetryEntryEffect, Zenon
  <2>2. Together(t) => Together(t)'
    BY <1>1, <2>1, TogetherElsewhere, TogetherCall
  <2> QED
    BY <1>3, <2>2, CoreEntry
<1>4. CASE RetryIndex(a)
  <2>1. CASE Elsewhere(t)
    BY <2>1, CoreElsewhere, TogetherElsewhere
  <2>2. CASE /\ act[a].task = t /\ act[a].pc = "reindex" /\ Goes(a, "reenter") /\ KeepsCalls
             /\ row'[t] = row[t] /\ SameState(t)
             /\ SameQueue(t) /\ SameBeats(t) /\ SameRest(t)
    <3>1. Together(t) => Together(t)'
      BY <1>1, <2>2, TogetherCall
    <3>2. Moves(a, t, "reenter")
      BY <2>2, Zenon DEF Moves, KeepsCalls, OtherStreams, HasStream
    <3>3. /\ "reindex" \notin {"report", "running"} /\ "reindex" \in Unclaimed
          /\ "reenter" \notin {"claimed", "running", "retryRow", "push"} /\ "reenter" # "running"
          /\ "reindex" \in Retrying \ {"retry"}
      BY DEF Unclaimed, Retrying
    <3>4. Core(t)'
      BY <2>2, <3>2, <3>3, CoreMoves, Zenon
    <3> QED
      BY <3>1, <3>4
  <2> QED
    BY <1>4, <2>1, <2>2, RetryIndexEffect, Zenon
<1> QED
  BY <1>2, <1>3, <1>4

\* A call on t that finds t's row gone, and ends, is not one of t's holder.
LEMMA SoundRowless ==
  ASSUME NEW t \in Tasks, NEW a \in Actors, Core(t), row[t] = None, row'[t] = None,
         act[a].task = t, Ends(a), DropsCalls(a),
         SameState(t), SameQueue(t), SameBeats(t), SameRest(t)
  PROVE  Core(t)' /\ (Together(t) => Together(t)')
<1>1. Drops(a, t)
  BY Zenon DEF Drops, DropsCalls, SameBeats, SameRest
<1>2. Together(t) => ~Holds(a, t)
  BY DEF Together, RowSound, Core, Single
<1>3. Others(a) /\ act'[a].task # t /\ put'[t] = put[t]
  BY TaskAssumption DEF Ends, SameRest
<1>4. lock'[t] = None \/ (lock'[t] = lock[t] /\ lock[t] # a)
  BY LockDropped
<1>5. Covered(t) => Covered(t)'
  BY CoveredKept
<1>6. Together(t) => Together(t)'
  BY <1>2, <1>3, <1>4, <1>5, TogetherDrops, Zenon DEF SameState
<1> QED
  BY <1>1, <1>6, CoreDrops, Zenon

\* RetryTask's update of the row.
LEMMA SoundRow ==
  ASSUME Typed, NEW t \in Tasks, NEW a \in Actors, Core(t), RetryRow(a)
  PROVE  Core(t)' /\ (Together(t) => Together(t)')
<1>1. CASE Elsewhere(t)
  BY <1>1, CoreElsewhere, TogetherElsewhere
<1>2. CASE /\ act[a].task = t /\ SameState(t) /\ SameQueue(t) /\ SameBeats(t) /\ SameRest(t)
           /\ row[t] = None /\ row'[t] = None /\ Ends(a) /\ DropsCalls(a)
  BY <1>2, SoundRowless
<1>3. CASE /\ act[a].task = t /\ act[a].pc = "retryRow" /\ SameState(t)
           /\ SameQueue(t) /\ SameBeats(t) /\ SameRest(t)
           /\ row'[t] = "RETRY" /\ Goes(a, "push") /\ KeepsCalls
  <2>1. /\ "push" \in Locking /\ "retryRow" \in Retrying \ {"retry"} /\ "push" \in Retrying
        /\ "retryRow" \in Unclaimed /\ "retryRow" \notin {"report", "running"}
        /\ "push" \notin {"claimed", "running"} /\ "push" # "running"
        /\ "retryRow" \in {"retryRow", "push"}
    BY DEF Locking, Retrying, Unclaimed
  <2>2. row'[t] \notin {None, "CANCELLED"}
    BY <1>3, TaskAssumption DEF InFlight
  <2>3. Together(t) => Together(t)'
    BY <1>3, <2>1, <2>2, TogetherCall
  <2>4. Moves(a, t, "push")
    BY <1>3, Zenon DEF Moves, KeepsCalls, OtherStreams, HasStream
  <2>5. Core(t)'
    BY <1>3, <2>1, <2>4, CoreMoves, Zenon
  <2> QED
    BY <2>3, <2>5
<1> QED
  BY <1>1, <1>2, <1>3, RetryRowEffect, Zenon

\* The push of a retry.
LEMMA SoundPush ==
  ASSUME Typed, NEW t \in Tasks, NEW a \in Actors, Core(t), Alone, "twice" \in faults => Together(t),
         RetryPush(a)
  PROVE  Core(t)' /\ (Together(t) => Together(t)')
<1>1. CASE Elsewhere(t)
  BY <1>1, CoreElsewhere, TogetherElsewhere
<1>2. NoRetry(t)
  BY Zenon DEF NoRetry, Together
<1>3. Core(t)'
  BY <1>2, CorePush
<1>4. CASE /\ act[a].task = t /\ act[a].pc = "push" /\ Ends(a) /\ DropsCalls(a)
           /\ row'[t] = row[t] /\ SameState(t) /\ SameBeats(t) /\ put'[t] = put[t]
  <2>1. Others(a) /\ act'[a].task # t
    BY <1>4, TaskAssumption DEF Ends
  <2>2. lock'[t] = None \/ (lock'[t] = lock[t] /\ lock[t] # a)
    BY <1>4, LockDropped
  <2>3. Covered(t) => Covered(t)'
    BY <1>4, CoveredKept
  <2>4. "push" \in Unclaimed /\ "push" \in Retrying /\ "push" # "report"
    BY DEF Unclaimed, Retrying
  <2>5. t \notin claimed'
    BY <1>4, <2>4 DEF Core, ClaimSound, Holds, SameState
  <2>6. Together(t) => Together(t)'
    BY <1>4, <2>1, <2>2, <2>3, <2>5, TogetherDrops, Zenon DEF SameState
  <2> QED
    BY <1>3, <2>6
<1> QED
  BY <1>1, <1>4, RetryPushEffect, Zenon

\* A call of Cancel goes on.
LEMMA SoundCancelling ==
  ASSUME Typed, NEW t \in Tasks, NEW a \in Actors, Core(t), act[a].task = t,
         act[a].pc \in Cancelling, NEW p \in Cancelling, Goes(a, p), KeepsCalls,
         row'[t] = row[t] \/ row'[t] \in Verdicts,
         SameState(t), SameQueue(t), SameBeats(t), SameRest(t)
  PROVE  Core(t)' /\ (Together(t) => Together(t)')
<1>1. /\ p \in Locking /\ p \notin Unclaimed /\ p \notin {"report", "claimed", "running"}
      /\ p \notin {"retryRow", "push"} /\ p \notin Retrying
      /\ act[a].pc \notin {"report", "running"}
  BY DEF Locking, Retrying, Cancelling, Unclaimed
<1>2. Moves(a, t, p)
  BY Zenon DEF Moves, KeepsCalls, OtherStreams, HasStream
<1>3. Core(t)'
  BY <1>1, <1>2, CoreMoves, Zenon
<1>4. Others(a) /\ act'[a].task = t /\ act'[a].pc = p /\ lock'[t] = lock[t] /\ put'[t] = put[t]
  BY Zenon DEF Goes, KeepsCalls, SameRest
<1>5. row'[t] = row[t] \/ row'[t] \notin {None, "CANCELLED"}
  BY TaskAssumption DEF Verdicts, Completed
<1>6. Covered(t) => Covered(t)'
  BY CoveredKept
<1>7. Together(t) => Together(t)'
  BY <1>1, <1>4, <1>5, <1>6, TogetherMoves, Zenon DEF SameState
<1> QED
  BY <1>3, <1>7

\* Cancel, for a task without retries left or expired.
LEMMA SoundCancel ==
  ASSUME Typed, NEW t \in Tasks, NEW a \in Actors, Core(t), CancelRead(a) \/ CancelRow(a)
  PROVE  Core(t)' /\ (Together(t) => Together(t)')
<1>1. CASE Elsewhere(t)
  BY <1>1, CoreElsewhere, TogetherElsewhere
<1>2. {"cancel", "cancelRow", "resolve"} = Cancelling
  BY DEF Cancelling
<1>3. CASE /\ act[a].task = t /\ row'[t] = row[t] /\ row[t] = None /\ Ends(a) /\ DropsCalls(a)
           /\ SameState(t) /\ SameQueue(t) /\ SameBeats(t) /\ SameRest(t)
  BY <1>3, SoundRowless
<1>4. CASE /\ act[a].task = t /\ act[a].pc \in {"cancel", "cancelRow"}
           /\ row'[t] = row[t] \/ row'[t] \in Verdicts
           /\ SameState(t) /\ SameQueue(t) /\ SameBeats(t) /\ SameRest(t)
           /\ Goes(a, "cancelRow") \/ Goes(a, "resolve")
           /\ KeepsCalls
  BY <1>2, <1>4, SoundCancelling
<1>5. CASE CancelRead(a)
  <2>1. "cancel" \in {"cancel", "cancelRow"}
    OBVIOUS
  <2> QED
    BY <1>1, <1>3, <1>4, <1>5, <2>1, CancelReadEffect, Zenon
<1>6. CASE CancelRow(a)
  <2>1. "cancelRow" \in {"cancel", "cancelRow"}
    OBVIOUS
  <2> QED
    BY <1>1, <1>4, <1>6, <2>1, CancelRowEffect, Zenon
<1> QED
  BY <1>5, <1>6

\* Calls that delete t's state and end, or go on to report.
LEMMA SoundDelete ==
  ASSUME Typed, NEW t \in Tasks, NEW a \in Actors, Core(t), act[a].task = t,
         Ends(a) \/ (Goes(a, "report") /\ a \in Runners),
         OtherStreams(a),
         lock'[t] = None \/ (lock'[t] = lock[t] /\ lock[t] # a) \/ (lock'[t] = lock[t] /\ act[a].pc = "running"),
         row'[t] = row[t], entry'[t] = None, t \notin claimed',
         SameQueue(t), SameBeats(t), SameRest(t)
  PROVE  Core(t)' /\ (Together(t) => Together(t)')
<1>1. Drops(a, t)
  BY Zenon DEF Drops, SameBeats, SameRest
<1>2. Core(t)'
  BY <1>1, CoreDrops, ActorKinds, Zenon
<1>3. "report" \in Running \ {"popped", "claimed", "running"}
  BY DEF Running
<1>4. /\ Others(a) /\ put'[t] = put[t]
      /\ act'[a].task # t \/ act'[a].pc \in Running \ {"popped", "claimed", "running"}
  <2>1. None # t
    BY TaskAssumption
  <2> QED
    BY <1>3, <2>1, Zenon DEF Ends, Goes, SameRest
<1>5. ASSUME Together(t) PROVE lock'[t] = None \/ (lock'[t] = lock[t] /\ lock[t] # a)
  <2>1. "running" \notin Locking
    BY DEF Locking, Retrying, Cancelling
  <2> QED
    BY <1>5, <2>1, Zenon DEF Together, Guarded
<1>6. Covered(t) => Covered(t)'
  BY CoveredKept
<1>7. Together(t) => Together(t)'
  BY <1>4, <1>5, <1>6, TogetherDrops, Zenon
<1> QED
  BY <1>2, <1>7

\* Dispatcher.Complete after Cancel.
LEMMA SoundResolve ==
  ASSUME Typed, NEW t \in Tasks, NEW a \in Actors, Core(t), Resolve(a)
  PROVE  Core(t)' /\ (Together(t) => Together(t)')
<1>1. CASE Elsewhere(t)
  BY <1>1, CoreElsewhere, TogetherElsewhere
<1>2. CASE /\ act[a].task = t /\ Ends(a) /\ DropsCalls(a)
           /\ row'[t] = row[t] /\ entry'[t] = None /\ t \notin claimed'
           /\ SameQueue(t) /\ SameBeats(t) /\ SameRest(t)
  <2>1. lock'[t] = None \/ (lock'[t] = lock[t] /\ lock[t] # a)
    BY <1>2, LockDropped
  <2>2. OtherStreams(a)
    BY <1>2, Zenon DEF DropsCalls
  <2> QED
    BY <1>2, <2>1, <2>2, SoundDelete, Zenon
<1> QED
  BY <1>1, <1>2, ResolveEffect, Zenon

-----------------------------------------------------------------------------
(* Runners                                                                 *)

\* TaskQueuePop, with a task or past a completed one.
LEMMA SoundPop ==
  ASSUME Typed, NEW t \in Tasks, NEW r \in Runners, Core(t), Pop(r)
  PROVE  Core(t)' /\ (Together(t) => Together(t)')
<1>1. CASE Elsewhere(t)
  BY <1>1, CoreElsewhere, TogetherElsewhere
<1>2. Core(t)'
  BY CorePop
<1> DEFINE Popping ==
      /\ Refreshed(t) /\ SameState(t) /\ SameRest(t) /\ KeepsCalls /\ row'[t] = row[t] /\ Queued(t)
<1>3. ASSUME Popping
      PROVE  /\ Covered(t)' /\ put'[t] = put[t] /\ lock'[t] = lock[t]
             /\ (t \in claimed' <=> t \in claimed) /\ entry'[t] = entry[t]
  BY <1>3, Zenon DEF Covered, Refreshed, SameState, SameRest, KeepsCalls
<1>4. CASE Popping /\ act' = act
  <2>1. SameAct(t)
    BY <1>4, Zenon DEF SameAct
  <2>2. Together(t) => RowSound(t)'
    BY <1>3, <1>4, Zenon DEF Together, RowSound
  <2>3. Together(t) => Together(t)'
    BY <1>3, <1>4, <2>1, <2>2, TogetherStays, Zenon
  <2> QED
    BY <1>2, <2>3
<1>5. CASE /\ Popping /\ act[r].pc = "idle" /\ Others(r)
           /\ act'[r].pc = "popped" /\ act'[r].task = t
  <2>1. "popped" # "report" /\ "popped" \notin Retrying /\ "idle" \notin Locking
    BY DEF Locking, Retrying, Cancelling
  <2>2. r \in Actors
    BY DEF Actors
  <2>3. Together(t) => Together(t)'
    BY <1>3, <1>5, <2>1, <2>2, TogetherMoves, Zenon
  <2> QED
    BY <1>2, <2>3
<1> QED
  BY <1>1, <1>4, <1>5, PopEffect, Zenon

\* The claim and the start of t.
LEMMA SoundBegin ==
  ASSUME Typed, NEW t \in Tasks, NEW r \in Runners, Core(t), Claim(r) \/ Start(r)
  PROVE  Core(t)' /\ (Together(t) => Together(t)')
<1>1. CASE Elsewhere(t)
  BY <1>1, CoreElsewhere, TogetherElsewhere
<1>2. r \in Actors /\ r \notin Gateways
  BY TaskAssumption DEF Actors
<1>3. ASSUME act[r].task = t, act[r].pc \in {"popped", "claimed"}, lock' = lock,
             Goes(r, "claimed") \/ Goes(r, "running"),
             row'[t] = row[t] \/ row'[t] = "RUNNING",
             entry'[t] = entry[t], SameBeats(t), SameRest(t)
      PROVE  Together(t) => Together(t)'
  <2>1. /\ {"popped", "claimed"} \cap Locking = {} /\ {"running", "claimed"} \cap Retrying = {}
        /\ "report" \notin {"popped", "claimed", "running"}
    BY DEF Locking, Retrying, Cancelling
  <2>2. Holds(r, t)
    BY <1>2, <1>3, <2>1, Zenon DEF Holds
  <2>3. row'[t] = row[t] \/ row'[t] \notin {None, "CANCELLED"}
    BY <1>3, TaskAssumption DEF InFlight
  <2>4. PICK p \in {"claimed", "running"} : Goes(r, p)
    BY <1>3, Zenon
  <2>5. /\ Others(r) /\ act'[r].task = t /\ act'[r].pc = p /\ p # "report" /\ p \notin Retrying
        /\ act[r].pc \notin Locking
    BY <1>3, <2>1, <2>4 DEF Goes
  <2>6. lock'[t] = lock[t] /\ put'[t] = put[t]
    BY <1>3, Zenon DEF SameRest
  <2>7. Covered(t) => Covered(t)'
    BY <1>3, CoveredKept
  <2> QED
    BY <1>2, <1>3, <2>2, <2>3, <2>5, <2>6, <2>7, TogetherMoves, Zenon
<1>4. CASE Claim(r)
  <2>1. Core(t)'
    BY <1>4, CoreClaim
  <2>2. "popped" \in {"popped", "claimed"}
    OBVIOUS
  <2>3. Together(t) => Together(t)'
    BY <1>1, <1>3, <1>4, <2>2, ClaimEffect, Zenon DEF KeepsCalls
  <2> QED
    BY <2>1, <2>3
<1>5. CASE Start(r)
  <2>1. CASE /\ act[r].task = t /\ act[r].pc = "claimed" /\ Goes(r, "running")
             /\ row'[t] = "RUNNING" /\ lock' = lock /\ HasStream(r)' /\ OtherStreams(r)
             /\ SameState(t) /\ SameQueue(t) /\ SameBeats(t) /\ SameRest(t)
    <3>1. Moves(r, t, "running")
      BY <2>1, Zenon DEF Moves
    <3>2. /\ "claimed" \notin {"report", "running"} /\ "running" \notin Unclaimed
          /\ "claimed" \in {"claimed", "running"} /\ "running" \notin Retrying
          /\ "running" \notin {"retryRow", "push"}
      BY DEF Unclaimed, Retrying
    <3>3. Core(t)'
      BY <1>2, <2>1, <3>1, <3>2, CoreMoves, Zenon
    <3>4. Together(t) => Together(t)'
      BY <1>3, <2>1, <3>2, Zenon DEF SameState
    <3> QED
      BY <3>3, <3>4
  <2> QED
    BY <1>1, <1>5, <2>1, StartEffect, Zenon
<1> QED
  BY <1>4, <1>5

\* A stream of t's runner, or of an earlier one.
LEMMA SoundStream ==
  ASSUME Typed, NEW t \in Tasks, NEW s \in streams, Core(t),
         Watch(s) \/ Beat(s) \/ Timeout(s) \/ StreamCompletes(s)
  PROVE  Core(t)' /\ (Together(t) => Together(t)')
<1>1. CASE Elsewhere(t)
  BY <1>1, CoreElsewhere, TogetherElsewhere
<1>2. ASSUME act' = act, lock' = lock, row'[t] \in {row[t], "TIMEOUT"}, SameRest(t),
             SameState(t) \/ t \notin claimed', SameBeats(t) \/ Refreshed(t)
      PROVE  Together(t) => Together(t)'
  <2>1. SameAct(t) /\ lock'[t] = lock[t]
    BY <1>2, Zenon DEF SameAct
  <2>2. Together(t) => RowSound(t)'
    BY <1>2, TaskAssumption DEF Together, RowSound, SameRest, Completed
  <2>3. Covered(t) => Covered(t)'
    BY <1>2, CoveredKept, Zenon DEF Covered, Refreshed
  <2> QED
    BY <1>2, <2>1, <2>2, <2>3, TogetherStays, Zenon DEF SameState
<1>3. CASE Watch(s)
  BY <1>1, <1>3, WatchEffect, Zenon
<1>4. CASE Beat(s)
  <2>1. CASE /\ act' = act /\ row'[t] = row[t] /\ lock' = lock
             /\ SameState(t) /\ SameQueue(t) /\ Refreshed(t) /\ SameRest(t)
             /\ t \in claimed => SameStreams
    <3>1. Core(t)'
      BY <2>1, CoreBeat, Zenon
    <3> QED
      BY <1>2, <2>1, <3>1, Zenon
  <2> QED
    BY <1>1, <1>4, <2>1, BeatEffect, Zenon
<1>5. CASE Timeout(s)
  <2>1. CASE /\ row'[t] = "TIMEOUT" /\ act' = act /\ lock' = lock /\ SameStreams
             /\ SameState(t) /\ SameQueue(t) /\ SameBeats(t) /\ SameRest(t)
    <3>1. Core(t)'
      BY <2>1, CoreStream, Zenon
    <3> QED
      BY <1>2, <2>1, <3>1, Zenon
  <2> QED
    BY <1>1, <1>5, <2>1, TimeoutEffect, Zenon
<1>6. CASE StreamCompletes(s)
  <2>1. CASE /\ row'[t] = row[t] /\ entry'[t] = None /\ t \notin claimed'
             /\ act' = act /\ lock' = lock /\ SameStreams
             /\ SameQueue(t) /\ SameBeats(t) /\ SameRest(t)
    <3>1. Core(t)'
      BY <2>1, CoreStream, Zenon
    <3> QED
      BY <1>2, <2>1, <3>1, Zenon
  <2> QED
    BY <1>1, <1>6, <2>1, StreamCompletesEffect, Zenon
<1> QED
  BY <1>3, <1>4, <1>5, <1>6

\* A runner exits, which only stopped tasks and task timeouts make it do.
LEMMA SoundExit ==
  ASSUME Typed, ExitSound, NEW t \in Tasks, NEW s \in streams, Core(t), ExitRunner(s)
  PROVE  Core(t)' /\ ("stop" \in faults \/ "timeout" \in faults)
<1>1. /\ s.pc = "exiting" /\ s.runner \in Runners /\ Ends(s.runner) /\ OtherStreams(s.runner)
      /\ SameState(t) /\ SameQueue(t) /\ SameBeats(t) /\ SameRest(t)
  BY ExitRunnerEffect, Zenon
<1>2. s.runner \in Actors /\ s.runner \notin Gateways
  BY <1>1, TaskAssumption DEF Actors
<1>3. Drops(s.runner, t)
  BY <1>1, Zenon DEF Drops, SameBeats, SameRest
<1>4. Core(t)'
  BY <1>2, <1>3, CoreDrops, Zenon
<1>5. s.pc \notin {"off", "on"}
  BY <1>1
<1> QED
  BY <1>4, <1>5, Zenon DEF ExitSound

\* TaskQueueComplete.
LEMMA SoundEnd ==
  ASSUME Typed, NEW t \in Tasks, NEW r \in Runners, Core(t),
         CompleteRow(r) \/ \E s \in {"COMPLETE", "ERROR"} : Complete(r, s)
  PROVE  Core(t)' /\ (Together(t) => Together(t)')
<1>1. CASE Elsewhere(t)
  BY <1>1, CoreElsewhere, TogetherElsewhere
<1>2. r \in Actors /\ r \notin Gateways
  BY TaskAssumption DEF Actors
<1>3. CASE \E s \in {"COMPLETE", "ERROR"} : Complete(r, s)
  <2>1. CASE /\ act[r].task = t /\ act[r].pc = "running" /\ Goes(r, "report") /\ KeepsCalls
             /\ row'[t] = row[t] /\ entry'[t] = None /\ t \notin claimed'
             /\ SameQueue(t) /\ SameBeats(t) /\ SameRest(t)
    <3>1. lock'[t] = lock[t] /\ OtherStreams(r)
      BY <2>1, Zenon DEF KeepsCalls, OtherStreams, HasStream
    <3> QED
      BY <1>2, <2>1, <3>1, SoundDelete, Zenon
  <2> QED
    BY <1>1, <1>3, <2>1, CompleteEffect, Zenon
<1>4. CASE CompleteRow(r)
  <2>1. CASE /\ act[r].task = t /\ act[r].pc = "report" /\ Ends(r) /\ DropsCalls(r)
             /\ row'[t] \in Verdicts
             /\ SameState(t) /\ SameQueue(t) /\ SameBeats(t) /\ SameRest(t)
    <3>1. Drops(r, t)
      BY <2>1, Zenon DEF Drops, DropsCalls, SameBeats, SameRest
    <3>2. Core(t)'
      BY <1>2, <3>1, CoreDrops, Zenon
    <3>3. Others(r) /\ act'[r].task # t /\ put'[t] = put[t]
      BY <2>1, TaskAssumption DEF Ends, SameRest
    <3>4. lock'[t] = None \/ (lock'[t] = lock[t] /\ lock[t] # r)
      BY <1>2, <2>1, LockDropped
    <3>5. row'[t] \notin {None, "CANCELLED"}
      BY <2>1, TaskAssumption DEF Verdicts, Completed
    <3>6. Covered(t) => Covered(t)'
      BY <2>1, CoveredKept
    <3>7. ~Holds(r, t)
      BY <2>1, Zenon DEF Holds
    <3>8. Together(t) => Together(t)'
      BY <1>2, <2>1, <3>3, <3>4, <3>5, <3>6, <3>7, TogetherDrops, Zenon DEF SameState
    <3> QED
      BY <3>2, <3>8
  <2> QED
    BY <1>1, <1>4, <2>1, CompleteRowEffect, Zenon
<1> QED
  BY <1>3, <1>4

\* TaskQueueComplete with RETRY.
LEMMA SoundCompleteRetry ==
  ASSUME Typed, NEW t \in Tasks, NEW r \in Runners, Core(t), CompleteRetry(r)
  PROVE  Core(t)' /\ (Together(t) => Together(t)')
<1>1. CASE Elsewhere(t)
  BY <1>1, CoreElsewhere, TogetherElsewhere
<1>2. r \in Actors /\ r \notin Gateways
  BY TaskAssumption DEF Actors
<1>3. Core(t)'
  BY CoreCompleteRetry
<1> DEFINE Same == /\ act[r].task = t /\ act[r].pc = "running" /\ row'[t] = row[t]
                   /\ SameState(t) /\ SameQueue(t) /\ SameBeats(t) /\ SameRest(t)
<1>4. ASSUME Same PROVE put'[t] = put[t] /\ (Covered(t) => Covered(t)') /\ Holds(r, t)
  <2>1. "running" # "report"
    OBVIOUS
  <2> QED
    BY <1>2, <1>4, <2>1, CoveredKept, Zenon DEF SameRest, Holds
<1>5. CASE Same /\ entry[t] = None /\ Ends(r) /\ DropsCalls(r)
  <2>1. Others(r) /\ act'[r].task # t
    BY <1>5, TaskAssumption DEF Ends
  <2>2. lock'[t] = None \/ (lock'[t] = lock[t] /\ lock[t] # r)
    BY <1>2, <1>5, LockDropped
  <2>3. Covered(t)
    BY <1>4, <1>5, Zenon DEF Core, Attends
  <2>4. Together(t) => Together(t)'
    BY <1>2, <1>4, <1>5, <2>1, <2>2, <2>3, TogetherDrops, Zenon DEF SameState
  <2> QED
    BY <1>3, <2>4
<1>6. CASE /\ Same /\ act'[r].pc = "retry" /\ act'[r].task = t /\ Others(r) /\ KeepsCalls
  <2>1. "retry" # "report" /\ "running" \notin Locking
    BY DEF Locking, Retrying, Cancelling
  <2>2. Together(t) => Together(t)'
    BY <1>2, <1>4, <1>6, <2>1, TogetherMoves, Zenon DEF SameState, KeepsCalls
  <2> QED
    BY <1>3, <2>2
<1> QED
  BY <1>1, <1>5, <1>6, CompleteRetryEffect, Zenon

-----------------------------------------------------------------------------
(* Monitors, puts, stops, time and crashes                                 *)

\* A monitor reads entries.
LEMMA SoundFetch ==
  ASSUME Typed, NEW t \in Tasks, NEW g \in Gateways, NEW v \in Tasks, Core(t), MonitorFetch(g, v)
  PROVE  Core(t)' /\ (Together(t) => Together(t)')
<1>1. CASE Elsewhere(t)
  BY <1>1, CoreElsewhere, TogetherElsewhere
<1>2. Core(t)'
  BY CoreFetch
<1>3. CASE /\ act' = act /\ KeepsCalls /\ row'[t] = row[t] /\ SameRest(t)
           /\ t \notin claimed' \/ (entry[t] # None /\ SameState(t))
  <2>1. SameAct(t) /\ lock'[t] = lock[t]
    BY <1>3, Zenon DEF SameAct, KeepsCalls
  <2>2. Together(t) => RowSound(t)'
    BY <1>3, Zenon DEF Together, RowSound, SameRest
  <2>3. Together(t) => Together(t)'
    BY <1>3, <2>1, <2>2, TogetherStays, Zenon DEF SameState
  <2> QED
    BY <1>2, <2>3
<1> QED
  BY <1>1, <1>3, MonitorFetchEffect, Zenon

\* A monitor decides; with two of them none decides to retry t.
LEMMA SoundCheck ==
  ASSUME Typed, NEW t \in Tasks, NEW g \in Gateways, NEW v \in Tasks, Core(t), Alone,
         "twice" \in faults => Together(t), MonitorCheck(g, v)
  PROVE  Core(t)' /\ ("twice" \in faults => Together(t)')
<1>1. CASE Elsewhere(t)
  BY <1>1, CoreElsewhere, TogetherElsewhere
<1>2. NoRetry(t)
  BY Zenon DEF NoRetry, Together
<1>3. Core(t)'
  BY <1>2, CoreCheck
<1>4. g \in Actors /\ g \notin Runners
  BY TaskAssumption DEF Actors
<1> DEFINE Taken ==
      /\ act[g].pc = "idle" /\ Others(g) /\ KeepsCalls /\ row'[t] = row[t] /\ SameState(t)
      /\ SameRest(t) /\ (t \in heartbeat' <=> t \in heartbeat)
      /\ copies[g][t] # None /\ copies'[g][t] = None
      /\ \A f \in Gateways : f # g => copies'[f][t] = copies[f][t]
<1>5. ASSUME Taken
      PROVE  /\ Covered(t) => Covered(t)'
             /\ put'[t] = put[t] /\ lock'[t] = lock[t] /\ entry'[t] = entry[t]
             /\ t \in claimed' <=> t \in claimed
  BY <1>5, Zenon DEF Covered, KeepsCalls, SameState, SameRest
<1>6. CASE Taken /\ Ends(g)
  <2>1. act'[g].task # t
    BY <1>6, TaskAssumption DEF Ends
  <2>2. Together(t) => lock[t] = None \/ lock[t] # g
    BY <1>4, Zenon DEF Together, Guarded
  <2>3. Together(t) => Together(t)'
    BY <1>4, <1>5, <1>6, <2>1, <2>2, TogetherDrops, Zenon
  <2> QED
    BY <1>3, <2>3
<1>7. CASE Taken /\ act'[g].task = t /\ act'[g].pc = "cancel"
  <2>1. "cancel" # "report" /\ "cancel" \notin Retrying /\ "idle" \notin Locking
    BY DEF Locking, Retrying, Cancelling
  <2>2. Together(t) => Together(t)'
    BY <1>4, <1>5, <1>7, <2>1, TogetherMoves, Zenon
  <2> QED
    BY <1>3, <2>2
<1>8. CASE Taken /\ t \in claimed /\ t \notin heartbeat
  <2>1. ~Covered(t)
    BY <1>8, Zenon DEF Covered
  <2>2. ~Together(t)
    BY <1>8, <2>1, Zenon DEF Together, Owned, Core, Attends
  <2> QED
    BY <1>3, <2>2
<1> QED
  BY <1>1, <1>6, <1>7, <1>8, MonitorCheckEffect, Zenon

\* The put of t.
LEMMA SoundPut ==
  ASSUME Typed, NEW t \in Tasks, NEW v \in Tasks, Core(t), PutNext(v)
  PROVE  Core(t)' /\ (Together(t) /\ "crash" \notin faults => Together(t)')
<1>1. CASE Elsewhere(t)
  BY <1>1, CoreElsewhere, TogetherElsewhere
<1>2. Core(t)'
  BY CorePut
<1>3. ASSUME ~Elsewhere(t), Together(t), "crash" \notin faults PROVE Together(t)'
  <2>1. /\ Calm(t) /\ (t \in claimed' <=> t \in claimed) /\ put[t] # "done"
        /\ put'[t] \in {"created", "done"} => row'[t] # None
        /\ row'[t] # "CANCELLED"
    <3>1. "PENDING" \notin {None, "CANCELLED"}
      BY TaskAssumption DEF InFlight
    <3> QED
      BY <1>3, <3>1, PutEffect DEF Together, RowSound
  <2>2. RowSound(t)'
    BY <2>1, Zenon DEF RowSound
  <2>3. SameAct(t) /\ lock'[t] = lock[t]
    BY <2>1, Zenon DEF Calm, SameAct
  <2>4. t \notin claimed
    BY <2>1, Zenon DEF Core, ClaimSound
  <2> QED
    BY <1>3, <2>1, <2>2, <2>3, <2>4, TogetherStays, Zenon
<1> QED
  BY <1>1, <1>2, <1>3, Zenon

\* A stop.
LEMMA SoundStopDelete ==
  ASSUME Typed, NEW t \in Tasks, NEW v \in Tasks, Core(t), StopDelete(v)
  PROVE  Core(t)' /\ (Together(t) /\ stop[t] = "no" => Together(t)')
<1>1. Core(t)'
  BY CoreStopDelete
<1>2. Elsewhere(t) \/ stop[t] # "no"
  BY StopDeleteEffect, Zenon
<1> QED
  BY <1>1, <1>2, TogetherElsewhere, Zenon

\* Time passes, and stops reach the row.
LEMMA SoundTime ==
  ASSUME Typed, NEW t \in Tasks, NEW v \in Tasks, Core(t), faults \cap {"lapse", "slow"} = {},
         \/ Expire(v) \/ Stop(v) \/ StopRow(v) \/ HeartbeatExpires(v) \/ LockExpires(v)
  PROVE  Core(t)' /\ (Together(t) /\ stop[t] = "no" => Together(t)')
<1>1. CASE Elsewhere(t)
  BY <1>1, CoreElsewhere, TogetherElsewhere
<1>2. Core(t)'
  BY CoreTime
<1>3. CASE /\ SameAct(t) /\ SameState(t) /\ put'[t] = put[t]
           /\ \A g \in Gateways : copies'[g][t] = copies[g][t]
           /\ \/ t \in heartbeat' <=> t \in heartbeat
              \/ t \notin heartbeat' /\ ~Recent(t)
           /\ lock'[t] = lock[t] \/ lock'[t] = None
           /\ stop[t] = "no" => row'[t] = row[t]
  <2>1. Together(t) /\ stop[t] = "no" => RowSound(t)'
    BY <1>3, Zenon DEF Together, RowSound
  <2>2. Covered(t) => Covered(t)'
    <3>1. "slow" \notin faults
      OBVIOUS
    <3> QED
      BY <1>3, <3>1, Zenon DEF Covered, Recent
  <2>3. Together(t) /\ stop[t] = "no" => Together(t)'
    BY <1>3, <2>1, <2>2, TogetherStays, Zenon DEF SameState
  <2> QED
    BY <1>2, <2>3
<1> QED
  BY <1>1, <1>3, TimeEffect, Zenon

\* A crash, in scenarios with crashes.
LEMMA SoundCrash ==
  ASSUME Typed, NEW t \in Tasks, NEW a \in Actors, Core(t), Crash(a)
  PROVE  Core(t)' /\ "crash" \in faults
<1>1. /\ "crash" \in faults /\ Ends(a)
      /\ OtherStreams(a)
      /\ SameState(t) /\ SameQueue(t) /\ SameRest(t) /\ (t \in heartbeat' <=> t \in heartbeat)
      /\ \A g \in Gateways : copies'[g][t] = copies[g][t] \/ copies'[g][t] = None
  BY CrashEffect, Zenon
<1>2. Drops(a, t)
  BY <1>1, Zenon DEF Drops, SameRest
<1> QED
  BY <1>1, <1>2, CoreDrops, Zenon

-----------------------------------------------------------------------------
(* A monitor that does nothing                                             *)

Quiet(g) == act[g].pc = "idle" /\ todo[g] = {} /\ \A t \in Tasks : copies[g][t] = None

\* A monitor whose state does not change.
LEMMA QuietKept ==
  ASSUME NEW g \in Gateways, Quiet(g), act'[g] = act[g], UNCHANGED <<todo, copies>>
  PROVE  Quiet(g)'
  BY Zenon DEF Quiet

\* What an actor does leaves the others alone.
LEMMA QuietRetry ==
  ASSUME Typed, NEW a \in Actors, RetryTask(a), NEW g \in Gateways, Quiet(g)
  PROVE  Quiet(g)'
<1>1. act[a].pc # "idle"
  BY Zenon DEF RetryTask, RetryLock, RetryUnclaim, RetryIndex, RetryEntry, RetryRow, RetryPush,
         CancelRead, CancelRow, Resolve, At
<1>2. a # g
  BY <1>1, Zenon DEF Quiet
<1>3. UNCHANGED <<todo, copies>>
  BY Zenon DEF RetryTask, RetryLock, RetryUnclaim, RetryIndex, RetryEntry, RetryRow, RetryPush,
         CancelRead, CancelRow, Resolve, actUnchanged, mon
<1>4. Finish(a) => act'[g] = act[g]
  BY <1>2 DEF Finish, Typed, ActTyped, Actors
<1>5. ASSUME NEW p, Become(a, p) PROVE act'[g] = act[g]
  BY <1>2, <1>5 DEF Become, Typed, ActTyped, Actors
<1>6. RetryLock(a) => act'[g] = act[g]
  BY <1>2, <1>4 DEF RetryLock, Typed, ActTyped, Actors
<1>7. CancelRead(a) => act'[g] = act[g]
  <2>1. row[act[a].task] \in InFlight \cup Completed \cup {None}
    BY <1>1 DEF Typed, ActTyped, RestTyped
  <2> QED
    BY <1>4, <1>5, <2>1, Zenon DEF CancelRead
<1>8. act'[g] = act[g]
  BY <1>4, <1>5, <1>6, <1>7, Zenon
  DEF RetryTask, RetryUnclaim, RetryIndex, RetryEntry, RetryRow, RetryPush, CancelRow, Resolve
<1> QED
  BY <1>3, <1>8, QuietKept

\* Heartbeats do not wake a monitor.
LEMMA QuietRefresh ==
  ASSUME Typed, NEW u \in Tasks, Refresh(u), NEW g \in Gateways, Quiet(g),
         act'[g] = act[g], todo' = todo
  PROVE  Quiet(g)'
<1>1. \A t \in Tasks : copies[g][t] = None => copies'[g][t] = None
  BY RefreshEffect, Zenon
<1> QED
  BY <1>1, Zenon DEF Quiet

\* Runners do not.
LEMMA QuietRun ==
  ASSUME Typed, NEW r \in Runners, Run(r), NEW g \in Gateways, Quiet(g)
  PROVE  Quiet(g)'
<1>1. r # g /\ r \in Actors /\ g \in Actors
  BY TaskAssumption DEF Actors
<1>2. Finish(r) => act'[g] = act[g]
  BY <1>1 DEF Finish, Typed, ActTyped
<1>3. ASSUME NEW p, Become(r, p) PROVE act'[g] = act[g]
  BY <1>1, <1>3 DEF Become, Typed, ActTyped
<1>4. CASE Pop(r)
  <2>1. Head(queue) \in Tasks
    BY <1>4, Popped DEF Pop, Typed, RestTyped
  <2>2. act'[g] = act[g]
    BY <1>1, <1>4 DEF Pop, Typed, ActTyped
  <2> QED
    BY <1>4, <2>1, <2>2, QuietRefresh, Zenon DEF Pop
<1>5. ASSUME Claim(r) \/ Start(r) \/ CompleteRow(r)
      PROVE  Quiet(g)'
  <2>1. UNCHANGED <<todo, copies>>
    BY <1>5, Zenon DEF Claim, Start, CompleteRow, actUnchanged, mon
  <2>2. act'[g] = act[g]
    BY <1>2, <1>3, <1>5, Zenon DEF Claim, Start, CompleteRow
  <2> QED
    BY <2>1, <2>2, QuietKept
<1>6. ASSUME NEW s \in {"COMPLETE", "ERROR"}, Complete(r, s) \/ CompleteRetry(r)
      PROVE  Quiet(g)'
  <2>1. UNCHANGED <<todo, copies>>
    BY <1>6, Zenon DEF Complete, CompleteRetry, actUnchanged, mon
  <2>2. Complete(r, s) => act'[g] = act[g]
    BY <1>1 DEF Complete, Typed, ActTyped
  <2>3. CompleteRetry(r) => act'[g] = act[g]
    BY <1>1, <1>2 DEF CompleteRetry, Typed, ActTyped
  <2> QED
    BY <1>6, <2>1, <2>2, <2>3, QuietKept
<1> QED
  BY <1>4, <1>5, <1>6, Zenon DEF Run

\* Nor do their streams.
LEMMA QuietStream ==
  ASSUME Typed, NEW s \in streams, StreamStep(s) \/ Timeout(s), NEW g \in Gateways, Quiet(g)
  PROVE  Quiet(g)'
<1>1. s.task \in Tasks /\ s.runner # g /\ g \in Actors
  BY TaskAssumption DEF Actors, Typed, StreamTyped, Streams
<1>2. CASE Beat(s)
  <2>1. Refresh(s.task) /\ act'[g] = act[g] /\ todo' = todo
    BY <1>2, Zenon DEF Beat
  <2> QED
    BY <1>1, <2>1, QuietRefresh, Zenon
<1>3. ASSUME Watch(s) \/ Timeout(s) \/ StreamCompletes(s) \/ ExitRunner(s) PROVE Quiet(g)'
  <2>1. UNCHANGED <<todo, copies>>
    BY <1>3, Zenon DEF Watch, Timeout, StreamCompletes, ExitRunner, actUnchanged, mon
  <2>2. Dies(s.runner) => act'[g] = act[g]
    BY <1>1 DEF Dies, Typed, ActTyped
  <2>3. act'[g] = act[g]
    BY <1>3, <2>2, Zenon DEF Watch, Timeout, StreamCompletes, ExitRunner
  <2> QED
    BY <2>1, <2>3, QuietKept
<1> QED
  BY <1>2, <1>3, Zenon DEF StreamStep

\* Another monitor does not; nor does a tick, unless there are two monitors.
LEMMA QuietMonitor ==
  ASSUME Typed, NEW f \in Gateways, Monitor(f), "twice" \notin faults, NEW g \in Gateways, Quiet(g),
         g # (CHOOSE h \in Gateways : TRUE)
  PROVE  Quiet(g)'
<1>1. f \in Actors /\ g \in Actors
  BY DEF Actors
<1>2. CASE MonitorList(f)
  <2>1. f # g
    BY <1>2, Zenon DEF MonitorList
  <2> QED
    BY <1>2, <2>1 DEF MonitorList, Quiet, Typed, RestTyped
<1>3. ASSUME NEW t \in Tasks, MonitorFetch(f, t) PROVE Quiet(g)'
  <2>1. f # g
    BY <1>3 DEF MonitorFetch, Quiet
  <2>2. todo'[g] = todo[g] /\ act' = act
    BY <1>3, <2>1, Zenon DEF MonitorFetch, Typed, RestTyped
  <2>3. copies'[g] = copies[g]
    BY <1>3, <2>1 DEF MonitorFetch, Typed, RestTyped
  <2> QED
    BY <2>2, <2>3, Zenon DEF Quiet
<1>4. ASSUME NEW t \in Tasks, MonitorCheck(f, t) PROVE Quiet(g)'
  <2>1. f # g
    BY <1>4, Zenon DEF MonitorCheck, Quiet
  <2>2. todo' = todo /\ act'[g] = act[g]
    BY <1>1, <1>4, <2>1 DEF MonitorCheck, Typed, ActTyped
  <2>3. copies'[g] = copies[g]
    BY <1>4, <2>1 DEF MonitorCheck, Typed, RestTyped
  <2> QED
    BY <2>2, <2>3, Zenon DEF Quiet
<1> QED
  BY <1>2, <1>3, <1>4 DEF Monitor

\* Crashes do not.
LEMMA QuietCrash ==
  ASSUME Typed, NEW a \in Actors, Crash(a), NEW g \in Gateways, Quiet(g)
  PROVE  Quiet(g)'
<1>1. a # g
  <2>1. \A s \in streams : s.runner # g
    BY TaskAssumption DEF Typed, StreamTyped, Streams
  <2> QED
    BY <2>1, Zenon DEF Crash, Quiet, At
<1>2. act'[g] = act[g]
  BY <1>1 DEF Crash, Dies, Typed, ActTyped, Actors
<1>3. copies'[g] = copies[g] /\ todo' = todo
  BY <1>1, Zenon DEF Crash
<1> QED
  BY <1>2, <1>3, Zenon DEF Quiet

\* Puts, stops and time do not.
LEMMA QuietTask ==
  ASSUME NEW t \in Tasks, NEW g \in Gateways, Quiet(g),
         \/ PutNext(t) \/ Expire(t) \/ Stop(t) \/ StopDelete(t) \/ StopRow(t)
         \/ HeartbeatExpires(t) \/ LockExpires(t)
  PROVE  Quiet(g)'
<1>1. PutNext(t) => UNCHANGED <<act, todo, copies>>
  BY Zenon DEF PutNext, Put, PutIndex, PutEntry, CreateTask, PutPush, PutPushFails, putUnchanged, mon
<1>2. UNCHANGED <<act, todo, copies>>
  BY <1>1, Zenon DEF Expire, Stop, StopDelete, StopRow, HeartbeatExpires, LockExpires, stopUnchanged, mon
<1> QED
  BY <1>2, Zenon DEF Quiet

-----------------------------------------------------------------------------
(* The invariant of orderly behaviours                                     *)

Sound(t) == Core(t) /\ ("twice" \in faults => Together(t))

\* Every step of an orderly behaviour keeps what is known of t.
LEMMA SoundNext ==
  ASSUME Typed, StopSound, ExitSound, Orderly, Alone, NEW t \in Tasks, Sound(t), Next
  PROVE  Sound(t)'
<1>1. /\ faults' = faults /\ Core(t) /\ ("twice" \in faults => Together(t))
      /\ faults \cap {"lapse", "slow"} = {}
      /\ "twice" \in faults => /\ "crash" \notin faults /\ stop[t] = "no"
                             /\ "stop" \notin faults /\ "timeout" \notin faults
  <2>1. faults' = faults
    BY FaultsKept
  <2>2. "twice" \in faults => "crash" \notin faults /\ "stop" \notin faults /\ "timeout" \notin faults
    BY DEF Orderly
  <2> QED
    BY <2>1, <2>2, Zenon DEF Sound, Orderly, StopSound
<1> SUFFICES Core(t)' /\ ("twice" \in faults => Together(t)')
  BY <1>1, Zenon DEF Sound
<1>2. ASSUME NEW a \in Actors, RetryTask(a)
      PROVE  Core(t)' /\ ("twice" \in faults => Together(t)')
  BY <1>1, <1>2, SoundLock, SoundRetry, SoundRow, SoundPush, SoundCancel, SoundResolve, Zenon
  DEF RetryTask
<1>3. ASSUME NEW r \in Runners, Run(r)
      PROVE  Core(t)' /\ ("twice" \in faults => Together(t)')
  BY <1>1, <1>3, SoundPop, SoundBegin, SoundEnd, SoundCompleteRetry, Zenon DEF Run
<1>4. ASSUME NEW g \in Gateways, Monitor(g)
      PROVE  Core(t)' /\ ("twice" \in faults => Together(t)')
  BY <1>1, <1>4, MonitorListEffect, CoreElsewhere, TogetherElsewhere, SoundFetch, SoundCheck, Zenon
  DEF Monitor
<1>5. ASSUME NEW v \in Tasks,
             \/ PutNext(v) \/ Expire(v) \/ Stop(v) \/ StopDelete(v) \/ StopRow(v)
             \/ HeartbeatExpires(v) \/ LockExpires(v)
      PROVE  Core(t)' /\ ("twice" \in faults => Together(t)')
  BY <1>1, <1>5, SoundPut, SoundStopDelete, SoundTime, Zenon
<1>6. ASSUME NEW a \in Actors, Crash(a)
      PROVE  Core(t)' /\ ("twice" \in faults => Together(t)')
  BY <1>1, <1>6, SoundCrash, Zenon
<1>7. ASSUME NEW s \in streams, StreamStep(s) \/ Timeout(s)
      PROVE  Core(t)' /\ ("twice" \in faults => Together(t)')
  BY <1>1, <1>7, SoundStream, SoundExit, Zenon DEF StreamStep
<1> QED
  BY <1>2, <1>3, <1>4, <1>5, <1>6, <1>7, Zenon DEF Next

\* Every step leaves the monitor alone that is.
LEMMA AloneNext ==
  ASSUME Typed, Alone, Next
  PROVE  Alone'
<1>1. faults' = faults
  BY FaultsKept
<1>2. ASSUME "twice" \notin faults, NEW g \in Gateways, g # (CHOOSE f \in Gateways : TRUE), Quiet(g)
      PROVE  Quiet(g)'
  BY <1>2, QuietRetry, QuietRun, QuietStream, QuietMonitor, QuietCrash, QuietTask, Zenon DEF Next
<1> QED
  BY <1>1, <1>2, Zenon DEF Alone, Quiet

\* At most one place for each task, and what keeps it so, in behaviours without
\* lapse and slow monitors, and without a second monitor when runners crash or exit
\* or tasks are stopped.
IndInv ==
  /\ Typed
  /\ StopSound
  /\ ExitSound
  /\ Orderly => Alone /\ \A t \in Tasks : Sound(t)

\* The invariant holds at first.
LEMMA IndInvInit == Init => IndInv
<1> SUFFICES ASSUME Init PROVE IndInv
  OBVIOUS
<1>1. Typed
  BY TypedInit
<1>2. StopSound /\ ExitSound
  BY ExitSoundInit DEF Init, StopSound
<1>3. Alone
  BY DEF Init, Alone, Idle, Actors
<1>4. ASSUME NEW t \in Tasks PROVE Sound(t)
  <2>1. /\ put[t] = "new" /\ t \notin claimed /\ entry[t] = None /\ retried[t] = 0 /\ row[t] = None
        /\ lock[t] = None /\ queue = <<>> /\ \A g \in Gateways : copies[g][t] = None
    BY DEF Init
  <2>2. \A a \in Actors : ~Holds(a, t)
    BY TaskAssumption DEF Init, Holds, Idle
  <2>3. ~Queued(t) /\ QueuedOnce(t)
    BY <2>1 DEF Queued, QueuedOnce
  <2>4. MaxRetries \in Nat /\ 0 <= MaxRetries
    BY TaskAssumption
  <2>5. Core(t)
    BY <2>1, <2>2, <2>3, <2>4, Zenon
    DEF Core, Single, ClaimSound, Attends, Counted, CopyUsed, Actors
  <2>6. RowSound(t)
    BY <2>1, TaskAssumption DEF RowSound, Completed
  <2>7. Together(t)
    BY <2>1, <2>2, <2>6, Zenon DEF Together, Guarded, Owned, Actors
  <2> QED
    BY <2>5, <2>7, Zenon DEF Sound
<1> QED
  BY <1>1, <1>2, <1>3, <1>4, Zenon DEF IndInv

\* Every step keeps it.
LEMMA IndInvNext == IndInv /\ [Next]_vars => IndInv'
<1> SUFFICES ASSUME IndInv, [Next]_vars PROVE IndInv'
  OBVIOUS
<1>1. CASE UNCHANGED vars
  <2>1. \A t \in Tasks : Elsewhere(t)
    BY <1>1, Zenon
    DEF vars, Elsewhere, SameAct, SameStream, HasStream, SameState, SameQueue, Queued, QueuedOnce, SameBeats,
        SameRest
  <2>2. faults' = faults /\ (Alone => Alone') /\ (StopSound => StopSound') /\ (ExitSound => ExitSound')
    BY <1>1, Zenon DEF vars, Alone, StopSound, ExitSound
  <2>3. \A t \in Tasks : Sound(t) => Sound(t)'
    BY <2>1, <2>2, CoreElsewhere, TogetherElsewhere, Zenon DEF Sound
  <2>4. Typed'
    BY TypedNext, Zenon DEF IndInv
  <2> QED
    BY <2>2, <2>3, <2>4, Zenon DEF IndInv, Orderly
<1>2. CASE Next
  <2>1. Typed'
    BY TypedNext, Zenon DEF IndInv
  <2>2. faults' = faults /\ StopSound' /\ ExitSound'
    BY <1>2, FaultsKept, ExitSoundNext, Zenon DEF IndInv
  <2>3. Orderly' => Orderly
    BY <2>2, Zenon DEF Orderly
  <2>4. Orderly => Alone'
    BY <1>2, AloneNext, Zenon DEF IndInv
  <2>5. Orderly => \A t \in Tasks : Sound(t)'
    BY <1>2, SoundNext, Zenon DEF IndInv
  <2> QED
    BY <2>1, <2>2, <2>3, <2>4, <2>5, Zenon DEF IndInv
<1> QED
  BY <1>1, <1>2

\* So it always holds.
LEMMA IndInvAlways == Spec => []IndInv
  BY IndInvInit, IndInvNext, PTL DEF Spec

\* For any number of tasks, runners and monitors, no task runs in two places at a time,
\* unless streams lapse, monitors are slow, or a second monitor meets crashes, stops or
\* task timeouts, and although the streams of earlier runs go on: the heartbeat set by TaskQueuePop and kept by the stream keeps monitors from queueing
\* a task that has a runner.
THEOREM OneRunnerAlways == Spec => []OneRunner
<1>1. ASSUME IndInv PROVE OneRunner
  <2> SUFFICES ASSUME Orderly, NEW q \in Runners, NEW r \in Runners,
                      act[q].pc = "running", act[r].pc = "running", act[q].task = act[r].task
               PROVE  q = r
    BY Zenon DEF OneRunner, At
  <2>1. q \in Actors /\ r \in Actors /\ q \notin Gateways /\ r \notin Gateways
    BY TaskAssumption DEF Actors
  <2>2. act[q].task \in Tasks /\ "running" # "report"
    BY <1>1, <2>1 DEF IndInv, Typed, ActTyped
  <2>3. Holds(q, act[q].task) /\ Holds(r, act[q].task)
    BY <2>1, <2>2, Zenon DEF Holds
  <2> QED
    BY <1>1, <2>1, <2>2, <2>3, Zenon DEF IndInv, Sound, Core, Single
<1> QED
  BY <1>1, IndInvAlways, PTL

\* Under the same conditions a task is queued again MaxRetries times at most, for any
\* policy: no retry of RetryTask is counted on a copy of the entry that is out of date.
THEOREM RetriesBoundedAlways == Spec => []RetriesBounded
<1>1. IndInv => RetriesBounded
  BY Zenon DEF IndInv, Sound, Core, Counted, RetriesBounded, RetriesWithinPolicy
<1> QED
  BY <1>1, IndInvAlways, PTL

=============================================================================
