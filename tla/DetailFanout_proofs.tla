------------------------- MODULE DetailFanout_proofs -------------------------
(***************************************************************************)
(* Proofs about DetailFanout for every set of announcements and every      *)
(* limit of retries.                                                       *)
(***************************************************************************)
EXTENDS DetailFanout, FiniteSetTheorems, TLAPS

(* Every action leaves the variables in their types, whatever the faults:  *)
(* no retry passes its limit and the counter stays an integer or absent.   *)
THEOREM TypeCorrect == Spec => []TypeOK
<1> USE FanoutAssumption, PatienceAssumption
<1>1. Init => TypeOK
  BY DEF Init, TypeOK, ListingPcs, TaskStates, Finishers
<1>2. TypeOK /\ [Next]_vars => TypeOK'
  <2> SUFFICES ASSUME TypeOK, [Next]_vars PROVE TypeOK'
    OBVIOUS
  <2> USE DEF TypeOK, ListingPcs, TaskStates, Finishers, listingVars, redisVars,
              dataVars
  <2>1. CASE ListingHeartbeat
    BY <2>1 DEF ListingHeartbeat, TouchRun
  <2>2. CASE ListingFails
    BY <2>2 DEF ListingFails, FailAndClose, RetryListing
  <2>3. CASE ListingInterrupted
    BY <2>3 DEF ListingInterrupted, RetryListing
  <2>4. CASE ListingResumes
    BY <2>4 DEF ListingResumes
  <2>5. ASSUME NEW T \in SUBSET Annos, ListingEnds(T) PROVE TypeOK'
    <3>1. run' \in [finishedBy : Finishers, clean : BOOLEAN, silent : 0 .. StaleAfter + 1]
      <4>1. \/ run' = [run EXCEPT !.silent = 0]
            \/ run' = [run EXCEPT !.silent = 0, !.finishedBy = "listing"]
        BY <2>5 DEF ListingEnds, TouchRun
      <4>2. 0 \in 0 .. StaleAfter + 1 /\ "listing" \in Finishers
        OBVIOUS
      <4>3. QED BY ONLY <4>1, <4>2, TypeOK DEF TypeOK
    <3>2. QED
      BY <2>5, <3>1 DEF ListingEnds
  <2>6. CASE SetPending
    <3>1. Cardinality(targets) \in Nat
      BY FS_Subset, FS_CardinalityType
    <3>2. QED BY <2>6, <3>1 DEF SetPending
  <2>7. ASSUME NEW a \in Annos, SendDetail(a) PROVE TypeOK'
    BY <2>7 DEF SendDetail
  <2>8. CASE SendFails
    BY <2>8 DEF SendFails, RetryListing
  <2>9. ASSUME NEW a \in Annos, Detail(a) PROVE TypeOK'
    <3>1. CASE StartDetail(a)
      BY <3>1 DEF StartDetail, Move, TouchRun
    <3>2. CASE SkipDetail(a)
      BY <3>2 DEF SkipDetail, Move
    <3>3. CASE SaveDetail(a)
      BY <3>3 DEF SaveDetail, Move, TouchRun
    <3>4. CASE DetailFails(a)
      <4>1. run' \in [finishedBy : Finishers, clean : BOOLEAN, silent : 0 .. StaleAfter + 1]
        <5>1. run' = [run EXCEPT !.silent = 0, !.clean = FALSE]
          BY <3>4 DEF DetailFails, CountError
        <5>2. 0 \in 0 .. StaleAfter + 1
          OBVIOUS
        <5>3. QED BY ONLY <5>1, <5>2, TypeOK DEF TypeOK
      <4>2. task' \in [Annos -> [st : TaskStates, retries : 0 .. MaxRetries]]
        BY <3>4 DEF DetailFails, Requeue
      <4>3. saved' \subseteq Annos
        BY <3>4 DEF DetailFails
      <4>4. age' \in [Annos -> 0 .. TimeLimit]
        BY <3>4 DEF DetailFails, Requeue, NoAttempt
      <4>5. QED
        BY <3>4, <4>1, <4>2, <4>3, <4>4 DEF DetailFails
    <3>5. CASE Decrement(a)
      <4> DEFINE remaining == (IF pending = NoKey THEN 0 ELSE pending) - 1
      <4>1. remaining \in Int
        OBVIOUS
      <4>2. /\ pending' = remaining
            /\ resolved' = resolved \cup {a}
            /\ task' = [task EXCEPT ![a].st = IF remaining > 0 THEN "acking" ELSE "closing"]
        BY <3>5 DEF Decrement, Move
      <4>3. QED
        BY <3>5, <4>1, <4>2 DEF Decrement
    <3>6. CASE CloseByCounter(a)
      BY <3>6 DEF CloseByCounter, Move, CloseRun
    <3>7. CASE DeleteKey(a)
      BY <3>7 DEF DeleteKey, Move
    <3>8. CASE AckDetail(a)
      BY <3>8 DEF AckDetail, Move, NoAttempt
    <3>9. QED
      BY <2>9, <3>1, <3>2, <3>3, <3>4, <3>5, <3>6, <3>7, <3>8 DEF Detail
  <2>10. ASSUME NEW a \in Annos, DetailInterrupted(a) PROVE TypeOK'
    <3>1. task' \in [Annos -> [st : TaskStates, retries : 0 .. MaxRetries]]
      BY <2>10 DEF DetailInterrupted, Requeue
    <3>2. age' \in [Annos -> 0 .. TimeLimit]
      BY <2>10 DEF DetailInterrupted, Requeue, NoAttempt
    <3>3. QED
      BY <2>10, <3>1, <3>2 DEF DetailInterrupted
  <2>11. ASSUME NEW a \in Annos, DetailExpires(a) PROVE TypeOK'
    BY <2>11 DEF DetailExpires, Move
  <2>12. ASSUME NEW S \in SUBSET Annos, NEW b \in BOOLEAN, WorkerCrash(S, b)
         PROVE  TypeOK'
    <3>1. task' \in [Annos -> [st : TaskStates, retries : 0 .. MaxRetries]]
      BY <2>12 DEF WorkerCrash
    <3>2. pc' \in ListingPcs
      BY <2>12 DEF WorkerCrash
    <3>3. age' \in [Annos -> 0 .. TimeLimit]
      BY <2>12 DEF WorkerCrash, NoAttempt
    <3>4. QED
      BY <2>12, <3>1, <3>2, <3>3 DEF WorkerCrash
  <2>13. CASE RedisLoss
    BY <2>13 DEF RedisLoss
  <2>14. CASE Tick
    <3>1. age' \in [Annos -> 0 .. TimeLimit]
      BY <2>14 DEF Tick
    <3>2. run' \in [finishedBy : Finishers, clean : BOOLEAN, silent : 0 .. StaleAfter + 1]
      BY <2>14 DEF Tick, RunIsStale
    <3>3. QED
      BY <2>14, <3>1, <3>2 DEF Tick
  <2>15. CASE CloseStaleRun
    BY <2>15 DEF CloseStaleRun, CloseRun
  <2>16. CASE UNCHANGED vars
    BY <2>16 DEF vars
  <2>17. QED
    BY <2>1, <2>2, <2>3, <2>4, <2>5, <2>6, <2>7, <2>8, <2>9, <2>10, <2>11,
       <2>12, <2>13, <2>14, <2>15, <2>16
       DEF Next, Listing, Reaper, Environment
<1>3. QED
  BY <1>1, <1>2, PTL DEF Spec

-----------------------------------------------------------------------------
(* Removing one unresolved announcement lowers the count by one, and a     *)
(* count of zero means that none is left.                                  *)
LEMMA Remaining ==
  ASSUME NEW S \in SUBSET Annos, NEW R
  PROVE  /\ Cardinality(S \ R) \in Nat
         /\ Cardinality(S \ R) = 0 <=> S \subseteq R
         /\ \A a \in S \ R :
              Cardinality(S \ (R \cup {a})) = Cardinality(S \ R) - 1
<1>1. IsFiniteSet(S \ R)
  BY FanoutAssumption, FS_Subset
<1>2. Cardinality(S \ R) \in Nat
  BY <1>1, FS_CardinalityType
<1>3. Cardinality(S \ R) = 0 <=> S \subseteq R
  BY <1>1, FS_EmptySet
<1>4. ASSUME NEW a \in S \ R
      PROVE  Cardinality(S \ (R \cup {a})) = Cardinality(S \ R) - 1
  <2>1. S \ (R \cup {a}) = (S \ R) \ {a}
    OBVIOUS
  <2>2. QED
    BY <1>1, <2>1, FS_RemoveElement
<1>5. QED
  BY <1>2, <1>3, <1>4

(* The DECR is the only step that moves the counter down: it either leaves *)
(* the exact number of unresolved targets or finds none.                   *)
LEMMA DecrementKeepsInv ==
  ASSUME Exact, TypeOK, FanoutInv, NEW a \in Annos, Decrement(a)
  PROVE  FanoutInv'
<1> DEFINE remaining == (IF pending = NoKey THEN 0 ELSE pending) - 1
<1> USE DEF FanoutInv, Launched
<1>1. /\ task[a].st = "decr"
      /\ task' = [task EXCEPT ![a].st = IF remaining > 0 THEN "acking" ELSE "closing"]
      /\ pending' = remaining
      /\ resolved' = resolved \cup {a}
      /\ UNCHANGED <<pc, attempt, targets, toSend, total, saved, skipped, run, faults>>
  BY DEF Decrement, Move, listingVars, dataVars
<1>2. Launched
  BY <1>1 DEF BeforeLaunch
<1>3. /\ remaining \in Int
      /\ pending' # NoKey
  BY <1>1, FanoutAssumption DEF TypeOK
<1>4. a \in targets \ toSend
  BY <1>1 DEF TasksAccounted
<1>5. \/ /\ targets \subseteq resolved'
         /\ remaining <= 0
      \/ /\ remaining = Cardinality(targets \ resolved')
         /\ remaining \in Nat
  <2>1. CASE targets \subseteq resolved
    <3>1. pending # NoKey => pending <= 0
      <4>1. Cardinality(targets \ resolved) = 0
        BY <2>1, Remaining DEF TypeOK
      <4>2. QED
        BY <1>2, <4>1 DEF CounterIsExact
    <3>2. QED
      BY <1>1, <2>1, <3>1 DEF TypeOK
  <2>2. CASE ~(targets \subseteq resolved)
    <3>1. pending # NoKey /\ pending = Cardinality(targets \ resolved)
      BY <1>2, <2>2 DEF CounterIsExact
    <3>2. a \in targets \ resolved
      BY <1>1, <1>4, <2>2 DEF TasksAccounted
    <3>3. Cardinality(targets \ resolved') = Cardinality(targets \ resolved) - 1
      BY <1>1, <3>2, Remaining DEF TypeOK
    <3>4. Cardinality(targets \ resolved') \in Nat
      BY Remaining DEF TypeOK
    <3>5. QED
      BY <3>1, <3>3, <3>4
  <2>3. QED
    BY <2>1, <2>2
<1>6. remaining <= 0 => targets \subseteq resolved'
  <2>1. Cardinality(targets \ resolved') = 0 => targets \subseteq resolved'
    BY Remaining DEF TypeOK
  <2>2. QED
    BY <1>5, <2>1
<1>7. CounterIsExact'
  BY <1>1, <1>3, <1>5 DEF CounterIsExact
<1>8. BeforeLaunch'
  BY <1>1, <1>2 DEF BeforeLaunch
<1>9. TasksAccounted'
  <2>1. resolved' \subseteq targets' \ toSend'
    BY <1>1, <1>4 DEF TasksAccounted
  <2>2. task'[a].st = IF remaining > 0 THEN "acking" ELSE "closing"
    BY <1>1 DEF TypeOK
  <2>3. \A b \in Annos \ {a} : task'[b] = task[b]
    BY <1>1 DEF TypeOK
  <2>4. ASSUME NEW b \in Annos
        PROVE /\ task'[b].st # "none" => b \in targets' \ toSend'
              /\ task'[b].st \in {"acking", "done"} => b \in resolved'
              /\ task'[b].st \in {"closing", "clearing"} => targets' \subseteq resolved'
              /\ task'[b].st \in {"queued", "running", "decr"} /\ b \in resolved'
                   => targets' \subseteq resolved'
    <3>1. CASE b = a
      <4>1. ~(remaining > 0) => remaining <= 0
        BY <1>3
      <4>2. QED
        BY <1>1, <1>4, <1>6, <2>2, <3>1, <4>1
    <3>2. CASE b # a
      BY <1>1, <2>3, <3>2 DEF TasksAccounted
    <3>3. QED
      BY <3>1, <3>2
  <2>5. QED
    BY <2>1, <2>4 DEF TasksAccounted
<1>10. ClosedWhenResolved'
  BY <1>1 DEF ClosedWhenResolved
<1>11. CleanTasksDidWork'
  <2>1. \A b \in Annos \ {a} : task'[b] = task[b]
    BY <1>1 DEF TypeOK
  <2>2. QED
    BY <1>1, <2>1 DEF CleanTasksDidWork
<1>12. QED
  BY <1>7, <1>8, <1>9, <1>10, <1>11

(* The fan-out itself: the counter is set to the number of targets while   *)
(* none of them has a message yet.                                         *)
LEMMA ListingKeepsInv ==
  ASSUME Exact, TypeOK, FanoutInv, Listing \/ ListingInterrupted \/ SendFails
  PROVE  FanoutInv'
<1> USE DEF FanoutInv, Launched, BeforeLaunch, CounterIsExact, TasksAccounted,
            ClosedWhenResolved, CleanTasksDidWork, listingVars, redisVars, dataVars
<1>1. CASE ListingHeartbeat
  BY <1>1 DEF ListingHeartbeat, TouchRun, TypeOK
<1>2. CASE ListingFails
  BY <1>2 DEF ListingFails, FailAndClose, RetryListing, Exact
<1>3. CASE ListingInterrupted \/ SendFails
  BY <1>3 DEF ListingInterrupted, SendFails, RetryListing, Exact
<1>4. CASE ListingResumes
  BY <1>4 DEF ListingResumes
<1>5. ASSUME NEW T \in SUBSET Annos, ListingEnds(T) PROVE FanoutInv'
  <2>1. /\ ~Launched /\ ~Launched'
        /\ pc' \in {"done", "count"}
        /\ pc' = "count" => targets' # {}
        /\ UNCHANGED <<pending, total, task, saved, skipped, resolved>>
    BY <1>5 DEF ListingEnds
  <2>2. run'.finishedBy # "counter"
    BY <1>5, <2>1 DEF ListingEnds, TouchRun, TypeOK
  <2>3. QED
    BY <2>1, <2>2
<1>6. CASE SetPending
  <2>1. /\ resolved = {} /\ resolved' = {}
        /\ \A a \in Annos : task'[a].st = "none"
        /\ run'.finishedBy # "counter"
    BY <1>6 DEF SetPending
  <2>2. /\ pending' = Cardinality(targets) /\ total' = Cardinality(targets)
        /\ pc' = "sending"
        /\ UNCHANGED targets
    BY <1>6 DEF SetPending
  <2>3. Cardinality(targets \ resolved) \in Nat /\ targets \ resolved = targets
    BY <2>1, Remaining DEF TypeOK
  <2>4. pending' # NoKey /\ total' # NoKey
    <3>1. Cardinality(targets) \in Int
      BY FanoutAssumption, FS_Subset, FS_CardinalityType DEF TypeOK
    <3>2. Cardinality(targets) # NoKey
      BY <3>1, FanoutAssumption
    <3>3. QED
      BY <2>2, <3>2
  <2>5. QED
    BY <2>1, <2>2, <2>3, <2>4
<1>7. ASSUME NEW a \in Annos, SendDetail(a) PROVE FanoutInv'
  <2>1. /\ a \in toSend /\ toSend' = toSend \ {a}
        /\ pc = "sending" /\ pc' \in {"sending", "done"}
        /\ task' = [task EXCEPT ![a] = [st |-> "queued", retries |-> 0]]
        /\ UNCHANGED <<targets, pending, total, saved, skipped, run, resolved>>
    BY <1>7 DEF SendDetail
  <2>2. /\ task'[a].st = "queued"
        /\ \A b \in Annos \ {a} : task'[b] = task[b]
    BY <2>1 DEF TypeOK
  <2>3. a \in targets /\ a \notin resolved
    BY <2>1 DEF TypeOK
  <2>4. QED
    BY <2>1, <2>2, <2>3
<1>8. QED
  BY <1>1, <1>2, <1>3, <1>4, <1>5, <1>6, <1>7 DEF Listing

(* The other steps of a detail task, the faults that an exact instance     *)
(* allows, and the reaper.                                                 *)
LEMMA OthersKeepInv ==
  ASSUME Exact, TypeOK, FanoutInv,
         \/ \E a \in Annos :
              \/ StartDetail(a) \/ SkipDetail(a) \/ SaveDetail(a)
              \/ DetailFails(a) \/ CloseByCounter(a) \/ DeleteKey(a)
              \/ AckDetail(a) \/ DetailInterrupted(a) \/ DetailExpires(a)
         \/ Reaper
  PROVE  FanoutInv'
<1> USE DEF FanoutInv, Launched, listingVars, redisVars, dataVars
<1>1. ASSUME NEW a \in Annos,
             \/ StartDetail(a) \/ SkipDetail(a) \/ SaveDetail(a)
             \/ AckDetail(a) \/ DetailExpires(a)
      PROVE  FanoutInv'
  <2>1. /\ task[a].st # "none" /\ task'[a].st \in {"running", "decr", "done", "dead"}
        /\ task[a].st = "acking" <=> task'[a].st = "done"
        /\ task'[a].st \in {"running", "decr"} => task[a].st \in {"queued", "running"}
        /\ \A b \in Annos \ {a} : task'[b] = task[b]
    BY <1>1 DEF StartDetail, SkipDetail, SaveDetail, AckDetail, DetailExpires, Move, TypeOK
  <2>2. /\ run'.finishedBy = run.finishedBy /\ run'.clean = run.clean
        /\ UNCHANGED <<pc, targets, toSend, pending, total, resolved>>
        /\ saved \subseteq saved' /\ skipped \subseteq skipped'
    BY <1>1 DEF StartDetail, SkipDetail, SaveDetail, AckDetail, DetailExpires,
                TouchRun, TypeOK
  <2>3. task'[a].st = "decr" => a \in saved' \cup skipped'
    BY <1>1, <2>1 DEF StartDetail, SkipDetail, SaveDetail, AckDetail, DetailExpires,
                      Move, TypeOK
  <2>4. BeforeLaunch' /\ CounterIsExact' /\ ClosedWhenResolved'
    BY <2>1, <2>2 DEF BeforeLaunch, CounterIsExact, ClosedWhenResolved
  <2>5. TasksAccounted'
    BY <2>1, <2>2 DEF TasksAccounted
  <2>6. CleanTasksDidWork'
    BY <2>1, <2>2, <2>3 DEF CleanTasksDidWork
  <2>7. QED
    BY <2>4, <2>5, <2>6
<1>2. ASSUME NEW a \in Annos, DetailFails(a) \/ DetailInterrupted(a)
      PROVE  FanoutInv'
  <2>0. "late" \notin Faults
    BY Exact DEF Exact
  <2>1. /\ task[a].st \in {"running", "decr", "closing", "clearing"}
        /\ task'[a].st \in {"queued", "dead", "decr"}
        /\ task'[a].st = "decr" => task[a].st = "running"
        /\ \A b \in Annos \ {a} : task'[b] = task[b]
    BY <1>2, <2>0 DEF DetailFails, DetailInterrupted, Requeue, Attempts, InFlight, TypeOK
  <2>2. /\ run'.finishedBy = run.finishedBy
        /\ run'.clean => run.clean /\ DetailInterrupted(a)
        /\ UNCHANGED <<pc, targets, toSend, pending, total, resolved, skipped>>
        /\ saved \subseteq saved'
    BY <1>2 DEF DetailFails, DetailInterrupted, CountError, TypeOK
  <2>3. DetailInterrupted(a) => task'[a].st \in {"queued", "dead"}
    BY DEF DetailInterrupted, Requeue, Attempts, InFlight, TypeOK
  <2>4. BeforeLaunch' /\ CounterIsExact' /\ ClosedWhenResolved'
    BY <2>1, <2>2 DEF BeforeLaunch, CounterIsExact, ClosedWhenResolved
  <2>5. TasksAccounted'
    BY <2>1, <2>2 DEF TasksAccounted
  <2>6. CleanTasksDidWork'
    BY <2>1, <2>2, <2>3 DEF CleanTasksDidWork
  <2>7. QED
    BY <2>4, <2>5, <2>6
<1>3. ASSUME NEW a \in Annos, CloseByCounter(a) \/ DeleteKey(a) PROVE FanoutInv'
  <2>1. /\ task[a].st \in {"closing", "clearing"}
        /\ task'[a].st \in {"clearing", "acking"}
        /\ \A b \in Annos \ {a} : task'[b] = task[b]
        /\ UNCHANGED <<pc, targets, toSend, total, resolved, saved, skipped>>
    BY <1>3 DEF CloseByCounter, DeleteKey, Move, TypeOK
  <2>2. /\ Launched /\ targets \subseteq resolved
        /\ a \in targets \ toSend
    BY <2>1 DEF BeforeLaunch, TasksAccounted
  <2>3. /\ run'.clean = run.clean
        /\ run'.finishedBy \in {"counter", run.finishedBy}
        /\ pending' \in {pending, NoKey}
    BY <1>3 DEF CloseByCounter, DeleteKey, CloseRun, TypeOK
  <2>4. Cardinality(targets \ resolved) = 0
    BY <2>2, Remaining DEF TypeOK
  <2>5. BeforeLaunch' /\ CounterIsExact' /\ ClosedWhenResolved'
    BY <2>1, <2>2, <2>3, <2>4 DEF BeforeLaunch, CounterIsExact, ClosedWhenResolved
  <2>6. TasksAccounted'
    BY <2>1, <2>2 DEF TasksAccounted
  <2>7. CleanTasksDidWork'
    BY <2>1, <2>3 DEF CleanTasksDidWork
  <2>8. QED
    BY <2>5, <2>6, <2>7
<1>4. CASE Reaper
  <2>1. /\ run'.clean = run.clean
        /\ run'.finishedBy \in {"reaper", run.finishedBy}
        /\ UNCHANGED <<pc, targets, toSend, pending, total, task, resolved, saved, skipped>>
    BY <1>4 DEF Reaper, Tick, CloseStaleRun, CloseRun, TypeOK
  <2>2. QED
    BY <2>1 DEF BeforeLaunch, CounterIsExact, TasksAccounted, ClosedWhenResolved,
                CleanTasksDidWork
<1>5. QED
  BY <1>1, <1>2, <1>3, <1>4

(* While no message is handled twice the counter is exact: it equals the   *)
(* number of announcements not resolved yet, and its key disappears only   *)
(* after the last of them.                                                 *)
THEOREM CounterInvariant == ASSUME Exact PROVE Spec => []FanoutInv
<1>1. Init => FanoutInv
  BY FanoutAssumption DEF Init, FanoutInv, BeforeLaunch, CounterIsExact,
     TasksAccounted, ClosedWhenResolved, CleanTasksDidWork, Launched
<1>2. TypeOK /\ FanoutInv /\ [Next]_vars => FanoutInv'
  <2> SUFFICES ASSUME TypeOK, FanoutInv, [Next]_vars PROVE FanoutInv'
    OBVIOUS
  <2>1. CASE Listing \/ ListingInterrupted \/ SendFails
    BY <2>1, ListingKeepsInv, Exact
  <2>2. ASSUME NEW a \in Annos, Detail(a) PROVE FanoutInv'
    BY <2>2, DecrementKeepsInv, OthersKeepInv, Exact DEF Detail
  <2>3. CASE Reaper
    BY <2>3, OthersKeepInv, Exact
  <2>4. ASSUME NEW a \in Annos, DetailInterrupted(a) \/ DetailExpires(a)
        PROVE  FanoutInv'
    BY <2>4, OthersKeepInv, Exact
  <2>5. ~RedisLoss /\ \A S \in SUBSET Annos, b \in BOOLEAN : ~WorkerCrash(S, b)
    BY Exact DEF Exact, RedisLoss, WorkerCrash
  <2>6. CASE UNCHANGED vars
    BY <2>6 DEF vars, FanoutInv, BeforeLaunch, CounterIsExact, TasksAccounted,
                ClosedWhenResolved, CleanTasksDidWork, Launched
  <2>7. QED
    BY <2>1, <2>2, <2>3, <2>4, <2>5, <2>6 DEF Next, Environment
<1>3. QED
  BY <1>1, <1>2, TypeCorrect, PTL DEF Spec

(* The promise of the module docstring of queue/actors.py: the counter     *)
(* closes a run only when all its detail tasks have ended.                 *)
THEOREM CloseIsNotEarly == ASSUME Exact PROVE Spec => []NoEarlyClose
<1>1. TypeOK /\ FanoutInv => NoEarlyClose
  BY DEF TypeOK, FanoutInv, ClosedWhenResolved, TasksAccounted, NoEarlyClose
<1>2. QED
  BY <1>1, TypeCorrect, CounterInvariant, PTL

(* A run that the counter closed without an error has all its details:     *)
(* what last_success_started_at relies on for api-daily.                   *)
THEOREM CleanIsComplete == ASSUME Exact PROVE Spec => []CleanRunIsComplete
<1>1. TypeOK /\ FanoutInv => CleanRunIsComplete
  BY DEF TypeOK, FanoutInv, ClosedWhenResolved, CleanTasksDidWork, CleanRunIsComplete
<1>2. QED
  BY <1>1, TypeCorrect, CounterInvariant, PTL

(* The counter implements the barrier of RunBarrier: fan-out, resolution   *)
(* of each announcement exactly once, and a close in the counter's name    *)
(* only when none is outstanding.                                          *)
THEOREM FanoutImplementsBarrier == ASSUME Exact PROVE Spec => ImplementsBarrier
<1> USE DEF Launched, listingVars, redisVars, dataVars
<1>1. Init => Barrier!BarrierInit
  BY DEF Init, Barrier!BarrierInit
<1>2. TypeOK /\ FanoutInv /\ [Next]_vars => [Barrier!BarrierNext]_(Barrier!barrierVars)
  <2> SUFFICES ASSUME TypeOK, FanoutInv, [Next]_vars
               PROVE  Barrier!BarrierNext \/ UNCHANGED Barrier!barrierVars
    OBVIOUS
  <2> USE DEF Barrier!barrierVars
  <2>1. CASE ListingFails \/ \E T \in SUBSET Annos : ListingEnds(T) /\ T = {}
    <3>1. ~Launched /\ UNCHANGED total /\ run'.finishedBy = "listing"
      <4>1. CASE ListingFails
        BY <4>1 DEF ListingFails, FailAndClose, FanoutInv, BeforeLaunch
      <4>2. CASE \E T \in SUBSET Annos : ListingEnds(T) /\ T = {}
        <5>1. /\ pc = "listing" /\ UNCHANGED total
              /\ run' = [run EXCEPT !.silent = 0, !.finishedBy = "listing"]
          BY <4>2 DEF ListingEnds
        <5>2. QED
          BY <5>1 DEF FanoutInv, BeforeLaunch, TypeOK
      <4>3. QED
        BY <2>1, <4>1, <4>2
    <3>2. Barrier!CloseByListing
      BY <3>1 DEF Barrier!CloseByListing
    <3>3. QED
      BY <3>2 DEF Barrier!BarrierNext
  <2>2. ASSUME NEW T \in SUBSET Annos, ListingEnds(T), T # {}
        PROVE  UNCHANGED Barrier!barrierVars
    <3>1. ~Launched /\ UNCHANGED total /\ run'.finishedBy = run.finishedBy
      BY <2>2 DEF ListingEnds, TouchRun, FanoutInv, BeforeLaunch, TypeOK
    <3>2. QED
      BY <3>1
  <2>3. CASE SetPending
    <3>1. /\ ~Launched /\ resolved' = {} /\ UNCHANGED <<run, targets>>
          /\ total' = Cardinality(targets)
      BY <2>3 DEF SetPending, FanoutInv, BeforeLaunch
    <3>2. total' # NoKey
      <4>1. Cardinality(targets) \in Int
        BY FanoutAssumption, FS_Subset, FS_CardinalityType DEF TypeOK
      <4>2. QED
        BY <3>1, <4>1, FanoutAssumption
    <3>3. targets # {}
      BY <2>3 DEF SetPending, FanoutInv, BeforeLaunch
    <3>4. Barrier!Launch(targets)
      BY <3>1, <3>2, <3>3 DEF Barrier!Launch
    <3>5. QED
      BY <3>4 DEF Barrier!BarrierNext, TypeOK
  <2>4. CASE \/ ListingHeartbeat \/ ListingResumes \/ ListingInterrupted \/ SendFails
             \/ \E a \in Annos : SendDetail(a)
    BY <2>4 DEF ListingHeartbeat, ListingResumes, ListingInterrupted, SendFails,
                SendDetail, TouchRun, TypeOK
  <2>5. ASSUME NEW a \in Annos,
               \/ StartDetail(a) \/ SkipDetail(a) \/ SaveDetail(a) \/ DetailFails(a)
               \/ DeleteKey(a) \/ AckDetail(a) \/ DetailInterrupted(a)
               \/ DetailExpires(a)
        PROVE  UNCHANGED Barrier!barrierVars
    BY <2>5 DEF StartDetail, SkipDetail, SaveDetail, DetailFails, DeleteKey, AckDetail,
                DetailInterrupted, DetailExpires, TouchRun, CountError, TypeOK
  <2>6. ASSUME NEW a \in Annos, Decrement(a)
        PROVE  Barrier!BarrierNext \/ UNCHANGED Barrier!barrierVars
    <3>1. /\ Launched /\ a \in targets
          /\ resolved' = resolved \cup {a}
          /\ UNCHANGED <<total, targets, run>>
      BY <2>6 DEF Decrement, Move, FanoutInv, BeforeLaunch, TasksAccounted
    <3>2. CASE a \in resolved
      BY <3>1, <3>2
    <3>3. CASE a \notin resolved
      <4>1. Barrier!Resolve(a)
        BY <3>1, <3>3 DEF Barrier!Resolve
      <4>2. QED
        BY <4>1 DEF Barrier!BarrierNext
    <3>4. QED
      BY <3>2, <3>3
  <2>7. ASSUME NEW a \in Annos, CloseByCounter(a) PROVE Barrier!BarrierNext
    <3>1. /\ Launched /\ targets \subseteq resolved
          /\ run'.finishedBy = "counter"
          /\ UNCHANGED <<total, targets, resolved>>
      BY <2>7 DEF CloseByCounter, Move, CloseRun, FanoutInv, BeforeLaunch,
                  TasksAccounted, TypeOK
    <3>2. Barrier!CloseByCounter
      BY <3>1 DEF Barrier!CloseByCounter
    <3>3. QED
      BY <3>2 DEF Barrier!BarrierNext
  <2>8. CASE Tick
    BY <2>8 DEF Tick, TypeOK
  <2>9. CASE CloseStaleRun
    <3>1. Barrier!CloseByReaper
      BY <2>9 DEF CloseStaleRun, CloseRun, Finished, Barrier!CloseByReaper, TypeOK
    <3>2. QED
      BY <3>1 DEF Barrier!BarrierNext
  <2>10. ~RedisLoss /\ \A S \in SUBSET Annos, b \in BOOLEAN : ~WorkerCrash(S, b)
    BY Exact DEF Exact, RedisLoss, WorkerCrash
  <2>11. CASE UNCHANGED vars
    BY <2>11 DEF vars
  <2>12. QED
    BY <2>1, <2>2, <2>3, <2>4, <2>5, <2>6, <2>7, <2>8, <2>9, <2>10, <2>11
       DEF Next, Listing, Detail, Reaper, Environment
<1>3. QED
  BY <1>1, <1>2, TypeCorrect, CounterInvariant, PTL
     DEF Spec, ImplementsBarrier, Barrier!BarrierSpec

-----------------------------------------------------------------------------
(* The reaper, and what is left of the key, under every fault.              *)

(* The run has not been silent for longer than any attempt in progress has *)
(* lasted: a step that makes a run silent makes the attempts older, and an *)
(* attempt begins with a touch.                                            *)
LEMMA AttemptsStayTouched ==
  ASSUME TypeOK, AttemptsTouched, [Next]_vars PROVE AttemptsTouched'
<1> USE DEF listingVars, redisVars, dataVars
<1>1. /\ task \in [Annos -> [st : TaskStates, retries : 0 .. MaxRetries]]
      /\ age \in [Annos -> 0 .. TimeLimit]
      /\ run \in [finishedBy : Finishers, clean : BOOLEAN, silent : 0 .. StaleAfter + 1]
      /\ TimeLimit \in Nat /\ StaleAfter \in Nat
  BY PatienceAssumption DEF TypeOK
<1> DEFINE Later == \A a \in Attempts' : /\ a \in Attempts /\ age'[a] = age[a]
                                         /\ run'.silent = run.silent
<1>2. CASE Later
  BY <1>2 DEF AttemptsTouched
<1>3. CASE run'.silent = 0 /\ age' \in [Annos -> 0 .. TimeLimit]
  BY <1>3 DEF AttemptsTouched, Attempts
<1>4. CASE Tick
  <2>1. /\ Attempts' = Attempts /\ run'.silent = run.silent + 1
        /\ \A a \in Attempts : age'[a] = age[a] + 1
    BY <1>1, <1>4 DEF Tick, Attempts
  <2>2. \A a \in Attempts : age[a] \in Nat
    BY <1>1 DEF Attempts
  <2> QED BY <1>1, <2>1, <2>2 DEF AttemptsTouched
<1>5. CASE \/ ListingHeartbeat \/ ListingFails \/ ListingInterrupted \/ ListingResumes
           \/ SetPending \/ SendFails \/ CloseStaleRun \/ UNCHANGED vars
           \/ \E T \in SUBSET Annos : ListingEnds(T)
  <2>1. UNCHANGED <<task, age>>
    BY <1>5 DEF ListingHeartbeat, ListingFails, ListingInterrupted, ListingResumes, SetPending,
                SendFails, ListingEnds, CloseStaleRun, vars
  <2>2. \/ run' = run \/ TouchRun \/ FailAndClose("listing") \/ CloseRun("reaper")
        \/ run' = [run EXCEPT !.silent = 0, !.finishedBy = "listing"]
    BY <1>5 DEF ListingHeartbeat, ListingFails, ListingInterrupted, ListingResumes, SetPending,
                SendFails, ListingEnds, CloseStaleRun, vars
  <2>3. run'.silent \in {0, run.silent}
    <3>1. [run EXCEPT !.silent = 0].silent = 0
          /\ [run EXCEPT !.finishedBy = "reaper"].silent = run.silent
          /\ [run EXCEPT !.silent = 0, !.finishedBy = "listing"].silent = 0
      BY <1>1
    <3>2. FailAndClose("listing") => run'.silent = 0
      BY DEF FailAndClose
    <3>3. TouchRun => run'.silent = 0
      BY <3>1 DEF TouchRun
    <3>4. CloseRun("reaper") => run'.silent = run.silent
      BY <3>1 DEF CloseRun
    <3> QED BY <2>2, <3>1, <3>2, <3>3, <3>4
  <2> QED BY <1>1, <1>2, <1>3, <2>1, <2>3 DEF Attempts
<1>6. ASSUME NEW a \in Annos, SendDetail(a) PROVE Later
  BY <1>1, <1>6 DEF SendDetail, Attempts, InFlight
<1>7. ASSUME NEW a \in Annos, StartDetail(a) \/ SaveDetail(a)
      PROVE  run'.silent = 0 /\ UNCHANGED age
  BY <1>1, <1>7 DEF StartDetail, SaveDetail, TouchRun
<1>8. ASSUME NEW a \in Annos, DetailFails(a)
      PROVE  run'.silent = 0 /\ age' \in [Annos -> 0 .. TimeLimit]
  BY <1>1, <1>8 DEF DetailFails, CountError, Requeue, NoAttempt
<1>9. ASSUME NEW a \in Annos,
             SkipDetail(a) \/ CloseByCounter(a) \/ DeleteKey(a) \/ Decrement(a) \/ DetailExpires(a)
      PROVE  Later
  <2>1. /\ UNCHANGED age /\ run'.silent = run.silent
        /\ \A b \in Annos \ {a} : task'[b] = task[b]
        /\ task'[a].st \in InFlight => task[a].st \in InFlight
    BY <1>1, <1>9 DEF SkipDetail, CloseByCounter, DeleteKey, Decrement, DetailExpires, CloseRun,
                      Move, InFlight
  <2> QED BY <2>1 DEF Attempts
<1>10. ASSUME NEW a \in Annos, AckDetail(a) \/ DetailInterrupted(a) PROVE Later
  <2>1. /\ UNCHANGED run /\ \A b \in Annos \ {a} : task'[b] = task[b] /\ age'[b] = age[b]
        /\ task'[a].st \notin InFlight
    BY <1>1, <1>10 DEF AckDetail, DetailInterrupted, Requeue, NoAttempt, Move, InFlight
  <2> QED BY <2>1 DEF Attempts
<1>11. CASE RedisLoss
  BY <1>1, <1>2, <1>11 DEF RedisLoss, Attempts, InFlight
<1>12. ASSUME NEW S \in SUBSET Annos, NEW b \in BOOLEAN, WorkerCrash(S, b) PROVE Later
  <2>1. /\ UNCHANGED run /\ \A a \in Annos \ S : task'[a] = task[a] /\ age'[a] = age[a]
        /\ \A a \in S : task'[a].st = "queued"
    BY <1>1, <1>12 DEF WorkerCrash, NoAttempt
  <2> QED BY <2>1 DEF Attempts, InFlight
<1> HIDE DEF Later
<1>13. CASE \E a \in Annos : Detail(a) \/ DetailInterrupted(a) \/ DetailExpires(a) \/ SendDetail(a)
  BY <1>1, <1>2, <1>3, <1>6, <1>7, <1>8, <1>9, <1>10, <1>13 DEF Detail
<1> QED
  BY <1>2, <1>4, <1>5, <1>11, <1>12, <1>13 DEF Next, Listing, Reaper, Environment

(* The reaper never takes a run for dead while a worker holds one of its   *)
(* detail messages (ingest.py:24-36): an attempt touches the run when it   *)
(* starts and is over after time_limit (actors.py:612), and that is less   *)
(* than the reaper's patience; for every number of announcements, attempts,*)
(* retries and deaths, and every two limits of which the first is smaller. *)
THEOREM ReaperIsPatient == Spec => []ReaperSparesAttempts
<1>1. Init => AttemptsTouched
  BY DEF Init, AttemptsTouched, Attempts, InFlight
<1>2. TypeOK /\ AttemptsTouched => ReaperSparesAttempts
  <2> SUFFICES ASSUME TypeOK, AttemptsTouched, RunIsStale, NEW a \in Attempts PROVE FALSE
    BY DEF ReaperSparesAttempts
  <2>1. age[a] <= TimeLimit /\ age[a] \in Nat /\ run.silent <= age[a] /\ run.silent \in Nat
    BY PatienceAssumption DEF TypeOK, AttemptsTouched, Attempts
  <2> QED BY <2>1, PatienceAssumption DEF RunIsStale
<1> QED
  BY <1>1, <1>2, AttemptsStayTouched, TypeCorrect, PTL DEF Spec

-----------------------------------------------------------------------------
(* The key, whatever is delivered twice.                                   *)

(* A message that will delete the key, or never will be acknowledged.      *)
Holds == {"queued", "running", "decr", "closing", "clearing", "dead"}

(* An announcement of the last fan-out is sent or still to be sent, and a  *)
(* task that passed its DECR is resolved.                                  *)
FanoutIsSent ==
  /\ pc = "count" => targets # {} /\ toSend = targets
  /\ pc = "sending" => toSend # {}
  /\ \A a \in Annos :
       /\ a \in toSend => task[a].st = "none"
       /\ a \in resolved => task[a].st # "none"
       /\ a \in targets \ toSend => task[a].st # "none"
       /\ task[a].st \in {"acking", "done", "closing", "clearing"} => a \in resolved

(* Once a fan-out is counted, the key holds at most the number of its      *)
(* unresolved targets.                                                     *)
CountIsNotHigher ==
  pending # NoKey /\ targets # {} /\ (pc = "sending" \/ toSend = {})
    => pending <= Cardinality(targets \ resolved)

(* A key that reached zero is held by the message that will delete it.     *)
ZeroIsHeld ==
  pending # NoKey /\ pending <= 0 => \E a \in Annos : task[a].st \in Holds

KeyInv == FanoutIsSent /\ CountIsNotHigher /\ ZeroIsHeld

(* Steps that count nothing and send nothing.                              *)
LEMMA KeyIsLeftAlone ==
  ASSUME TypeOK, KeyInv, UNCHANGED <<targets, toSend, resolved>>, pending' \in {pending, NoKey},
         pc' = pc \/ pc' \in {"listing", "backoff", "dead"},
         \A a \in Annos :
           /\ task'[a].st = "none" <=> task[a].st = "none"
           /\ task'[a].st \in {"acking", "done", "closing", "clearing"}
                => task[a].st \in {"acking", "done", "closing", "clearing"}
           /\ pending' # NoKey /\ task[a].st \in Holds => task'[a].st \in Holds
  PROVE  KeyInv'
<1>1. FanoutIsSent'
  BY DEF KeyInv, FanoutIsSent
<1>2. CountIsNotHigher'
  BY DEF KeyInv, CountIsNotHigher
<1>3. ZeroIsHeld'
  BY DEF KeyInv, ZeroIsHeld
<1>4. QED
  BY <1>1, <1>2, <1>3 DEF KeyInv

LEMMA ListingKeepsKey ==
  ASSUME TypeOK, KeyInv, Listing PROVE KeyInv'
<1> USE DEF listingVars, redisVars, dataVars
<1>1. CASE ListingHeartbeat \/ ListingFails \/ ListingResumes
  BY <1>1, KeyIsLeftAlone DEF ListingHeartbeat, ListingFails, ListingResumes, RetryListing
<1>2. ASSUME NEW T \in SUBSET Annos, ListingEnds(T) PROVE KeyInv'
  <2>1. T \subseteq {a \in Annos : task[a].st = "none"} /\ UNCHANGED <<pending, task, resolved>>
    BY <1>2 DEF ListingEnds
  <2>2. CASE T = {}
    <3>1. pc' = "done" /\ UNCHANGED <<targets, toSend>>
      BY <1>2, <2>2 DEF ListingEnds
    <3>2. QED
      BY <2>1, <3>1 DEF KeyInv, FanoutIsSent, CountIsNotHigher, ZeroIsHeld
  <2>3. CASE T # {}
    <3>1. pc' = "count" /\ targets' = T /\ toSend' = T
      BY <1>2, <2>3 DEF ListingEnds
    <3>2. QED
      BY <2>1, <2>3, <3>1 DEF KeyInv, FanoutIsSent, CountIsNotHigher, ZeroIsHeld
  <2>4. QED
    BY <2>2, <2>3
<1>3. CASE SetPending
  <2>1. /\ pending' = Cardinality(targets) /\ pc' = "sending"
        /\ UNCHANGED <<targets, toSend, task, resolved>>
    BY <1>3 DEF SetPending
  <2>2. targets # {} /\ toSend = targets /\ targets \ resolved = targets
    BY <1>3 DEF SetPending, KeyInv, FanoutIsSent, TypeOK
  <2>3. Cardinality(targets) \in Nat /\ Cardinality(targets) # 0
    BY <2>2, Remaining DEF TypeOK
  <2>4. FanoutIsSent'
    BY <2>1, <2>2 DEF KeyInv, FanoutIsSent
  <2>5. CountIsNotHigher'
    <3>1. targets' \ resolved' = targets
      BY <2>1, <2>2
    <3>2. QED
      BY <2>1, <2>3, <3>1 DEF CountIsNotHigher
  <2>6. ~(pending' <= 0)
    BY <2>1, <2>3
  <2>7. QED
    BY <2>4, <2>5, <2>6 DEF KeyInv, ZeroIsHeld
<1>4. ASSUME NEW a \in Annos, SendDetail(a) PROVE KeyInv'
  <2>1. /\ pc = "sending" /\ a \in toSend /\ toSend' = toSend \ {a}
        /\ task' = [task EXCEPT ![a] = [st |-> "queued", retries |-> 0]]
        /\ pc' = (IF toSend' = {} THEN "done" ELSE pc)
        /\ UNCHANGED <<targets, pending, resolved>>
    BY <1>4 DEF SendDetail
  <2>2. task'[a].st = "queued" /\ \A b \in Annos \ {a} : task'[b] = task[b]
    BY <2>1 DEF TypeOK
  <2>3. FanoutIsSent'
    BY <2>1, <2>2 DEF KeyInv, FanoutIsSent, TypeOK
  <2>4. CountIsNotHigher' /\ ZeroIsHeld'
    BY <2>1, <2>2 DEF KeyInv, CountIsNotHigher, ZeroIsHeld, Holds
  <2>5. QED
    BY <2>3, <2>4 DEF KeyInv
<1>5. QED
  BY <1>1, <1>2, <1>3, <1>4 DEF Listing

LEMMA DecrementKeepsKey ==
  ASSUME TypeOK, KeyInv, NEW a \in Annos, Decrement(a) PROVE KeyInv'
<1> DEFINE remaining == (IF pending = NoKey THEN 0 ELSE pending) - 1
<1>1. /\ task[a].st = "decr"
      /\ task' = [task EXCEPT ![a].st = IF remaining > 0 THEN "acking" ELSE "closing"]
      /\ pending' = remaining
      /\ resolved' = resolved \cup {a}
      /\ UNCHANGED <<pc, targets, toSend>>
  BY DEF Decrement, Move, listingVars
<1>2. remaining \in Int /\ (pending # NoKey => pending \in Int /\ remaining = pending - 1)
  BY DEF TypeOK
<1> HIDE DEF remaining
<1>3. /\ task'[a].st = IF remaining > 0 THEN "acking" ELSE "closing"
      /\ \A b \in Annos \ {a} : task'[b] = task[b]
  BY <1>1 DEF TypeOK
<1>4. FanoutIsSent'
  BY <1>1, <1>3 DEF KeyInv, FanoutIsSent
<1>5. CountIsNotHigher'
  <2> SUFFICES ASSUME targets # {}, pc = "sending" \/ toSend = {}
               PROVE  remaining <= Cardinality(targets \ resolved')
    BY <1>1 DEF CountIsNotHigher
  <2>1. Cardinality(targets \ resolved') \in Nat
    BY Remaining DEF TypeOK
  <2>2. CASE pending = NoKey
    BY <2>1, <2>2 DEF remaining
  <2>3. CASE pending # NoKey
    <3>1. pending <= Cardinality(targets \ resolved) /\ Cardinality(targets \ resolved) \in Nat
      BY <2>3, Remaining DEF KeyInv, CountIsNotHigher, TypeOK
    <3>2. \/ Cardinality(targets \ resolved') = Cardinality(targets \ resolved) - 1
          \/ Cardinality(targets \ resolved') = Cardinality(targets \ resolved)
      <4>1. CASE a \in targets \ resolved
        <5>1. targets \in SUBSET Annos
          BY DEF TypeOK
        <5> QED BY <1>1, <4>1, <5>1, Remaining
      <4>2. CASE a \notin targets \ resolved
        <5>1. targets \ resolved' = targets \ resolved
          BY <1>1, <4>2
        <5>2. QED
          BY <5>1
      <4>3. QED
        BY <4>1, <4>2
    <3>3. QED
      <4> DEFINE before == Cardinality(targets \ resolved)
                 after  == Cardinality(targets \ resolved')
      <4>1. /\ before \in Nat /\ after \in Nat /\ (after = before - 1 \/ after = before)
            /\ pending <= before
        BY <2>1, <3>1, <3>2
      <4> HIDE DEF before, after
      <4>2. remaining <= after
        BY <1>2, <2>3, <4>1
      <4>3. QED
        BY <4>2 DEF after
  <2>4. QED
    BY <2>2, <2>3
<1>6. ZeroIsHeld'
  <2>1. CASE remaining > 0
    BY <1>1, <1>2, <2>1 DEF ZeroIsHeld
  <2>2. CASE ~(remaining > 0)
    BY <1>3, <2>2 DEF ZeroIsHeld, Holds
  <2>3. QED
    BY <2>1, <2>2
<1>7. QED
  BY <1>4, <1>5, <1>6 DEF KeyInv

(* Once every detail message that was sent is acknowledged no counter key   *)
(* is left in Redis (actors.py:97-113), whatever was delivered twice, lost  *)
(* or sent again, for every set of announcements and faults.                *)
THEOREM KeyIsDeleted == Spec => []KeyIsCleanedUp
<1>1. Init => KeyInv
  BY DEF Init, KeyInv, FanoutIsSent, CountIsNotHigher, ZeroIsHeld
<1>2. TypeOK /\ KeyInv /\ [Next]_vars => KeyInv'
  <2> SUFFICES ASSUME TypeOK, KeyInv, [Next]_vars PROVE KeyInv'
    OBVIOUS
  <2> USE DEF listingVars, redisVars, dataVars
  <2>1. CASE ListingInterrupted \/ SendFails
    BY <2>1, KeyIsLeftAlone DEF ListingInterrupted, SendFails, RetryListing
  <2>2. ASSUME NEW a \in Annos,
               \/ StartDetail(a) \/ SkipDetail(a) \/ SaveDetail(a) \/ CloseByCounter(a)
               \/ AckDetail(a) \/ DetailExpires(a)
        PROVE  KeyInv'
    <3>1. /\ UNCHANGED <<pc, targets, toSend, pending, resolved>>
          /\ \/ task[a].st = "queued" /\ task'[a].st \in {"running", "dead"}
             \/ task[a].st = "running" /\ task'[a].st = "decr"
             \/ task[a].st = "closing" /\ task'[a].st = "clearing"
             \/ task[a].st = "acking" /\ task'[a].st = "done"
          /\ \A b \in Annos \ {a} : task'[b] = task[b]
      BY <2>2 DEF StartDetail, SkipDetail, SaveDetail, CloseByCounter, AckDetail, DetailExpires,
                  Move, TypeOK
    <3>2. QED
      BY <3>1, KeyIsLeftAlone DEF Holds
  <2>3. ASSUME NEW a \in Annos, DetailFails(a) \/ DetailInterrupted(a) PROVE KeyInv'
    <3>1. /\ UNCHANGED <<pc, targets, toSend, pending, resolved>>
          /\ task[a].st \in {"running", "decr", "closing", "clearing", "acking"}
          /\ task'[a].st \in {"queued", "dead", "decr"}
          /\ \A b \in Annos \ {a} : task'[b] = task[b]
      BY <2>3 DEF DetailFails, DetailInterrupted, Requeue, Attempts, InFlight, TypeOK
    <3>2. QED
      BY <3>1, KeyIsLeftAlone DEF Holds
  <2>4. ASSUME NEW a \in Annos, DeleteKey(a) PROVE KeyInv'
    <3>1. /\ UNCHANGED <<pc, targets, toSend, resolved>> /\ pending' = NoKey
          /\ task[a].st = "clearing" /\ task'[a].st = "acking"
          /\ \A b \in Annos \ {a} : task'[b] = task[b]
      BY <2>4 DEF DeleteKey, Move, TypeOK
    <3>2. QED
      BY <3>1, KeyIsLeftAlone
  <2>5. ASSUME NEW S \in SUBSET Annos, NEW b \in BOOLEAN, WorkerCrash(S, b) PROVE KeyInv'
    <3>1. /\ UNCHANGED <<targets, toSend, pending, resolved>>
          /\ pc' = pc \/ pc' \in {"backoff", "dead"}
          /\ S \subseteq Attempts
          /\ task' = [a \in Annos |-> IF a \in S THEN [task[a] EXCEPT !.st = "queued"] ELSE task[a]]
      BY <2>5 DEF WorkerCrash, Attempts
    <3>2. \A a \in Annos : \/ task'[a] = task[a]
                           \/ task[a].st \in InFlight /\ task'[a].st = "queued"
      BY <3>1 DEF TypeOK, Attempts
    <3>3. QED
      BY <3>1, <3>2, KeyIsLeftAlone DEF Holds, InFlight
  <2>6. CASE RedisLoss
    <3>1. /\ UNCHANGED <<targets, toSend, resolved>> /\ pending' = NoKey
          /\ pc' = pc \/ pc' = "dead"
          /\ \A a \in Annos : \/ task'[a] = task[a]
                              \/ task[a].st = "queued" /\ task'[a].st = "dead"
      BY <2>6 DEF RedisLoss, TypeOK
    <3>2. QED
      BY <3>1, KeyIsLeftAlone
  <2>7. CASE Reaper \/ UNCHANGED vars
    BY <2>7, KeyIsLeftAlone DEF Reaper, Tick, CloseStaleRun, vars
  <2>8. QED
    BY <2>1, <2>2, <2>3, <2>4, <2>5, <2>6, <2>7, ListingKeepsKey, DecrementKeepsKey
       DEF Next, Detail, Environment
<1>3. TypeOK /\ KeyInv => KeyIsCleanedUp
  <2> SUFFICES ASSUME TypeOK, KeyInv, pending # NoKey, targets # {}, toSend = {},
                      \A a \in Annos : task[a].st \in {"none", "done"}
               PROVE  FALSE
    BY DEF KeyIsCleanedUp
  <2>1. targets \subseteq resolved
    BY DEF KeyInv, FanoutIsSent, TypeOK
  <2>2. Cardinality(targets \ resolved) = 0
    BY <2>1, Remaining DEF TypeOK
  <2>3. pending <= 0
    BY <2>2 DEF KeyInv, CountIsNotHigher
  <2>4. QED
    BY <2>3 DEF KeyInv, ZeroIsHeld, Holds
<1>4. QED
  BY <1>1, <1>2, <1>3, TypeCorrect, PTL DEF Spec

-----------------------------------------------------------------------------
(* The progress a page shows.                                              *)

(* One fan-out of a run, and Redis keeps what it holds.                    *)
OneFanOut == ~SameRun /\ "redis" \notin Faults

(* Before the fan-out there is no key and no message; after it, the key is *)
(* missing only if the run is finished, as it is while a task clears it.   *)
ProgressInv ==
  /\ pc # "backoff" /\ (pc \in {"listing", "count"} => total = NoKey)
  /\ pc = "sending" => total # NoKey
  /\ total = NoKey => pending = NoKey /\ \A a \in Annos : task[a].st = "none"
  /\ total # NoKey /\ pending = NoKey => Finished
  /\ \A a \in Annos : task[a].st = "clearing" => Finished

LEMMA FinishedStays == TypeOK /\ [Next]_vars /\ Finished => Finished'
<1> SUFFICES ASSUME TypeOK, [Next]_vars, Finished PROVE Finished'
  OBVIOUS
<1>1. run \in [finishedBy : Finishers, clean : BOOLEAN, silent : 0 .. StaleAfter + 1]
  BY DEF TypeOK
<1>2. CASE UNCHANGED run
  BY <1>2 DEF Finished
<1>3. CASE TouchRun \/ CountError
  BY <1>1, <1>3 DEF TouchRun, CountError, Finished
<1>4. CASE CloseRun("counter") \/ CloseRun("reaper") \/ FailAndClose("listing")
  BY <1>1, <1>4 DEF CloseRun, FailAndClose, Finished
<1>5. CASE run' = [run EXCEPT !.silent = 0, !.finishedBy = "listing"]
  BY <1>1, <1>5 DEF Finished
<1>6. CASE run' = [run EXCEPT !.silent = @ + 1]
  BY <1>1, <1>6 DEF Finished
<1>7. CASE Next
  <2> USE DEF listingVars, redisVars, dataVars
  <2>1. CASE Listing
    BY <1>2, <1>3, <1>4, <1>5, <2>1
       DEF Listing, ListingHeartbeat, ListingFails, ListingResumes, ListingEnds, SetPending,
           SendDetail
  <2>2. ASSUME NEW a \in Annos, Detail(a) PROVE Finished'
    BY <1>2, <1>3, <1>4, <2>2
       DEF Detail, StartDetail, SkipDetail, SaveDetail, DetailFails, Decrement, CloseByCounter,
           DeleteKey, AckDetail
  <2>3. CASE Reaper
    BY <1>4, <1>6, <2>3 DEF Reaper, Tick, CloseStaleRun
  <2>4. CASE Environment
    BY <1>2, <2>4 DEF Environment, ListingInterrupted, SendFails, RedisLoss, DetailInterrupted,
                      DetailExpires, WorkerCrash
  <2> QED BY <1>7, <2>1, <2>2, <2>3, <2>4 DEF Next
<1> QED BY <1>2, <1>7 DEF vars

(* Whatever else a step does, it moves the key and the tasks in one of     *)
(* these ways.                                                             *)
LEMMA KeySteps ==
  ASSUME OneFanOut, TypeOK, ProgressInv, [Next]_vars
  PROVE  \/ /\ UNCHANGED <<pending, total>>
            /\ \A a \in Annos : /\ task'[a].st # "none" => total # NoKey
                                /\ task'[a].st = "clearing" => Finished'
            /\ pc' # "backoff" /\ (pc' \in {"listing", "count"} => pc \in {"listing", "count"})
            /\ pc' = "sending" => pc = "sending"
         \/ /\ total = NoKey /\ total' \in Nat /\ pending' = total' /\ pc' = "sending"
            /\ UNCHANGED task
         \/ /\ total # NoKey /\ total' = total /\ UNCHANGED pc
            /\ pending # NoKey => pending' = pending - 1
            /\ pending = NoKey => Finished' /\ pending' \in Int
            /\ \A a \in Annos : task'[a].st = "clearing" => Finished'
         \/ /\ total # NoKey /\ total' = total /\ UNCHANGED pc
            /\ pending' = NoKey /\ Finished'
<1> USE DEF listingVars, redisVars, dataVars
<1>1. /\ Finished => Finished'
      /\ task \in [Annos -> [st : TaskStates, retries : 0 .. MaxRetries]]
      /\ run \in [finishedBy : Finishers, clean : BOOLEAN, silent : 0 .. StaleAfter + 1]
      /\ pending \in Int \cup {NoKey} /\ total \in Nat \cup {NoKey} /\ pc \in ListingPcs
      /\ NoKey \notin Int
  BY FinishedStays, FanoutAssumption DEF TypeOK
<1>2. \A a \in Annos : /\ task[a].st # "none" => total # NoKey
                       /\ task[a].st = "clearing" => Finished
  BY DEF ProgressInv
<1>3. RetryListing => pc' = "dead"
  BY DEF RetryListing, OneFanOut
<1>4. CASE UNCHANGED <<pending, total, task>> /\ pc' \in {pc, "dead", "done", "count"}
                     /\ (pc' = "count" => pc \in {"listing", "count"})
  BY <1>1, <1>2, <1>4 DEF ProgressInv
<1>5. CASE ListingHeartbeat \/ ListingFails \/ ListingInterrupted \/ SendFails
  BY <1>3, <1>4, <1>5 DEF ListingHeartbeat, ListingFails, ListingInterrupted, SendFails
<1>6. CASE ListingResumes
  BY <1>6 DEF ListingResumes, ProgressInv
<1>7. ASSUME NEW T \in SUBSET Annos, ListingEnds(T) PROVE pc' \in {"done", "count"} /\ pc = "listing"
                                                 /\ UNCHANGED <<pending, total, task>>
  BY <1>7 DEF ListingEnds
<1>8. CASE SetPending
  <2>1. Cardinality(targets) \in Nat
    BY FanoutAssumption, FS_Subset, FS_CardinalityType DEF TypeOK
  <2>2. total = NoKey  BY <1>8 DEF SetPending, ProgressInv
  <2> QED BY <1>8, <2>1, <2>2 DEF SetPending
<1>9. ASSUME NEW a \in Annos, SendDetail(a)
      PROVE  /\ UNCHANGED <<pending, total>> /\ total # NoKey /\ pc' \in {"done", "sending"}
             /\ pc = "sending" /\ \A b \in Annos : task'[b].st = "clearing" => Finished'
  <2>1. /\ pc = "sending" /\ UNCHANGED <<pending, total>> /\ pc' \in {"done", "sending"}
        /\ task' = [task EXCEPT ![a] = [st |-> "queued", retries |-> 0]]
    BY <1>9 DEF SendDetail
  <2>2. \A b \in Annos : task'[b].st = "clearing" => task[b].st = "clearing"
    BY <1>1, <2>1
  <2> QED BY <1>1, <1>2, <2>1, <2>2 DEF ProgressInv
(* A message moves from one state that is not "none" to another.           *)
<1>10. ASSUME NEW a \in Annos, task[a].st # "none",
              \A b \in Annos \ {a} : task'[b] = task[b],
              task'[a].st = "clearing" => Finished', UNCHANGED <<pending, total, pc>>
       PROVE  /\ \A b \in Annos : /\ task'[b].st # "none" => total # NoKey
                                  /\ task'[b].st = "clearing" => Finished'
              /\ pc' # "backoff" /\ (pc' \in {"listing", "count"} => pc \in {"listing", "count"})
              /\ pc' = "sending" => pc = "sending"
  BY <1>1, <1>2, <1>10 DEF ProgressInv
<1>11. ASSUME NEW a \in Annos, StartDetail(a) \/ SkipDetail(a) \/ SaveDetail(a) \/ AckDetail(a)
                               \/ DetailExpires(a)
       PROVE  /\ UNCHANGED <<pending, total, pc>> /\ task[a].st # "none"
              /\ \A b \in Annos \ {a} : task'[b] = task[b]
              /\ task'[a].st # "clearing"
  BY <1>1, <1>11 DEF StartDetail, SkipDetail, SaveDetail, AckDetail, DetailExpires, Move
<1>12. ASSUME NEW a \in Annos, DetailFails(a) \/ DetailInterrupted(a)
       PROVE  /\ UNCHANGED <<pending, total, pc>> /\ task[a].st # "none"
              /\ \A b \in Annos \ {a} : task'[b] = task[b]
              /\ task'[a].st # "clearing"
  BY <1>1, <1>12 DEF DetailFails, DetailInterrupted, Requeue, Attempts, InFlight
<1>13. ASSUME NEW a \in Annos, CloseByCounter(a)
       PROVE  /\ UNCHANGED <<pending, total, pc>> /\ task[a].st # "none"
              /\ \A b \in Annos \ {a} : task'[b] = task[b]
              /\ Finished'
  BY <1>1, <1>13 DEF CloseByCounter, CloseRun, Move, Finished
<1>14. ASSUME NEW a \in Annos, Decrement(a)
       PROVE  /\ total # NoKey /\ total' = total /\ UNCHANGED pc
              /\ pending # NoKey => pending' = pending - 1
              /\ pending = NoKey => Finished' /\ pending' \in Int
              /\ \A b \in Annos : task'[b].st = "clearing" => Finished'
  <2>1. /\ UNCHANGED <<total, pc>> /\ task[a].st = "decr"
        /\ pending' = (IF pending = NoKey THEN 0 ELSE pending) - 1
        /\ task'[a].st # "clearing" /\ \A b \in Annos \ {a} : task'[b] = task[b]
    BY <1>1, <1>14 DEF Decrement, Move
  <2>2. total # NoKey /\ (pending = NoKey => Finished)
    BY <1>2, <2>1 DEF ProgressInv
  <2>3. \A b \in Annos : task'[b].st = "clearing" => Finished'
    BY <1>1, <1>2, <2>1
  <2>4. pending = NoKey => pending' \in Int
    BY <2>1
  <2> QED BY <1>1, <2>1, <2>2, <2>3, <2>4
<1>15. ASSUME NEW a \in Annos, DeleteKey(a)
       PROVE  total # NoKey /\ total' = total /\ UNCHANGED pc /\ pending' = NoKey /\ Finished'
  BY <1>1, <1>2, <1>15 DEF DeleteKey, Move
<1>16. CASE Reaper
  BY <1>4, <1>16 DEF Reaper, Tick, CloseStaleRun
<1>17. ~RedisLoss
  BY DEF RedisLoss, OneFanOut
<1>18. ASSUME NEW S \in SUBSET Annos, NEW b \in BOOLEAN, WorkerCrash(S, b)
       PROVE  /\ UNCHANGED <<pending, total>>
              /\ \A a \in Annos : /\ task'[a].st # "none" => total # NoKey
                                  /\ task'[a].st = "clearing" => Finished'
              /\ pc' \in {pc, "dead"}
  <2>1. /\ UNCHANGED <<pending, total>> /\ pc' \in {pc, "dead"}
        /\ \A a \in Annos : task'[a] = task[a]
                            \/ (task[a].st \in InFlight /\ task'[a].st = "queued")
    BY <1>1, <1>18 DEF WorkerCrash, OneFanOut, Attempts
  <2> QED BY <1>1, <1>2, <2>1 DEF InFlight
<1>19. CASE UNCHANGED vars
  BY <1>4, <1>19 DEF vars
<1>20. CASE \E a \in Annos : Detail(a) \/ DetailInterrupted(a) \/ DetailExpires(a)
  <2> PICK a \in Annos : Detail(a) \/ DetailInterrupted(a) \/ DetailExpires(a)
    BY <1>20
  <2>1. CASE Decrement(a)  BY <1>14, <2>1
  <2>2. CASE DeleteKey(a)  BY <1>15, <2>2
  <2>3. CASE CloseByCounter(a)  BY <1>10, <1>13, <2>3
  <2>4. CASE DetailFails(a) \/ DetailInterrupted(a)  BY <1>10, <1>12, <2>4
  <2>5. CASE StartDetail(a) \/ SkipDetail(a) \/ SaveDetail(a) \/ AckDetail(a) \/ DetailExpires(a)
    BY <1>10, <1>11, <2>5
  <2> QED BY <2>1, <2>2, <2>3, <2>4, <2>5 DEF Detail
<1>21. CASE \E T \in SUBSET Annos : ListingEnds(T)
  BY <1>4, <1>7, <1>21
<1>22. CASE \E a \in Annos : SendDetail(a)
  BY <1>9, <1>22
<1>23. CASE \E S \in SUBSET Annos, b \in BOOLEAN : WorkerCrash(S, b)
  <2>1. pc # "backoff"  BY DEF ProgressInv
  <2> QED BY <1>18, <1>23, <2>1
<1> QED
  BY <1>5, <1>6, <1>8, <1>16, <1>17, <1>19, <1>20, <1>21, <1>22, <1>23
     DEF Next, Listing, Environment

(* What a page shows of a run never goes back (ingest.py:112-155), for any  *)
(* number of announcements, retries and deaths, while Redis keeps its keys *)
(* and an attempt of the listing has a row of its own.                     *)
THEOREM ProgressOnlyGrows == ASSUME OneFanOut PROVE Spec => ProgressForward
<1>1. Init => ProgressInv
  BY DEF Init, ProgressInv
<1>2. TypeOK /\ ProgressInv /\ [Next]_vars => ProgressInv'
  <2> SUFFICES ASSUME TypeOK, ProgressInv, [Next]_vars PROVE ProgressInv'
    OBVIOUS
  <2>1. (Finished => Finished') /\ NoKey \notin Int /\ total \in Nat \cup {NoKey}
        /\ pending \in Int \cup {NoKey}
    BY FinishedStays, FanoutAssumption DEF TypeOK
  <2> HIDE DEF Finished
  <2> QED BY <2>1, KeySteps DEF ProgressInv
<1>3. TypeOK /\ ProgressInv /\ [Next]_vars
        => [ /\ Progress'.phase >= Progress.phase
             /\ Progress'.phase = Progress.phase => Progress'.done >= Progress.done ]_vars
  <2> SUFFICES ASSUME TypeOK, ProgressInv, [Next]_vars
               PROVE  /\ Progress'.phase >= Progress.phase
                      /\ Progress'.phase = Progress.phase => Progress'.done >= Progress.done
    OBVIOUS
  <2>1. (Finished => Finished') /\ NoKey \notin Int /\ total \in Nat \cup {NoKey}
        /\ pending \in Int \cup {NoKey}
    BY FinishedStays, FanoutAssumption DEF TypeOK
  <2>2. /\ total = NoKey => pending = NoKey
        /\ total # NoKey /\ pending = NoKey => Finished
    BY DEF ProgressInv
  <2> DEFINE f == Finished
             g == Finished'
             none == pending = NoKey \/ total = NoKey
             p == total - AtLeast(pending, 0)
  <2> QED BY <2>1, <2>2, KeySteps DEF Progress, AtLeast
<1> QED
  BY <1>1, <1>2, <1>3, TypeCorrect, PTL DEF Spec, ProgressForward
=============================================================================
