--------------------------- MODULE TaskPoolProofs ---------------------------
(* Theorems about TaskPool, for every number of slots, workers and objects. *)
EXTENDS TaskPool, FiniteSetTheorems, TLAPS

\* A worker holds a task exactly while it runs it.
Busy == \A w \in Workers : pc[w] = "run" <=> job[w] # Invalid

\* The inductive invariant.  The three safety properties need each other's
\* help only through types, Busy and the accounting of ids: an id not handed
\* out yet is nowhere, and a task that is gone is nowhere either.
IndInv == TypeOK /\ Busy /\ Accounted /\ Handles /\ NoOrphans

-----------------------------------------------------------------------------
\* An empty pool, idle workers and inactive trackers satisfy all of it.
LEMMA InitInv == Init => IndInv
BY SizesAssumption, KindsAssumption, NonEmptyAssumption
DEF Init, IndInv, TypeOK, Busy, Accounted, OnePlace, Handles, NoOrphans, Live,
    InPool, Running, Invalid, Ids, Slots

\* A tick makes a stored task later by one at most.
LEMMA AgedByOne ==
  ASSUME TypeOK, NEW i \in Ids
  PROVE  Aged(i) \in Int /\ Aged(i) >= due[i] - 1
<1>1. IsFiniteSet(Before(i))
  <2>1. IsFiniteSet(Slots)
    BY FS_Interval, SizesAssumption DEF Slots
  <2> QED
    BY <2>1, FS_Subset DEF Before, Stored
<1>2. Cardinality(Before(i)) \in Nat
  BY <1>1, FS_CardinalityType
<1>3. due[i] \in Int /\ MaxLag \in Nat
  BY SizesAssumption DEF TypeOK
<1> QED
  BY <1>2, <1>3 DEF Aged

\* No operation of a worker or an owner leaves the types.
LEMMA TypeStep == TypeOK /\ Busy /\ [Next]_vars => TypeOK'
<1> SUFFICES ASSUME TypeOK, Busy, [Next]_vars PROVE TypeOK'
  OBVIOUS
<1> USE SizesAssumption DEF TypeOK, Ids, Slots, Invalid
<1>11. ASSUME NEW i \in Ids, Vacate(i)
       PROVE  /\ slot' \in [Slots -> Ids \cup {Invalid}]
              /\ due' \in [Ids -> Int] /\ epoch' \subseteq Ids
  BY <1>11 DEF Vacate
<1>1. ASSUME NEW w \in Workers, PickTask(w) PROVE TypeOK'
  <2>1. PICK s \in Slots : /\ slot[s] # Invalid
                           /\ job' = [job EXCEPT ![w] = slot[s]]
                           /\ Vacate(slot[s])
    BY <1>1 DEF PickTask, Chosen, Stored
  <2>2. slot[s] \in Ids
    BY <2>1
  <2>3. pc' \in [Workers -> {"scan", "run", "wait", "sleep"}] /\ sleep' \in [Workers -> Nat]
    BY <1>1 DEF PickTask
  <2>4. UNCHANGED <<nextId, kind, arg, tracker, old, alive, fate, missed>>
    BY <1>1 DEF PickTask, ownerVars, history
  <2> QED
    <3>1. job' \in [Workers -> Ids \cup {Invalid}]
      BY <2>1, <2>2
    <3>2. /\ slot' \in [Slots -> Ids \cup {Invalid}]
          /\ due' \in [Ids -> Int] /\ epoch' \subseteq Ids
      BY <1>11, <2>1, <2>2
    <3> QED
      BY <2>3, <2>4, <3>1, <3>2
<1>2. ASSUME NEW w \in Workers, NothingDue(w) PROVE TypeOK'
  <2>1. sleep' \in [Workers -> Nat]
    <3>1. CASE sleep' = [sleep EXCEPT ![w] = Regular]
      BY <3>1
    <3>2. CASE \E s \in Slots : /\ Chosen(s)
                                /\ slot[s] \notin epoch /\ due[slot[s]] > 0
                                /\ sleep' = [sleep EXCEPT ![w] = due[slot[s]]]
      <4>1. PICK s \in Slots : /\ slot[s] # Invalid /\ due[slot[s]] > 0
                               /\ sleep' = [sleep EXCEPT ![w] = due[slot[s]]]
        BY <3>2 DEF Chosen, Stored
      <4>2. due[slot[s]] \in Nat
        BY <4>1
      <4> QED
        BY <4>1, <4>2
    <3> QED
      BY <1>2, <3>1, <3>2 DEF NothingDue
  <2>2. pc' \in [Workers -> {"scan", "run", "wait", "sleep"}]
    BY <1>2 DEF NothingDue
  <2> QED
    BY <1>2, <2>1, <2>2 DEF NothingDue, poolVars, ownerVars, history
<1>3. ASSUME NEW w \in Workers, LockTimeout(w) PROVE TypeOK'
  BY <1>3 DEF LockTimeout, poolVars, ownerVars, history
<1>4. ASSUME NEW w \in Workers, EndSingleShot(w) PROVE TypeOK'
  BY <1>4 DEF EndSingleShot, poolVars, ownerVars
<1>5. ASSUME NEW w \in Workers, Repost(w) PROVE TypeOK'
  <2>1. job[w] \in Ids
    BY <1>5 DEF Repost, Busy
  <2>2. kind[job[w]].interval \in Nat
    BY <2>1, KindsAssumption
  <2>3. /\ slot' \in [Slots -> Ids \cup {Invalid}]
        /\ due' \in [Ids -> Int]
        /\ fate' \in [Ids -> {"none", "done", "removed", "dropped"}]
    <3>1. CASE Free # {}
      <4>1. PICK s \in Slots : slot' = [slot EXCEPT ![s] = job[w]]
        BY <1>5, <3>1 DEF Repost, Free, Append
      <4>2. due' = [due EXCEPT ![job[w]] = kind[job[w]].interval] /\ UNCHANGED fate
        BY <1>5, <3>1 DEF Repost
      <4> QED
        BY <2>1, <2>2, <4>1, <4>2
    <3>2. CASE Free = {}
      BY <1>5, <2>1, <3>2 DEF Repost
    <3> QED
      BY <3>1, <3>2
  <2>4. sleep' \in [Workers -> Nat]
    BY <1>5, <2>2 DEF Repost
  <2>5. job' \in [Workers -> Ids \cup {Invalid}]
        /\ pc' \in [Workers -> {"scan", "run", "wait", "sleep"}]
    BY <1>5 DEF Repost
  <2> QED
    BY <1>5, <2>3, <2>4, <2>5 DEF Repost, ownerVars
<1>6. ASSUME NEW w \in Workers, EnterWait(w) PROVE TypeOK'
  <2>1. sleep' \in [Workers -> Nat] /\ pc' \in [Workers -> {"scan", "run", "wait", "sleep"}]
    <3>1. CASE sleep[w] = 0 \/ SomeOverdue
      <4>1. sleep' = [sleep EXCEPT ![w] = 0] /\ pc' = [pc EXCEPT ![w] = "scan"]
        BY <1>6, <3>1, Zenon DEF EnterWait
      <4> QED
        BY <4>1
    <3>2. CASE ~ (sleep[w] = 0 \/ SomeOverdue)
      <4>1. Capped(sleep[w]) \in Nat
        BY DEF Capped
      <4>2. /\ sleep' = [sleep EXCEPT ![w] = Capped(sleep[w])]
            /\ pc' = [pc EXCEPT ![w] = "sleep"]
        BY <1>6, <3>2, Zenon DEF EnterWait
      <4> QED
        BY <4>1, <4>2
    <3> QED
      BY <3>1, <3>2
  <2> QED
    BY <1>6, <2>1 DEF EnterWait, poolVars, ownerVars, history
<1>7. ASSUME NEW w \in Workers, TimeOut(w) \/ Notified(w) PROVE TypeOK'
  <2>1. pc' = [pc EXCEPT ![w] = "scan"]
    BY <1>7 DEF TimeOut, Notified
  <2>2. sleep' = sleep \/ sleep' = [sleep EXCEPT ![w] = 0]
    BY <1>7 DEF TimeOut, Notified
  <2>3. UNCHANGED <<poolVars, job, ownerVars, history>>
    BY <1>7 DEF TimeOut, Notified
  <2>4. pc' \in [Workers -> {"scan", "run", "wait", "sleep"}]
    BY <2>1
  <2>5. sleep' \in [Workers -> Nat]
    <3>1. CASE sleep' = sleep
      BY <3>1
    <3>2. CASE sleep' = [sleep EXCEPT ![w] = 0]
      BY <3>2
    <3> QED
      BY <2>2, <3>1, <3>2
  <2> QED
    BY <2>3, <2>4, <2>5 DEF poolVars, ownerVars, history
<1>8. ASSUME NEW o \in Owners, NEW k \in Kinds, Enqueue(o, k),
             tracker' = [tracker EXCEPT ![o] = nextId]
      PROVE  /\ nextId \in Ids
             /\ slot' \in [Slots -> Ids \cup {Invalid}]
             /\ nextId' \in 0 .. MaxId
             /\ kind' \in [Ids -> Kinds] /\ arg' \in [Ids -> Owners]
             /\ due' \in [Ids -> Int] /\ epoch' \subseteq Ids
             /\ tracker' \in [Owners -> Ids \cup {Invalid}]
  <2>1. nextId \in Ids
    BY <1>8 DEF Enqueue
  <2>2. slot' \in [Slots -> Ids \cup {Invalid}]
    BY <1>8, <2>1 DEF Enqueue, Append, Free
  <2>3. k.interval \in Nat
    BY KindsAssumption
  <2> QED
    BY <1>8, <2>1, <2>2, <2>3 DEF Enqueue
<1>9. ASSUME NEW o \in Owners, PostRepeating(o) PROVE TypeOK'
  BY <1>9, <1>8 DEF PostRepeating, workerVars, history
<1>10. ASSUME NEW o \in Owners, PostSingleShot(o) PROVE TypeOK'
  BY <1>10, <1>8 DEF PostSingleShot, SwapOut, workerVars, history
<1>12. ASSUME NEW i \in Ids, Forget(i)
       PROVE  /\ slot' \in [Slots -> Ids \cup {Invalid}]
              /\ due' \in [Ids -> Int] /\ epoch' \subseteq Ids
              /\ fate' \in [Ids -> {"none", "done", "removed", "dropped"}]
              /\ missed' \subseteq Ids
  BY <1>11, <1>12 DEF Forget
<1>13. ASSUME NEW o \in Owners, DestroyOld(o) PROVE TypeOK'
  <2>1. old[o] \in Ids
    BY <1>13 DEF DestroyOld
  <2> QED
    BY <1>12, <1>13, <2>1 DEF DestroyOld, workerVars
<1>14. ASSUME NEW o \in Owners, Invalidate(o) PROVE TypeOK'
  <2>1. tracker[o] \in Ids
    BY <1>14 DEF Invalidate
  <2>2. CASE InPool(tracker[o])
    BY <1>11, <1>14, <2>1, <2>2 DEF Invalidate, ResetId, workerVars
  <2>3. CASE ~ InPool(tracker[o])
    BY <1>14, <2>3 DEF Invalidate, workerVars
  <2> QED
    BY <2>2, <2>3
<1>15. ASSUME NEW o \in Owners, Destroy(o) PROVE TypeOK'
  <2>1. CASE tracker[o] # Invalid
    <3>1. tracker[o] \in Ids
      BY <2>1
    <3> QED
      BY <1>12, <1>15, <2>1, <3>1 DEF Destroy, ResetId, workerVars
  <2>2. CASE tracker[o] = Invalid
    BY <1>15, <2>2 DEF Destroy, ResetId, workerVars, history
  <2> QED
    BY <2>1, <2>2
<1>16. ASSUME NEW o \in Owners, Create(o) PROVE TypeOK'
  BY <1>16 DEF Create, poolVars, workerVars, history
<1>17. ASSUME Tick PROVE TypeOK'
  <2>1. \A i \in Ids : Aged(i) \in Int
    BY AgedByOne
  <2>2. due' \in [Ids -> Int]
    BY <1>17, <2>1 DEF Tick
  <2> QED
    BY <1>17, <2>2 DEF Tick, Elapse, ownerVars, history
<1>18. CASE UNCHANGED vars
  BY <1>18 DEF vars, poolVars, workerVars, ownerVars, history
<1> QED
  BY <1>1, <1>2, <1>3, <1>4, <1>5, <1>6, <1>7, <1>9, <1>10, <1>13, <1>14,
     <1>15, <1>16, <1>17, <1>18 DEF Next, Worker, Owner

-----------------------------------------------------------------------------
(* What the two operations on the array do to the set of stored tasks. *)

\* modifyOrRemove takes out every copy of one id and nothing else.
LEMMA VacateStored ==
  ASSUME TypeOK, NEW i \in Ids, Vacate(i)
  PROVE  /\ \A j \in Ids : InPool(j)' <=> InPool(j) /\ j # i
         /\ \A s \in Slots : slot'[s] # Invalid => slot'[s] = slot[s]
BY DEF TypeOK, Vacate, InPool, Slots, Ids, Invalid

\* append puts the id into one empty slot and touches no other.
LEMMA AppendStored ==
  ASSUME TypeOK, NEW i \in Ids, Append(i)
  PROVE  /\ \A j \in Ids : InPool(j)' <=> InPool(j) \/ j = i
         /\ \E s \in Slots : /\ slot[s] = Invalid /\ slot'[s] = i
                             /\ \A t \in Slots \ {s} : slot'[t] = slot[t]
<1>1. PICK s \in Slots : slot[s] = Invalid /\ slot' = [slot EXCEPT ![s] = i]
  BY DEF Append, Free
<1>2. /\ slot'[s] = i
      /\ \A t \in Slots \ {s} : slot'[t] = slot[t]
  BY <1>1 DEF TypeOK
<1>3. \A j \in Ids : InPool(j)' <=> InPool(j) \/ j = i
  <2> TAKE j \in Ids
  <2>1. j # Invalid
    BY DEF Ids, Invalid
  <2>2. CASE j = i
    BY <1>2, <2>2 DEF InPool
  <2>3. CASE j # i
    BY <1>1, <1>2, <2>1, <2>3 DEF InPool
  <2> QED
    BY <2>2, <2>3
<1> QED
  BY <1>1, <1>2, <1>3

-----------------------------------------------------------------------------
\* doWork copies a task out exactly when it goes on to run it.
LEMMA BusyStep == TypeOK /\ Busy /\ [Next]_vars => Busy'
<1> SUFFICES ASSUME TypeOK, Busy, [Next]_vars PROVE Busy'
  OBVIOUS
<1> USE DEF TypeOK, Busy
<1>1. ASSUME NEW w \in Workers, PickTask(w) PROVE Busy'
  <2>1. PICK s \in Slots : slot[s] # Invalid /\ job' = [job EXCEPT ![w] = slot[s]]
    BY <1>1 DEF PickTask, Chosen, Stored
  <2>2. pc' = [pc EXCEPT ![w] = "run"]
    BY <1>1 DEF PickTask
  <2> QED
    BY <2>1, <2>2
<1>2. ASSUME NEW w \in Workers,
             NothingDue(w) \/ LockTimeout(w) \/ EnterWait(w) \/ TimeOut(w) \/ Notified(w)
      PROVE  Busy'
  <2>1. /\ job' = job /\ pc[w] # "run"
        /\ \E l \in {"scan", "wait", "sleep"} : pc' = [pc EXCEPT ![w] = l]
    BY <1>2, Zenon DEF NothingDue, LockTimeout, EnterWait, TimeOut, Notified
  <2> QED
    BY <2>1
<1>3. ASSUME NEW w \in Workers, EndSingleShot(w) \/ Repost(w) PROVE Busy'
  <2>1. /\ job' = [job EXCEPT ![w] = Invalid]
        /\ pc' = [pc EXCEPT ![w] = "wait"]
    BY <1>3 DEF EndSingleShot, Repost
  <2> QED
    BY <2>1
<1>4. ASSUME NEW o \in Owners, Owner(o) PROVE Busy'
  <2>1. job' = job /\ pc' = pc
    BY <1>4 DEF Owner, PostRepeating, PostSingleShot, DestroyOld, Invalidate,
                Destroy, Create, workerVars
  <2> QED
    BY <2>1
<1>5. CASE Tick \/ UNCHANGED vars
  <2>1. job' = job /\ pc' = pc
    BY <1>5 DEF Tick, vars, workerVars
  <2> QED
    BY <2>1
<1> QED
  BY <1>1, <1>2, <1>3, <1>4, <1>5 DEF Next, Worker

-----------------------------------------------------------------------------
\* Removing an id from the slots, if it is there, and recording it.
LEMMA ForgetAccounted ==
  ASSUME TypeOK, Accounted, NEW i \in Ids, Vacate(i), UNCHANGED <<job, nextId>>,
         fate' = IF InPool(i) THEN [fate EXCEPT ![i] = "removed"] ELSE fate
  PROVE  Accounted'
<1>1. \A s \in Slots : slot'[s] # Invalid => slot'[s] = slot[s]
  BY VacateStored
<1>2. OnePlace'
  BY <1>1 DEF OnePlace, Accounted
<1>3. \A j \in Ids : InPool(j)' <=> InPool(j) /\ j # i
  BY VacateStored
<1>4. \A j \in Ids : Running(j)' <=> Running(j)
  BY DEF Running
<1>5. InPool(i) => ~ Running(i)
  BY DEF Accounted, OnePlace, InPool, Running, Ids, Invalid
<1>6. ASSUME NEW j \in Ids
      PROVE  /\ (Live(j) <=> j < nextId /\ fate[j] = "none")'
             /\ (j >= nextId => fate[j] = "none")'
  <2>1. CASE j # i
    <3>1. fate'[j] = fate[j]
      BY <2>1 DEF TypeOK
    <3> QED
      BY <1>3, <1>4, <2>1, <3>1 DEF Accounted, Live
  <2>2. CASE j = i /\ InPool(i)
    <3>1. fate'[i] = "removed"
      BY <2>2 DEF TypeOK
    <3>2. i < nextId
      BY <2>2 DEF Accounted, Live
    <3> QED
      BY <1>3, <1>4, <1>5, <2>2, <3>1, <3>2 DEF Live, TypeOK, Ids
  <2>3. CASE j = i /\ ~ InPool(i)
    BY <1>3, <1>4, <2>3 DEF Accounted, Live
  <2> QED
    BY <2>1, <2>2, <2>3
<1> QED
  BY <1>2, <1>6 DEF Accounted

\* Handing out the next id.
LEMMA EnqueueAccounted ==
  ASSUME TypeOK, Accounted, NEW o \in Owners, NEW k \in Kinds, Enqueue(o, k),
         UNCHANGED <<job, fate>>
  PROVE  Accounted'
<1>1. nextId \in Ids /\ nextId' = nextId + 1 /\ Append(nextId)
  BY SizesAssumption DEF Enqueue, TypeOK, Ids
<1>2. ~ Live(nextId)
  BY <1>1 DEF Accounted, Ids
<1>3. \A j \in Ids : InPool(j)' <=> InPool(j) \/ j = nextId
  BY <1>1, AppendStored
<1>4. \A j \in Ids : Running(j)' <=> Running(j)
  BY DEF Running
<1>5. PICK s \in Slots : /\ slot[s] = Invalid /\ slot'[s] = nextId
                         /\ \A t \in Slots \ {s} : slot'[t] = slot[t]
  BY <1>1, AppendStored
<1>6. (\A t \in Slots : slot[t] # nextId) /\ (\A w \in Workers : job[w] # nextId)
  BY <1>2 DEF Live, InPool, Running
<1>7. OnePlace'
  BY <1>5, <1>6 DEF OnePlace, Accounted
<1>8. fate[nextId] = "none"
  BY <1>1 DEF Accounted, Ids
<1>9. ASSUME NEW j \in Ids
      PROVE  /\ (Live(j) <=> j < nextId /\ fate[j] = "none")'
             /\ (j >= nextId => fate[j] = "none")'
  <2>1. Live(j)' <=> Live(j) \/ j = nextId
    BY <1>3, <1>4 DEF Live
  <2>2. j < nextId' <=> j < nextId \/ j = nextId
    BY <1>1 DEF Ids
  <2>3. j >= nextId' => j >= nextId
    BY <1>1 DEF Ids
  <2> QED
    BY <1>8, <2>1, <2>2, <2>3 DEF Accounted
<1> QED
  BY <1>7, <1>9 DEF Accounted

\* Every operation moves a task from one place to one other place or fate.
LEMMA AccountedStep == TypeOK /\ Busy /\ Accounted /\ [Next]_vars => Accounted'
<1> SUFFICES ASSUME TypeOK, Busy, Accounted, [Next]_vars PROVE Accounted'
  OBVIOUS
<1>1. ASSUME NEW w \in Workers, PickTask(w) PROVE Accounted'
  <2>1. PICK s \in Slots : /\ slot[s] # Invalid /\ Vacate(slot[s])
                           /\ job' = [job EXCEPT ![w] = slot[s]]
    BY <1>1 DEF PickTask, Chosen, Stored
  <2> DEFINE i == slot[s]
  <2>2. i \in Ids /\ InPool(i)
    BY <2>1 DEF TypeOK, InPool
  <2>3. job[w] = Invalid
    BY <1>1 DEF PickTask, Busy
  <2>4. /\ \A j \in Ids : InPool(j)' <=> InPool(j) /\ j # i
        /\ \A t \in Slots : slot'[t] # Invalid => slot'[t] = slot[t]
    BY <2>1, <2>2, VacateStored
  <2>5. job'[w] = i /\ \A v \in Workers \ {w} : job'[v] = job[v]
    BY <2>1 DEF TypeOK
  <2>6. \A j \in Ids : Running(j)' <=> Running(j) \/ j = i
    BY <2>3, <2>5 DEF Running, Ids, Invalid
  <2>7. OnePlace'
    <3>1. \A t \in Slots : slot'[t] # i
      BY <2>2, <2>4 DEF InPool, Ids, Invalid
    <3> QED
      BY <2>1, <2>4, <2>5, <3>1 DEF OnePlace, Accounted
  <2>8. UNCHANGED <<nextId, fate>>
    BY <1>1 DEF PickTask, history
  <2> QED
    BY <2>2, <2>4, <2>6, <2>7, <2>8 DEF Accounted, Live
<1>2. ASSUME NEW w \in Workers, EndSingleShot(w) PROVE Accounted'
  <2>1. job[w] \in Ids
    BY <1>2 DEF EndSingleShot, Busy, TypeOK
  <2>2. /\ job'[w] = Invalid /\ \A v \in Workers \ {w} : job'[v] = job[v]
        /\ fate'[job[w]] = "done"
        /\ \A j \in Ids \ {job[w]} : fate'[j] = fate[j]
        /\ UNCHANGED <<slot, nextId>>
    BY <1>2, <2>1 DEF EndSingleShot, TypeOK, poolVars
  <2>3. OnePlace'
    BY <2>2 DEF OnePlace, Accounted
  <2>4. \A j \in Ids : Live(j)' <=> Live(j) /\ j # job[w]
    <3>1. \A j \in Ids : InPool(j)' <=> InPool(j)
      BY <2>2 DEF InPool
    <3>2. ~ InPool(job[w])
      BY <2>1 DEF InPool, Accounted, OnePlace, Ids, Invalid
    <3>3. \A j \in Ids : Running(j)' <=> Running(j) /\ j # job[w]
      BY <2>1, <2>2 DEF Running, Accounted, OnePlace, Ids, Invalid
    <3> QED
      BY <3>1, <3>2, <3>3 DEF Live
  <2>5. job[w] < nextId
    BY <2>1 DEF Accounted, Live, Running
  <2> QED
    BY <2>1, <2>2, <2>3, <2>4, <2>5 DEF Accounted, Ids, TypeOK
<1>3. ASSUME NEW w \in Workers, Repost(w) PROVE Accounted'
  <2> DEFINE i == job[w]
  <2>1. i \in Ids
    BY <1>3 DEF Repost, Busy, TypeOK
  <2>2. /\ job'[w] = Invalid /\ \A v \in Workers \ {w} : job'[v] = job[v]
        /\ nextId' = nextId
    BY <1>3 DEF Repost, TypeOK
  <2>3. ~ InPool(i) /\ Running(i) /\ i < nextId /\ fate[i] = "none"
    BY <2>1 DEF InPool, Running, Live, Accounted, OnePlace, Ids, Invalid
  <2>4. \A j \in Ids : Running(j)' <=> Running(j) /\ j # i
    BY <2>1, <2>2 DEF Running, Accounted, OnePlace, Ids, Invalid
  <2>5. CASE Append(i) /\ UNCHANGED fate
    <3>1. \A j \in Ids : InPool(j)' <=> InPool(j) \/ j = i
      BY <2>1, <2>5, AppendStored
    <3>2. PICK s \in Slots : /\ slot[s] = Invalid /\ slot'[s] = i
                             /\ \A t \in Slots \ {s} : slot'[t] = slot[t]
      BY <2>1, <2>5, AppendStored
    <3>3. \A t \in Slots : slot[t] # i
      BY <2>3 DEF InPool
    <3>4. OnePlace'
      BY <2>1, <2>2, <3>2, <3>3 DEF OnePlace, Accounted, Ids, Invalid
    <3>5. \A j \in Ids : Live(j)' <=> Live(j)
      BY <2>3, <2>4, <3>1 DEF Live
    <3> QED
      BY <2>2, <2>5, <3>4, <3>5 DEF Accounted
  <2>6. CASE fate' = [fate EXCEPT ![i] = "dropped"] /\ UNCHANGED slot
    <3>1. \A j \in Ids : Live(j)' <=> Live(j) /\ j # i
      BY <2>3, <2>4, <2>6 DEF Live, InPool
    <3>2. OnePlace'
      BY <2>2, <2>6 DEF OnePlace, Accounted
    <3>3. fate'[i] = "dropped" /\ \A j \in Ids \ {i} : fate'[j] = fate[j]
      BY <2>1, <2>6 DEF TypeOK
    <3> QED
      BY <2>1, <2>2, <2>3, <3>1, <3>2, <3>3 DEF Accounted, Ids, TypeOK
  <2> QED
    BY <1>3, <2>5, <2>6 DEF Repost
<1>4. ASSUME NEW o \in Owners, PostRepeating(o) \/ PostSingleShot(o) PROVE Accounted'
  BY <1>4, EnqueueAccounted
     DEF PostRepeating, PostSingleShot, workerVars, history
<1>5. ASSUME NEW o \in Owners, DestroyOld(o) PROVE Accounted'
  BY <1>5, ForgetAccounted DEF DestroyOld, Forget, workerVars, TypeOK
<1>6. ASSUME NEW o \in Owners, Invalidate(o) PROVE Accounted'
  <2>1. tracker[o] \in Ids
    BY <1>6 DEF Invalidate, TypeOK
  <2>2. CASE InPool(tracker[o])
    BY <1>6, <2>1, <2>2, ForgetAccounted DEF Invalidate, workerVars
  <2>3. CASE ~ InPool(tracker[o])
    <3>1. UNCHANGED <<slot, job, nextId, fate>>
      BY <1>6, <2>3 DEF Invalidate, workerVars
    <3> QED
      BY <3>1 DEF Accounted, OnePlace, Live, InPool, Running
  <2> QED
    BY <2>2, <2>3
<1>7. ASSUME NEW o \in Owners, Destroy(o) PROVE Accounted'
  <2>1. CASE tracker[o] # Invalid
    <3>1. tracker[o] \in Ids
      BY <2>1 DEF TypeOK
    <3> QED
      BY <1>7, <2>1, <3>1, ForgetAccounted DEF Destroy, Forget, workerVars
  <2>2. CASE tracker[o] = Invalid
    <3>1. UNCHANGED <<slot, job, nextId, fate>>
      BY <1>7, <2>2 DEF Destroy, workerVars, history
    <3> QED
      BY <3>1 DEF Accounted, OnePlace, Live, InPool, Running
  <2> QED
    BY <2>1, <2>2
<1>8. ASSUME UNCHANGED <<slot, job, nextId, fate>> PROVE Accounted'
  BY <1>8 DEF Accounted, OnePlace, Live, InPool, Running
<1>9. ASSUME NEW w \in Workers,
             NothingDue(w) \/ LockTimeout(w) \/ EnterWait(w) \/ TimeOut(w) \/ Notified(w)
      PROVE  Accounted'
  BY <1>8, <1>9 DEF NothingDue, LockTimeout, EnterWait, TimeOut, Notified, poolVars, history
<1>10. ASSUME NEW o \in Owners, Create(o) PROVE Accounted'
  BY <1>8, <1>10 DEF Create, poolVars, workerVars, history
<1>11. CASE Tick \/ UNCHANGED vars
  BY <1>8, <1>11 DEF Tick, vars, poolVars, workerVars, history
<1> QED
  BY <1>1, <1>2, <1>3, <1>4, <1>5, <1>6, <1>7, <1>9, <1>10, <1>11
     DEF Next, Worker, Owner

-----------------------------------------------------------------------------
\* postTask hands out a new id and removeTask resets the id it was given, so no
\* operation duplicates an id or leaves the id of a removed task in a tracker.
LEMMA HandlesStep ==
  TypeOK /\ Busy /\ Accounted /\ Handles /\ [Next]_vars => Handles'
<1> SUFFICES ASSUME TypeOK, Busy, Accounted, Handles, [Next]_vars PROVE Handles'
  OBVIOUS
<1>1. ASSUME UNCHANGED <<nextId, arg, fate, tracker, old>> PROVE Handles'
  BY <1>1 DEF Handles
\* A task that ends is not removed.
<1>2. ASSUME NEW w \in Workers, EndSingleShot(w) \/ Repost(w) PROVE Handles'
  <2>1. /\ UNCHANGED <<nextId, arg, tracker, old>>
        /\ \A i \in Ids : fate'[i] = "removed" => fate[i] = "removed"
    BY <1>2 DEF EndSingleShot, Repost, poolVars, ownerVars, TypeOK
  <2> QED
    BY <2>1 DEF Handles, TypeOK
\* Only o's own trackers name a task posted for o.
<1>3. ASSUME NEW o \in Owners, NEW i \in {tracker[o], old[o]} \ {Invalid},
             NEW p \in Owners, p # o
      PROVE  i \in Ids /\ i \notin {tracker[p], old[p]}
  BY <1>3 DEF Handles, TypeOK
\* Forgetting the task of a tracker that is destroyed leaves the others.
<1>4. ASSUME NEW i \in Ids, UNCHANGED <<nextId, arg>>,
             \A p \in Owners : /\ tracker'[p] \in {tracker[p], Invalid}
                               /\ old'[p] \in {old[p], Invalid}
                               /\ i \notin {tracker'[p], old'[p]},
             \A j \in Ids \ {i} : fate'[j] = fate[j]
      PROVE  Handles'
  <2> SUFFICES ASSUME NEW p \in Owners
               PROVE  /\ tracker'[p] # Invalid => tracker'[p] # old'[p]
                      /\ \A j \in {tracker'[p], old'[p]} \ {Invalid} :
                           j < nextId' /\ arg'[j] = p /\ fate'[j] # "removed"
    BY DEF Handles
  <2>1. tracker'[p] # Invalid => tracker'[p] # old'[p]
    BY <1>4 DEF Handles
  <2>2. ASSUME NEW j \in {tracker'[p], old'[p]} \ {Invalid}
        PROVE  j < nextId' /\ arg'[j] = p /\ fate'[j] # "removed"
    <3>1. j \in {tracker[p], old[p]} \ {Invalid, i} /\ j \in Ids
      BY <1>4, <2>2 DEF TypeOK
    <3> QED
      BY <1>4, <3>1 DEF Handles
  <2> QED
    BY <2>1, <2>2
<1>5. ASSUME NEW o \in Owners, DestroyOld(o) PROVE Handles'
  <2>1. old[o] \in Ids /\ old[o] # Invalid
    BY <1>5 DEF DestroyOld, TypeOK
  <2>2. \A p \in Owners : old'[p] = IF p = o THEN Invalid ELSE old[p]
    BY <1>5 DEF DestroyOld, TypeOK
  <2>3. \A p \in Owners : old[o] \notin {tracker'[p], old'[p]}
    <3> TAKE p \in Owners
    <3>1. CASE p = o
      BY <1>5, <2>1, <2>2, <3>1 DEF DestroyOld, Handles
    <3>2. CASE p # o
      BY <1>3, <1>5, <2>1, <2>2, <3>2 DEF DestroyOld
    <3> QED
      BY <3>1, <3>2
  <2>4. \A j \in Ids \ {old[o]} : fate'[j] = fate[j]
    BY <1>5 DEF DestroyOld, Forget, TypeOK
  <2> QED
    BY <1>4, <1>5, <2>1, <2>2, <2>3, <2>4 DEF DestroyOld
<1>6. ASSUME NEW o \in Owners, tracker[o] # Invalid, ResetId(o), old[o] = Invalid,
             UNCHANGED <<nextId, arg, old>>,
             \A j \in Ids \ {tracker[o]} : fate'[j] = fate[j]
      PROVE  Handles'
  <2>1. tracker[o] \in Ids
    BY <1>6 DEF TypeOK
  <2>2. \A p \in Owners : tracker'[p] = IF p = o THEN Invalid ELSE tracker[p]
    BY <1>6 DEF ResetId, TypeOK
  <2>3. \A p \in Owners : tracker[o] \notin {tracker'[p], old'[p]}
    <3> TAKE p \in Owners
    <3>1. CASE p = o
      BY <1>6, <2>2, <3>1
    <3>2. CASE p # o
      BY <1>3, <1>6, <2>2, <3>2
    <3> QED
      BY <3>1, <3>2
  <2> QED
    BY <1>4, <1>6, <2>1, <2>2, <2>3
<1>7. ASSUME NEW o \in Owners, Invalidate(o) PROVE Handles'
  <2>1. CASE InPool(tracker[o])
    <3>1. \A j \in Ids \ {tracker[o]} : fate'[j] = fate[j]
      BY <1>7, <2>1 DEF Invalidate, TypeOK
    <3>2. /\ tracker[o] # Invalid /\ old[o] = Invalid /\ ResetId(o)
          /\ UNCHANGED <<nextId, arg, old>>
      BY <1>7, <2>1 DEF Invalidate
    <3> QED
      BY <1>6, <3>1, <3>2
  <2>2. CASE ~ InPool(tracker[o])
    BY <1>1, <1>7, <2>2 DEF Invalidate
  <2> QED
    BY <2>1, <2>2
<1>8. ASSUME NEW o \in Owners, Destroy(o) PROVE Handles'
  <2>1. CASE tracker[o] # Invalid
    <3>1. \A j \in Ids \ {tracker[o]} : fate'[j] = fate[j]
      BY <1>8, <2>1 DEF Destroy, Forget, TypeOK
    <3> QED
      BY <1>6, <1>8, <2>1, <3>1 DEF Destroy
  <2>2. CASE tracker[o] = Invalid
    <3>1. tracker' = tracker
      BY <1>8, <2>2 DEF Destroy, ResetId, TypeOK
    <3> QED
      BY <1>1, <1>8, <2>2, <3>1 DEF Destroy, history
  <2> QED
    BY <2>1, <2>2
\* A new task is named by one tracker, that of its object.
<1>9. ASSUME NEW o \in Owners, NEW k \in Kinds, Enqueue(o, k), UNCHANGED fate,
             tracker' = [tracker EXCEPT ![o] = nextId],
             old[o] = Invalid, old' \in {old, [old EXCEPT ![o] = tracker[o]]}
      PROVE  Handles'
  <2>1. nextId \in Ids /\ nextId' = nextId + 1 /\ fate[nextId] = "none"
    BY <1>9, SizesAssumption DEF Enqueue, Accounted, TypeOK, Ids
  <2>2. arg'[nextId] = o /\ \A j \in Ids \ {nextId} : arg'[j] = arg[j]
    BY <1>9, <2>1 DEF Enqueue, TypeOK
  <2>3. \A p \in Owners \ {o} : tracker'[p] = tracker[p] /\ old'[p] = old[p]
    BY <1>9 DEF TypeOK
  <2>4. tracker'[o] = nextId /\ old'[o] \in {Invalid, tracker[o]}
    BY <1>9 DEF TypeOK
  <2>5. \A p \in Owners : \A j \in {tracker[p], old[p]} \ {Invalid} :
          j \in Ids /\ j < nextId /\ j # nextId
    BY DEF Handles, TypeOK, Ids
  <2>6. ASSUME NEW p \in Owners
        PROVE  /\ tracker'[p] # Invalid => tracker'[p] # old'[p]
               /\ \A j \in {tracker'[p], old'[p]} \ {Invalid} :
                    j < nextId' /\ arg'[j] = p /\ fate'[j] # "removed"
    <3>1. CASE p # o
      BY <1>9, <2>1, <2>2, <2>3, <2>5, <3>1 DEF Handles, Ids
    <3>2. CASE p = o
      <4>1. old'[o] # nextId
        BY <2>1, <2>4, <2>5 DEF Ids, Invalid
      <4>2. \A j \in {nextId, old'[o]} \ {Invalid} :
              j < nextId' /\ arg'[j] = o /\ fate'[j] # "removed"
        BY <1>9, <2>1, <2>2, <2>4, <2>5 DEF Handles, Ids
      <4> QED
        BY <2>4, <3>2, <4>1, <4>2
    <3> QED
      BY <3>1, <3>2
  <2> QED
    BY <2>6 DEF Handles
<1>10. ASSUME NEW o \in Owners, PostRepeating(o) \/ PostSingleShot(o) PROVE Handles'
  BY <1>9, <1>10
     DEF PostRepeating, PostSingleShot, SwapOut, MayPost, history
<1>11. ASSUME NEW w \in Workers,
              PickTask(w) \/ NothingDue(w) \/ LockTimeout(w) \/ EnterWait(w) \/ TimeOut(w) \/ Notified(w)
       PROVE  Handles'
  BY <1>1, <1>11 DEF PickTask, NothingDue, LockTimeout, EnterWait, TimeOut, Notified,
                     poolVars, ownerVars, history
<1>12. ASSUME NEW o \in Owners, Create(o) PROVE Handles'
  BY <1>1, <1>12 DEF Create, poolVars, history
<1>13. CASE Tick \/ UNCHANGED vars
  BY <1>1, <1>13 DEF Tick, vars, poolVars, ownerVars, history
<1> QED
  BY <1>2, <1>5, <1>7, <1>8, <1>10, <1>11, <1>12, <1>13 DEF Next, Worker, Owner

-----------------------------------------------------------------------------
\* A tracker lets go of a task only by removing it, or while it is running.
LEMMA NoOrphansStep ==
  TypeOK /\ Busy /\ Accounted /\ Handles /\ NoOrphans /\ [Next]_vars => NoOrphans'
<1> SUFFICES ASSUME TypeOK, Busy, Accounted, Handles, NoOrphans, [Next]_vars
             PROVE  NoOrphans'
  OBVIOUS
\* Nothing becomes live and no handle is lost.
<1>1. ASSUME UNCHANGED <<arg, tracker, old>>, missed \subseteq missed',
             \A j \in Ids : Live(j)' => Live(j)
      PROVE  NoOrphans'
  BY <1>1 DEF NoOrphans
\* Removing an id from the slots makes nothing live.
<1>2. ASSUME NEW i \in Ids, Vacate(i), job' = job
      PROVE  /\ \A j \in Ids : Live(j)' => Live(j)
             /\ Live(i)' => Running(i)
  BY <1>2, VacateStored DEF Live, Running
<1>3. ASSUME NEW w \in Workers, PickTask(w) PROVE NoOrphans'
  <2>1. PICK s \in Slots : /\ slot[s] # Invalid /\ Vacate(slot[s])
                           /\ job' = [job EXCEPT ![w] = slot[s]]
    BY <1>3 DEF PickTask, Chosen, Stored
  <2>2. slot[s] \in Ids /\ InPool(slot[s])
    BY <2>1 DEF TypeOK, InPool
  <2>3. \A v \in Workers : job'[v] = slot[s] \/ job'[v] = job[v]
    BY <2>1 DEF TypeOK
  <2>4. \A j \in Ids : Live(j)' => Live(j)
    BY <2>1, <2>2, <2>3, VacateStored DEF Live, Running
  <2> QED
    BY <1>1, <1>3, <2>4 DEF PickTask, ownerVars, history
<1>4. ASSUME NEW w \in Workers, EndSingleShot(w) \/ Repost(w) PROVE NoOrphans'
  <2>1. /\ UNCHANGED <<arg, tracker, old, missed>>
        /\ pc[w] = "run" /\ job' = [job EXCEPT ![w] = Invalid]
        /\ slot' = slot \/ Append(job[w])
    BY <1>4 DEF EndSingleShot, Repost, poolVars, ownerVars
  <2>2. job[w] \in Ids
    BY <2>1 DEF Busy, TypeOK
  <2>3. \A j \in Ids : InPool(j)' => InPool(j) \/ j = job[w]
    BY <2>1, <2>2, AppendStored DEF InPool
  <2>4. \A v \in Workers : job'[v] = Invalid \/ job'[v] = job[v]
    BY <2>1 DEF TypeOK
  <2>5. \A j \in Ids : Live(j)' => Live(j)
    BY <2>3, <2>4 DEF Live, Running, Ids, Invalid
  <2> QED
    BY <1>1, <2>1, <2>5
<1>5. ASSUME NEW o \in Owners, NEW k \in Kinds, Enqueue(o, k),
             UNCHANGED <<job, missed>>,
             tracker' = [tracker EXCEPT ![o] = nextId],
             old[o] = Invalid,
             \/ tracker[o] = Invalid /\ old' = old
             \/ old' = [old EXCEPT ![o] = tracker[o]]
      PROVE  NoOrphans'
  <2>1. nextId \in Ids
    BY <1>5, SizesAssumption DEF Enqueue, TypeOK, Ids
  <2>2. arg'[nextId] = o /\ \A j \in Ids \ {nextId} : arg'[j] = arg[j]
    BY <1>5, <2>1 DEF Enqueue, TypeOK
  <2>3. \A j \in Ids : Live(j)' => Live(j) \/ j = nextId
    BY <1>5, <2>1, AppendStored DEF Enqueue, Live, Running
  <2>4. ASSUME NEW p \in Owners
        PROVE  /\ p # o => tracker'[p] = tracker[p] /\ old'[p] = old[p]
               /\ p = o => tracker'[p] = nextId /\ old'[p] = tracker[p]
    BY <1>5 DEF TypeOK
  <2>5. ASSUME NEW j \in Ids, Live(j)'
        PROVE  j \in {tracker'[arg'[j]], old'[arg'[j]]} \cup missed'
    <3>1. CASE j = nextId
      BY <2>2, <2>4, <3>1
    <3>2. CASE j # nextId
      <4>1. arg'[j] = arg[j] /\ arg[j] \in Owners /\ j # Invalid
        <5>1. j # Invalid
          BY DEF Ids, Invalid
        <5> QED
          BY <2>2, <3>2, <5>1 DEF TypeOK
      <4>2. j \in {tracker[arg[j]], old[arg[j]]} \cup missed
        BY <2>3, <2>5, <3>2 DEF NoOrphans
      <4> QED
        BY <1>5, <2>4, <4>1, <4>2
    <3> QED
      BY <3>1, <3>2
  <2> QED
    BY <2>5 DEF NoOrphans
<1>6. ASSUME NEW o \in Owners, PostRepeating(o) \/ PostSingleShot(o)
      PROVE  NoOrphans'
  BY <1>5, <1>6 DEF PostRepeating, PostSingleShot, SwapOut, MayPost, workerVars,
                    history
\* Whoever forgets an id leaves it removed or among the missed ones.
<1>7. ASSUME NEW i \in Ids, Forget(i), UNCHANGED <<job, arg>>,
             \A p \in Owners : {tracker[p], old[p]} \ {i}
                                 \subseteq {tracker'[p], old'[p]}
      PROVE  NoOrphans'
  <2>1. ASSUME NEW j \in Ids, Live(j)'
        PROVE  j \in {tracker'[arg'[j]], old'[arg'[j]]} \cup missed'
    <3>1. Live(j)
      BY <1>2, <1>7, <2>1 DEF Forget
    <3>2. CASE j = i
      BY <1>2, <1>7, <2>1, <3>2 DEF Forget
    <3>3. CASE j # i
      BY <1>7, <3>1, <3>3 DEF NoOrphans, Forget, TypeOK
    <3> QED
      BY <3>2, <3>3
  <2> QED
    BY <2>1 DEF NoOrphans
<1>8. ASSUME NEW o \in Owners, DestroyOld(o) PROVE NoOrphans'
  <2>1. old[o] \in Ids
    BY <1>8 DEF DestroyOld, TypeOK
  <2>2. \A p \in Owners : old'[p] = IF p = o THEN Invalid ELSE old[p]
    BY <1>8 DEF DestroyOld, TypeOK
  <2> QED
    BY <1>7, <1>8, <2>1, <2>2 DEF DestroyOld, workerVars
<1>9. ASSUME NEW o \in Owners, Invalidate(o) PROVE NoOrphans'
  <2>1. tracker[o] \in Ids
    BY <1>9 DEF Invalidate, TypeOK
  <2>2. CASE InPool(tracker[o])
    <3>1. Vacate(tracker[o]) /\ UNCHANGED <<job, arg, old, missed>>
      BY <1>9, <2>2 DEF Invalidate, workerVars
    <3>2. \A p \in Owners : tracker'[p] = IF p = o THEN Invalid ELSE tracker[p]
      BY <1>9, <2>2 DEF Invalidate, ResetId, TypeOK
    <3>3. ~ Running(tracker[o])
      BY <2>1, <2>2 DEF Accounted, OnePlace, InPool, Running, Ids, Invalid
    <3>4. \A j \in Ids : Live(j)' => Live(j) /\ j # tracker[o]
      BY <1>2, <2>1, <3>1, <3>3
    <3> QED
      BY <3>1, <3>2, <3>4 DEF NoOrphans, TypeOK
  <2>3. CASE ~ InPool(tracker[o])
    BY <1>1, <1>9, <2>3 DEF Invalidate, workerVars, Live, InPool, Running
  <2> QED
    BY <2>2, <2>3
<1>10. ASSUME NEW o \in Owners, Destroy(o) PROVE NoOrphans'
  <2>1. \A p \in Owners : tracker'[p] = IF p = o THEN Invalid ELSE tracker[p]
    BY <1>10 DEF Destroy, ResetId, TypeOK
  <2>2. CASE tracker[o] # Invalid
    <3>1. tracker[o] \in Ids
      BY <2>2 DEF TypeOK
    <3> QED
      BY <1>7, <1>10, <2>1, <2>2, <3>1 DEF Destroy, workerVars
  <2>3. CASE tracker[o] = Invalid
    <3>1. tracker' = tracker
      BY <1>10, <2>3 DEF Destroy, ResetId, TypeOK
    <3>2. UNCHANGED <<slot, job, arg, old, missed>>
      BY <1>10, <2>3 DEF Destroy, history, workerVars
    <3>3. \A j \in Ids : Live(j)' => Live(j)
      BY <3>2 DEF Live, InPool, Running
    <3> QED
      BY <1>1, <3>1, <3>2, <3>3
  <2> QED
    BY <2>2, <2>3
<1>11. ASSUME UNCHANGED <<slot, job, arg, tracker, old, missed>> PROVE NoOrphans'
  BY <1>1, <1>11 DEF Live, InPool, Running
<1>12. ASSUME NEW w \in Workers,
              NothingDue(w) \/ LockTimeout(w) \/ EnterWait(w) \/ TimeOut(w) \/ Notified(w)
       PROVE  NoOrphans'
  BY <1>11, <1>12 DEF NothingDue, LockTimeout, EnterWait, TimeOut, Notified, poolVars,
                      ownerVars, history
<1>13. ASSUME NEW o \in Owners, Create(o) PROVE NoOrphans'
  BY <1>11, <1>13 DEF Create, poolVars, workerVars, history
<1>14. CASE Tick \/ UNCHANGED vars
  BY <1>11, <1>14 DEF Tick, vars, poolVars, workerVars, ownerVars, history
<1> QED
  BY <1>3, <1>4, <1>6, <1>8, <1>9, <1>10, <1>12, <1>13, <1>14
     DEF Next, Worker, Owner

-----------------------------------------------------------------------------
(* The theorems. *)

\* The inductive invariant holds in every reachable state.
LEMMA IndInvariant == Spec => []IndInv
<1>1. IndInv /\ [Next]_vars => IndInv'
  BY TypeStep, BusyStep, AccountedStep, HandlesStep, NoOrphansStep DEF IndInv
<1> QED
  BY InitInv, <1>1, PTL DEF Spec

\* Every variable of the pool, its workers and its owners keeps its type.
THEOREM TypeCorrect == Spec => []TypeOK
<1>1. IndInv => TypeOK
  BY DEF IndInv
<1> QED
  BY IndInvariant, <1>1, PTL

\* Whatever the interleaving of workers and owners, a posted task is in one
\* slot, with one worker, or gone for good in exactly one way.
THEOREM TasksAccounted == Spec => []Accounted
<1>1. IndInv => Accounted
  BY DEF IndInv
<1> QED
  BY IndInvariant, <1>1, PTL

\* No two trackers name the same task and none names a removed one.
THEOREM HandlesCorrect == Spec => []Handles
<1>1. IndInv => Handles
  BY DEF IndInv
<1> QED
  BY IndInvariant, <1>1, PTL

\* A task without a tracker was running when its owner let go of it: the race
\* between removeTask and a running task is the only source of orphans.
THEOREM OrphansOnlyByRace == Spec => []NoOrphans
<1>1. IndInv => NoOrphans
  BY DEF IndInv
<1> QED
  BY IndInvariant, <1>1, PTL

-----------------------------------------------------------------------------
(* A full pool. *)

\* With no orphan around, each stored task and the one a worker runs have a
\* handle of their own, so two slots for every object are never all taken while
\* a task is running.
LEMMA RoomForRunning ==
  ASSUME TypeOK, Accounted, NoOrphans, missed = {},
         IsFiniteSet(Owners), PoolSize >= 2 * Cardinality(Owners),
         NEW w \in Workers, job[w] # Invalid
  PROVE  Free # {}
<1> SUFFICES ASSUME Free = {} PROVE FALSE
  OBVIOUS
<1> DEFINE S      == 0 .. PoolSize
           task   == [s \in S |-> IF s = 0 THEN job[w] ELSE slot[s]]
           handle == [s \in S |-> <<arg[task[s]],
                                    IF tracker[arg[task[s]]] = task[s] THEN 1 ELSE 2>>]
<1>1. \A s \in S : task[s] \in Ids /\ Live(task[s])
  <2> SUFFICES ASSUME NEW s \in S PROVE task[s] \in Ids /\ Live(task[s])
    OBVIOUS
  <2>1. CASE s = 0
    BY <2>1 DEF TypeOK, Live, Running
  <2>2. CASE s # 0
    <3>1. s \in Slots /\ slot[s] # Invalid
      BY <2>2, SizesAssumption DEF Free, Slots
    <3> QED BY <2>2, <3>1 DEF TypeOK, Live, InPool
  <2> QED BY <2>1, <2>2
<1>2. \A s, t \in S : s # t => task[s] # task[t]
  <2> SUFFICES ASSUME NEW s \in S, NEW t \in S, s # t PROVE task[s] # task[t]
    OBVIOUS
  <2>1. \A u \in S \ {0} : u \in Slots /\ slot[u] # Invalid
    BY SizesAssumption DEF Free, Slots
  <2> QED BY <2>1 DEF Accounted, OnePlace
<1>3. \A s \in S : /\ arg[task[s]] \in Owners
                    /\ task[s] \in {tracker[arg[task[s]]], old[arg[task[s]]]}
  BY <1>1 DEF TypeOK, NoOrphans
<1> HIDE DEF task
<1>4. handle \in [S -> Owners \X {1, 2}]
  BY <1>3
<1>5. IsFiniteSet(S) /\ Cardinality(S) = PoolSize + 1
  BY FS_Interval, SizesAssumption
<1>6. IsFiniteSet({1, 2}) /\ Cardinality({1, 2}) = 2
  <2>1. {1, 2} = 1 .. 2
    OBVIOUS
  <2>2. 1 \in Int /\ 2 \in Int /\ ~ (1 > 2) /\ 2 - 1 + 1 = 2
    OBVIOUS
  <2>3. IsFiniteSet(1 .. 2) /\ Cardinality(1 .. 2) = 2
    BY <2>2, FS_Interval
  <2> QED BY Zenon, <2>1, <2>3
<1>7. /\ IsFiniteSet(Owners \X {1, 2})
      /\ Cardinality(Owners \X {1, 2}) = Cardinality(Owners) * 2
  BY <1>6, FS_Product
<1>8. Cardinality(Owners \X {1, 2}) < Cardinality(S)
  <2>1. Cardinality(Owners) \in Nat
    BY FS_CardinalityType
  <2> QED BY <1>5, <1>7, <2>1, SizesAssumption
<1>9. PICK s \in S, t \in S : s # t /\ handle[s] = handle[t]
  <2> HIDE DEF S, handle
  <2> QED BY <1>4, <1>5, <1>7, <1>8, FS_PigeonHole
<1>10. /\ arg[task[s]] = arg[task[t]]
       /\ tracker[arg[task[s]]] = task[s] <=> tracker[arg[task[t]]] = task[t]
  BY <1>9
<1>11. task[s] = task[t]
  BY <1>3, <1>10
<1> QED BY <1>2, <1>9, <1>11

\* A task is dropped by a repost that finds no room, and what is missed stays so.
LEMMA DropStep ==
  ASSUME TypeOK, [Next]_vars
  PROVE  /\ missed \subseteq missed'
         /\ \A i \in Ids : fate'[i] = "dropped" =>
              fate[i] = "dropped" \/ \E w \in Workers : pc[w] = "run" /\ Free = {}
<1>1. ASSUME NEW i \in Ids, Forget(i)
      PROVE  /\ missed \subseteq missed'
             /\ \A j \in Ids : fate'[j] = "dropped" => fate[j] = "dropped"
  BY <1>1 DEF Forget, TypeOK
<1>2. ASSUME NEW w \in Workers, Repost(w) PROVE Free # {} => fate' = fate
  BY <1>2 DEF Repost
<1>3. ASSUME NEW w \in Workers, Worker(w)
      PROVE  /\ missed' = missed
             /\ \A i \in Ids : fate'[i] = "dropped" =>
                  fate[i] = "dropped" \/ (pc[w] = "run" /\ Free = {})
  <2>1. CASE Repost(w)
    BY <2>1, <1>2 DEF Repost
  <2>2. CASE EndSingleShot(w)
    BY <2>2 DEF EndSingleShot, TypeOK
  <2>3. CASE PickTask(w) \/ NothingDue(w) \/ LockTimeout(w) \/ EnterWait(w) \/ TimeOut(w) \/ Notified(w)
    BY <2>3 DEF PickTask, NothingDue, LockTimeout, EnterWait, TimeOut, Notified, history
  <2> QED BY <1>3, <2>1, <2>2, <2>3 DEF Worker
<1>4. ASSUME NEW o \in Owners, Owner(o)
      PROVE  /\ missed \subseteq missed'
             /\ \A i \in Ids : fate'[i] = "dropped" => fate[i] = "dropped"
  <2>1. tracker[o] \in Ids \cup {Invalid} /\ old[o] \in Ids \cup {Invalid}
    BY DEF TypeOK
  <2>2. CASE DestroyOld(o)
    BY <2>2, <2>1, <1>1 DEF DestroyOld
  <2>3. CASE Destroy(o)
    BY <2>3, <2>1, <1>1 DEF Destroy, history
  <2>4. CASE Invalidate(o)
    BY <2>4, <2>1 DEF Invalidate, TypeOK
  <2>5. CASE PostRepeating(o) \/ PostSingleShot(o) \/ Create(o)
    BY <2>5 DEF PostRepeating, PostSingleShot, Create, history
  <2> QED BY <1>4, <2>2, <2>3, <2>4, <2>5 DEF Owner
<1>5. CASE Tick \/ UNCHANGED vars
  BY <1>5 DEF Tick, vars, history
<1> QED BY <1>3, <1>4, <1>5 DEF Next

\* A repeating task ends in a full pool only after an orphan was left behind,
\* for any number of objects and a pool of two slots for each.
THEOREM DropsOnlyAfterOrphan ==
  ASSUME IsFiniteSet(Owners) PROVE Spec => []DropNeedsOrphan
<1>1. Init => DropNeedsOrphan
  BY DEF Init, DropNeedsOrphan
<1>2. IndInv /\ DropNeedsOrphan /\ [Next]_vars => DropNeedsOrphan'
  <2> SUFFICES ASSUME IndInv, DropNeedsOrphan, [Next]_vars,
                      PoolSize >= 2 * Cardinality(Owners),
                      NEW i \in Ids, fate'[i] = "dropped", missed' = {}
               PROVE  FALSE
    BY DEF DropNeedsOrphan
  <2>1. TypeOK /\ Busy /\ Accounted /\ NoOrphans
    BY DEF IndInv
  <2>2. missed = {} /\ fate[i] # "dropped"
    BY <2>1, DropStep DEF DropNeedsOrphan
  <2>3. PICK w \in Workers : pc[w] = "run" /\ Free = {}
    BY <2>1, <2>2, DropStep
  <2>4. job[w] # Invalid
    BY <2>1, <2>3 DEF Busy
  <2> QED BY <2>1, <2>2, <2>3, <2>4, RoomForRunning
<1> QED
  BY <1>1, <1>2, IndInvariant, PTL DEF Spec

-----------------------------------------------------------------------------
(* Tasks and the objects they are posted for. *)

\* Where no object lives there is no handle either.
NoHandleLeft == \A o \in Owners : ~ alive[o] => tracker[o] = Invalid /\ old[o] = Invalid

\* Every task in the pool or with a worker has its object, but for those that
\* were running when they were given up.
ArgumentsAlive == \A i \in Ids : Live(i) /\ i \notin missed => alive[arg[i]]

\* An object that is destroyed takes its handle with it, and only a living one
\* gets another.
LEMMA NoHandleStep ==
  TypeOK /\ NoHandleLeft /\ [Next]_vars => NoHandleLeft'
<1> SUFFICES ASSUME TypeOK, NoHandleLeft, [Next]_vars PROVE NoHandleLeft'
  OBVIOUS
<1> USE DEF TypeOK, NoHandleLeft
<1>1. ASSUME UNCHANGED ownerVars PROVE NoHandleLeft'
  BY <1>1 DEF ownerVars
<1>2. ASSUME NEW w \in Workers, Worker(w) PROVE NoHandleLeft'
  BY <1>1, <1>2 DEF Worker, PickTask, NothingDue, LockTimeout, EndSingleShot, Repost,
                    EnterWait, TimeOut, Notified
<1>3. ASSUME NEW o \in Owners, PostRepeating(o) \/ PostSingleShot(o) PROVE NoHandleLeft'
  <2>1. alive[o] /\ alive' = alive
    BY <1>3 DEF PostRepeating, PostSingleShot
  <2>2. \A u \in Owners \ {o} : tracker'[u] = tracker[u] /\ old'[u] = old[u]
    BY <1>3 DEF PostRepeating, PostSingleShot, SwapOut
  <2> QED BY <2>1, <2>2
<1>4. ASSUME NEW o \in Owners, DestroyOld(o) PROVE NoHandleLeft'
  BY <1>4 DEF DestroyOld
<1>5. ASSUME NEW o \in Owners, Invalidate(o) PROVE NoHandleLeft'
  BY <1>5 DEF Invalidate, ResetId
<1>6. ASSUME NEW o \in Owners, Destroy(o) PROVE NoHandleLeft'
  BY <1>6 DEF Destroy, ResetId
<1>7. ASSUME NEW o \in Owners, Create(o) PROVE NoHandleLeft'
  BY <1>7 DEF Create
<1>8. CASE Tick \/ UNCHANGED vars
  BY <1>1, <1>8 DEF Tick, vars
<1> QED
  BY <1>2, <1>3, <1>4, <1>5, <1>6, <1>7, <1>8 DEF Next, Owner

\* No task runs for an object that is gone, unless the object went while the
\* task was running, in any interleaving of workers and owners.
THEOREM ObjectsOutliveTasks == Spec => []ArgumentsAlive
<1>1. Init => NoHandleLeft
  BY DEF Init, NoHandleLeft
<1>2. IndInv /\ NoHandleLeft /\ [Next]_vars => NoHandleLeft'
  BY NoHandleStep DEF IndInv
<1>3. IndInv /\ NoHandleLeft => ArgumentsAlive
  <2> SUFFICES ASSUME IndInv, NoHandleLeft, NEW i \in Ids, Live(i), i \notin missed
               PROVE  alive[arg[i]]
    BY DEF ArgumentsAlive
  <2>1. arg[i] \in Owners /\ i \in {tracker[arg[i]], old[arg[i]]}
    BY DEF IndInv, TypeOK, NoOrphans
  <2>2. i # Invalid
    BY DEF Ids, Invalid
  <2> QED BY <2>1, <2>2 DEF NoHandleLeft
<1> QED
  BY <1>1, <1>2, <1>3, IndInvariant, PTL DEF Spec

\* What the pool has got rid of stays away, and for the reason it went.
StaysAway ==
  \A i \in Ids : fate[i] # "none" => fate'[i] = fate[i] /\ ~ Live(i)'

\* A fate befalls a task in the pool or with a worker, whoever decides it.
LEMMA FateStep ==
  TypeOK /\ Busy /\ Accounted /\ Accounted' /\ [Next]_vars => StaysAway
<1> SUFFICES ASSUME TypeOK, Busy, Accounted, Accounted', [Next]_vars,
                    NEW i \in Ids, fate[i] # "none"
             PROVE  fate'[i] = fate[i] /\ ~ Live(i)'
  BY DEF StaysAway
<1>1. fate'[i] = fate[i] => ~ Live(i)'
  BY DEF Accounted
<1>2. ~ InPool(i) /\ ~ Running(i)
  BY DEF Accounted, Live
<1>3. ASSUME NEW j \in Ids, Forget(j) PROVE fate'[i] = fate[i]
  BY <1>2, <1>3 DEF Forget, TypeOK
<1>4. ASSUME NEW w \in Workers, EndSingleShot(w) \/ Repost(w) PROVE fate'[i] = fate[i]
  <2>1. job[w] # i
    BY <1>2 DEF Running
  <2> QED BY <1>4, <2>1 DEF EndSingleShot, Repost, TypeOK
<1>5. ASSUME NEW w \in Workers,
             PickTask(w) \/ NothingDue(w) \/ LockTimeout(w) \/ EnterWait(w) \/ TimeOut(w) \/ Notified(w)
      PROVE  fate'[i] = fate[i]
  BY <1>5 DEF PickTask, NothingDue, LockTimeout, EnterWait, TimeOut, Notified, history
<1>6. ASSUME NEW o \in Owners, Owner(o) PROVE fate'[i] = fate[i]
  <2>1. tracker[o] \in Ids \cup {Invalid} /\ old[o] \in Ids \cup {Invalid}
    BY DEF TypeOK
  <2>2. CASE DestroyOld(o)
    BY <2>2, <2>1, <1>3 DEF DestroyOld
  <2>3. CASE Destroy(o)
    BY <2>3, <2>1, <1>3 DEF Destroy, history
  <2>4. CASE Invalidate(o)
    BY <2>4, <2>1, <1>2 DEF Invalidate, TypeOK
  <2>5. CASE PostRepeating(o) \/ PostSingleShot(o) \/ Create(o)
    BY <2>5 DEF PostRepeating, PostSingleShot, Create, history
  <2> QED BY <1>6, <2>2, <2>3, <2>4, <2>5 DEF Owner
<1>7. ASSUME Tick \/ UNCHANGED vars PROVE fate'[i] = fate[i]
  BY <1>7 DEF Tick, vars, history
<1>8. ASSUME NEW w \in Workers, Worker(w) PROVE fate'[i] = fate[i]
  BY <1>4, <1>5, <1>8 DEF Worker
<1>9. fate'[i] = fate[i]
  BY <1>6, <1>7, <1>8 DEF Next
<1> QED BY <1>1, <1>9

\* A task that finished, was removed or was dropped never comes back to the
\* pool or to a worker, whatever handles are left to it: no step gives its id
\* to another.
THEOREM GoneForGood == Spec => [][StaysAway]_vars
<1>1. IndInv /\ IndInv' /\ [Next]_vars => [StaysAway]_vars
  BY FateStep DEF IndInv
<1> QED
  BY <1>1, IndInvariant, PTL DEF Spec

-----------------------------------------------------------------------------
(* Lateness while a worker sleeps. *)

\* What makes IdleWorkerBound inductive: no wait is planned longer than
\* MaxSleep, so a task posted during it is early enough.
ShortSleep == \A w \in Workers : pc[w] = "sleep" => sleep[w] <= MaxSleep

\* Waits are capped, sleepers notice a late task, and time stops for a sleeper
\* whose wait is over: no step makes a task later than a sleeper may leave it.
LEMMA IdleStep ==
  TypeOK /\ Busy /\ ShortSleep /\ IdleWorkerBound /\ [Next]_vars
    => (ShortSleep /\ IdleWorkerBound)'
<1> SUFFICES ASSUME TypeOK, Busy, ShortSleep, IdleWorkerBound, [Next]_vars
             PROVE  (ShortSleep /\ IdleWorkerBound)'
  OBVIOUS
\* No new sleeper, no longer sleep, and every stored task is an old one as late
\* as before or a new one that is not late.
<1>1. ASSUME \A w \in Workers : pc'[w] = "sleep" => pc[w] = "sleep" /\ sleep'[w] = sleep[w],
             \A s \in Slots : slot'[s] # Invalid =>
               \/ due'[slot'[s]] >= 0 /\ due'[slot'[s]] \in Int
               \/ slot'[s] = slot[s] /\ due'[slot'[s]] = due[slot[s]]
      PROVE  (ShortSleep /\ IdleWorkerBound)'
  <2> SUFFICES ASSUME NEW w \in Workers, pc'[w] = "sleep"
               PROVE  /\ sleep'[w] <= MaxSleep
                      /\ \A s \in Stored' : due'[slot'[s]] >= sleep'[w] - MaxSleep
    BY DEF ShortSleep, IdleWorkerBound
  <2>1. pc[w] = "sleep" /\ sleep'[w] = sleep[w] /\ sleep[w] \in Nat /\ sleep[w] <= MaxSleep
    BY <1>1 DEF TypeOK, ShortSleep
  <2>2. ASSUME NEW s \in Stored' PROVE due'[slot'[s]] >= sleep'[w] - MaxSleep
    <3>1. s \in Slots /\ slot'[s] # Invalid
      BY DEF Stored
    <3>2. CASE due'[slot'[s]] >= 0 /\ due'[slot'[s]] \in Int
      BY <2>1, <3>2, SizesAssumption
    <3>3. CASE slot'[s] = slot[s] /\ due'[slot'[s]] = due[slot[s]]
      BY <2>1, <3>1, <3>3 DEF IdleWorkerBound, Stored
    <3> QED
      BY <1>1, <3>1, <3>2, <3>3
  <2> QED
    BY <2>1, <2>2
<1>2. ASSUME NEW i \in Ids, Vacate(i)
      PROVE  \A s \in Slots : slot'[s] # Invalid =>
               slot'[s] = slot[s] /\ due'[slot'[s]] = due[slot[s]]
  BY <1>2 DEF Vacate, TypeOK
<1>3. ASSUME NEW w \in Workers, PickTask(w) PROVE (ShortSleep /\ IdleWorkerBound)'
  <2>1. PICK s \in Slots : slot[s] # Invalid /\ Vacate(slot[s])
    BY <1>3 DEF PickTask, Chosen, Stored
  <2>2. slot[s] \in Ids
    BY <2>1 DEF TypeOK
  <2>3. \A v \in Workers : pc'[v] = "sleep" => pc[v] = "sleep" /\ sleep'[v] = sleep[v]
    BY <1>3 DEF PickTask, TypeOK
  <2> QED
    BY <1>1, <1>2, <2>1, <2>2, <2>3
<1>4. ASSUME NEW w \in Workers,
             NothingDue(w) \/ LockTimeout(w) \/ EndSingleShot(w) \/ TimeOut(w) \/ Notified(w)
      PROVE  (ShortSleep /\ IdleWorkerBound)'
  <2>1. \A v \in Workers : pc'[v] = "sleep" => pc[v] = "sleep" /\ sleep'[v] = sleep[v]
    BY <1>4 DEF NothingDue, LockTimeout, EndSingleShot, TimeOut, Notified, TypeOK
  <2>2. UNCHANGED <<slot, due>>
    BY <1>4 DEF NothingDue, LockTimeout, EndSingleShot, TimeOut, Notified, poolVars
  <2> QED
    BY <1>1, <2>1, <2>2
<1>5. ASSUME NEW w \in Workers, Repost(w) PROVE (ShortSleep /\ IdleWorkerBound)'
  <2>1. job[w] \in Ids /\ kind[job[w]].interval \in Nat
    BY <1>5, KindsAssumption DEF Repost, Busy, TypeOK
  <2>2. \A v \in Workers : pc'[v] = "sleep" => pc[v] = "sleep" /\ sleep'[v] = sleep[v]
    BY <1>5 DEF Repost, TypeOK
  <2>3. CASE UNCHANGED <<slot, due>>
    BY <1>1, <2>2, <2>3
  <2>4. CASE Append(job[w]) /\ due' = [due EXCEPT ![job[w]] = kind[job[w]].interval]
    <3>1. PICK s \in Slots : slot' = [slot EXCEPT ![s] = job[w]]
      BY <2>4 DEF Append, Free
    <3>2. \A i \in Ids : \/ due'[i] = due[i]
                         \/ due'[i] = kind[job[w]].interval
      BY <2>4 DEF TypeOK
    <3>3. due'[job[w]] = kind[job[w]].interval
      BY <2>1, <2>4 DEF TypeOK
    <3>4. ASSUME NEW t \in Slots, slot'[t] # Invalid
          PROVE  \/ due'[slot'[t]] >= 0 /\ due'[slot'[t]] \in Int
                 \/ slot'[t] = slot[t] /\ due'[slot'[t]] = due[slot[t]]
      <4>1. CASE t = s
        BY <2>1, <3>1, <3>3, <4>1 DEF TypeOK
      <4>2. CASE t # s
        <5>1. slot'[t] = slot[t] /\ slot[t] \in Ids
          BY <3>1, <3>4, <4>2 DEF TypeOK
        <5> QED
          BY <2>1, <3>2, <5>1
      <4> QED
        BY <4>1, <4>2
    <3> QED
      BY <1>1, <2>2, <3>4
  <2> QED
    BY <1>5, <2>3, <2>4 DEF Repost
<1>6. ASSUME NEW w \in Workers, EnterWait(w) PROVE (ShortSleep /\ IdleWorkerBound)'
  <2>1. UNCHANGED <<slot, due>>
    BY <1>6 DEF EnterWait, poolVars
  <2>2. CASE sleep[w] = 0 \/ SomeOverdue
    <3>1. pc' = [pc EXCEPT ![w] = "scan"] /\ sleep' = [sleep EXCEPT ![w] = 0]
      BY <1>6, <2>2, Zenon DEF EnterWait
    <3>2. \A v \in Workers : pc'[v] = "sleep" => pc[v] = "sleep" /\ sleep'[v] = sleep[v]
      BY <3>1 DEF TypeOK
    <3> QED
      BY <1>1, <2>1, <3>2
  <2>3. CASE ~ (sleep[w] = 0 \/ SomeOverdue)
    <3>1. pc' = [pc EXCEPT ![w] = "sleep"] /\ sleep' = [sleep EXCEPT ![w] = Capped(sleep[w])]
      BY <1>6, <2>3, Zenon DEF EnterWait
    <3>2. Capped(sleep[w]) \in Nat /\ Capped(sleep[w]) <= MaxSleep
      BY SizesAssumption DEF Capped, TypeOK
    <3>3. \A s \in Stored : due[slot[s]] >= 0
      <4>1. \A s \in Stored : ~ (due[slot[s]] < 0)
        BY <2>3 DEF SomeOverdue
      <4>2. \A s \in Stored : due[slot[s]] \in Int
        BY DEF Stored, TypeOK
      <4> QED
        BY <4>1, <4>2
    <3>4. ASSUME NEW v \in Workers, pc'[v] = "sleep"
          PROVE  /\ sleep'[v] <= MaxSleep
                 /\ \A s \in Stored' : due'[slot'[s]] >= sleep'[v] - MaxSleep
      <4>1. CASE v = w
        <5>1. sleep'[v] = Capped(sleep[w])
          BY <3>1, <4>1 DEF TypeOK
        <5>2. \A s \in Stored' : due'[slot'[s]] >= 0 /\ due'[slot'[s]] \in Int
          BY <2>1, <3>3 DEF Stored, TypeOK
        <5> QED
          BY <3>2, <5>1, <5>2, SizesAssumption
      <4>2. CASE v # w
        <5>1. pc[v] = "sleep" /\ sleep'[v] = sleep[v]
          BY <3>1, <3>4, <4>2 DEF TypeOK
        <5> QED
          BY <2>1, <5>1 DEF ShortSleep, IdleWorkerBound, Stored
      <4> QED
        BY <4>1, <4>2
    <3> QED
      BY <3>4 DEF ShortSleep, IdleWorkerBound
  <2> QED
    BY <2>2, <2>3
<1>7. ASSUME NEW o \in Owners, NEW k \in Kinds, Enqueue(o, k), UNCHANGED <<pc, sleep>>
      PROVE  (ShortSleep /\ IdleWorkerBound)'
  <2>1. nextId \in Ids
    BY <1>7, SizesAssumption DEF Enqueue, TypeOK, Ids
  <2>2. PICK n \in Nat : due' = [due EXCEPT ![nextId] = n]
    BY <1>7, KindsAssumption DEF Enqueue
  <2>3. PICK s \in Slots : slot' = [slot EXCEPT ![s] = nextId]
    BY <1>7 DEF Enqueue, Append, Free
  <2>4. ASSUME NEW t \in Slots, slot'[t] # Invalid
        PROVE  \/ due'[slot'[t]] >= 0 /\ due'[slot'[t]] \in Int
               \/ slot'[t] = slot[t] /\ due'[slot'[t]] = due[slot[t]]
    <3>1. slot'[t] = nextId \/ slot'[t] = slot[t]
      BY <2>3 DEF TypeOK
    <3>2. due'[nextId] = n
      BY <2>1, <2>2 DEF TypeOK
    <3>3. \A i \in Ids : i # nextId => due'[i] = due[i]
      BY <2>2 DEF TypeOK
    <3>4. CASE slot'[t] = nextId
      BY <3>2, <3>4
    <3>5. CASE slot'[t] # nextId
      <4>1. slot'[t] = slot[t] /\ slot[t] \in Ids
        BY <2>4, <3>1, <3>5 DEF TypeOK
      <4> QED
        BY <3>3, <3>5, <4>1
    <3> QED
      BY <3>4, <3>5
  <2> QED
    BY <1>1, <1>7, <2>4
<1>8. ASSUME NEW o \in Owners, PostRepeating(o) \/ PostSingleShot(o)
      PROVE  (ShortSleep /\ IdleWorkerBound)'
  BY <1>7, <1>8 DEF PostRepeating, PostSingleShot, workerVars
<1>9. ASSUME UNCHANGED <<slot, due, pc, sleep>>
      PROVE  (ShortSleep /\ IdleWorkerBound)'
  BY <1>1, <1>9
<1>10. ASSUME NEW i \in Ids, Vacate(i), UNCHANGED <<pc, sleep>>
       PROVE  (ShortSleep /\ IdleWorkerBound)'
  BY <1>1, <1>2, <1>10
<1>11. ASSUME NEW o \in Owners, DestroyOld(o) PROVE (ShortSleep /\ IdleWorkerBound)'
  BY <1>10, <1>11 DEF DestroyOld, Forget, workerVars, TypeOK
<1>12. ASSUME NEW o \in Owners, Invalidate(o) PROVE (ShortSleep /\ IdleWorkerBound)'
  <2>1. tracker[o] \in Ids /\ UNCHANGED <<pc, sleep>>
    BY <1>12 DEF Invalidate, workerVars, TypeOK
  <2>2. Vacate(tracker[o]) \/ UNCHANGED <<slot, due>>
    BY <1>12 DEF Invalidate
  <2> QED
    BY <1>9, <1>10, <2>1, <2>2
<1>13. ASSUME NEW o \in Owners, Destroy(o) PROVE (ShortSleep /\ IdleWorkerBound)'
  <2>1. UNCHANGED <<pc, sleep>>
    BY <1>13 DEF Destroy, workerVars
  <2>2. CASE tracker[o] # Invalid
    BY <1>10, <1>13, <2>1, <2>2 DEF Destroy, Forget, TypeOK
  <2>3. CASE tracker[o] = Invalid
    BY <1>9, <1>13, <2>1, <2>3 DEF Destroy
  <2> QED
    BY <2>2, <2>3
<1>14. ASSUME NEW o \in Owners, Create(o) PROVE (ShortSleep /\ IdleWorkerBound)'
  BY <1>9, <1>14 DEF Create, poolVars, workerVars
<1>15. ASSUME Tick PROVE (ShortSleep /\ IdleWorkerBound)'
  <2>1. /\ slot' = slot /\ pc' = pc
        /\ \A s \in Stored : /\ due'[slot[s]] \in Int
                             /\ due'[slot[s]] >= due[slot[s]] - 1
    <3>1. slot' = slot /\ pc' = pc
      BY <1>15 DEF Tick
    <3>2. ASSUME NEW s \in Stored
          PROVE  due'[slot[s]] \in Int /\ due'[slot[s]] >= due[slot[s]] - 1
      <4>1. slot[s] \in Ids /\ InPool(slot[s])
        BY DEF Stored, InPool, TypeOK
      <4>2. due'[slot[s]] = Aged(slot[s])
        BY <1>15, <4>1 DEF Tick
      <4> QED
        BY <4>1, <4>2, AgedByOne
    <3> QED
      BY <3>1, <3>2
  <2>2. \A w \in Workers : pc[w] = "sleep" => sleep[w] > 0 /\ sleep'[w] = sleep[w] - 1
    BY <1>15 DEF Tick, Elapse, TypeOK
  <2>3. \A s \in Stored : due[slot[s]] \in Int
    BY DEF Stored, TypeOK
  <2>4. \A w \in Workers : sleep[w] \in Nat
    BY DEF TypeOK
  <2>5. Stored' = Stored
    BY <2>1 DEF Stored
  <2>6. ASSUME NEW w \in Workers, pc'[w] = "sleep"
        PROVE  /\ sleep'[w] <= MaxSleep
               /\ \A s \in Stored : due'[slot'[s]] >= sleep'[w] - MaxSleep
    <3>1. /\ sleep[w] \in Nat /\ sleep'[w] = sleep[w] - 1 /\ sleep[w] <= MaxSleep
          /\ \A s \in Stored : due[slot[s]] >= sleep[w] - MaxSleep
      BY <2>1, <2>2, <2>4, <2>6 DEF ShortSleep, IdleWorkerBound
    <3> QED
      BY <2>1, <2>3, <3>1, SizesAssumption
  <2> QED
    BY <2>5, <2>6 DEF ShortSleep, IdleWorkerBound
<1>16. CASE UNCHANGED vars
  BY <1>9, <1>16 DEF vars, poolVars, workerVars
<1> QED
  BY <1>3, <1>4, <1>5, <1>6, <1>8, <1>11, <1>12, <1>13, <1>14, <1>15, <1>16
     DEF Next, Worker, Owner

\* A task that waits while some worker sleeps is late by MaxSleep at most.
THEOREM SleepersNotice == Spec => []IdleWorkerBound
<1>1. Init => ShortSleep /\ IdleWorkerBound
  BY DEF Init, ShortSleep, IdleWorkerBound
<1>2. IndInv => TypeOK /\ Busy
  BY DEF IndInv
<1>3. TypeOK /\ Busy /\ ShortSleep /\ IdleWorkerBound /\ [Next]_vars
        => (ShortSleep /\ IdleWorkerBound)'
  BY IdleStep
<1> QED
  BY IndInvariant, <1>1, <1>2, <1>3, PTL DEF Spec
=============================================================================
