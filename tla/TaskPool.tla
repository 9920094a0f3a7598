------------------------------ MODULE TaskPool ------------------------------
(***************************************************************************)
(* The task pool every periodic activity of the controller runs in         *)
(* (utils/task_pool.h over utils/container/fixed_size_optional_array.h),   *)
(* with the TaskResourceTracker handles through which the objects that     *)
(* post tasks remove them again.                                           *)
(*                                                                         *)
(* A critical section under taskListMutex is one step.  Time is discrete   *)
(* and relative: due[i] counts the ticks until task i wants to run and     *)
(* sleep[w] the ticks until worker w's planned wake-up.                    *)
(***************************************************************************)
EXTENDS Integers, FiniteSets

CONSTANTS
  PoolSize,   \* number of slots of _tasks
  Workers,    \* the threads inside TaskPool::doWork
  Owners,     \* storage for objects that hold a TaskResourceTracker
  Kinds,      \* the task descriptions posted: [single, interval, fresh]
  MaxId,      \* bound: ids handed out are below MaxId
  Regular,    \* nextRegularExecution, in ticks
  MaxSleep,   \* longest condition-variable wait, in ticks
  MaxLag      \* bound: by how much a stored task is counted as late

Ids   == 0 .. MaxId - 1
Slots == 1 .. PoolSize
Invalid == -1                      \* TaskId::invalid, and an empty slot

ASSUME SizesAssumption ==
  /\ PoolSize \in Nat \ {0}
  /\ MaxId \in Nat \ {0}
  /\ Regular \in Nat \ {0}
  /\ MaxSleep \in Nat \ {0}
  /\ MaxLag \in Nat
  \* Tasks of which this is the lateness counted are later than any sleep.
  /\ MaxLag >= MaxSleep + PoolSize

\* Init and the first posted task need something to choose from.
ASSUME NonEmptyAssumption == Owners # {} /\ Kinds # {}

\* fresh: last_executed is left at the clock's epoch, so that the first run is
\* due at once; otherwise the poster sets it to now.  A pool that has been up
\* for longer than every interval is assumed.
ASSUME KindsAssumption ==
  \A k \in Kinds : /\ k.single \in BOOLEAN
                   /\ k.interval \in Nat
                   /\ k.fresh \in BOOLEAN

VARIABLES
  slot,       \* slot[s]: id of the task stored in slot s of _tasks
  job,        \* job[w]: id of the task copied out by worker w (nextTask)
  pc,         \* pc[w]: where worker w is in doWork
  sleep,      \* sleep[w]: ticks until nextExecutionAt, the planned wake-up
  nextId,     \* _next_id
  kind,       \* kind[i]: the TaskDescription of id i
  arg,        \* arg[i]: its argument, the object it was posted for
  due,        \* due[i]: ticks until last_executed + interval
  epoch,      \* ids whose last_executed is still the clock's epoch
  tracker,    \* tracker[o]: m_id of the tracker object o holds
  old,        \* old[o]: m_id of a replaced tracker about to be destroyed
  alive,      \* alive[o]: an object lives at o
  fate,       \* history: how the pool got rid of a task
  missed      \* history: ids given up by their owner while they were running

poolVars   == <<slot, nextId, kind, arg, due, epoch>>
workerVars == <<job, pc, sleep>>
ownerVars  == <<tracker, old, alive>>
history    == <<fate, missed>>
vars == <<poolVars, workerVars, ownerVars, history>>

-----------------------------------------------------------------------------
InPool(i)  == \E s \in Slots : slot[s] = i
Running(i) == \E w \in Workers : job[w] = i
Live(i)    == InPool(i) \/ Running(i)
Stored     == {s \in Slots : slot[s] # Invalid}
Posted     == {i \in Ids : i < nextId}

\* FixedSizeOptionalArray::append takes the first empty optional.
Free == {s \in Slots : slot[s] = Invalid}
Append(i) ==
  \E s \in Free : /\ \A t \in Free : s <= t
                  /\ slot' = [slot EXCEPT ![s] = i]

\* Mutant: the removed task stays in its slot.
VacateNothing(i) == UNCHANGED <<slot, due, epoch>>

\* modifyOrRemove: every slot that holds the id is emptied.
Vacate(i) ==
  /\ slot' = [s \in Slots |-> IF slot[s] = i THEN Invalid ELSE slot[s]]
  /\ due' = [due EXCEPT ![i] = 0]
  /\ epoch' = epoch \ {i}

\* calculateNextExecutionTime(i) < calculateNextExecutionTime(j): a task that
\* still has the epoch as last_executed precedes every task that has run.
Sooner(i, j) ==
  \/ i \in epoch /\ j \notin epoch
  \/ i \in epoch /\ j \in epoch /\ kind[i].interval < kind[j].interval
  \/ i \notin epoch /\ j \notin epoch /\ due[i] < due[j]

\* The slot the scan of handleTaskExecutions ends on: the earliest execution
\* time, and the lowest slot among those with that time.
Chosen(s) ==
  /\ s \in Stored
  /\ \A t \in Stored : /\ ~ Sooner(slot[t], slot[s])
                       /\ t < s => Sooner(slot[s], slot[t])

\* doWork waits 5000ms at most.
Capped(n) == IF n < MaxSleep THEN n ELSE MaxSleep

\* Mutant: a wake-up time that has passed is not noticed.
Unnoticed(n) == n - 1
\* A tick brings a planned wake-up nearer; one that has passed is not waited for.
Elapse(n) == IF n > 0 THEN n - 1 ELSE 0

\* A tick makes a stored task later by one, up to MaxLag; tasks that are later
\* still are kept apart, so that their order, and that against those posted
\* since, is the code's however long time goes on.
Before(i) == {s \in Stored : due[slot[s]] < due[i]}
Aged(i) ==
  LET floor == Cardinality(Before(i)) - MaxLag
  IN  IF due[i] - 1 < floor THEN floor ELSE due[i] - 1

\* wait_for's predicate: some stored task should have run before now.
SomeOverdue == \E s \in Stored : slot[s] \in epoch \/ due[slot[s]] < 0

-----------------------------------------------------------------------------
Init ==
  /\ slot = [s \in Slots |-> Invalid]
  /\ job = [w \in Workers |-> Invalid]
  /\ pc = [w \in Workers |-> "scan"]
  /\ sleep = [w \in Workers |-> 0]
  /\ nextId = 0
  /\ kind = [i \in Ids |-> CHOOSE k \in Kinds : TRUE]
  /\ arg = [i \in Ids |-> CHOOSE o \in Owners : TRUE]
  /\ due = [i \in Ids |-> 0]
  /\ epoch = {}
  /\ tracker = [o \in Owners |-> Invalid]
  /\ old = [o \in Owners |-> Invalid]
  /\ alive = [o \in Owners |-> TRUE]
  /\ fate = [i \in Ids |-> "none"]
  /\ missed = {}

-----------------------------------------------------------------------------
(* The workers: handleTaskExecutions and doWork. *)

\* The earliest task is due: it is copied and leaves the pool before it runs,
\* so no other worker and no owner finds it there.
PickTask(w) ==
  /\ pc[w] = "scan"
  /\ \E s \in Slots :
       /\ Chosen(s)
       /\ slot[s] \in epoch \/ due[slot[s]] <= 0
       /\ job' = [job EXCEPT ![w] = slot[s]]
       /\ Vacate(slot[s])
  /\ pc' = [pc EXCEPT ![w] = "run"]
  /\ sleep' = [sleep EXCEPT ![w] = Regular]
  /\ UNCHANGED <<nextId, kind, arg, ownerVars, history>>

\* No task, or none due yet.
NothingDue(w) ==
  /\ pc[w] = "scan"
  /\ \/ Stored = {} /\ sleep' = [sleep EXCEPT ![w] = Regular]
     \/ \E s \in Slots :
          /\ Chosen(s)
          /\ slot[s] \notin epoch /\ due[slot[s]] > 0
          /\ sleep' = [sleep EXCEPT ![w] = due[slot[s]]]
  /\ pc' = [pc EXCEPT ![w] = "wait"]
  /\ UNCHANGED <<poolVars, job, ownerVars, history>>

\* try_lock_for(1000ms) fails: other threads held the lock all the time.
LockTimeout(w) ==
  /\ pc[w] = "scan"
  /\ pc' = [pc EXCEPT ![w] = "wait"]
  /\ sleep' = [sleep EXCEPT ![w] = Regular]
  /\ UNCHANGED <<poolVars, job, ownerVars, history>>

\* func_ptr(argument) has returned.  A single-shot task is finished.
EndSingleShot(w) ==
  /\ pc[w] = "run"
  /\ kind[job[w]].single
  /\ job' = [job EXCEPT ![w] = Invalid]
  /\ fate' = [fate EXCEPT ![job[w]] = "done"]
  /\ pc' = [pc EXCEPT ![w] = "wait"]
  /\ UNCHANGED <<poolVars, sleep, ownerVars, missed>>

\* A repeating task is posted again under its old id.  Nobody looks whether
\* its owner has removed it meanwhile, and a full pool drops it.
Repost(w) ==
  /\ pc[w] = "run"
  /\ ~ kind[job[w]].single
  /\ IF Free # {}
     THEN /\ Append(job[w])
          /\ due' = [due EXCEPT ![job[w]] = kind[job[w]].interval]
          /\ UNCHANGED fate
     ELSE /\ fate' = [fate EXCEPT ![job[w]] = "dropped"]
          /\ UNCHANGED <<slot, due>>
  /\ job' = [job EXCEPT ![w] = Invalid]
  /\ sleep' = [sleep EXCEPT ![w] =
                 IF kind[job[w]].interval < sleep[w]
                 THEN kind[job[w]].interval ELSE sleep[w]]
  /\ pc' = [pc EXCEPT ![w] = "wait"]
  /\ UNCHANGED <<nextId, kind, arg, epoch, ownerVars, missed>>

\* doWork goes straight back to the scan, or waits on the condition variable.
EnterWait(w) ==
  /\ pc[w] = "wait"
  /\ IF sleep[w] = 0 \/ SomeOverdue
     THEN /\ pc' = [pc EXCEPT ![w] = "scan"]
          /\ sleep' = [sleep EXCEPT ![w] = 0]
     ELSE /\ pc' = [pc EXCEPT ![w] = "sleep"]
          /\ sleep' = [sleep EXCEPT ![w] = Capped(sleep[w])]
  /\ UNCHANGED <<poolVars, job, ownerVars, history>>

\* Mutant: wait instead of wait_for.
NeverUp(w) == FALSE
\* The wait ends at its time-out.
TimeOut(w) ==
  /\ pc[w] = "sleep"
  /\ sleep[w] = 0
  /\ pc' = [pc EXCEPT ![w] = "scan"]
  /\ UNCHANGED <<poolVars, job, sleep, ownerVars, history>>

\* A notification, or a spurious wake-up, ends it only if the predicate holds;
\* neither need ever come.
Notified(w) ==
  /\ pc[w] = "sleep"
  /\ SomeOverdue
  /\ pc' = [pc EXCEPT ![w] = "scan"]
  /\ sleep' = [sleep EXCEPT ![w] = 0]
  /\ UNCHANGED <<poolVars, job, ownerVars, history>>

\* A time-out is prompt: time does not pass a sleeper's wake-up.
Tick ==
  /\ \A w \in Workers : ~ (pc[w] = "sleep" /\ sleep[w] = 0)
  /\ due' = [i \in Ids |-> IF InPool(i) THEN Aged(i) ELSE due[i]]
  /\ sleep' = [w \in Workers |-> Elapse(sleep[w])]
  /\ UNCHANGED <<slot, nextId, kind, arg, epoch, job, pc, ownerVars, history>>

-----------------------------------------------------------------------------
(* The owners: postTask, removeTask and the trackers. *)

\* The task enters the pool under _next_id, described by k, for object o.
Enqueue(o, k) ==
  /\ nextId < MaxId
  /\ Free # {}
  /\ Append(nextId)
  /\ nextId' = nextId + 1
  /\ kind' = [kind EXCEPT ![nextId] = k]
  /\ arg' = [arg EXCEPT ![nextId] = o]
  /\ due' = [due EXCEPT ![nextId] = IF k.fresh THEN 0 ELSE k.interval]
  /\ epoch' = IF k.fresh THEN epoch \cup {nextId} ELSE epoch

\* What becomes of id i when removeTask(i) is called by someone who forgets i
\* afterwards: a task that is running is not in the pool and stays.
Forget(i) ==
  /\ Vacate(i)
  /\ fate' = IF InPool(i) THEN [fate EXCEPT ![i] = "removed"] ELSE fate
  /\ missed' = IF Running(i) THEN missed \cup {i} ELSE missed

\* Mutant: removeTask leaves the id it was given.
KeepId(o) == UNCHANGED tracker
\* removeTask resets the id it was given.
ResetId(o) == tracker' = [tracker EXCEPT ![o] = Invalid]

\* Mutant: move assignment overwrites the old id.
Overwrite(o) == UNCHANGED old
\* Move assignment swaps: the old id goes to the tracker that is destroyed.
SwapOut(o) == old' = [old EXCEPT ![o] = tracker[o]]

\* Mutant: isActive is not asked.
MayAlways(o) == old[o] = Invalid
MayPost(o) == tracker[o] = Invalid /\ old[o] = Invalid

\* A repeating task is posted only while the tracker is inactive
\* (SensorDriverInterface::update_runtime_data, initializeUpdater, doWork).
PostRepeating(o) ==
  /\ alive[o] /\ MayPost(o)
  /\ \E k \in Kinds : ~ k.single /\ Enqueue(o, k)
  /\ tracker' = [tracker EXCEPT ![o] = nextId]
  /\ UNCHANGED <<workerVars, old, alive, history>>

\* PinDriver::adjustTimedValue: the new tracker is swapped in; the replaced
\* one is destroyed after the new task is already in the pool.
PostSingleShot(o) ==
  /\ alive[o] /\ old[o] = Invalid
  /\ \E k \in Kinds : k.single /\ Enqueue(o, k)
  /\ tracker' = [tracker EXCEPT ![o] = nextId]
  /\ SwapOut(o)
  /\ UNCHANGED <<workerVars, alive, history>>

\* The destructor of the replaced tracker.
DestroyOld(o) ==
  /\ old[o] # Invalid
  /\ Forget(old[o])
  /\ old' = [old EXCEPT ![o] = Invalid]
  /\ UNCHANGED <<nextId, kind, arg, workerVars, tracker, alive>>

\* TaskResourceTracker::invalidate on an object that stays (the source and the
\* target of SensorDriverInterface's moves): when the task is not found the
\* tracker keeps its id and stays active.
Invalidate(o) ==
  /\ alive[o] /\ tracker[o] # Invalid /\ old[o] = Invalid
  /\ IF InPool(tracker[o])
     THEN /\ Vacate(tracker[o])
          /\ fate' = [fate EXCEPT ![tracker[o]] = "removed"]
          /\ ResetId(o)
     ELSE UNCHANGED <<slot, due, epoch, fate, tracker>>
  /\ UNCHANGED <<nextId, kind, arg, workerVars, old, alive, missed>>

\* The object is destroyed, and its tracker with it.
Destroy(o) ==
  /\ alive[o] /\ old[o] = Invalid
  /\ IF tracker[o] # Invalid THEN Forget(tracker[o])
                             ELSE UNCHANGED <<slot, due, epoch, history>>
  /\ ResetId(o)
  /\ alive' = [alive EXCEPT ![o] = FALSE]
  /\ UNCHANGED <<nextId, kind, arg, workerVars, old>>

\* Another object is constructed in the same storage.
Create(o) ==
  /\ ~ alive[o]
  /\ alive' = [alive EXCEPT ![o] = TRUE]
  /\ UNCHANGED <<poolVars, workerVars, tracker, old, history>>

-----------------------------------------------------------------------------
Worker(w) ==
  \/ PickTask(w) \/ NothingDue(w) \/ LockTimeout(w)
  \/ EndSingleShot(w) \/ Repost(w)
  \/ EnterWait(w) \/ TimeOut(w) \/ Notified(w)

Owner(o) ==
  \/ PostRepeating(o) \/ PostSingleShot(o) \/ DestroyOld(o)
  \/ Invalidate(o) \/ Destroy(o) \/ Create(o)

Next ==
  \/ \E w \in Workers : Worker(w)
  \/ \E o \in Owners : Owner(o)
  \/ Tick

Spec == Init /\ [][Next]_vars

\* Task functions return, threads are scheduled, time passes, a wait ends when
\* its time is up, and a worker that keeps asking for the lock gets it within
\* its second now and then.  That a notification wakes anyone is not assumed.
Fairness ==
  /\ WF_vars(Tick)
  /\ \A w \in Workers :
       /\ WF_vars(EndSingleShot(w) \/ Repost(w))
       /\ WF_vars(EnterWait(w) \/ TimeOut(w))
       /\ SF_vars(PickTask(w) \/ NothingDue(w))

FairSpec == Spec /\ Fairness

-----------------------------------------------------------------------------
TypeOK ==
  /\ slot \in [Slots -> Ids \cup {Invalid}]
  /\ job \in [Workers -> Ids \cup {Invalid}]
  /\ pc \in [Workers -> {"scan", "run", "wait", "sleep"}]
  /\ sleep \in [Workers -> Nat]
  /\ nextId \in 0 .. MaxId
  /\ kind \in [Ids -> Kinds]
  /\ arg \in [Ids -> Owners]
  /\ due \in [Ids -> Int]
  /\ epoch \subseteq Ids
  /\ tracker \in [Owners -> Ids \cup {Invalid}]
  /\ old \in [Owners -> Ids \cup {Invalid}]
  /\ alive \in [Owners -> BOOLEAN]
  /\ fate \in [Ids -> {"none", "done", "removed", "dropped"}]
  /\ missed \subseteq Ids

\* A task is in one place: in one slot, or with one worker.
OnePlace ==
  /\ \A s, t \in Slots : slot[s] = slot[t] /\ slot[s] # Invalid => s = t
  /\ \A v, w \in Workers : job[v] = job[w] /\ job[v] # Invalid => v = w
  /\ \A s \in Slots, w \in Workers : slot[s] # Invalid => slot[s] # job[w]

\* Every id ever handed out is accounted for exactly once: its task is in one
\* slot or with one worker, or it finished, was removed, or was dropped, and
\* then it never comes back.  Two workers never run the same task.
Accounted ==
  /\ OnePlace
  /\ \A i \in Ids : Live(i) <=> i < nextId /\ fate[i] = "none"
  /\ \A i \in Ids : i >= nextId => fate[i] = "none"

\* An active tracker names a task of its own object, no two trackers name the
\* same task, and its task is still there unless it is finished or was dropped
\* by a full pool: removeTask always reaches the tracker of what it removed.
Handles ==
  \A o \in Owners :
    /\ tracker[o] # Invalid => tracker[o] # old[o]
    /\ \A i \in {tracker[o], old[o]} \ {Invalid} :
         i < nextId /\ arg[i] = o /\ fate[i] # "removed"

\* A task nobody can remove any more (its tracker is gone, perhaps its object
\* too) exists only because it was running when its owner let go of it.
NoOrphans ==
  \A i \in Ids : Live(i) =>
    i \in {tracker[arg[i]], old[arg[i]]} \cup missed

\* With two slots for every object, its current and its replaced task, the
\* pool can only ever drop a repeating task after an orphan was left behind.
DropNeedsOrphan ==
  PoolSize >= 2 * Cardinality(Owners) =>
    \A i \in Ids : fate[i] = "dropped" => missed # {}

\* While a worker sleeps no task is later than the longest wait: the time-out
\* of the wait makes up for a notification that reached a busy worker.
IdleWorkerBound ==
  \A w \in Workers : pc[w] = "sleep" =>
    \A s \in Stored : due[slot[s]] >= sleep[w] - MaxSleep

\* Every posted task eventually runs, or is removed before it does.
TasksRun ==
  \A i \in Ids : InPool(i) ~> (Running(i) \/ fate[i] = "removed")
=============================================================================
