------------------------------- MODULE Locks -------------------------------
(***************************************************************************)
(* The mutexes of the program and who waits for whom: the thread of the    *)
(* server, the workers of the pool (the main task, which creates the       *)
(* stored devices first, is one of them) and the threads that drivers own. *)
(*                                                                         *)
(* What the functions compute is left out: a thread calls, any number of   *)
(* times and in any order, what the function it is in can call, and a      *)
(* function holds its mutex from its entry to its return.  The other       *)
(* modules say what is done meanwhile.                                     *)
(***************************************************************************)
EXTENDS Naturals, Sequences

CONSTANTS
  Server,    \* the thread of the web server
  Main,      \* the main task
  Workers,   \* the threads the main task starts
  Drivers,   \* the threads of steppers, port expanders and converters
  MaxDepth,  \* a bound on nested calls
  None       \* no mutex, no function

VARIABLES
  stack,       \* the functions every thread is in
  wanted,      \* the function it has called and not entered
  initialised  \* initValues has run

lockVars == <<stack, wanted, initialised>>

Threads == {Server, Main} \cup Workers \cup Drivers

-----------------------------------------------------------------------------
\* What the functions call, logging included.

\* do_devices with the actions, and mainHandler around it.
RequestCalls == {"get_free_buffer", "return_buffer", "readEvent", "writeEvent", "log"}

\* Every worker executes tasks that left the list: print_health,
\* updateDeviceRuntime (which goes to the table directly), updateThread of a
\* wrapped sensor, resetPin.
TaskCalls == {"get_free_buffer", "return_buffer", "dispatch", "oneIteration", "log"}

\* oneIteration and reinit of a wrapped sensor.
IterationCalls == {"putSample", "log"}

\* updateAnalogThread, updatePinsThread and updatePumpThread.
OwnThreadCalls == {"putSample", "log"}

\* readEvent, or a writeEvent that defers saving, waits for the initialisation
\* and dispatches; only a request's writeEvent saves, after the dispatch.
ReadEventCalls == {"dispatch", "log"}
WriteEventCalls == ReadEventCalls \cup {"set_value"}

\* What is done under the table's mutex: drivers are created, moved and
\* destroyed, or operated.
DispatchCalls == {"create", "operate", "log"}

\* create_driver, the moves and the destructors: pins, addresses, buffers,
\* samples and tasks; a driver with a thread joins it.
CreateCalls == {"get_gpio_resource", "addAddress", "get_free_buffer",
                "return_buffer", "removeTask", "copySamples", "join", "log"}

\* write_value, read_value, get_info, call_device_action and
\* update_runtime_data: pumps, probes, switches and schedules use other devices.
OperateCalls == {"readEvent", "average", "get_free_buffer", "return_buffer",
                 "postTask", "removeTask", "log"}

\* The values of the store: the stored ones, a device for each, a task.
InitValuesCalls == {"get_value", "initialize", "postTask", "log"}
InitializeCalls == {"create", "log"}

\* A setting mounts and reads or writes its file, with buffers for the names.
SettingCalls == {"get_free_buffer", "return_buffer", "log"}

\* The choice of a task removes it from the list.
ChooseCalls == {"removeTask"}

\* Mutant: a borrower that was moved from gives its buffer back.
MovedGivesBack == {"return_buffer", "log"}
\* get_free_buffer moves the new borrower while it holds the pool's mutex: the
\* moved one, whose pointer is cleared, gives nothing back.
BorrowCalls == {"log"}

LogCalls == {"log"}

Calls == [
  do_devices |-> RequestCalls,    task |-> TaskCalls,
  oneIteration |-> IterationCalls, ownThread |-> OwnThreadCalls,
  handleTaskExecutions |-> ChooseCalls,
  readEvent |-> ReadEventCalls,   writeEvent |-> WriteEventCalls,
  dispatch |-> DispatchCalls,     create |-> CreateCalls,
  operate |-> OperateCalls,       initValues |-> InitValuesCalls,
  initialize |-> InitializeCalls, get_value |-> SettingCalls,
  set_value |-> SettingCalls,     get_free_buffer |-> BorrowCalls,
  return_buffer |-> LogCalls,     postTask |-> LogCalls,
  removeTask |-> LogCalls,        addAddress |-> LogCalls,
  get_gpio_resource |-> {},       putSample |-> {},
  average |-> {},                 copySamples |-> {},
  join |-> {},                    log |-> {} ]

Functions == DOMAIN Calls

\* The mutex a function holds while it runs; one stands for all pools, settings,
\* lists of addresses and containers of samples, and is never shared.  "once"
\* is the flag of call_once, "iteration" what a driver's thread does between
\* two looks at its stop token.
Mutex(f) ==
  CASE f = "initValues" -> "once"
    [] f \in {"dispatch", "initialize"} -> "table"
    [] f \in {"get_value", "set_value"} -> "settings"
    [] f \in {"handleTaskExecutions", "postTask", "removeTask"} -> "tasks"
    [] f = "get_gpio_resource" -> "resources"
    [] f = "addAddress" -> "addresses"
    [] f \in {"get_free_buffer", "return_buffer"} -> "buffers"
    [] f \in {"putSample", "average", "copySamples"} -> "samples"
    [] f = "ownThread" -> "iteration"
    [] f = "log" -> "sink"
    [] OTHER -> None

\* None is no function and no mutex.
ASSUME NoneIsNone ==
  None \notin Functions \cup
    {"once", "table", "settings", "tasks", "resources", "addresses", "buffers",
     "samples", "iteration", "sink"}

\* What must be free when a function is entered: its own mutex, the
\* initialisation for an event, the thread's iteration for a join.  A driver's
\* thread waits for nobody to go on.
Awaits(f) ==
  CASE f \in {"readEvent", "writeEvent"} -> "once"
    [] f = "join" -> "iteration"
    [] f = "ownThread" -> None
    [] OTHER -> Mutex(f)

\* std::recursive_mutex and std::recursive_timed_mutex.
Recursive == {"table", "tasks", "resources"}

Has(t, m) == \E i \in 1..Len(stack[t]) : Mutex(stack[t][i]) = m

\* u keeps t from entering the function it called.
Blocks(u, t) ==
  /\ wanted[t] # None
  /\ Awaits(wanted[t]) # None
  /\ Has(u, Awaits(wanted[t]))
  /\ u = t => Awaits(wanted[t]) \notin Recursive
-----------------------------------------------------------------------------
LockInit ==
  /\ stack = [t \in Threads |-> << >>]
  /\ wanted = [t \in Threads |-> None]
  /\ initialised = FALSE

\* What a thread starts with.  The server, the workers and the main task's own
\* work begin when initValues has run; the drivers' threads with their drivers.
Entries(t) == { f \in Functions :
  \/ f = "ownThread" /\ t \in Drivers
  \/ f = "initValues" /\ t = Main /\ ~initialised
  \/ f = "do_devices" /\ t = Server /\ initialised
  \/ /\ f \in {"handleTaskExecutions", "task", "postTask"}
     /\ t \in Workers \cup {Main} /\ initialised }

Callees(t) == IF stack[t] = << >> THEN Entries(t) ELSE Calls[stack[t][Len(stack[t])]]

Call(t) ==
  /\ wanted[t] = None /\ Len(stack[t]) < MaxDepth
  /\ \E f \in Callees(t) : wanted' = [wanted EXCEPT ![t] = f]
  /\ UNCHANGED <<stack, initialised>>

Enter(t) ==
  /\ wanted[t] # None /\ \A u \in Threads : ~Blocks(u, t)
  /\ stack' = [stack EXCEPT ![t] = Append(@, wanted[t])]
  /\ wanted' = [wanted EXCEPT ![t] = None]
  /\ UNCHANGED initialised

Return(t) ==
  /\ wanted[t] = None /\ stack[t] # << >>
  /\ stack' = [stack EXCEPT ![t] = SubSeq(@, 1, Len(@) - 1)]
  /\ initialised' = (initialised \/ stack[t][Len(stack[t])] = "initValues")
  /\ UNCHANGED wanted

LockNext == \E t \in Threads : Call(t) \/ Enter(t) \/ Return(t)

LockSpec == LockInit /\ [][LockNext]_lockVars
-----------------------------------------------------------------------------
LockTypeOK ==
  /\ stack \in [Threads -> Seq(Functions)]
  /\ wanted \in [Threads -> Functions \cup {None}]
  /\ initialised \in BOOLEAN

\* No threads wait for each other in a circle, and none for itself: among any
\* threads one is not kept waiting by one of them.
NoDeadlock ==
  \A group \in (SUBSET Threads) \ {{}} :
    \E t \in group : \A u \in group : ~Blocks(u, t)
=============================================================================
