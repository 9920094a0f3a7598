---------------------------- MODULE StorageProofs ----------------------------
(* Theorems about FilesystemSetting, for every set of values and every     *)
(* power failure, about LocalFlash, for any number of users, and about     *)
(* Locks, for any threads.  Those about the disk assume that fclose keeps  *)
(* its word.                                                               *)
EXTENDS MCStorage, TLAPS

\* What the steps of a save rely on: a value is being saved, the temporary
\* file holds it from the flush on, and the real file is never written.
SaveInv ==
  /\ TypeOK
  /\ pc # "idle" => setting \in Values
  /\ pc \in {"remove", "rename"} => tmp = setting
  /\ MainIntact

\* m_written and the real file differ at most while the latter is missing.
WrittenInv ==
  assigned => main \in {written, Absent}

\* A value set with the disk there is never loaded over.
ReadInv == last # Nothing => setting = last /\ initialized

-----------------------------------------------------------------------------
\* The variables keep their types whatever fails.
THEOREM TypeCorrect == Spec => []TypeOK
<1>1. Init => TypeOK
  BY DEF Init, TypeOK, Memory, Contents
<1>2. TypeOK /\ [Next]_vars => TypeOK'
  <2> SUFFICES ASSUME TypeOK, [Next]_vars PROVE TypeOK'
    OBVIOUS
  <2> USE DEF TypeOK, Memory, Contents, disk, ram, hist
  <2>1. CASE GetValue
    <3>1. Loaded \subseteq Memory
      BY DEF Loaded
    <3> QED
      BY <2>1, <3>1 DEF GetValue
  <2>2. ASSUME NEW v \in Values, SetValue(v) PROVE TypeOK'
    BY <2>2 DEF SetValue
  <2>3. ASSUME NEW v \in Values, SetValueUnmounted(v) PROVE TypeOK'
    BY <2>3 DEF SetValueUnmounted
  <2>4. CASE SkipUnchanged
    BY <2>4 DEF SkipUnchanged
  <2>5. CASE OpenTmp
    BY <2>5 DEF OpenTmp
  <2>6. CASE WriteSome
    BY <2>6 DEF WriteSome, InTmp, PartOf
  <2>7. CASE Flush
    BY <2>7 DEF Flush, GiveUp
  <2>8. CASE Remove
    BY <2>8 DEF Remove
  <2>9. CASE Rename
    BY <2>9 DEF Rename
  <2>10. CASE RenameFails
    BY <2>10 DEF RenameFails, KeepWritten
  <2>11. CASE PowerFail
    BY <2>11 DEF PowerFail
  <2>12. CASE UNCHANGED vars
    BY <2>12 DEF vars
  <2> QED
    BY <2>1, <2>2, <2>3, <2>4, <2>5, <2>6, <2>7, <2>8, <2>9, <2>10, <2>11,
       <2>12 DEF Next
<1> QED
  BY <1>1, <1>2, PTL DEF Spec

\* A save keeps its value in RAM, completes the temporary file before it
\* touches the real one, and replaces the real one by a rename only.
LEMMA SaveInvariant ==
  ASSUME "close" \notin Faults PROVE Spec => []SaveInv
<1>1. Init => SaveInv
  BY DEF Init, SaveInv, TypeOK, MainIntact, Memory, Contents
<1>2. TypeOK' /\ SaveInv /\ [Next]_vars => SaveInv'
  <2> SUFFICES ASSUME TypeOK', SaveInv, [Next]_vars PROVE SaveInv'
    OBVIOUS
  <2> USE DistinctAssumption DEF SaveInv, MainIntact, disk, ram, hist
  <2>1. CASE GetValue
    BY <2>1 DEF GetValue
  <2>2. ASSUME NEW v \in Values, SetValue(v) PROVE SaveInv'
    BY <2>2 DEF SetValue
  <2>3. ASSUME NEW v \in Values, SetValueUnmounted(v) PROVE SaveInv'
    BY <2>3 DEF SetValueUnmounted
  <2>4. CASE SkipUnchanged
    BY <2>4 DEF SkipUnchanged
  <2>5. CASE OpenTmp
    BY <2>5 DEF OpenTmp
  <2>6. CASE WriteSome
    BY <2>6 DEF WriteSome, InTmp
  <2>7. CASE Flush
    BY <2>7 DEF Flush, GiveUp
  <2>8. CASE Remove
    BY <2>8 DEF Remove
  <2>9. CASE Rename
    BY <2>9 DEF Rename
  <2>10. CASE RenameFails
    BY <2>10 DEF RenameFails
  <2>11. CASE PowerFail
    BY <2>11 DEF PowerFail
  <2>12. CASE UNCHANGED vars
    BY <2>12 DEF vars
  <2> QED
    BY <2>1, <2>2, <2>3, <2>4, <2>5, <2>6, <2>7, <2>8, <2>9, <2>10, <2>11,
       <2>12 DEF Next
<1> QED
  BY <1>1, <1>2, TypeCorrect, PTL DEF Spec

\* The real file is complete or missing in every reachable state, although the
\* power may fail between any two writes.
THEOREM MainFileIntact ==
  ASSUME "close" \notin Faults PROVE Spec => []MainIntact
<1>1. SaveInv => MainIntact
  BY DEF SaveInv
<1> QED
  BY <1>1, SaveInvariant, PTL

\* m_written is never another value than the real file's.
THEOREM WrittenDurable ==
  ASSUME "close" \notin Faults PROVE Spec => []WrittenIsDurable
<1>1. Init => WrittenInv
  BY DEF Init, WrittenInv
<1>2. SaveInv /\ WrittenInv /\ [Next]_vars => WrittenInv'
  <2> SUFFICES ASSUME SaveInv, WrittenInv, [Next]_vars PROVE WrittenInv'
    OBVIOUS
  <2> USE DEF WrittenInv, disk, ram, hist
  <2>1. CASE GetValue
    BY <2>1 DEF GetValue
  <2>2. ASSUME NEW v \in Values, SetValue(v) PROVE WrittenInv'
    BY <2>2 DEF SetValue
  <2>3. ASSUME NEW v \in Values, SetValueUnmounted(v) PROVE WrittenInv'
    BY <2>3 DEF SetValueUnmounted
  <2>4. CASE SkipUnchanged
    BY <2>4 DEF SkipUnchanged
  <2>5. CASE OpenTmp
    BY <2>5 DEF OpenTmp
  <2>6. CASE WriteSome
    BY <2>6 DEF WriteSome, InTmp
  <2>7. CASE Flush
    BY <2>7 DEF Flush
  <2>8. CASE Remove
    BY <2>8 DEF Remove
  <2>9. CASE Rename
    BY <2>9 DEF Rename, SaveInv
  <2>10. CASE RenameFails
    BY <2>10 DEF RenameFails, KeepWritten
  <2>11. CASE PowerFail
    BY <2>11 DEF PowerFail
  <2>12. CASE UNCHANGED vars
    BY <2>12 DEF vars
  <2> QED
    BY <2>1, <2>2, <2>3, <2>4, <2>5, <2>6, <2>7, <2>8, <2>9, <2>10, <2>11,
       <2>12 DEF Next
<1>3. WrittenInv => WrittenIsDurable
  BY DEF WrittenInv, WrittenIsDurable
<1>4. Spec => []SaveInv
  BY SaveInvariant
<1> QED
  BY <1>1, <1>2, <1>3, <1>4, PTL DEF Spec

\* Where a rename onto a missing file works, m_written is on the disk, but for
\* the moment between removing a file and renaming its successor.
SkipInv ==
  assigned => \/ main = written /\ main # Absent
              \/ pc = "rename" /\ main = Absent

\* A failing rename is the one cause of a save that is skipped wrongly: whatever
\* else fails, what m_written equals would be found by a boot.
THEOREM SkipsSafely ==
  ASSUME "close" \notin Faults, "rename" \notin Faults PROVE Spec => []SkipIsSafe
<1>1. Init => SkipInv
  BY DEF Init, SkipInv
<1>2. SaveInv /\ SkipInv /\ [Next]_vars => SkipInv'
  <2> SUFFICES ASSUME SaveInv, SkipInv, [Next]_vars PROVE SkipInv'
    OBVIOUS
  <2> USE DEF SkipInv, disk, ram, hist
  <2>1. CASE GetValue
    BY <2>1 DEF GetValue
  <2>2. ASSUME NEW v \in Values, SetValue(v) PROVE SkipInv'
    BY <2>2 DEF SetValue
  <2>3. ASSUME NEW v \in Values, SetValueUnmounted(v) PROVE SkipInv'
    BY <2>3 DEF SetValueUnmounted
  <2>4. CASE SkipUnchanged
    BY <2>4 DEF SkipUnchanged
  <2>5. CASE OpenTmp
    BY <2>5 DEF OpenTmp
  <2>6. CASE WriteSome
    BY <2>6 DEF WriteSome, InTmp
  <2>7. CASE Flush
    BY <2>7 DEF Flush, GiveUp
  <2>8. CASE Remove
    BY <2>8 DEF Remove
  <2>9. CASE Rename
    BY <2>9, DistinctAssumption DEF Rename, SaveInv
  <2>10. CASE RenameFails
    BY <2>10 DEF RenameFails, KeepWritten
  <2>11. CASE PowerFail
    BY <2>11 DEF PowerFail
  <2>12. CASE UNCHANGED vars
    BY <2>12 DEF vars
  <2> QED
    BY <2>1, <2>2, <2>3, <2>4, <2>5, <2>6, <2>7, <2>8, <2>9, <2>10, <2>11,
       <2>12 DEF Next
<1>3. SkipInv => SkipIsSafe
  BY DEF SkipInv, SkipIsSafe, Boot
<1>4. Spec => []SaveInv
  BY SaveInvariant
<1> QED
  BY <1>1, <1>2, <1>3, <1>4, PTL DEF Spec

\* Whatever fails, get_value never goes back behind a set_value.
THEOREM ReadYourWrites == Spec => []ReadsOwnWrites
<1>1. Init => ReadInv
  BY DEF Init, ReadInv
<1>2. TypeOK /\ ReadInv /\ [Next]_vars => ReadInv'
  <2> SUFFICES ASSUME TypeOK, ReadInv, [Next]_vars PROVE ReadInv'
    OBVIOUS
  <2> USE DEF ReadInv, ram, hist
  <2>1. CASE GetValue
    BY <2>1 DEF GetValue, NotYet
  <2>2. ASSUME NEW v \in Values, SetValue(v) PROVE ReadInv'
    BY <2>2 DEF SetValue
  <2>3. ASSUME NEW v \in Values, SetValueUnmounted(v) PROVE ReadInv'
    BY <2>3 DEF SetValueUnmounted
  <2>4. CASE SkipUnchanged \/ OpenTmp \/ WriteSome \/ Flush \/ Remove
    BY <2>4 DEF SkipUnchanged, OpenTmp, WriteSome, Flush, Remove
  <2>5. CASE Rename \/ RenameFails
    BY <2>5 DEF Rename, RenameFails
  <2>6. CASE PowerFail
    BY <2>6 DEF PowerFail
  <2>7. CASE UNCHANGED vars
    BY <2>7 DEF vars
  <2> QED
    BY <2>1, <2>2, <2>3, <2>4, <2>5, <2>6, <2>7 DEF Next
<1>3. ReadInv => ReadsOwnWrites
  BY DEF ReadInv, ReadsOwnWrites
<1> QED
  BY <1>1, <1>2, <1>3, TypeCorrect, PTL DEF Spec

-----------------------------------------------------------------------------
(* The refinement. *)

\* Every step of a save is a step of AtomicSetting: the new value is committed
\* by remove, or by the flush where there is no real file.
LEMMA StepRefines ==
  ASSUME "close" \notin Faults, SaveInv, SaveInv', [Next]_vars
  PROVE  [A!ANext]_A!avars
<1> USE DistinctAssumption DEF SaveInv, TypeOK, MainIntact, Boot, Memory,
      Contents, disk, ram, hist
<1>1. CASE GetValue \/ SkipUnchanged
  <2>1. A!End \/ UNCHANGED A!avars
    BY <1>1 DEF GetValue, SkipUnchanged, A!End, A!avars
  <2> QED
    BY <2>1 DEF A!ANext
<1>2. ASSUME NEW v \in Values, SetValue(v) PROVE A!Begin(v)
  BY <1>2 DEF SetValue, A!Begin
<1>3. ASSUME NEW v \in Values, SetValueUnmounted(v) PROVE UNCHANGED A!avars
  BY <1>3 DEF SetValueUnmounted, A!avars
<1>4. CASE OpenTmp
  <2>1. A!Damage \/ A!End \/ UNCHANGED A!avars
    BY <1>4 DEF OpenTmp, A!Damage, A!End, A!avars
  <2> QED
    BY <2>1 DEF A!ANext
<1>5. CASE WriteSome
  <2>1. A!Damage \/ UNCHANGED A!avars
    BY <1>5 DEF WriteSome, InTmp, PartOf, A!Damage, A!avars
  <2> QED
    BY <2>1 DEF A!ANext
<1>6. CASE Flush
  <2>1. A!Commit \/ A!End \/ UNCHANGED A!avars
    BY <1>6 DEF Flush, GiveUp, A!Commit, A!End, A!avars
  <2> QED
    BY <2>1 DEF A!ANext
<1>7. CASE Remove
  <2>1. A!Commit \/ UNCHANGED A!avars
    BY <1>7 DEF Remove, A!Commit, A!avars
  <2> QED
    BY <2>1 DEF A!ANext
<1>8. CASE Rename
  <2>1. A!Settle
    BY <1>8 DEF Rename, A!Settle
  <2> QED
    BY <2>1 DEF A!ANext
<1>9. CASE RenameFails \/ PowerFail
  <2>1. A!End
    BY <1>9 DEF RenameFails, PowerFail, A!End
  <2> QED
    BY <2>1 DEF A!ANext
<1>10. CASE UNCHANGED vars
  BY <1>10 DEF vars, A!avars
<1> QED
  BY <1>1, <1>2, <1>3, <1>4, <1>5, <1>6, <1>7, <1>8, <1>9, <1>10
     DEF Next, A!ANext

\* FilesystemSetting implements AtomicSetting: across any power failure and
\* any failing call but fclose, a reboot finds the old value or the new one.
THEOREM SavesAtomically ==
  ASSUME "close" \notin Faults PROVE Spec => Atomic
<1>1. Init => A!AInit
  BY DistinctAssumption DEF Init, A!AInit, Boot, Memory
<1>2. SaveInv /\ SaveInv' /\ [Next]_vars => [A!ANext]_A!avars
  BY StepRefines
<1> QED
  BY <1>1, <1>2, SaveInvariant, PTL DEF Spec, Atomic, A!ASpec

-----------------------------------------------------------------------------
\* What a mount makes of what was received.
Outcome == /\ received = "image" => content = "image"
           /\ received = "foreign" => content = "own"

\* What ImageRestored needs: during an undisturbed upload the handle is set and
\* nobody is on the way to mounting, so that what was written so far is still
\* on the partition, and stays there, or is formatted, once the image is complete.
Undisturbed ==
  alone =>
    /\ handle
    /\ \A u \in Users : creating[u] \in {"no", "done"}
    /\ restoring \in {"erase", "write", "mount"} => ~ mounted
    /\ restoring = "write" => content \in {"blank", "begun"}
    /\ restoring \in {"erase", "write"} => received = "part"
    /\ restoring = "mount" /\ received # "part" => content = received
    /\ restoring = "test" => Outcome
    /\ response = "ok" => restoring = "no" /\ Outcome

\* The variables of the partition keep their types: for any number of settings.
THEOREM FlashTypeCorrect == FlashSpec => []FlashTypeOK
<1>1. FlashInit => FlashTypeOK
  BY DEF FlashInit, FlashTypeOK, Raw, Complete
<1>2. FlashTypeOK /\ [FlashNext]_flashVars => FlashTypeOK'
  <2> SUFFICES ASSUME FlashTypeOK, [FlashNext]_flashVars PROVE FlashTypeOK'
    OBVIOUS
  <2> USE DEF FlashTypeOK, Raw, Complete
  <2>1. ASSUME NEW u \in Users, Create(u) PROVE FlashTypeOK'
    BY <2>1 DEF Create, session
  <2>2. ASSUME NEW u \in Users, CreateMounts(u) PROVE FlashTypeOK'
    BY <2>2 DEF CreateMounts, Mount, Formatted, MountFails, session
  <2>3. ASSUME NEW u \in Users, CreateTests(u) PROVE FlashTypeOK'
    BY <2>3 DEF CreateTests, session
  <2>4. ASSUME NEW u \in Users, WriteFile(u) PROVE FlashTypeOK'
    BY <2>4 DEF WriteFile, session
  <2>5. CASE Unmount
    BY <2>5, Zenon DEF Unmount, KeepHandle
  <2>6. CASE Erase
    BY <2>6 DEF Erase, Refuse
  <2>7. CASE WriteImage
    BY <2>7 DEF WriteImage, Refuse
  <2>8. CASE EndOfImage
    BY <2>8 DEF EndOfImage
  <2>9. CASE Remount
    BY <2>9 DEF Remount, Mount, Formatted, MountFails, Refuse
  <2>10. CASE Answer
    BY <2>10 DEF Answer, Refuse
  <2>11. CASE Reset
    BY <2>11 DEF Reset
  <2>12. CASE UNCHANGED flashVars
    BY <2>12 DEF flashVars
  <2> QED
    BY <2>1, <2>2, <2>3, <2>4, <2>5, <2>6, <2>7, <2>8, <2>9, <2>10, <2>11, <2>12
       DEF FlashNext, Restore
<1> QED
  BY <1>1, <1>2, PTL DEF FlashSpec

\* Settings that are used for the first time never get between an upload and
\* its image: for any number of them, wherever the upload or a mount fails.
THEOREM UploadsUndisturbed == FlashSpec => []ImageRestored
<1>1. FlashInit => Undisturbed
  BY DEF FlashInit, Undisturbed
<1>2. FlashTypeOK /\ Undisturbed /\ [FlashNext]_flashVars => Undisturbed'
  <2> SUFFICES ASSUME FlashTypeOK, Undisturbed, [FlashNext]_flashVars
               PROVE  Undisturbed'
    OBVIOUS
  <2> USE DEF Undisturbed, FlashTypeOK, Outcome, Complete
  <2>1. ASSUME NEW u \in Users, Create(u) PROVE Undisturbed'
    BY <2>1 DEF Create, session
  <2>2. ASSUME NEW u \in Users, CreateMounts(u) PROVE Undisturbed'
    BY <2>2 DEF CreateMounts, session
  <2>3. ASSUME NEW u \in Users, CreateTests(u) PROVE Undisturbed'
    BY <2>3 DEF CreateTests, session
  <2>4. ASSUME NEW u \in Users, WriteFile(u) PROVE Undisturbed'
    BY <2>4 DEF WriteFile, session
  <2>5. CASE Unmount
    BY <2>5 DEF Unmount, KeepHandle
  <2>6. CASE Erase
    BY <2>6 DEF Erase, Refuse
  <2>7. CASE WriteImage
    BY <2>7 DEF WriteImage, Refuse
  <2>8. CASE EndOfImage
    BY <2>8 DEF EndOfImage
  <2>9. CASE Remount
    BY <2>9 DEF Remount, Mount, Formatted, MountFails, Refuse, Raw
  <2>10. CASE Answer
    BY <2>10 DEF Answer, Refuse
  <2>11. CASE Reset
    BY <2>11 DEF Reset
  <2>12. CASE UNCHANGED flashVars
    BY <2>12 DEF flashVars
  <2> QED
    BY <2>1, <2>2, <2>3, <2>4, <2>5, <2>6, <2>7, <2>8, <2>9, <2>10, <2>11, <2>12
       DEF FlashNext, Restore
<1>3. Undisturbed => ImageRestored
  BY DEF Undisturbed, ImageRestored, Outcome
<1> QED
  BY <1>1, <1>2, <1>3, FlashTypeCorrect, PTL DEF FlashSpec
-----------------------------------------------------------------------------
\* Locks

\* The order in which mutexes are taken.
Rank(m) ==
  CASE m = "once" -> 1
    [] m = "table" -> 2
    [] m = "settings" -> 3
    [] m \in {"tasks", "resources", "addresses", "buffers", "iteration"} -> 4
    [] m = "samples" -> 5
    [] m = "sink" -> 6
    [] OTHER -> 0

\* The highest rank a thread may hold while it is in f.
Bound(f) ==
  CASE f \in {"initValues"} -> 1
    [] f \in {"readEvent", "dispatch", "create", "operate", "initialize"} -> 2
    [] f \in {"get_value", "set_value"} -> 3
    [] f \in {"ownThread", "handleTaskExecutions", "get_free_buffer", "return_buffer",
              "postTask", "removeTask", "addAddress", "get_gpio_resource", "join"} -> 4
    [] f \in {"putSample", "average", "copySamples"} -> 5
    [] f = "log" -> 6
    [] OTHER -> 0

\* What can be called before initValues has returned.
Early == {"initValues", "get_value", "initialize", "create", "get_gpio_resource",
  "addAddress", "get_free_buffer", "return_buffer", "postTask", "removeTask", "copySamples",
  "join", "ownThread", "putSample", "log"}

\* The functions, the calls and the mutexes, one by one.
LEMMA AllFunctions == Functions =
  {"do_devices", "task", "oneIteration", "ownThread", "handleTaskExecutions",
   "readEvent", "writeEvent", "dispatch", "create", "operate", "initValues",
   "initialize", "get_value", "set_value", "get_free_buffer", "return_buffer",
   "postTask", "removeTask", "addAddress", "get_gpio_resource", "putSample",
   "average", "copySamples", "join", "log"}
BY DEF Functions, Calls

LEMMA CallsOf ==
  /\ Calls["do_devices"] = RequestCalls
  /\ Calls["task"] = TaskCalls
  /\ Calls["oneIteration"] = IterationCalls
  /\ Calls["ownThread"] = OwnThreadCalls
  /\ Calls["handleTaskExecutions"] = ChooseCalls
  /\ Calls["readEvent"] = ReadEventCalls
  /\ Calls["writeEvent"] = WriteEventCalls
  /\ Calls["dispatch"] = DispatchCalls
  /\ Calls["create"] = CreateCalls
  /\ Calls["operate"] = OperateCalls
  /\ Calls["initValues"] = InitValuesCalls
  /\ Calls["initialize"] = InitializeCalls
  /\ Calls["get_value"] = SettingCalls
  /\ Calls["set_value"] = SettingCalls
  /\ Calls["get_free_buffer"] = BorrowCalls
  /\ Calls["return_buffer"] = LogCalls
  /\ Calls["postTask"] = LogCalls
  /\ Calls["removeTask"] = LogCalls
  /\ Calls["addAddress"] = LogCalls
  /\ Calls["get_gpio_resource"] = {}
  /\ Calls["putSample"] = {}
  /\ Calls["average"] = {}
  /\ Calls["copySamples"] = {}
  /\ Calls["join"] = {}
  /\ Calls["log"] = {}
BY DEF Calls

LEMMA MutexOf ==
  ASSUME NEW f \in Functions
  PROVE  /\ f = "initValues" => Mutex(f) = "once"
         /\ f \in {"dispatch", "initialize"} => Mutex(f) = "table"
         /\ f \in {"get_value", "set_value"} => Mutex(f) = "settings"
         /\ f \in {"handleTaskExecutions", "postTask", "removeTask"} => Mutex(f) = "tasks"
         /\ f = "get_gpio_resource" => Mutex(f) = "resources"
         /\ f = "addAddress" => Mutex(f) = "addresses"
         /\ f \in {"get_free_buffer", "return_buffer"} => Mutex(f) = "buffers"
         /\ f \in {"putSample", "average", "copySamples"} => Mutex(f) = "samples"
         /\ f = "ownThread" => Mutex(f) = "iteration"
         /\ f = "log" => Mutex(f) = "sink"
         /\ f \in {"do_devices", "task", "oneIteration", "readEvent", "writeEvent",
                   "create", "operate", "join"} => Mutex(f) = None
BY DEF Mutex

LEMMA AwaitsOf ==
  ASSUME NEW f \in Functions
  PROVE  /\ f \in {"readEvent", "writeEvent"} => Awaits(f) = "once"
         /\ f = "join" => Awaits(f) = "iteration"
         /\ f = "ownThread" => Awaits(f) = None
         /\ f \notin {"readEvent", "writeEvent", "join", "ownThread"} => Awaits(f) = Mutex(f)
<1> DEFINE m == Mutex(f)
<1>1. Awaits(f) = CASE f \in {"readEvent", "writeEvent"} -> "once"
                    [] f = "join" -> "iteration"
                    [] f = "ownThread" -> None
                    [] OTHER -> m
  BY DEF Awaits
<1> HIDE DEF m
<1>2. /\ f \in {"readEvent", "writeEvent"} => Awaits(f) = "once"
      /\ f = "join" => Awaits(f) = "iteration"
      /\ f = "ownThread" => Awaits(f) = None
      /\ f \notin {"readEvent", "writeEvent", "join", "ownThread"} => Awaits(f) = m
  BY <1>1
<1> QED BY <1>2 DEF m

LEMMA RankOf ==
  /\ Rank("once") = 1 /\ Rank("table") = 2 /\ Rank("settings") = 3
  /\ \A m \in {"tasks", "resources", "addresses", "buffers", "iteration"} : Rank(m) = 4
  /\ Rank("samples") = 5 /\ Rank("sink") = 6
BY DEF Rank

LEMMA BoundOf ==
  ASSUME NEW f \in Functions
  PROVE  /\ f = "initValues" => Bound(f) = 1
         /\ f \in {"readEvent", "dispatch", "create", "operate", "initialize"} => Bound(f) = 2
         /\ f \in {"get_value", "set_value"} => Bound(f) = 3
         /\ f \in {"ownThread", "handleTaskExecutions", "get_free_buffer", "return_buffer",
                   "postTask", "removeTask", "addAddress", "get_gpio_resource", "join"}
            => Bound(f) = 4
         /\ f \in {"putSample", "average", "copySamples"} => Bound(f) = 5
         /\ f = "log" => Bound(f) = 6
         /\ f \in {"do_devices", "task", "oneIteration", "writeEvent"} => Bound(f) = 0
BY DEF Bound

\* A call leads to a function that may hold as much, and never to initValues.
LEMMA Nested ==
  ASSUME NEW f \in Functions, NEW g \in Calls[f]
  PROVE  /\ g \in Functions
         /\ g # "initValues"
         /\ Bound(f) <= Bound(g)
         /\ f \in Early => g \in Early
<1> USE AllFunctions, CallsOf DEF Early
<1> USE DEF RequestCalls, TaskCalls, IterationCalls, OwnThreadCalls, ReadEventCalls,
            WriteEventCalls, DispatchCalls, CreateCalls, OperateCalls, InitValuesCalls,
            InitializeCalls, SettingCalls, ChooseCalls, BorrowCalls, LogCalls
<1>1. CASE f \in {"do_devices", "task", "oneIteration", "ownThread", "handleTaskExecutions"}
  BY <1>1 DEF Bound
<1>2. CASE f \in {"readEvent", "writeEvent", "dispatch", "create", "operate", "initValues"}
  BY <1>2 DEF Bound
<1>3. CASE f \in {"initialize", "get_value", "set_value", "get_free_buffer", "return_buffer"}
  BY <1>3 DEF Bound
<1>4. CASE f \in {"postTask", "removeTask", "addAddress", "get_gpio_resource", "putSample",
                  "average", "copySamples", "join", "log"}
  BY <1>4 DEF Bound
<1> QED BY <1>1, <1>2, <1>3, <1>4

\* What a function awaits ranks above all that its caller may hold, or is a
\* recursive mutex that the caller holds wherever it holds one of its rank, or
\* is the initialisation.
LEMMA Upward ==
  ASSUME NEW f \in Functions, NEW g \in Calls[f], Awaits(g) # None
  PROVE  \/ Bound(f) < Rank(Awaits(g))
         \/ f = "handleTaskExecutions" /\ Awaits(g) = "tasks"
         \/ f = "readEvent" /\ Awaits(g) = "table" /\ Bound(f) = 2
         \/ g \in {"readEvent", "writeEvent"}
<1> g \in Functions BY Nested
<1> USE AllFunctions, CallsOf, RankOf, NoneIsNone
<1> USE DEF RequestCalls, TaskCalls, IterationCalls, OwnThreadCalls, ReadEventCalls,
            WriteEventCalls, DispatchCalls, CreateCalls, OperateCalls, InitValuesCalls,
            InitializeCalls, SettingCalls, ChooseCalls, BorrowCalls, LogCalls
<1>1. CASE f \in {"do_devices", "task", "oneIteration"}
  BY <1>1, MutexOf, AwaitsOf, BoundOf
<1>2. CASE f \in {"ownThread", "handleTaskExecutions"}
  BY <1>2, MutexOf, AwaitsOf, BoundOf
<1>3. CASE f \in {"readEvent", "writeEvent", "dispatch"}
  BY <1>3, MutexOf, AwaitsOf, BoundOf
<1>4. CASE f \in {"create", "operate"}
  BY <1>4, MutexOf, AwaitsOf, BoundOf
<1>5. CASE f \in {"initValues", "initialize", "get_value", "set_value"}
  BY <1>5, MutexOf, AwaitsOf, BoundOf
<1>6. CASE f \in {"get_free_buffer", "return_buffer", "postTask", "removeTask", "addAddress"}
  BY <1>6, MutexOf, AwaitsOf, BoundOf
<1>7. CASE f \in {"get_gpio_resource", "putSample", "average", "copySamples", "join", "log"}
  BY <1>7, MutexOf, AwaitsOf, BoundOf
<1> QED BY <1>1, <1>2, <1>3, <1>4, <1>5, <1>6, <1>7

\* A function holds at most what its bound says; only initValues holds "once".
LEMMA HoldsWithin ==
  ASSUME NEW f \in Functions
  PROVE  /\ Mutex(f) # None => Rank(Mutex(f)) <= Bound(f)
         /\ Mutex(f) = "once" <=> f = "initValues"
         /\ Bound(f) \in 0..6
BY NoneIsNone, AllFunctions, MutexOf, RankOf, BoundOf

\* The functions a thread is in hold no more than every later one allows.
Within(t) == \A i, j \in 1..Len(stack[t]) :
  i <= j /\ Mutex(stack[t][i]) # None => Rank(Mutex(stack[t][i])) <= Bound(stack[t][j])

\* A thread only waits to enter what it can call.
Known(t) == wanted[t] # None => wanted[t] \in Callees(t)

\* Until initValues has returned in the main task, everybody is in functions
\* that never ask for an event.
Starting(t) ==
  /\ \A i \in 1..Len(stack[t]) : /\ ~initialised => stack[t][i] \in Early
                                 /\ stack[t][i] = "initValues" =>
                                      t = Main /\ i = 1 /\ ~initialised
  /\ ~initialised /\ wanted[t] # None => wanted[t] \in Early
  /\ wanted[t] = "initValues" => t = Main /\ stack[t] = << >> /\ ~initialised

\* The two recursive mutexes that are taken again have one holder.
Alone == \A t, u \in Threads : t # u =>
  \A m \in {"table", "tasks"} : ~(Has(t, m) /\ Has(u, m))

\* The inductive invariant.
LockInv ==
  /\ LockTypeOK
  /\ \A t \in Threads : Within(t) /\ Known(t) /\ Starting(t)
  /\ Alone

\* The top of a stack.
Top(t) == stack[t][Len(stack[t])]

\* What threads start with, and what they call.
LEMMA EntriesKnown ==
  ASSUME NEW t \in Threads, initialised \in BOOLEAN, NEW f \in Entries(t)
  PROVE /\ f \in Functions
        /\ f = "initValues" => t = Main /\ ~initialised
        /\ ~initialised => f \in Early
BY AllFunctions DEF Entries, Early

LEMMA CalleesKnown ==
  ASSUME LockTypeOK, NEW t \in Threads, NEW f \in Callees(t)
  PROVE  /\ f \in Functions
         /\ stack[t] = << >> => f \in Entries(t)
         /\ stack[t] # << >> => /\ Top(t) \in Functions /\ f \in Calls[Top(t)]
                                /\ Len(stack[t]) \in 1..Len(stack[t])
<1> stack[t] \in Seq(Functions)
  BY DEF LockTypeOK
<1>1. CASE stack[t] = << >>
  BY <1>1, EntriesKnown DEF Callees, LockTypeOK
<1>2. CASE stack[t] # << >>
  <2>1. Top(t) \in Functions /\ Len(stack[t]) \in 1..Len(stack[t])
    BY <1>2 DEF Top
  <2> QED BY <1>2, <2>1, Nested DEF Callees, Top
<1> QED BY <1>1, <1>2

\* Every step keeps the types.
LEMMA StepTypes ==
  ASSUME LockTypeOK, NEW t \in Threads, Call(t) \/ Enter(t) \/ Return(t)
  PROVE  LockTypeOK'
<1>1. CASE Call(t)
  BY <1>1, CalleesKnown DEF Call, LockTypeOK
<1>2. CASE Enter(t)
  BY <1>2 DEF Enter, LockTypeOK
<1>3. CASE Return(t)
  <2>1. SubSeq(stack[t], 1, Len(stack[t]) - 1) \in Seq(Functions)
    BY <1>3 DEF Return, LockTypeOK
  <2> QED BY <1>3, <2>1 DEF Return, LockTypeOK
<1> QED BY <1>1, <1>2, <1>3

LEMMA StartTypes == LockInit => LockTypeOK
<1> << >> \in Seq(Functions)
  OBVIOUS
<1> HIDE DEF Functions
<1> QED BY DEF LockInit, LockTypeOK

\* The threads are in functions of the program and wait for such.
THEOREM LockTypesCorrect == LockSpec => []LockTypeOK
<1>1. LockTypeOK /\ [LockNext]_lockVars => LockTypeOK'
  <2>1. LockTypeOK /\ UNCHANGED lockVars => LockTypeOK'
    BY DEF lockVars, LockTypeOK
  <2> QED BY <2>1, StepTypes DEF LockNext
<1> QED BY <1>1, StartTypes, PTL DEF LockSpec

\* A thread that a step does not touch keeps its part of the invariant.
LEMMA OthersKeep ==
  ASSUME LockInv, NEW t \in Threads, initialised' = initialised,
         stack'[t] = stack[t], wanted'[t] = wanted[t]
  PROVE  Within(t)' /\ Known(t)' /\ Starting(t)'
BY DEF LockInv, Within, Known, Starting, Callees, Entries


LEMMA RankNat == \A m : Rank(m) \in 0..6
BY DEF Rank

\* The three kinds of steps.
LEMMA CallKeeps ==
  ASSUME LockInv, NEW t \in Threads, Call(t)
  PROVE  LockInv'
<1>1. LockTypeOK'
  BY StepTypes DEF LockInv
<1>2. PICK f \in Callees(t) : wanted' = [wanted EXCEPT ![t] = f]
  BY DEF Call
<1>3. UNCHANGED <<stack, initialised>> /\ f \in Functions
  BY CalleesKnown DEF LockInv, Call
<1>4. \A u \in Threads \ {t} : wanted'[u] = wanted[u]
  BY <1>2 DEF LockInv, LockTypeOK
<1>5. wanted'[t] = f
  BY <1>2 DEF LockInv, LockTypeOK
<1>6. \A u \in Threads \ {t} : Within(u)' /\ Known(u)' /\ Starting(u)'
  BY <1>3, <1>4, OthersKeep
<1>7. Within(t)' /\ Known(t)'
  BY <1>2, <1>3, <1>5 DEF LockInv, Within, Known, Callees, Entries
<1>8. Starting(t)'
  <2>1. f = "initValues" => t = Main /\ stack[t] = << >> /\ ~initialised
    BY EntriesKnown, CalleesKnown, Nested DEF LockInv, LockTypeOK
  <2>2. ~initialised => f \in Early
    <3>1. stack[t] # << >> /\ ~initialised => Top(t) \in Early
      BY CalleesKnown DEF LockInv, Starting, Top
    <3> QED BY <3>1, EntriesKnown, CalleesKnown, Nested DEF LockInv, LockTypeOK
  <2> QED BY <1>3, <1>5, <2>1, <2>2 DEF LockInv, Starting
<1>9. Alone'
  BY <1>3 DEF LockInv, Alone, Has
<1> QED BY <1>1, <1>6, <1>7, <1>8, <1>9 DEF LockInv

LEMMA EnterKeeps ==
  ASSUME LockInv, NEW t \in Threads, Enter(t)
  PROVE  LockInv'
<1> DEFINE f == wanted[t]
           n == Len(stack[t])
<1>1. LockTypeOK'
  BY StepTypes DEF LockInv
<1>2. /\ stack'[t] = Append(stack[t], f) /\ wanted'[t] = None
      /\ initialised' = initialised /\ f \in Functions /\ f # None /\ n \in Nat
      /\ stack[t] \in Seq(Functions)
  BY DEF LockInv, LockTypeOK, Enter
<1>3. /\ Len(stack'[t]) = n + 1 /\ stack'[t][n + 1] = f
      /\ \A i \in 1..n : stack'[t][i] = stack[t][i]
  BY <1>2
<1>4. \A u \in Threads \ {t} : stack'[u] = stack[u] /\ wanted'[u] = wanted[u]
  BY DEF LockInv, LockTypeOK, Enter
<1>5. \A u \in Threads \ {t} : Within(u)' /\ Known(u)' /\ Starting(u)'
  BY <1>2, <1>4, OthersKeep
<1>6. n # 0 => /\ Top(t) \in Functions /\ f \in Calls[Top(t)]
                /\ n \in 1..n
  BY <1>2, CalleesKnown DEF LockInv, Known
<1>7. \A i \in 1..n : Mutex(stack[t][i]) # None => Rank(Mutex(stack[t][i])) <= Bound(f)
  <2> SUFFICES ASSUME NEW i \in 1..n, Mutex(stack[t][i]) # None
               PROVE Rank(Mutex(stack[t][i])) <= Bound(f)
    OBVIOUS
  <2>1. Top(t) \in Functions /\ f \in Calls[Top(t)]
    BY <1>2, <1>6
  <2>2. Rank(Mutex(stack[t][i])) <= Bound(Top(t))
    BY <1>2, <1>6 DEF LockInv, Within, Top
  <2>3. Bound(Top(t)) <= Bound(f) /\ Bound(Top(t)) \in 0..6 /\ Bound(f) \in 0..6
    BY <1>2, <2>1, Nested, HoldsWithin
  <2>4. Rank(Mutex(stack[t][i])) \in Nat
    BY RankNat
  <2> QED BY <2>2, <2>3, <2>4
<1>8. Within(t)'
  <2> SUFFICES ASSUME NEW i \in 1..n + 1, NEW j \in 1..n + 1, i <= j,
                      Mutex(stack'[t][i]) # None
               PROVE  Rank(Mutex(stack'[t][i])) <= Bound(stack'[t][j])
    BY <1>3 DEF Within
  <2>1. CASE j <= n
    BY <1>2, <1>3, <2>1 DEF LockInv, Within
  <2>2. CASE j = n + 1 /\ i <= n
    BY <1>2, <1>3, <1>7, <2>2
  <2>3. CASE j = n + 1 /\ i = n + 1
    BY <1>2, <1>3, <2>3, HoldsWithin
  <2> QED BY <1>2, <2>1, <2>2, <2>3
<1>9. Known(t)'
  BY <1>2 DEF Known
<1>10. Starting(t)'
  <2>1. f = "initValues" => t = Main /\ n = 0 /\ ~initialised
    BY <1>2 DEF LockInv, Starting
  <2>2. ~initialised => f \in Early
    BY <1>2 DEF LockInv, Starting
  <2>3. ASSUME NEW i \in 1..n + 1
        PROVE  /\ ~initialised => stack'[t][i] \in Early
               /\ stack'[t][i] = "initValues" => t = Main /\ i = 1 /\ ~initialised
    <3>1. CASE i = n + 1
      BY <1>3, <2>1, <2>2, <3>1
    <3>2. CASE i \in 1..n
      BY <1>3, <3>2 DEF LockInv, Starting
    <3> QED BY <1>2, <3>1, <3>2
  <2>4. wanted'[t] # "initValues"
    BY <1>2, NoneIsNone, AllFunctions
  <2> QED BY <1>2, <1>3, <2>3, <2>4 DEF Starting
<1>11. Alone'
  <2>1. ASSUME NEW m, Has(t, m)', m # Mutex(f) PROVE Has(t, m)
    <3>1. PICK i \in 1..n + 1 : Mutex(stack'[t][i]) = m
      BY <1>3, <2>1 DEF Has
    <3>2. i \in 1..Len(stack[t]) /\ stack'[t][i] = stack[t][i]
      BY <1>2, <1>3, <2>1, <3>1
    <3> QED BY <3>1, <3>2 DEF Has
  <2>2. ASSUME NEW u \in Threads \ {t}, NEW m PROVE Has(u, m)' <=> Has(u, m)
    BY <1>4 DEF Has
  <2>3. ASSUME NEW u \in Threads \ {t}, NEW m \in {"table", "tasks"}, m = Mutex(f)
        PROVE  ~Has(u, m)
    <3>1. Awaits(f) = m /\ m # None
      BY <1>2, <2>3, NoneIsNone, AllFunctions, MutexOf, AwaitsOf
    <3> QED BY <1>2, <2>3, <3>1 DEF Enter, Blocks
  <2> QED BY <2>1, <2>2, <2>3 DEF LockInv, Alone
<1> QED BY <1>1, <1>5, <1>8, <1>9, <1>10, <1>11 DEF LockInv

LEMMA ReturnKeeps ==
  ASSUME LockInv, NEW t \in Threads, Return(t)
  PROVE  LockInv'
<1> DEFINE n == Len(stack[t])
<1>1. LockTypeOK'
  BY StepTypes DEF LockInv
<1>2. /\ stack[t] \in Seq(Functions) /\ n \in Nat \ {0}
      /\ wanted[t] = None /\ UNCHANGED wanted /\ initialised \in BOOLEAN
      /\ initialised' = (initialised \/ stack[t][n] = "initValues")
      /\ stack'[t] = SubSeq(stack[t], 1, n - 1)
  BY DEF LockInv, LockTypeOK, Return
<1>3. Len(stack'[t]) = n - 1 /\ \A i \in 1..n - 1 : stack'[t][i] = stack[t][i]
  BY <1>2
<1>4. \A u \in Threads \ {t} : stack'[u] = stack[u]
  BY DEF LockInv, LockTypeOK, Return
<1>5. stack[t][n] = "initValues" => t = Main /\ n = 1 /\ ~initialised
  <2>1. n \in 1..Len(stack[t])
    BY <1>2
  <2> QED BY <2>1 DEF LockInv, Starting
<1>6. \A u \in Threads \ {t} : Within(u)' /\ Known(u)' /\ Starting(u)'
  <2> SUFFICES ASSUME NEW u \in Threads \ {t} PROVE Within(u)' /\ Known(u)' /\ Starting(u)'
    OBVIOUS
  <2>1. CASE stack[t][n] # "initValues"
    BY <1>2, <1>4, <2>1, OthersKeep
  <2>2. CASE stack[t][n] = "initValues"
    <3>1. Within(u)' /\ Starting(u)'
      BY <1>2, <1>4, <1>5, <2>2 DEF LockInv, Within, Starting
    <3>2. Known(u)'
      <4>1. Entries(u) \subseteq Entries(u)' \cup {"initValues"}
        BY <1>2, <1>5, <2>2 DEF Entries
      <4>2. wanted[u] # "initValues"
        BY <1>5, <2>2 DEF LockInv, Starting
      <4> QED BY <1>2, <1>4, <4>1, <4>2 DEF LockInv, Known, Callees
    <3> QED BY <3>1, <3>2
  <2> QED BY <2>1, <2>2
<1>7. Within(t)' /\ Known(t)'
  <2>1. Within(t)'
    <3> SUFFICES ASSUME NEW i \in 1..n - 1, NEW j \in 1..n - 1, i <= j,
                        Mutex(stack'[t][i]) # None
                 PROVE  Rank(Mutex(stack'[t][i])) <= Bound(stack'[t][j])
      BY <1>3 DEF Within
    <3>1. /\ i \in 1..Len(stack[t]) /\ j \in 1..Len(stack[t])
          /\ stack'[t][i] = stack[t][i] /\ stack'[t][j] = stack[t][j]
      BY <1>2, <1>3
    <3> QED BY <3>1 DEF LockInv, Within
  <2>2. Known(t)'
    BY <1>2 DEF Known
  <2> QED BY <2>1, <2>2
<1>8. Starting(t)'
  <2> wanted'[t] # "initValues"
    BY <1>2, NoneIsNone, AllFunctions
  <2>1. CASE stack[t][n] # "initValues"
    <3>1. initialised' = initialised
      BY <1>2, <2>1
    <3> QED BY <1>2, <1>3, <3>1 DEF LockInv, Starting
  <2>2. CASE stack[t][n] = "initValues"
    BY <1>2, <1>3, <1>5, <2>2 DEF LockInv, Starting
  <2> QED BY <2>1, <2>2
<1>9. Alone'
  <2>1. ASSUME NEW u \in Threads, NEW m, Has(u, m)' PROVE Has(u, m)
    <3>1. CASE u # t
      BY <1>4, <2>1, <3>1 DEF Has
    <3>2. CASE u = t
      <4>1. PICK i \in 1..n - 1 : Mutex(stack'[t][i]) = m
        BY <1>3, <2>1, <3>2 DEF Has
      <4>2. i \in 1..Len(stack[t]) /\ stack'[t][i] = stack[t][i]
        BY <1>2, <1>3
      <4> QED BY <3>2, <4>1, <4>2 DEF Has
    <3> QED BY <3>1, <3>2
  <2> QED BY <2>1 DEF LockInv, Alone
<1> QED BY <1>1, <1>6, <1>7, <1>8, <1>9 DEF LockInv

\* The invariant is inductive.
LEMMA LocksKept == LockSpec => []LockInv
<1>1. LockInit => LockInv
  <2> SUFFICES ASSUME LockInit PROVE LockInv
    OBVIOUS
  <2>1. LockTypeOK
    BY StartTypes
  <2>2. \A t \in Threads : stack[t] = << >> /\ wanted[t] = None /\ Len(stack[t]) = 0
    BY DEF LockInit
  <2>3. None # "initValues"
    BY NoneIsNone, AllFunctions
  <2> QED BY <2>1, <2>2, <2>3 DEF LockInv, Within, Known, Starting, Alone, Has
<1>2. LockInv /\ [LockNext]_lockVars => LockInv'
  <2> SUFFICES ASSUME LockInv, [LockNext]_lockVars PROVE LockInv'
    OBVIOUS
  <2>1. CASE UNCHANGED lockVars
    BY <2>1 DEF lockVars, LockInv, LockTypeOK, Within, Known, Starting, Alone, Has, Callees, Entries
  <2> QED BY <2>1, CallKeeps, EnterKeeps, ReturnKeeps DEF LockNext
<1> QED BY <1>1, <1>2, PTL DEF LockSpec

\* The rank of what a thread waits for.
WaitRank(t) == Rank(Awaits(wanted[t]))

\* Nobody is kept waiting by the initialisation.
LEMMA NobodyAwaitsStart ==
  ASSUME LockInv, NEW t \in Threads, NEW u \in Threads, Blocks(u, t)
  PROVE  Awaits(wanted[t]) # "once"
<1> SUFFICES ASSUME Awaits(wanted[t]) = "once" PROVE FALSE
  OBVIOUS
<1>1. wanted[t] \in Functions
  BY DEF Blocks, LockInv, LockTypeOK
<1>2. PICK i \in 1..Len(stack[u]) : Mutex(stack[u][i]) = "once"
  BY DEF Blocks, Has
<1>3. stack[u][i] \in Functions
  BY <1>2 DEF LockInv, LockTypeOK
<1>4. stack[u][i] = "initValues"
  BY <1>2, <1>3, NoneIsNone, HoldsWithin
<1>5. u = Main /\ ~initialised /\ stack[u] # << >>
  BY <1>2, <1>4 DEF LockInv, Starting
<1>6. wanted[t] \in {"readEvent", "writeEvent", "initValues"}
  BY <1>1, NoneIsNone, AllFunctions, MutexOf, AwaitsOf
<1>7. wanted[t] # "initValues"
  BY <1>5 DEF LockInv, Starting
<1>8. wanted[t] \in Early
  BY <1>5 DEF LockInv, Starting, Blocks
<1> QED BY <1>6, <1>7, <1>8 DEF Early

\* Who keeps another waiting and is kept waiting waits for a higher mutex.
LEMMA HolderWaitsHigher ==
  ASSUME LockInv, NEW t \in Threads, NEW u \in Threads, NEW v \in Threads,
         Blocks(u, t), Blocks(v, u)
  PROVE  WaitRank(t) < WaitRank(u)
<1> DEFINE f == wanted[u]
           m == Awaits(wanted[t])
<1>1. PICK i \in 1..Len(stack[u]) : Mutex(stack[u][i]) = m
  BY DEF Blocks, Has
<1>2. /\ m # None /\ f \in Functions /\ Awaits(f) # None /\ f # None
      /\ stack[u] \in Seq(Functions) /\ wanted[t] \in Functions
  BY DEF Blocks, LockInv, LockTypeOK
<1>3. /\ Top(u) \in Functions /\ f \in Calls[Top(u)]
      /\ Len(stack[u]) \in 1..Len(stack[u])
  BY <1>1, <1>2, CalleesKnown DEF LockInv, Known
<1>4. Rank(m) <= Bound(Top(u))
  BY <1>1, <1>2, <1>3 DEF LockInv, Within, Top
<1>5. f \notin {"readEvent", "writeEvent"}
  BY <1>2, NobodyAwaitsStart, AwaitsOf
<1>6. m # "once"
  BY NobodyAwaitsStart
<1>7. ~Has(u, Awaits(f)) \/ Awaits(f) \notin {"table", "tasks"}
  BY DEF Blocks, LockInv, Alone, Recursive
<1>8. CASE Bound(Top(u)) < Rank(Awaits(f))
  BY <1>3, <1>4, <1>8, HoldsWithin, RankNat DEF WaitRank
<1>9. CASE Top(u) = "handleTaskExecutions" /\ Awaits(f) = "tasks"
  <2>1. Mutex(Top(u)) = "tasks"
    BY <1>3, <1>9, MutexOf
  <2> QED BY <1>3, <1>7, <1>9, <2>1 DEF Has, Top
<1>10. CASE Top(u) = "readEvent" /\ Awaits(f) = "table" /\ Bound(Top(u)) = 2
  <2>1. m # "table"
    BY <1>1, <1>7, <1>10 DEF Has
  <2>2. Rank(m) >= 3
    BY <1>2, <1>6, <2>1, NoneIsNone, AllFunctions, MutexOf, AwaitsOf, RankOf
  <2> QED BY <1>4, <1>10, <2>2, RankNat
<1> QED BY <1>2, <1>3, <1>5, <1>8, <1>9, <1>10, Upward

\* Among finitely many ranks no set of threads always finds a higher one.
LEMMA NoEndlessClimb ==
  ASSUME NEW S, S # {}, NEW w \in [S -> 0..6], \A s \in S : \E u \in S : w[s] < w[u]
  PROVE  FALSE
<1>1. \E s \in S : w[s] >= 1
  OBVIOUS
<1>2. \E s \in S : w[s] >= 2
  BY <1>1
<1>3. \E s \in S : w[s] >= 3
  BY <1>2
<1>4. \E s \in S : w[s] >= 4
  BY <1>3
<1>5. \E s \in S : w[s] >= 5
  BY <1>4
<1>6. \E s \in S : w[s] >= 6
  BY <1>5
<1>7. \E s \in S : w[s] >= 7
  BY <1>6
<1> QED BY <1>7

\* No threads of the program wait for each other in a circle, and none for
\* itself, whatever devices use each other and however deep the calls are.
THEOREM DeadlockFree == LockSpec => []NoDeadlock
<1>1. LockInv => NoDeadlock
  <2> SUFFICES ASSUME LockInv, NEW group \in (SUBSET Threads) \ {{}},
                      ~\E t \in group : \A u \in group : ~Blocks(u, t)
               PROVE  FALSE
    BY DEF NoDeadlock
  <2> DEFINE w == [t \in group |-> WaitRank(t)]
  <2>1. w \in [group -> 0..6]
    BY RankNat DEF WaitRank
  <2>2. \A t \in group : \E u \in group : w[t] < w[u]
    <3> SUFFICES ASSUME NEW t \in group PROVE \E u \in group : w[t] < w[u]
      OBVIOUS
    <3>1. PICK u \in group : Blocks(u, t)
      OBVIOUS
    <3>2. PICK v \in group : Blocks(v, u)
      OBVIOUS
    <3>3. WaitRank(t) < WaitRank(u)
      BY <3>1, <3>2, HolderWaitsHigher
    <3> QED BY <3>3
  <2>3. group # {}
    OBVIOUS
  <2> HIDE DEF w
  <2> QED BY <2>1, <2>2, <2>3, NoEndlessClimb
<1> QED BY <1>1, LocksKept, PTL

-----------------------------------------------------------------------------
\* The parts of MCStorage share no state: a behaviour of all is one of each.
LEMMA PartsAlone == StorageSpec => Spec /\ FlashSpec /\ LockSpec
<1>1. StorageInit => Init /\ FlashInit /\ LockInit
  BY DEF StorageInit
<1>2. [StorageNext]_<<part, vars, flashVars, lockVars>>
        => [Next]_vars /\ [FlashNext]_flashVars /\ [LockNext]_lockVars
  BY DEF StorageNext, SettingStep, FlashStep, LockStep
<1> QED BY <1>1, <1>2, PTL DEF StorageSpec, Spec, FlashSpec, LockSpec

\* All that the run of MCStorage checks, for any values, users of the partition,
\* workers and drivers and calls of any depth, if fclose keeps its word.
THEOREM StorageCorrect ==
  ASSUME "close" \notin Faults
  PROVE  StorageSpec =>
           /\ [](/\ TypeOK /\ WrittenIsDurable /\ ReadsOwnWrites
                 /\ ImageRestored /\ NoDeadlock)
           /\ Atomic
BY PartsAlone, TypeCorrect, WrittenDurable, ReadYourWrites, SavesAtomically,
   UploadsUndisturbed, DeadlockFree, PTL
=============================================================================
