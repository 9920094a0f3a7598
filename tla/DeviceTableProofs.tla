------------------------- MODULE DeviceTableProofs -------------------------
(* Theorems about DeviceTable, for every size, set of drivers and names.   *)
EXTENDS DeviceTable, TLAPS

\* A free slot in a file has no name either.
FileIsClean == \A i \in Index : ~ file.initialized[i] => file.names[i] = Empty

SlotInv == RuntimeOwned /\ FreeIsClean /\ FileIsClean

\* The names a table or a file holds are the ones given, each to one device.
Distinct(n) == \A i, j \in Index : n[i] = n[j] /\ n[i] # Empty => i = j

NamesInv ==
  /\ names = given /\ file.names = filed
  /\ Distinct(given) /\ Distinct(filed)

\* ConfigOfDriver, in the table and in the file.
ConfigInv ==
  /\ ConfigOfDriver
  /\ \A i \in Index :
       file.initialized[i] => file.values[i].data = file.values[i].driver

\* While no rename has failed, m_written is what a boot reads.
SavedInv == AnsweredIsSaved /\ (assigned /\ ~ astray => written = file)

-----------------------------------------------------------------------------
LEMMA ZeroedTable == Zeroed \in Table
  BY TableAssumption DEF Zeroed, Table, Config, Blank

\* The variables keep their types.
THEOREM TypeCorrect == Spec => []TypeOK
<1>1. Init => TypeOK
  <2> SUFFICES ASSUME Init PROVE TypeOK
    OBVIOUS
  <2>1. /\ values \in [Index -> Config] /\ initialized \in [Index -> BOOLEAN]
        /\ names \in [Index -> Names \ TooLong] /\ given \in [Index -> Names]
    BY TableAssumption DEF Init, Zeroed, Config, Blank
  <2>2. file \in Table /\ written \in Table /\ filed \in [Index -> Names]
    BY <2>1, ZeroedTable DEF Init
  <2> QED
    BY <2>1, <2>2 DEF Init, TypeOK
<1>2. TypeOK /\ [Next]_vars => TypeOK'
  <2> SUFFICES ASSUME TypeOK, [Next]_vars PROVE TypeOK'
    OBVIOUS
  <2> USE TableAssumption DEF TypeOK, Config, Blank, disk, save
  <2>1. ASSUME NEW i \in Index, NEW name \in Names, NEW d \in Drivers,
               Add(i, name, d)
        PROVE  TypeOK'
    BY <2>1 DEF Add, Configured, SetName, Stored
  <2>2. ASSUME NEW i \in Index, NEW d \in Drivers, AddFails(i, d)
        PROVE  TypeOK'
    <3>1. values' \in [Index -> Config]
      BY <2>2 DEF AddFails, Configured
    <3> QED
      BY <2>2, <3>1 DEF AddFails, DropOld, Stored
  <2>3. ASSUME NEW name \in Names, NEW d \in Drivers, AddDevice(name, d)
        PROVE  TypeOK'
    BY <2>1, <2>2, <2>3 DEF AddDevice, FindIndex, First, Named, Free
  <2>4. ASSUME NEW i \in Index, RemoveDevice(i) PROVE TypeOK'
    BY <2>4 DEF RemoveDevice, ClearName, Stored
  <2>5. ASSUME NEW i \in Index, WriteOptions(i) PROVE TypeOK'
    BY <2>5 DEF WriteOptions, SetName, Stored
  <2>6. CASE LeaveTable
    BY <2>6 DEF LeaveTable, Stored, table
  <2>7. CASE Save \/ SkipSave \/ SaveFails
    <3>1. data \in Table
      BY DEF data, Table
    <3>2. CASE Save
      BY <3>1, <3>2 DEF Save, Filed, table
    <3>3. CASE SkipSave
      BY <3>3 DEF SkipSave, table
    <3>4. CASE SaveFails
      BY <3>1, <3>4 DEF SaveFails, Filed, KeepWritten, table
    <3> QED
      BY <2>7, <3>2, <3>3, <3>4
  <2>8. CASE Reboot
    <3>1. /\ file.values \in [Index -> Config]
          /\ file.initialized \in [Index -> BOOLEAN]
          /\ file.names \in [Index -> Names \ TooLong]
      BY DEF Table
    <3>2. runtimeData' \in [Index -> Drivers \cup {NoDriver}]
      BY <2>8, <3>1 DEF Reboot, CreateRuntime
    <3> QED
      BY <2>8, <3>1, <3>2, ZeroedTable DEF Reboot, Cleared
  <2>9. CASE RebootUnread
    <3>1. /\ Zeroed.values \in [Index -> Config]
          /\ Zeroed.initialized \in [Index -> BOOLEAN]
          /\ Zeroed.names \in [Index -> Names \ TooLong]
      BY ZeroedTable DEF Table
    <3> QED
      BY <2>9, <3>1, ZeroedTable DEF RebootUnread, Cleared
  <2>10. CASE UNCHANGED vars
    BY <2>10 DEF vars, table
  <2> QED
    BY <2>3, <2>4, <2>5, <2>6, <2>7, <2>8, <2>9, <2>10 DEF Next
<1> QED
  BY <1>1, <1>2, PTL DEF Spec

\* A slot's device, name and flag agree in every step, whatever fails.
LEMMA SlotInvariant == Spec => []SlotInv
<1>1. Init => SlotInv
  <2> SUFFICES ASSUME Init PROVE SlotInv
    OBVIOUS
  <2>1. RuntimeOwned /\ FreeIsClean
    BY DEF Init, Zeroed, RuntimeOwned, FreeIsClean
  <2>2. FileIsClean
    BY DEF Init, FileIsClean, Zeroed
  <2> QED
    BY <2>1, <2>2 DEF SlotInv
<1>2. TypeOK /\ SlotInv /\ [Next]_vars => SlotInv'
  <2> SUFFICES ASSUME TypeOK, SlotInv, [Next]_vars PROVE SlotInv'
    OBVIOUS
  <2> USE TableAssumption DEF SlotInv, RuntimeOwned, FreeIsClean, FileIsClean,
          TypeOK, Config, Blank, disk
  <2>1. ASSUME NEW i \in Index, NEW name \in Names, NEW d \in Drivers,
               Add(i, name, d)
        PROVE  SlotInv'
    BY <2>1 DEF Add, Configured, SetName
  <2>2. ASSUME NEW i \in Index, NEW d \in Drivers, AddFails(i, d)
        PROVE  SlotInv'
    <3>1. \A j \in Index : j # i => values'[j] = values[j]
      BY <2>2 DEF AddFails
    <3> QED
      BY <2>2, <3>1 DEF AddFails, DropOld
  <2>3. ASSUME NEW name \in Names, NEW d \in Drivers, AddDevice(name, d)
        PROVE  SlotInv'
    BY <2>1, <2>2, <2>3 DEF AddDevice, FindIndex, First, Named, Free
  <2>4. ASSUME NEW i \in Index, RemoveDevice(i) PROVE SlotInv'
    BY <2>4 DEF RemoveDevice, ClearName
  <2>5. ASSUME NEW i \in Index, WriteOptions(i) PROVE SlotInv'
    <3>1. \A j \in Index : values'[j].driver = values[j].driver
      BY <2>5 DEF WriteOptions
    <3> QED
      BY <2>5, <3>1 DEF WriteOptions, SetName
  <2>6. CASE LeaveTable
    BY <2>6 DEF LeaveTable, table
  <2>7. CASE Save \/ SkipSave \/ SaveFails
    <3>1. file' = data \/ file' = file
      BY <2>7 DEF Save, SkipSave, SaveFails, Filed
    <3>2. UNCHANGED <<table, runtimeData>>
      BY <2>7 DEF Save, SkipSave, SaveFails
    <3>3. FileIsClean'
      BY <3>1 DEF data
    <3> QED
      BY <3>2, <3>3 DEF table
  <2>8. CASE Reboot
    BY <2>8 DEF Reboot, Cleared, CreateRuntime
  <2>9. CASE RebootUnread
    BY <2>9 DEF RebootUnread, Cleared, Zeroed
  <2>10. CASE UNCHANGED vars
    BY <2>10 DEF vars, table
  <2> QED
    BY <2>3, <2>4, <2>5, <2>6, <2>7, <2>8, <2>9, <2>10 DEF Next
<1> QED
  BY <1>1, <1>2, TypeCorrect, PTL DEF Spec

\* Whatever fails and whenever the power does, a run-time device is that of
\* its slot's configuration.
THEOREM DevicesOwned == Spec => []RuntimeOwned
<1>1. SlotInv => RuntimeOwned
  BY DEF SlotInv
<1> QED
  BY <1>1, SlotInvariant, PTL

\* Nothing of a removed or rejected device is ever found in a free slot.
THEOREM FreeSlotsClean == Spec => []FreeIsClean
<1>1. SlotInv => FreeIsClean
  BY DEF SlotInv
<1> QED
  BY <1>1, SlotInvariant, PTL

\* Clients that add by names that fit, and only remove otherwise, never get
\* two devices of one name, across all boots and failed saves.
THEOREM NamesIdentify ==
  ASSUME Requests = {}, TooLong = {} PROVE Spec => []OneDevicePerName
<1>1. Init => NamesInv
  BY DEF Init, NamesInv, Distinct, Zeroed
<1>2. TypeOK /\ NamesInv /\ [Next]_vars => NamesInv'
  <2> SUFFICES ASSUME TypeOK, NamesInv, [Next]_vars PROVE NamesInv'
    OBVIOUS
  <2> USE DEF NamesInv, Distinct, TypeOK, disk
  <2>1. ASSUME NEW name \in Names, NEW d \in Drivers, AddDevice(name, d)
        PROVE  NamesInv'
    <3>1. PICK i \in FindIndex(name) : Add(i, name, d) \/ AddFails(i, d)
      BY <2>1 DEF AddDevice
    <3>2. CASE Add(i, name, d)
      <4>1. /\ names' = [names EXCEPT ![i] = name]
            /\ given' = [given EXCEPT ![i] = name]
            /\ UNCHANGED disk
        BY <3>2 DEF Add, SetName
      <4>2. \A j \in Index : names[j] = name => names[i] = name
        BY <3>1 DEF FindIndex, First, Named
      <4> QED
        BY <4>1, <4>2
    <3>3. CASE AddFails(i, d)
      BY <3>3 DEF AddFails
    <3> QED
      BY <3>1, <3>2, <3>3
  <2>2. ASSUME NEW i \in Index, RemoveDevice(i) PROVE NamesInv'
    BY <2>2 DEF RemoveDevice, ClearName
  <2>3. ASSUME NEW i \in Index, WriteOptions(i) PROVE NamesInv'
    BY <2>3 DEF WriteOptions
  <2>4. CASE LeaveTable
    BY <2>4 DEF LeaveTable, table
  <2>5. CASE Save \/ SkipSave \/ SaveFails
    <3>1. \/ UNCHANGED disk
          \/ file'.names = names /\ filed' = given
      BY <2>5 DEF Save, SkipSave, SaveFails, Filed, data
    <3>2. UNCHANGED table
      BY <2>5 DEF Save, SkipSave, SaveFails
    <3> QED
      BY <3>1, <3>2 DEF table
  <2>6. CASE Reboot
    BY <2>6 DEF Reboot, Cleared
  <2>7. CASE RebootUnread
    BY <2>7 DEF RebootUnread, Cleared, Zeroed
  <2>8. CASE UNCHANGED vars
    BY <2>8 DEF vars, table
  <2> QED
    BY <2>1, <2>2, <2>3, <2>4, <2>5, <2>6, <2>7, <2>8 DEF Next
<1>3. NamesInv => OneDevicePerName
  BY DEF NamesInv, Distinct, OneDevicePerName
<1> QED
  BY <1>1, <1>2, <1>3, TypeCorrect, PTL DEF Spec

\* Every stored configuration was written by the driver it names, provided
\* that no driver rejects an update before it has inserted its data.
THEOREM ConfigsMatch ==
  ASSUME "rejected" \notin Refusals PROVE Spec => []ConfigOfDriver
<1>1. Init => ConfigInv
  BY DEF Init, ConfigInv, ConfigOfDriver, Zeroed
<1>2. TypeOK /\ SlotInv /\ ConfigInv /\ [Next]_vars => ConfigInv'
  <2> SUFFICES ASSUME TypeOK, SlotInv, ConfigInv, [Next]_vars PROVE ConfigInv'
    OBVIOUS
  <2> USE TableAssumption DEF ConfigInv, ConfigOfDriver, TypeOK, Config, Blank, disk
  <2>1. ASSUME NEW i \in Index, NEW name \in Names, NEW d \in Drivers,
               Add(i, name, d) \/ AddFails(i, d)
        PROVE  ConfigInv'
    <3>1. CASE Add(i, name, d)
      BY <3>1 DEF Add, Configured
    <3>2. CASE AddFails(i, d)
      BY <3>2 DEF AddFails, Configured
    <3> QED
      BY <2>1, <3>1, <3>2
  <2>2. ASSUME NEW name \in Names, NEW d \in Drivers, AddDevice(name, d)
        PROVE  ConfigInv'
    BY <2>1, <2>2 DEF AddDevice, FindIndex, First, Named, Free
  <2>3. ASSUME NEW i \in Index, RemoveDevice(i) PROVE ConfigInv'
    BY <2>3 DEF RemoveDevice
  <2>4. ASSUME NEW i \in Index, WriteOptions(i) PROVE ConfigInv'
    <3>1. initialized[i] /\ values[i].driver = runtimeData[i]
      BY <2>4 DEF WriteOptions, SlotInv, RuntimeOwned
    <3>2. values' = [values EXCEPT ![i].data = values[i].driver]
      BY <2>4, <3>1 DEF WriteOptions
    <3>3. \A j \in Index : j # i => values'[j] = values[j]
      BY <3>2
    <3>4. values'[i].data = values'[i].driver
      BY <3>2
    <3>5. initialized' = initialized /\ file' = file
      BY <2>4, <3>1 DEF WriteOptions
    <3> QED
      BY <3>3, <3>4, <3>5
  <2>5. CASE LeaveTable
    BY <2>5 DEF LeaveTable, table
  <2>6. CASE Save \/ SkipSave \/ SaveFails
    <3>1. file' = file \/ (file'.values = values /\ file'.initialized = initialized)
      BY <2>6 DEF Save, SkipSave, SaveFails, Filed, data
    <3>2. UNCHANGED table
      BY <2>6 DEF Save, SkipSave, SaveFails
    <3> QED
      BY <3>1, <3>2 DEF table
  <2>7. CASE Reboot
    BY <2>7 DEF Reboot, Cleared
  <2>8. CASE RebootUnread
    BY <2>8 DEF RebootUnread, Cleared, Zeroed
  <2>9. CASE UNCHANGED vars
    BY <2>9 DEF vars, table
  <2> QED
    BY <2>2, <2>3, <2>4, <2>5, <2>6, <2>7, <2>8, <2>9 DEF Next
<1>3. ConfigInv => ConfigOfDriver
  BY DEF ConfigInv
<1> QED
  BY <1>1, <1>2, <1>3, TypeCorrect, SlotInvariant, PTL DEF Spec

\* From a boot's first save that writes on, and while no rename fails, a boot
\* finds the table of every request that was answered after a save that worked
\* or had nothing to write, whatever else of any save failed before.
THEOREM Saved == Spec => []AnsweredIsSaved
<1>1. Init => SavedInv
  BY DEF Init, SavedInv, AnsweredIsSaved
<1>2. SavedInv /\ [Next]_vars => SavedInv'
  <2> SUFFICES ASSUME SavedInv, [Next]_vars PROVE SavedInv'
    OBVIOUS
  <2> USE DEF SavedInv, AnsweredIsSaved, disk, save
  <2>1. ASSUME UNCHANGED <<disk, save>>, unsaved' = TRUE PROVE SavedInv'
    BY <2>1
  <2>2. CASE \E name \in Names, d \in Drivers : AddDevice(name, d)
    BY <2>1, <2>2 DEF AddDevice, Add, AddFails, Stored
  <2>3. CASE \E i \in Index : RemoveDevice(i) \/ WriteOptions(i)
    BY <2>1, <2>3 DEF RemoveDevice, WriteOptions, Stored
  <2>4. CASE LeaveTable
    BY <2>1, <2>4 DEF LeaveTable, Stored
  <2>5. CASE Save
    BY <2>5 DEF Save, Filed, data, table
  <2>6. CASE SkipSave
    <3>1. assigned /\ ~ astray => file = data
      BY <2>6 DEF SkipSave
    <3> QED
      BY <2>6, <3>1 DEF SkipSave, data, table
  <2>7. CASE SaveFails
    BY <2>7 DEF SaveFails, KeepWritten
  <2>8. CASE Reboot \/ RebootUnread
    BY <2>8 DEF Reboot, RebootUnread, Cleared
  <2>9. CASE UNCHANGED vars
    BY <2>9 DEF vars, table, data
  <2> QED
    BY <2>2, <2>3, <2>4, <2>5, <2>6, <2>7, <2>8, <2>9 DEF Next
<1>3. SavedInv => AnsweredIsSaved
  BY DEF SavedInv
<1> QED
  BY <1>1, <1>2, <1>3, PTL DEF Spec
=============================================================================
