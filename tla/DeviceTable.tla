---------------------------- MODULE DeviceTable ----------------------------
(***************************************************************************)
(* The table of devices: EventAccessArray as DeviceSettings and the store  *)
(* use it.  A slot has a configuration that is persisted, a flag, a name   *)
(* and a device that exists at run time only.  Every request that may      *)
(* change the table comes from the HTTP server's thread, which saves the   *)
(* table before it takes the next request; a power failure may come        *)
(* between.  FilesystemSetting models the save itself, effect by effect;   *)
(* here it is a step with the outcomes a call that fails gives it, but for *)
(* what tears a table: a write or a read that stops in its middle, and an  *)
(* fclose that fails.                                                      *)
(***************************************************************************)
EXTENDS Naturals

CONSTANTS
  Size,        \* NumElements
  Drivers,     \* the names of the drivers built in
  NoDriver,    \* an empty driver name, a configuration or device not there
  Names,       \* descriptions of devices
  Empty,       \* the empty one among them
  TooLong,     \* those among them a BasicStackString<name_length> cannot hold
  Requests,    \* what clients do besides adding by name and removing
  Refusals,    \* the ways in which adding a device may fail
  Faults       \* what may fail of a save and of the load at boot

ASSUME TableAssumption ==
  /\ Size \in Nat \ {0}
  /\ NoDriver \notin Drivers
  /\ Empty \in Names /\ TooLong \subseteq Names \ {Empty}
  /\ Requests \subseteq {"index", "options"}
  /\ Refusals \subseteq {"unknown", "rejected", "late"}
  /\ Faults \subseteq {"save", "rename", "load"}

VARIABLES
  values,       \* data.values: the driver's name and whose data follows it
  initialized,  \* data.initialized
  names,        \* data.names
  given,        \* history: the name a slot's device was added under
  runtimeData,  \* runtimeData: the driver of the device there
  file,         \* what a boot reads, the file or where it is gone its .tmp
  written,      \* m_written
  filed,        \* history: `given' as of the table in `file'
  assigned,     \* history: a save has assigned m_written since boot
  astray,       \* history: since then or the boot a rename has failed
  lost,         \* history: the last save failed
  unsaved       \* a request was handled, its save is to come

data  == [values |-> values, initialized |-> initialized, names |-> names]
table == <<values, initialized, names, given>>
disk  == <<file, filed>>
save  == <<written, assigned, astray, lost>>
vars  == <<table, runtimeData, disk, save, unsaved>>

Index  == 0 .. Size - 1
Config == [driver : Drivers \cup {NoDriver}, data : Drivers \cup {NoDriver}]
Blank  == [driver |-> NoDriver, data |-> NoDriver]

\* Memory that was never assigned, the table and m_written at boot.
Zeroed == [values |-> [i \in Index |-> Blank],
           initialized |-> [i \in Index |-> FALSE],
           names |-> [i \in Index |-> Empty]]

\* The first boot, without a file.
Init ==
  /\ values = Zeroed.values /\ initialized = Zeroed.initialized
  /\ names = Zeroed.names /\ given = Zeroed.names
  /\ runtimeData = [i \in Index |-> NoDriver]
  /\ file = Zeroed /\ filed = given
  /\ written = Zeroed /\ assigned = FALSE
  /\ astray = FALSE /\ lost = FALSE
  /\ unsaved = FALSE

-----------------------------------------------------------------------------
First(S) == {i \in S : \A j \in S : i <= j}

Named(name) == {i \in Index : names[i] = name}
Free        == {i \in Index : ~ initialized[i]}

\* Mutant: the name is not looked for.
FindFree(name) == First(Free)
\* findIndex without an index: the first slot with the name, used or not, else
\* the first free one.
FindIndex(name) == First(IF Named(name) # {} THEN Named(name) ELSE Free)

\* Mutant: the name is assigned without a look at its length.
AnyName(i, name) == names' = [names EXCEPT ![i] = name]
\* The assignment of a name that does not fit changes nothing.
SetName(i, name) ==
  names' = IF name \in TooLong THEN names ELSE [names EXCEPT ![i] = name]

\* handleStore: the event's result is the data to save.
Stored == unsaved' = TRUE

\* Mutant: a new driver is tried before the old device is gone.
KeepOld(i) == UNCHANGED runtimeData
\* The old device is gone before a new one is tried.
DropOld(i) == runtimeData' = [runtimeData EXCEPT ![i] = NoDriver]

\* Mutant: the driver's name stays the one before.
KeepDriver(i, d) == [driver |-> IF values[i] = Blank THEN d ELSE values[i].driver,
                     data   |-> d]
\* create_device names the driver, create_driver inserts its data.
Configured(i, d) == [driver |-> d, data |-> d]

\* add_device in slot i, and its driver creates the device.
Add(i, name, d) ==
  /\ ~ unsaved
  /\ values' = [values EXCEPT ![i] = Configured(i, d)]
  /\ runtimeData' = [runtimeData EXCEPT ![i] = d]
  /\ initialized' = [initialized EXCEPT ![i] = TRUE]
  /\ SetName(i, name)
  /\ given' = [given EXCEPT ![i] = name]
  /\ Stored
  /\ UNCHANGED <<disk, save>>

\* add_device in slot i fails: no such driver, or create_driver fails before
\* or after it has inserted its data.
AddFails(i, d) ==
  /\ ~ unsaved
  /\ \/ "unknown" \in Refusals /\ UNCHANGED values
     \/ "rejected" \in Refusals /\ values' = [values EXCEPT ![i].driver = d]
     \/ "late" \in Refusals /\ values' = [values EXCEPT ![i] = Configured(i, d)]
  /\ DropOld(i)
  /\ Stored
  /\ UNCHANGED <<initialized, names, given, disk, save>>

\* POST, or PUT with an index.
AddDevice(name, d) ==
  \E i \in FindIndex(name) \cup IF "index" \in Requests THEN Index ELSE {} :
    Add(i, name, d) \/ AddFails(i, d)

\* The first character of the name becomes 0.
ClearName(i) == names' = [names EXCEPT ![i] = Empty]

\* RemoveValue, of a free slot too.
RemoveDevice(i) ==
  /\ ~ unsaved
  /\ runtimeData' = [runtimeData EXCEPT ![i] = NoDriver]
  /\ values' = [values EXCEPT ![i] = Blank]
  /\ ClearName(i)
  /\ given' = [given EXCEPT ![i] = Empty]
  /\ initialized' = [initialized EXCEPT ![i] = FALSE]
  /\ Stored
  /\ UNCHANGED <<disk, save>>

\* WriteDeviceOptions: the driver may write its data; the name, which the
\* event does not give, is set to the default, the empty one.
WriteOptions(i) ==
  /\ ~ unsaved
  /\ "options" \in Requests /\ runtimeData[i] # NoDriver
  /\ \E d \in {values[i].data, runtimeData[i]} :
       values' = [values EXCEPT ![i].data = d]
  /\ initialized' = [initialized EXCEPT ![i] = TRUE]
  /\ SetName(i, Empty)
  /\ Stored
  /\ UNCHANGED <<given, runtimeData, disk, save>>

\* A value written to a device, an index out of range, a full table: the table
\* stays as it is and is saved all the same.
LeaveTable ==
  /\ ~ unsaved
  /\ Stored
  /\ UNCHANGED <<table, runtimeData, disk, save>>

\* The table of RAM is what a boot reads.
Filed == file' = data /\ filed' = given

\* set_value with the data the event returned.
Save ==
  /\ unsaved /\ unsaved' = FALSE
  /\ Filed
  /\ written' = data /\ assigned' = TRUE
  /\ astray' = FALSE /\ lost' = FALSE
  /\ UNCHANGED <<table, runtimeData>>

\* storeToFilesystem: m_written equals the table, and that counts as saved.
\* (What the model leaves out of a table may differ where this does not.)
SkipSave ==
  /\ unsaved /\ unsaved' = FALSE
  /\ written = data
  /\ lost' = FALSE
  /\ filed' = IF file = data THEN given ELSE filed
  /\ UNCHANGED <<table, runtimeData, file, written, assigned, astray>>

\* Mutant: m_written follows whatever the calls return.
Remember == written' = data /\ assigned' = TRUE
\* m_written keeps the table of the last complete save.
KeepWritten == UNCHANGED <<written, assigned>>

\* A save fails, which the client is not told: before the file is removed, or
\* in the rename after that, and then a boot reads the new table's .tmp.
SaveFails ==
  /\ unsaved /\ unsaved' = FALSE
  /\ \/ "save" \in Faults /\ UNCHANGED <<disk, astray>>
     \/ "rename" \in Faults /\ Filed /\ astray' = TRUE
  /\ lost' = TRUE
  /\ KeepWritten
  /\ UNCHANGED <<table, runtimeData>>

\* Mutant: a configuration is taken for a device although it is not in use.
CreateAll(i) == file.values[i].driver
\* initialize creates the devices of the slots in use.
CreateRuntime(i) == IF file.initialized[i] THEN file.values[i].driver ELSE NoDriver

\* The RAM of a boot.
Cleared ==
  /\ unsaved' = FALSE
  /\ written' = Zeroed /\ assigned' = FALSE
  /\ astray' = FALSE /\ lost' = FALSE
  /\ UNCHANGED disk

\* A power failure and the boot after it; create_driver may fail.
Reboot ==
  /\ values' = file.values /\ initialized' = file.initialized
  /\ names' = file.names /\ given' = filed
  /\ runtimeData' \in {[i \in Index |-> IF i \in failed THEN NoDriver
                                        ELSE CreateRuntime(i)] :
                       failed \in SUBSET Index}
  /\ Cleared

\* The file cannot be mounted or opened: get_value returns m_setting as it is.
RebootUnread ==
  /\ "load" \in Faults
  /\ values' = Zeroed.values /\ initialized' = Zeroed.initialized
  /\ names' = Zeroed.names /\ given' = Zeroed.names
  /\ runtimeData' = [i \in Index |-> NoDriver]
  /\ Cleared

Next ==
  \/ \E name \in Names, d \in Drivers : AddDevice(name, d)
  \/ \E i \in Index : RemoveDevice(i) \/ WriteOptions(i)
  \/ LeaveTable
  \/ Save \/ SkipSave \/ SaveFails
  \/ Reboot \/ RebootUnread

Spec == Init /\ [][Next]_vars

-----------------------------------------------------------------------------
Table == [values : [Index -> Config], initialized : [Index -> BOOLEAN],
          names : [Index -> Names \ TooLong]]

TypeOK ==
  /\ values \in [Index -> Config] /\ initialized \in [Index -> BOOLEAN]
  /\ names \in [Index -> Names \ TooLong] /\ given \in [Index -> Names]
  /\ file \in Table /\ filed \in [Index -> Names]
  /\ written \in Table
  /\ runtimeData \in [Index -> Drivers \cup {NoDriver}]
  /\ unsaved \in BOOLEAN /\ assigned \in BOOLEAN
  /\ astray \in BOOLEAN /\ lost \in BOOLEAN

\* A device at run time is one of a slot in use, and belongs to the driver a
\* boot would create it with, through failed adds and at every moment.
RuntimeOwned ==
  \A i \in Index : runtimeData[i] # NoDriver =>
    initialized[i] /\ values[i].driver = runtimeData[i]

\* What a free slot keeps of a device that was removed or could not be added
\* is never taken for a device: it has no name to be found by and no device.
FreeIsClean ==
  \A i \in Index : ~ initialized[i] => names[i] = Empty /\ runtimeData[i] = NoDriver

\* Adding by a name the clients know finds the device that has it: the same
\* name never stands for two devices ("settingNames have to unique").
OneDevicePerName ==
  \A i, j \in Index : given[i] = given[j] /\ given[i] # Empty => i = j

\* The data a driver is created with at boot was written by that driver
\* ("the necessary data for the driver to be initialized from storage").
ConfigOfDriver ==
  \A i \in Index : initialized[i] => values[i].data = values[i].driver

\* When a request was answered and its save worked or found nothing to write,
\* a boot finds the table the request left, with everything that saves before
\* it failed to write: m_written never makes a save skip a table that the file
\* does not hold.  That is from the first save of a boot on that writes, since
\* before m_written was never assigned, and until a rename fails, which leaves
\* m_written behind the file (the run setting_rename), to the next that works.
AnsweredIsSaved ==
  assigned /\ ~ astray /\ ~ unsaved /\ ~ lost => file = data
=============================================================================
