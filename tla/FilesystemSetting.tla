------------------------- MODULE FilesystemSetting -------------------------
(***************************************************************************)
(* FilesystemSetting (storage/settings.h): one settings structure kept in  *)
(* RAM and in a file on FAT, replaced through a temporary file.  Its mutex *)
(* makes the operations atomic for other threads but not for a power       *)
(* failure, so a save is one step per effect on the disk.                  *)
(***************************************************************************)
CONSTANTS
  Values,     \* the contents a setting can be given
  Nothing,    \* no value
  Torn,       \* right size, contents mixed from two values or never assigned
  Short,      \* a file of another size
  Absent,     \* no such file
  Faults      \* the calls that may fail

ASSUME DistinctAssumption ==
  /\ {Nothing, Torn, Short, Absent} \cap Values = {}
  /\ Nothing # Torn /\ Nothing # Short /\ Nothing # Absent
  /\ Torn # Short /\ Torn # Absent /\ Short # Absent

ASSUME FaultsAssumption ==
  Faults \subseteq {"mount", "open", "read", "write", "close", "remove", "rename"}

VARIABLES
  main,         \* the file at Path
  tmp,          \* the file at Path.tmp
  setting,      \* m_setting
  written,      \* m_written
  initialized,  \* m_initialized
  pc,           \* how far a save has come
  assigned,     \* history: a save has assigned m_written since boot
  last          \* history: the last value set while the disk was there

disk == <<main, tmp>>
ram  == <<setting, written, initialized>>
hist == <<assigned, last>>
vars == <<disk, ram, pc, hist>>

Memory   == Values \cup {Torn}
Contents == Memory \cup {Short, Absent}

\* The constructor assigns neither structure.  They are zero where the build
\* keeps the zeroing of the store's tuple, else what the memory holds: any
\* value covers both.
Init ==
  /\ main = Absent /\ tmp = Absent
  /\ setting \in Memory /\ written \in Memory
  /\ initialized = FALSE
  /\ pc = "idle"
  /\ assigned = FALSE /\ last = Nothing

-----------------------------------------------------------------------------
\* The file a boot reads: the temporary one where there is no real one.
Boot == IF main # Absent THEN main ELSE tmp

\* Mutant: the size of the file is not checked.
LoadedUnchecked == {Boot}
\* What loadFromFilesystem can leave in m_setting: a file of another size is
\* not read, a failing read stops somewhere.
Loaded ==
  LET files == {Boot} \cup IF "open" \in Faults THEN {tmp, Absent} ELSE {}
  IN  {IF f \in Memory THEN f ELSE setting : f \in files}
        \cup IF "read" \in Faults THEN {setting, Torn} ELSE {}

\* Mutant: the file is read on every access.
Always == TRUE
\* initFilesystem mounts and loads once.
NotYet == ~ initialized

\* get_value mounts and loads where that was not done yet.  A failed load
\* still counts as initialized.
GetValue ==
  /\ pc = "idle" /\ NotYet
  /\ initialized' = TRUE
  /\ setting' \in Loaded
  /\ UNCHANGED <<disk, written, pc, hist>>

\* set_value: what was loaded is replaced at once, then saved.
SetValue(v) ==
  /\ pc = "idle"
  /\ initialized' = TRUE
  /\ setting' = v /\ last' = v
  /\ pc' = "compare"
  /\ UNCHANGED <<disk, written, assigned>>

\* set_value without a file system: the value is kept in RAM only.
SetValueUnmounted(v) ==
  /\ pc = "idle"
  /\ ~ initialized /\ "mount" \in Faults
  /\ setting' = v
  /\ UNCHANGED <<disk, written, initialized, pc, hist>>

\* storeToFilesystem: m_written equals m_setting.
SkipUnchanged ==
  /\ pc = "compare" /\ written = setting
  /\ pc' = "idle"
  /\ UNCHANGED <<disk, ram, hist>>

\* openTmpFile: an existing file keeps its contents ("r+"), a missing one, or
\* one that could not be opened, is created or emptied ("w+").
OpenTmp ==
  /\ pc = "compare" /\ written # setting
  /\ \/ tmp # Absent /\ pc' = "write" /\ UNCHANGED tmp
     \/ /\ tmp = Absent \/ "open" \in Faults
        /\ pc' = "write" /\ tmp' = Short
     \/ "open" \in Faults /\ pc' = "idle" /\ UNCHANGED tmp
  /\ UNCHANGED <<main, ram, hist>>

\* A file part of which has been written over.
PartOf(f) == IF f \in Memory THEN Torn ELSE Short

\* Mutant: the real file is written in place.
InPlace == main' = PartOf(main) /\ UNCHANGED tmp
\* The temporary file is written in place.
InTmp == tmp' = PartOf(tmp) /\ UNCHANGED main

\* fwrite has brought some of the structure to the disk.
WriteSome ==
  /\ pc = "write"
  /\ InTmp
  /\ pc' = "flush"
  /\ UNCHANGED <<ram, hist>>

\* A write that failed ends the save before the real file is touched.
GiveUp == "idle"

\* fwrite and fclose are through, or fwrite failed.  fclose may fail to write
\* what fwrite left in its buffer, and nobody looks at its result.
Flush ==
  /\ pc = "flush"
  /\ \/ tmp' = setting /\ pc' = "remove"
     \/ "write" \in Faults /\ pc' = GiveUp /\ UNCHANGED tmp
     \/ "close" \in Faults /\ pc' = "remove" /\ UNCHANGED tmp
  /\ UNCHANGED <<main, ram, hist>>

\* remove(filename), its result ignored.
Remove ==
  /\ pc = "remove"
  /\ \/ main' = Absent
     \/ "remove" \in Faults /\ UNCHANGED main
  /\ pc' = "rename"
  /\ UNCHANGED <<tmp, ram, hist>>

\* rename(tmp_filename, filename): m_written follows.
Rename ==
  /\ pc = "rename" /\ main = Absent
  /\ main' = tmp /\ tmp' = Absent
  /\ written' = setting /\ assigned' = TRUE
  /\ pc' = "idle"
  /\ UNCHANGED <<setting, initialized, last>>

\* Mutant: m_written follows whatever rename returns.
Remember == written' = setting /\ assigned' = TRUE
\* m_written keeps the value of the last complete save.
KeepWritten == UNCHANGED <<written, assigned>>

\* FAT does not rename onto an existing file.
RenameFails ==
  /\ pc = "rename"
  /\ main # Absent \/ "rename" \in Faults
  /\ pc' = "idle"
  /\ KeepWritten
  /\ UNCHANGED <<disk, setting, initialized, last>>

\* The RAM is lost and the controller boots: Init, but for the disk.
PowerFail ==
  /\ setting' \in Memory /\ written' \in Memory
  /\ initialized' = FALSE
  /\ pc' = "idle"
  /\ assigned' = FALSE /\ last' = Nothing
  /\ UNCHANGED disk

Next ==
  \/ GetValue
  \/ \E v \in Values : SetValue(v) \/ SetValueUnmounted(v)
  \/ SkipUnchanged \/ OpenTmp \/ WriteSome \/ Flush
  \/ Remove \/ Rename \/ RenameFails
  \/ PowerFail

Spec == Init /\ [][Next]_vars

-----------------------------------------------------------------------------
TypeOK ==
  /\ main \in Contents /\ tmp \in Contents
  /\ setting \in Memory /\ written \in Memory
  /\ initialized \in BOOLEAN
  /\ pc \in {"idle", "compare", "write", "flush", "remove", "rename"}
  /\ assigned \in BOOLEAN
  /\ last \in Values \cup {Nothing}

\* The real file never holds anything but a complete setting, whatever fails
\* and whenever the power does (the purpose of the .tmp file).
MainIntact == main \in Values \cup {Absent}

\* m_written, once assigned, is what the real file holds wherever there is
\* one: failed saves and loads never make them differ.
WrittenIsDurable == assigned /\ main # Absent => main = written

\* A save is skipped only where a boot would find the value anyway.
SkipIsSafe == pc = "compare" /\ assigned /\ written = setting => Boot = setting

\* get_value returns the value of the last set_value made with the disk there,
\* and never goes back to what the file held before, even after failed saves.
ReadsOwnWrites == last # Nothing => setting = last

\* The value a boot finds, whether it is being replaced, and whether it is in
\* the temporary file only.
A == INSTANCE AtomicSetting WITH
       durable <- IF Boot \in Memory THEN Boot ELSE Nothing,
       pending <- IF pc = "idle" THEN Nothing ELSE setting,
       exposed <- main = Absent

\* A power failure or a failed call at any moment leaves the old value or the
\* new one, as AtomicSetting promises; the one exception it makes is a save
\* that starts while the value is in the temporary file only.
Atomic == A!ASpec
=============================================================================
