----------------------------- MODULE LocalFlash -----------------------------
(***************************************************************************)
(* LocalFlashStorage (storage/local_flash_storage.h): the FAT partition    *)
(* behind /values, which the settings mount when they are first used, and  *)
(* which a binary POST to the devices (rest/devices_rest.cpp) replaces by  *)
(* an uploaded image.                                                      *)
(*                                                                         *)
(* m_flashWearLevelHandle, static and without a lock, tells who mounts:    *)
(* once it has a value nobody does, also while the partition is unmounted  *)
(* for an image.                                                           *)
(***************************************************************************)
CONSTANTS
  Users   \* the settings that keep their files on the partition

VARIABLES
  content,    \* what the partition holds
  mounted,    \* FAT is mounted at the path
  handle,     \* m_flashWearLevelHandle has a value
  creating,   \* where every user's create() is
  restoring,  \* where unMountWriteBackupAndMount is
  response,   \* what the last upload was answered
  received,   \* history: what the last upload has brought
  alone       \* history: the restore began with a handle, nobody mounting

flashVars == <<content, mounted, handle, creating, restoring, response, received, alone>>
session   == <<restoring, response, received, alone>>

\* A file system of this device, an erased partition, a complete image of one,
\* complete data that is none, an image only begun, or mixed with other writes.
Raw == {"blank", "begun", "mixed"}
Complete == {"image", "foreign"}

FlashInit ==
  /\ content \in Raw \cup {"own"} /\ mounted = FALSE /\ handle = FALSE
  /\ creating = [u \in Users |-> "no"]
  /\ restoring = "no" /\ response = "none" /\ received = "part" /\ alone = FALSE

-----------------------------------------------------------------------------
\* What a mount leaves on the partition: with format_if_mount_failed what is no
\* file system becomes an empty one; a raw partition may also pass for one.
Formatted ==
  CASE content \in {"own", "image"} -> {content}
    [] content \in Raw -> {content, "own"}
    [] OTHER -> {"own"}

\* esp_vfs_fat_spiflash_mount_rw_wl.  Mounting again may succeed, and a failure
\* may unmount.
Mount == mounted' = TRUE /\ content' \in Formatted
MountFails == mounted' \in {mounted, FALSE} /\ UNCHANGED content

\* create: with a handle it is done, whether the partition is mounted or not.
Create(u) ==
  /\ creating[u] = "no"
  /\ creating' = [creating EXCEPT ![u] = IF handle THEN "done" ELSE "mount"]
  /\ UNCHANGED <<content, mounted, handle, session>>

\* mountPartition, called by create.
CreateMounts(u) ==
  /\ creating[u] = "mount"
  /\ \/ Mount /\ creating' = [creating EXCEPT ![u] = "test"]
     \/ MountFails /\ creating' = [creating EXCEPT ![u] = "no"]
  /\ UNCHANGED <<handle, session>>

\* The test file decides, but a file system that failed it stays mounted.
CreateTests(u) ==
  /\ creating[u] = "test"
  /\ \/ handle' = TRUE /\ creating' = [creating EXCEPT ![u] = "done"]
     \/ creating' = [creating EXCEPT ![u] = "no"] /\ UNCHANGED handle
  /\ UNCHANGED <<content, mounted, session>>

\* A file of a user is written through FAT.
WriteFile(u) ==
  /\ creating[u] = "done" /\ mounted
  /\ content' = IF restoring = "write" THEN "mixed" ELSE content
  /\ UNCHANGED <<mounted, handle, creating, session>>

-----------------------------------------------------------------------------
\* Mutant: unmounting gives up the handle.
ForgetHandle == handle' = FALSE
\* The handle stays, so that nobody mounts in the meantime.
KeepHandle == UNCHANGED handle

\* unMountWriteBackupAndMount: FAT goes if there is a handle.
Unmount ==
  /\ restoring = "no"
  /\ alone' = (handle /\ \A u \in Users : creating[u] \in {"no", "done"})
  /\ IF handle THEN mounted' = FALSE /\ KeepHandle ELSE UNCHANGED <<mounted, handle>>
  /\ restoring' = "erase" /\ response' = "none" /\ received' = "part"
  /\ UNCHANGED <<content, creating>>

\* Nothing is mounted again after a failure.
Refuse == restoring' = "no" /\ response' = "error"

Erase ==
  /\ restoring = "erase"
  /\ \/ content' = "blank" /\ restoring' = "write" /\ UNCHANGED response
     \/ content' = "mixed" /\ Refuse
  /\ UNCHANGED <<mounted, handle, creating, received, alone>>

\* Some of the image is received and written, behind FAT's back.
WriteImage ==
  /\ restoring = "write"
  /\ \/ /\ content' = IF content \in {"blank", "begun"} THEN "begun" ELSE "mixed"
        /\ UNCHANGED <<restoring, response>>
     \/ content' = "mixed" /\ Refuse
  /\ UNCHANGED <<mounted, handle, creating, received, alone>>

\* Everything has been received, or receiving failed, which is taken for the
\* end.  Nothing tells an image of a file system from other data.
EndOfImage ==
  /\ restoring = "write"
  /\ \/ /\ content # "blank"
        /\ received' \in Complete
        /\ content' = IF content = "begun" THEN received' ELSE "mixed"
     \/ UNCHANGED <<received, content>>
  /\ restoring' = "mount"
  /\ UNCHANGED <<mounted, handle, creating, response, alone>>

Remount ==
  /\ restoring = "mount"
  /\ \/ Mount /\ restoring' = "test" /\ UNCHANGED response
     \/ MountFails /\ Refuse
  /\ UNCHANGED <<handle, creating, received, alone>>

\* "Ok wrote partition to flash".
Answer ==
  /\ restoring = "test"
  /\ \/ handle' = TRUE /\ restoring' = "no" /\ response' = "ok"
     \/ Refuse /\ UNCHANGED handle
  /\ UNCHANGED <<content, mounted, creating, received, alone>>

\* A reset forgets everything but the partition.
Reset ==
  /\ mounted' = FALSE /\ handle' = FALSE
  /\ creating' = [u \in Users |-> "no"]
  /\ restoring' = "no" /\ response' = "none" /\ received' = "part" /\ alone' = FALSE
  /\ UNCHANGED content

Restore == Unmount \/ Erase \/ WriteImage \/ EndOfImage \/ Remount \/ Answer

FlashNext ==
  \/ \E u \in Users : Create(u) \/ CreateMounts(u) \/ CreateTests(u) \/ WriteFile(u)
  \/ Restore \/ Reset

FlashSpec == FlashInit /\ [][FlashNext]_flashVars

-----------------------------------------------------------------------------
FlashTypeOK ==
  /\ content \in Raw \cup Complete \cup {"own"}
  /\ mounted \in BOOLEAN /\ handle \in BOOLEAN
  /\ creating \in [Users -> {"no", "mount", "test", "done"}]
  /\ restoring \in {"no", "erase", "write", "mount", "test"}
  /\ response \in {"none", "ok", "error"}
  /\ received \in Complete \cup {"part"} /\ alone \in BOOLEAN

\* An upload that began with the handle set, and nobody between asking for the
\* handle and setting it, is not disturbed, whatever the settings do: its
\* partition is not mounted before the image is through, and when the answer is
\* "Ok" to all of an image of a file system, the partition holds it.  The same
\* answer to other data means an empty file system: the data were formatted
\* away, and what was there before is lost too.
ImageRestored ==
  alone => /\ restoring \in {"erase", "write", "mount"} => ~ mounted
           /\ response = "ok" /\ received = "image" => content = "image"
           /\ response = "ok" /\ received = "foreign" => content = "own"
=============================================================================
