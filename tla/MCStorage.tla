----------------------------- MODULE MCStorage -----------------------------
(***************************************************************************)
(* A setting's file, the partition that holds it, and the mutexes of the   *)
(* program, each by itself: a behaviour is one of a single part, and the   *)
(* others stand still.                                                     *)
(***************************************************************************)
EXTENDS MCFilesystemSetting, LocalFlash, Locks

VARIABLE part

StorageInit ==
  /\ part \in {"setting", "flash", "locks"}
  /\ Init /\ FlashInit /\ LockInit
  /\ part # "setting" => {setting, written} = {CHOOSE w \in Memory : TRUE}
  /\ part # "flash" => content = "own"

SettingStep == part = "setting" /\ Next /\ UNCHANGED <<part, flashVars, lockVars>>
FlashStep == part = "flash" /\ FlashNext /\ UNCHANGED <<part, vars, lockVars>>
LockStep == part = "locks" /\ LockNext /\ UNCHANGED <<part, vars, flashVars>>

StorageNext == SettingStep \/ FlashStep \/ LockStep

StorageSpec == StorageInit /\ [][StorageNext]_<<part, vars, flashVars, lockVars>>
=============================================================================
