------------------------ MODULE MCFilesystemSetting ------------------------
(* Instances of FilesystemSetting for TLC. *)
EXTENDS FilesystemSetting

\* Every call fails now and then, but a file that is closed was written.
NoClose == {"mount", "open", "read", "write", "remove", "rename"}
OnlyRename == {"rename"}
=============================================================================
