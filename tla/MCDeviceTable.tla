--------------------------- MODULE MCDeviceTable ---------------------------
(* Instances of DeviceTable for TLC. *)
EXTENDS DeviceTable, TLC

Symmetry == Permutations(Drivers)

AllRequests  == {"index", "options"}
AllRefusals  == {"unknown", "rejected", "late"}
\* What may fail without leaving one driver's name on another driver's data.
CleanRefusals == {"unknown", "late"}
AllFaults    == {"save", "rename", "load"}
\* Without what leaves m_written behind the file.
CleanFaults  == {"save", "load"}
Nowhere      == {}
Options      == {"options"}
Rejections   == {"rejected"}
=============================================================================
