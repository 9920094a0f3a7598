--------------------------- MODULE AtomicSetting ---------------------------
(***************************************************************************)
(* What storage/settings.h promises about the value a reboot finds.  A     *)
(* save replaces it by the new value in one step, at a moment the caller   *)
(* cannot see; until then the old value stays.  The promise is void while  *)
(* the value lives only in the temporary file.                             *)
(***************************************************************************)
CONSTANTS Values, Nothing, Torn

VARIABLES
  durable,    \* what a boot reads: a value, nothing usable, or a mixture
  pending,    \* the value being saved, or Nothing
  exposed     \* only the temporary file holds the value

avars == <<durable, pending, exposed>>

AInit == durable = Nothing /\ pending = Nothing /\ exposed = TRUE

\* A save of v starts.
Begin(v) ==
  /\ pending = Nothing
  /\ pending' = v
  /\ UNCHANGED <<durable, exposed>>

\* The new value replaces the old one.
Commit ==
  /\ pending \in Values
  /\ durable' = pending
  /\ exposed' \in BOOLEAN
  /\ UNCHANGED pending

\* The value, once committed, gets its real name.
Settle ==
  /\ pending = durable /\ durable \in Values
  /\ exposed' = FALSE /\ pending' = Nothing
  /\ UNCHANGED durable

\* A save in place of the only copy.
Damage ==
  /\ exposed /\ pending \in Values
  /\ durable' \in {Nothing, Torn}
  /\ UNCHANGED <<pending, exposed>>

\* The save ends, by success, by a failure or because the power fails.
End == pending' = Nothing /\ UNCHANGED <<durable, exposed>>

ANext == (\E v \in Values : Begin(v)) \/ Commit \/ Settle \/ Damage \/ End

ASpec == AInit /\ [][ANext]_avars
=============================================================================
