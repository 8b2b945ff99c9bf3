------------------------------- MODULE Vault -------------------------------
(***************************************************************************)
(* What the retention command promises of every event, without pages,      *)
(* transactions or garbage collection (RETENTION.md, "There is no          *)
(* delete-without-archive mode"): an event that is not in the live store   *)
(* any more can be restored in full, for ever.                             *)
(***************************************************************************)
CONSTANT Event
VARIABLES
  live,   \* events in the live store
  safe    \* events that some catalogued archive restores in full

vars == <<live, safe>>

Init == live = {} /\ safe = {}

\* Ingestion, redelivery or a restore.
Enter(S) == live' = live \cup S /\ UNCHANGED safe

\* An archive of S is catalogued; S was live when it was read.
Keep(S) == safe' = safe \cup S /\ UNCHANGED live

\* Only what is safe leaves.
Leave(S) == S \subseteq safe /\ live' = live \ S /\ UNCHANGED safe

Next == \E S \in SUBSET Event : Enter(S) \/ Keep(S) \/ Leave(S)

Spec == Init /\ [][Next]_vars
=============================================================================
