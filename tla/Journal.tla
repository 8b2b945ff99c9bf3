------------------------------ MODULE Journal ------------------------------
(***************************************************************************)
(* What package trail promises of Log, Init and Close, without queues,     *)
(* batches or goroutines: README.md, "Writer behavior".                    *)
(***************************************************************************)
CONSTANT Event
VARIABLES
  fate,   \* [event -> "new", "pending", "written" or "dropped"]
  open    \* is a sink in use?

vars == <<fate, open>>

PendingEvents == {e \in Event : fate[e] = "pending"}

Init == fate = [e \in Event |-> "new"] /\ open = FALSE

\* Init succeeds.
Open == ~open /\ open' = TRUE /\ UNCHANGED fate

\* A Log call hands its event to the writer.
Accept(e) ==
  /\ open
  /\ fate[e] = "new"
  /\ fate' = [fate EXCEPT ![e] = "pending"]
  /\ UNCHANGED open

\* There is no writer, it is shutting down, or its queue is full.
Drop(e) ==
  /\ fate[e] \in {"new", "pending"}
  /\ fate' = [fate EXCEPT ![e] = "dropped"]
  /\ UNCHANGED open

\* One WriteBatch settles all of its events in the same way.
Settle(S, outcome) ==
  /\ open
  /\ S \subseteq PendingEvents
  /\ fate' = [e \in Event |-> IF e \in S THEN outcome ELSE fate[e]]
  /\ UNCHANGED open

\* The sink is closed after the last pending event is settled.
Shut == open /\ PendingEvents = {} /\ open' = FALSE /\ UNCHANGED fate

Next ==
  \/ Open \/ Shut
  \/ \E e \in Event : Accept(e) \/ Drop(e)
  \/ \E S \in SUBSET Event, outcome \in {"written", "dropped"} : Settle(S, outcome)

Spec == Init /\ [][Next]_vars
=============================================================================
