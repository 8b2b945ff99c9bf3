---------------------------- MODULE MCRetention ----------------------------
\* An instance of the retention command for TLC.  Events 1 and 2 share a payload.  Event
\* 1 has expired by its class when the clock starts, event 2 expires a tick later by a policy;
\* the reference of event 1 is released by its class, that of event 2 at a date of its own.
EXTENDS Retention, TLC

CONSTANT shared

MCLink(k, until, class) == [key |-> k, role |-> "response", until |-> until, class |-> class]

MCEv == <<
  [time |-> -1, class |-> "short", kind |-> "http", links |-> {MCLink(shared, 0, "http")}],
  [time |-> 0,  class |-> Unset,   kind |-> "http", links |-> {MCLink(shared, 1, Unset)}] >>

MCEventClasses == [c \in {"short"} |-> 1]
MCEventPolicies == << [kind |-> "job", ttl |-> 9], [kind |-> Unset, ttl |-> 1] >>
MCPayloadClasses == [c \in {"http"} |-> 2]
MCPayloadPolicies == << [kind |-> "http", role |-> "request", ttl |-> 1] >>

MCSymmetry == Permutations(Engine)
=============================================================================
