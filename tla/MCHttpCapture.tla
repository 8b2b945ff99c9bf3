--------------------------- MODULE MCHttpCapture ---------------------------
\* Two requests: r1 sends a body longer than the limit, r2 receives one within it; the
\* spooler's queue holds one job.
EXTENDS HttpCapture

CONSTANTS r1, r2

MCSize == [r \in Event |-> [b \in Role |->
  IF r = r1 /\ b = "request" THEN 2 ELSE IF r = r2 /\ b = "response" THEN 1 ELSE 0]]
=============================================================================
