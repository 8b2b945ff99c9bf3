----------------------------- MODULE MCExplorer -----------------------------
\* An instance of the Explorer for TLC: four events, two of them at the same time.  Flow "f" has
\* the events 1 and 4, entity 7 appears in two scopes.
EXTENDS Explorer

MCTime == <<1, 2, 2, 3>>
MCGroup == [flows |-> <<"f", "g", "h", "f">>,
            executions |-> <<"x", "x", None, "y">>,
            entities |-> <<"a/7", "a/7", "b/7", "a/8">>]
MCGroupID == [flows |-> [f |-> 2, g |-> 1, h |-> 3],
              executions |-> [x |-> 1, y |-> 2],
              entities |-> [i \in {"a/7", "b/7", "a/8"} |-> IF i = "a/8" THEN 8 ELSE 7]]
MCStatus == <<None, "failed", "failed", "failed">>
MCWhere == {1..4, 2..4}
=============================================================================
