---------------------------- MODULE MCClickHouse ----------------------------
\* An instance of the ClickHouse store for TLC: both events expire, each of a flow and an
\* execution of its own.  A deletion stages two rebuilds and a reconciliation takes one, so
\* rebuilds pile up and compete.
EXTENDS ClickHouse

MCFlow == <<"f", "g">>
MCExecution == <<"x1", "x2">>
=============================================================================
