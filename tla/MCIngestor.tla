----------------------------- MODULE MCIngestor -----------------------------
\* Instances of the ingestor for TLC: m1 and m2 can be decoded, m3 cannot.  By their
\* bytes m1 and m2 do not fit into one group, by their events m1 and m1 do not.
EXTENDS Ingestor, TLC

CONSTANTS m1, m2, m3

MCEventsIn == (m1 :> 2) @@ (m2 :> 1) @@ (m3 :> 1)
MCBytesIn == (m1 :> 1) @@ (m2 :> 2) @@ (m3 :> 1)
MCUndecodable == {m3}

MCSymmetry == Permutations(Engines)
=============================================================================
