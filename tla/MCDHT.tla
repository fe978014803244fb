------------------------------- MODULE MCDHT -------------------------------
\* Instance of DHT for TLC: two nodes, of which the first may be known already.
EXTENDS DHT
CONSTANTS n1, n2
MCNodes == {n1, n2}
MCNeighbours == {{}, {n1, n2}}
MCTables == {<<>>, <<n1>>}
=============================================================================
