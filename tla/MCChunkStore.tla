---------------------------- MODULE MCChunkStore ----------------------------
(* Small instances of ChunkStore for TLC. *)
EXTENDS ChunkStore

CONSTANTS c1, c2

\* peers that lie; a disk that fails, where nothing can be mapped or where peers ask
\* for what we did not announce
LyingPeers ==
    [bad_peers |-> TRUE, mmap_fails |-> FALSE, hashing |-> TRUE, unannounced |-> FALSE,
     faults |-> 0, sessions |-> 2]
FailingDisk ==
    [bad_peers |-> FALSE, mmap_fails |-> TRUE, hashing |-> FALSE, unannounced |-> FALSE,
     faults |-> 1, sessions |-> 1]
CuriousPeers ==
    [bad_peers |-> FALSE, mmap_fails |-> FALSE, hashing |-> FALSE, unannounced |-> TRUE,
     faults |-> 1, sessions |-> 1]

AllEnvironments == {LyingPeers, FailingDisk, CuriousPeers}
=============================================================================
