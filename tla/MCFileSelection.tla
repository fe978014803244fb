------------------------- MODULE MCFileSelection -------------------------
EXTENDS FileSelection

\* Chunks of four bytes: a border chunk of two files, of three files, and one that
\* begins with a small file; a file that shares both its chunks, an empty file, and
\* a multimedia file of one chunk before another file
MCLayouts == {<<6, 12>>, <<5, 6, 8>>, <<2, 8>>, <<3, 7, 8>>, <<6, 6>>, <<4, 10, 12>>}

\* The file that shares both its chunks
MCPinched == {<<3, 7, 8>>}

MCPriorities == {EXCLUDED, ONLY_SEED_PRIORITY, NORMAL_PRIORITY}
===========================================================================
