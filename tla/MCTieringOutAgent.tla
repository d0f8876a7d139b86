------------------------- MODULE MCTieringOutAgent -------------------------
(* The tiering-out agent, the FUSE thread and the web thread, for TLC. *)
EXTENDS TieringOutAgent

\* Every inode has a path of its own.
OwnPath == [i \in Inode |-> i]

\* Inodes 2 and 3 have the same path: one was created after the other had been
\* unlinked.
Namesakes == [i \in Inode |-> IF i = 3 THEN 2 ELSE i]

\* All names are in the root directory, or the file 2 is in the directory 3.
Flat == [i \in Inode |-> {}]
Nested == [i \in Inode |-> IF i = 2 THEN {3} ELSE {}]
=============================================================================
