-------------------------- MODULE MCEvictionAgent --------------------------
(* Tiering-out, eviction, FUSE and web threads together, for TLC. *)
EXTENDS EvictionAgent

\* Every inode has a path of its own, in the root directory.
OwnPath == [i \in Inode |-> i]
Flat == [i \in Inode |-> {}]
=============================================================================
