-------------------------- MODULE MCSnapshotReaders --------------------------
(* The instance of SnapshotReaders for TLC. *)
EXTENDS SnapshotReaders, TLC

\* Two kinds: one object of the second exists when the process starts.
MCExisting == [k \in 1 .. 2 |-> k - 1]

MCSymmetry == Permutations(Workers)
=============================================================================
