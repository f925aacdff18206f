------------------------------ MODULE MCIndexer ------------------------------
(* The instance of Indexer for TLC. *)
EXTENDS Indexer

\* Two kinds: one object of the first exists when the process starts.
MCExisting == [k \in 1 .. 2 |-> IF k = 1 THEN 1 ELSE 0]
=============================================================================
