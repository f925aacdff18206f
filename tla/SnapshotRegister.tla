-------------------------- MODULE SnapshotRegister --------------------------
(***************************************************************************)
(* What the indexer promises to the code that reads Indexer.Snapshot() and *)
(* Indexer.IsReady(), without saying how: a register that only ever moves  *)
(* forward, that never shows more than the cluster holds, and that, once   *)
(* the server is declared ready, shows at least everything that existed    *)
(* when the process started.  A kind whose list failed is exempt: it is    *)
(* named in the snapshot's warnings instead.  Module Indexer implements    *)
(* this specification.                                                     *)
(*                                                                         *)
(* The content of a kind is abstracted to the number of changes made to    *)
(* the objects of that kind so far.                                        *)
(***************************************************************************)
EXTENDS Naturals

CONSTANTS
    Kinds,      \* the resource kinds that are watched
    Existing    \* the version of each kind when the process starts

VARIABLES
    cluster,    \* version of each kind in the cluster
    published,  \* the snapshot that readers load
    ready       \* what the readyz check reports

vars == <<cluster, published, ready>>

Nothing == [at |-> [k \in Kinds |-> 0], missing |-> {}]

\* Snapshot q shows kind k at least as new as p does.
NoOlder(p, q, k) == q.at[k] >= p.at[k] \/ k \in q.missing

\* Snapshot p shows every object that existed when the process started.
CoversExisting(p) == \A k \in Kinds : p.at[k] >= Existing[k] \/ k \in p.missing

Init ==
    /\ cluster = Existing
    /\ published = Nothing
    /\ ready = FALSE

Change(k) ==
    /\ cluster' = [cluster EXCEPT ![k] = @ + 1]
    /\ UNCHANGED <<published, ready>>

Publish ==
    /\ published' \in [at : [Kinds -> Nat], missing : SUBSET Kinds]
    /\ \A k \in Kinds : /\ published'.at[k] <= cluster[k]
                        /\ NoOlder(published, published', k)
    /\ ready => CoversExisting(published')
    /\ UNCHANGED <<cluster, ready>>

BecomeReady ==
    /\ CoversExisting(published)
    /\ ready' = TRUE
    /\ UNCHANGED <<cluster, published>>

Next == (\E k \in Kinds : Change(k)) \/ Publish \/ BecomeReady

Spec == Init /\ [][Next]_vars
=============================================================================
