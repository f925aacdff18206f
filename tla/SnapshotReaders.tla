--------------------------- MODULE SnapshotReaders ---------------------------
(***************************************************************************)
(* The indexer together with the requests that read Indexer.snapshot while *)
(* it is being rebuilt.  A request loads the pointer once (List of         *)
(* nonresourceurls, Create without a caller's scope) or twice (Create,     *)
(* then LocalResolver.Resolve), and holds no lock between the two.         *)
(*                                                                         *)
(* SnapshotRegister compares one publication with the one before it, and   *)
(* exempts a kind whose List failed.  That says nothing of a request that  *)
(* reads before such a publication and of one that reads after the next:   *)
(* the properties here are about any two reads, however many publications  *)
(* lie in between.                                                         *)
(***************************************************************************)
EXTENDS Indexer

CONSTANT Readers    \* requests that the server can be serving at one time

VARIABLES
    step,       \* where each request is
    assured,    \* IsReady() had answered yes before the request arrived
    shown,      \* the snapshot it shows
    grants,     \* the snapshot in which it evaluated the caller's permissions
    seen        \* history: the newest version of each kind read by any request

readerVars == <<step, assured, shown, grants, seen>>
systemVars == <<vars, readerVars>>

\* The newest versions once p has been read too.
Newest(p) == [k \in Kinds |-> IF p.at[k] > seen[k] THEN p.at[k] ELSE seen[k]]

-----------------------------------------------------------------------------
SystemInit ==
    /\ Init
    /\ step = [r \in Readers |-> "idle"]
    /\ assured = [r \in Readers |-> FALSE]
    /\ shown = [r \in Readers |-> EmptySnapshot]
    /\ grants = [r \in Readers |-> EmptySnapshot]
    /\ seen = [k \in Kinds |-> 0]

\* A request arrives and is valid.  Whoever sends it may have asked the readiness check
\* before; the server itself does not ask.
Arrive(r) ==
    /\ step[r] \in {"idle", "answered", "scoped"}
    /\ step' = [step EXCEPT ![r] = "load"]
    /\ assured' = [assured EXCEPT ![r] = synced]
    /\ shown' = [shown EXCEPT ![r] = EmptySnapshot]
    /\ grants' = [grants EXCEPT ![r] = EmptySnapshot]
    /\ UNCHANGED <<vars, seen>>

\* The snapshot to show is loaded.  Create goes on to Resolve if there is a resolver and
\* the user is known, List of nonresourceurls never does.
LoadSnapshot(r) ==
    /\ step[r] = "load"
    /\ \E s \in {"resolve", "answered"} : step' = [step EXCEPT ![r] = s]
    /\ shown' = [shown EXCEPT ![r] = published]
    /\ seen' = Newest(published)
    /\ UNCHANGED <<vars, assured, grants>>

\* LocalResolver.Resolve loads the snapshot again.
Resolve(r) ==
    /\ step[r] = "resolve"
    /\ step' = [step EXCEPT ![r] = "scoped"]
    /\ grants' = [grants EXCEPT ![r] = published]
    /\ seen' = Newest(published)
    /\ UNCHANGED <<vars, assured, shown>>

Read(r) == Arrive(r) \/ LoadSnapshot(r) \/ Resolve(r)

SystemNext ==
    \/ Next /\ UNCHANGED readerVars
    \/ \E r \in Readers : Read(r)

SystemSpec == SystemInit /\ [][SystemNext]_systemVars

-----------------------------------------------------------------------------
(* Properties. *)

ReaderTypeOK ==
    /\ step \in [Readers -> {"idle", "load", "resolve", "answered", "scoped"}]
    /\ assured \in [Readers -> BOOLEAN]
    /\ shown \in [Readers -> Snapshots]
    /\ grants \in [Readers -> Snapshots]
    /\ seen \in [Kinds -> Nat]

\* The permissions of a request are never evaluated in a snapshot that is older, in any
\* kind, than the one it shows: a grant withdrawn before the data was read is not used,
\* even if the List of bindings failed for the snapshots in between.
PermissionsAreNoOlder ==
    \A r \in Readers, k \in Kinds :
        step[r] = "scoped" => Shows(grants[r], k, shown[r].at[k])

\* A request that arrives after the readiness check has answered yes gets everything that
\* existed when the process started, both in what it shows and in its permissions.
AssuredIsCovered ==
    \A r \in Readers, k \in Kinds :
        assured[r] => /\ step[r] \in {"resolve", "answered", "scoped"} => Shows(shown[r], k, Existing[k])
                      /\ step[r] = "scoped" => Shows(grants[r], k, Existing[k])

\* No request reads anything older than what any request has read before it: two answers
\* given one after the other never show the cluster going back in time, but for a kind
\* that the later one says is missing.
ReadsMoveForward ==
    [][\A r \in Readers, k \in Kinds :
          /\ step[r] = "load" /\ step'[r] # "load" => Shows(shown'[r], k, seen[k])
          /\ step[r] = "resolve" /\ step'[r] # "resolve" => Shows(grants'[r], k, seen[k])]_systemVars

(* Why they hold. *)

\* What has been read is in the stores, in every snapshot being built that has passed the
\* kind, and in the one published, whatever failed Lists lie in between.
SeenStays ==
    \A k \in Kinds : /\ seen[k] <= store[k]
                     /\ Shows(published, k, seen[k])
                     /\ \A t \in Threads : HasRead(t, k) => Shows(next[t], k, seen[k])

\* What a request holds has been read.
HeldWasSeen ==
    \A r \in Readers, k \in Kinds : shown[r].at[k] <= seen[k]

\* Readiness is not taken back.
AssuredWhenReady == \A r \in Readers : assured[r] => synced

\* The inductive invariant.  PermissionsAreNoOlder alone is not inductive: the snapshot
\* published next must be known to show what a request took from one published before.
SystemInv ==
    /\ IndInv
    /\ ReaderTypeOK
    /\ SeenStays
    /\ HeldWasSeen
    /\ AssuredWhenReady
    /\ PermissionsAreNoOlder
    /\ AssuredIsCovered
=============================================================================
