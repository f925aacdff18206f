------------------------------- MODULE Indexer -------------------------------
(***************************************************************************)
(* internal/indexer/indexer.go: eleven shared informers feed listers, each *)
(* event (re)arms a debounce timer, a timer that expires starts a goroutine *)
(* that runs rebuild(), and rebuild() lists the eleven listers one after   *)
(* the other under rebuildMu and publishes the result by one pointer store. *)
(* Start() waits for the informers, rebuilds once and raises `synced`.     *)
(*                                                                         *)
(* A kind's content is the number of changes made to it so far, so that    *)
(* "older" and "newer" are < and >.  Kinds are numbered in the order in    *)
(* which rebuild() lists them.                                             *)
(***************************************************************************)
EXTENDS Integers, FiniteSets

CONSTANTS
    NumKinds,    \* how many kinds are watched (11 in the code)
    Existing,    \* version of each kind when the process starts
    Fallible,    \* kinds whose List call may fail
    Workers,     \* goroutines of time.AfterFunc that can exist at one time
    Starter,     \* the goroutine that runs Start()
    NoOne,       \* the holder of a free mutex
    Debounce,    \* rebuildDebounceInterval, in ticks
    MaxVersion,  \* bound: changes to one kind
    MaxNotices   \* bound: content-free update events wait for this many notices

Kinds   == 1 .. NumKinds
Threads == Workers \cup {Starter}
Off     == -1
Unlisted == -1

ASSUME NumKindsAssumption  == NumKinds \in Nat \ {0}
ASSUME ExistingAssumption  == Existing \in [Kinds -> Nat]
ASSUME FallibleAssumption  == Fallible \subseteq Kinds
ASSUME StarterAssumption   == Starter \notin Workers
ASSUME NoOneAssumption     == NoOne \notin Threads
ASSUME DebounceAssumption  == Debounce \in Nat
ASSUME BoundsAssumption    == MaxVersion \in Nat /\ MaxNotices \in Nat

VARIABLES
    cluster,    \* [Kinds -> Nat], what the API server serves
    listed,     \* version of each informer's initial list, or Unlisted
    store,      \* version of each informer's local store, what a lister returns
    notices,    \* events queued for the handlers and not handled yet
    timer,      \* ticks left on rebuildTimer, or Off
    pc,         \* where each goroutine is
    pos,        \* the next kind each goroutine lists
    next,       \* the snapshot each goroutine is building
    rebuildMu,  \* holder of the mutex, or NoOne
    published,  \* Indexer.snapshot
    synced,     \* Indexer.synced
    cancelled,  \* the context given to Start is done
    quiet       \* the cluster has stopped changing (used by liveness only)

informerVars == <<cluster, listed, store>>
envVars      == <<cancelled, quiet>>
rebuildVars  == <<pc, pos, next, rebuildMu, published>>
vars == <<informerVars, notices, timer, rebuildVars, synced, envVars>>

EmptySnapshot == [at |-> [k \in Kinds |-> 0], missing |-> {}]

-----------------------------------------------------------------------------
(* The cluster and client-go's shared informers (external). *)

Started == pc[Starter] # "boot"

HasSynced(k) == listed[k] # Unlisted /\ store[k] >= listed[k]

Change(k) ==
    /\ ~quiet
    /\ cluster[k] < MaxVersion
    /\ cluster' = [cluster EXCEPT ![k] = @ + 1]
    /\ UNCHANGED <<listed, store, notices, timer, rebuildVars, synced, envVars>>

\* The reflector of k lists.
List(k) ==
    /\ Started /\ ~cancelled
    /\ listed[k] = Unlisted
    /\ listed' = [listed EXCEPT ![k] = cluster[k]]
    /\ UNCHANGED <<cluster, store, notices, timer, rebuildVars, synced, envVars>>

\* The informer of k takes events from its queue: first those of the initial
\* list, then those of the watch.  The store is written before the handlers
\* are notified.  A relist after a broken watch brings several at once.
Deliver(k) ==
    /\ ~cancelled
    /\ listed[k] # Unlisted
    /\ \E v \in store[k] + 1 .. (IF store[k] < listed[k] THEN listed[k] ELSE cluster[k]) :
          store' = [store EXCEPT ![k] = v]
    /\ notices' = notices + 1
    /\ UNCHANGED <<cluster, listed, timer, rebuildVars, synced, envVars>>

\* An update event that changes nothing a snapshot shows: a status heartbeat,
\* or a resync.
Touch ==
    /\ ~quiet /\ ~cancelled
    /\ notices < MaxNotices
    /\ \E k \in Kinds : HasSynced(k) /\ store[k] > 0
    /\ notices' = notices + 1
    /\ UNCHANGED <<informerVars, timer, rebuildVars, synced, envVars>>

Quiesce ==
    /\ ~quiet
    /\ quiet' = TRUE
    /\ UNCHANGED <<informerVars, notices, timer, rebuildVars, synced, cancelled>>

Cancel ==
    /\ ~cancelled
    /\ cancelled' = TRUE
    /\ UNCHANGED <<informerVars, notices, timer, rebuildVars, synced, quiet>>

-----------------------------------------------------------------------------
(* scheduleRebuild and the debounce timer. *)

\* Mutant: leave the event to the rebuild that is running already.
ScheduleRebuild_SkipWhenBuilding ==
    /\ notices > 0
    /\ notices' = notices - 1
    /\ timer' = IF rebuildMu # NoOne THEN timer ELSE Debounce
    /\ UNCHANGED <<informerVars, rebuildVars, synced, envVars>>

\* Mutant: the timer is stopped and not made again.
ScheduleRebuild_StopOnly ==
    /\ notices > 0
    /\ notices' = notices - 1
    /\ timer' = IF timer # Off THEN Off ELSE Debounce
    /\ UNCHANGED <<informerVars, rebuildVars, synced, envVars>>

\* A handler takes a notice and calls scheduleRebuild: the old timer is
\* stopped and a new one runs for the whole interval.  Stop has no effect on
\* a goroutine that the old timer has started.
ScheduleRebuild ==
    /\ notices > 0
    /\ notices' = notices - 1
    /\ timer' = Debounce
    /\ UNCHANGED <<informerVars, rebuildVars, synced, envVars>>

Tick ==
    /\ timer > 0
    /\ timer' = timer - 1
    /\ UNCHANGED <<informerVars, notices, rebuildVars, synced, envVars>>

\* time.AfterFunc runs rebuild in a goroutine of its own.
Expire(w) ==
    /\ timer = 0
    /\ pc[w] = "idle"
    /\ timer' = Off
    /\ pc' = [pc EXCEPT ![w] = "lock"]
    /\ UNCHANGED <<informerVars, notices, pos, next, rebuildMu, published, synced, envVars>>

-----------------------------------------------------------------------------
(* rebuild(), run by Start's goroutine and by those of the timer. *)

\* Mutant: rebuild() without rebuildMu.
Lock_NoMutex(t) ==
    /\ pc[t] = "lock"
    /\ rebuildMu' = t
    /\ pc' = [pc EXCEPT ![t] = "list"]
    /\ pos' = [pos EXCEPT ![t] = 1]
    /\ next' = [next EXCEPT ![t] = EmptySnapshot]
    /\ UNCHANGED <<informerVars, notices, timer, published, synced, envVars>>

Lock(t) ==
    /\ pc[t] = "lock"
    /\ rebuildMu = NoOne
    /\ rebuildMu' = t
    /\ pc' = [pc EXCEPT ![t] = "list"]
    /\ pos' = [pos EXCEPT ![t] = 1]
    /\ next' = [next EXCEPT ![t] = EmptySnapshot]
    /\ UNCHANGED <<informerVars, notices, timer, published, synced, envVars>>

\* Mutant: the mutex protects the lists only and is free again at the Store.
ListKind_UnlockEarly(t) ==
    /\ pc[t] = "list"
    /\ LET k == pos[t] IN
          /\ next' = [next EXCEPT ![t].at[k] = store[k]]
          /\ pos' = [pos EXCEPT ![t] = k + 1]
          /\ pc' = [pc EXCEPT ![t] = IF k = NumKinds THEN "publish" ELSE "list"]
          /\ rebuildMu' = IF k = NumKinds THEN NoOne ELSE rebuildMu
    /\ UNCHANGED <<informerVars, notices, timer, published, synced, envVars>>

\* Mutant: a failed read leaves the kind out and nobody is told.
ListKind_NoWarning(t) ==
    /\ pc[t] = "list"
    /\ LET k == pos[t] IN
          /\ \/ next' = [next EXCEPT ![t].at[k] = store[k]]
             \/ k \in Fallible /\ UNCHANGED next
          /\ pos' = [pos EXCEPT ![t] = k + 1]
          /\ pc' = [pc EXCEPT ![t] = IF k = NumKinds THEN "publish" ELSE "list"]
    /\ UNCHANGED <<informerVars, notices, timer, rebuildMu, published, synced, envVars>>

\* One lister is read.  A failed read leaves the kind out and adds a warning.
ListKind(t) ==
    /\ pc[t] = "list"
    /\ LET k == pos[t] IN
          /\ \/ next' = [next EXCEPT ![t].at[k] = store[k]]
             \/ /\ k \in Fallible
                /\ next' = [next EXCEPT ![t].missing = @ \cup {k}]
          /\ pos' = [pos EXCEPT ![t] = k + 1]
          /\ pc' = [pc EXCEPT ![t] = IF k = NumKinds THEN "publish" ELSE "list"]
    /\ UNCHANGED <<informerVars, notices, timer, rebuildMu, published, synced, envVars>>

Publish(t) ==
    /\ pc[t] = "publish"
    /\ published' = next[t]
    /\ pc' = [pc EXCEPT ![t] = "unlock"]
    /\ UNCHANGED <<informerVars, notices, timer, pos, next, rebuildMu, synced, envVars>>

\* Mutant: a goroutine of the timer returns without Unlock.
Unlock_Leaks(t) ==
    /\ pc[t] = "unlock"
    /\ rebuildMu' = IF t = Starter THEN NoOne ELSE rebuildMu
    /\ pc' = [pc EXCEPT ![t] = IF t = Starter THEN "mark" ELSE "idle"]
    /\ pos' = [pos EXCEPT ![t] = 1]
    /\ next' = [next EXCEPT ![t] = EmptySnapshot]
    /\ UNCHANGED <<informerVars, notices, timer, published, synced, envVars>>

\* The deferred Unlock; the goroutine's locals are gone.
Unlock(t) ==
    /\ pc[t] = "unlock"
    /\ rebuildMu' = NoOne
    /\ pc' = [pc EXCEPT ![t] = IF t = Starter THEN "mark" ELSE "idle"]
    /\ pos' = [pos EXCEPT ![t] = 1]
    /\ next' = [next EXCEPT ![t] = EmptySnapshot]
    /\ UNCHANGED <<informerVars, notices, timer, published, synced, envVars>>

-----------------------------------------------------------------------------
(* Start(). *)

\* factory.Start runs the informers; the goroutine then waits for them.
Boot ==
    /\ pc[Starter] = "boot"
    /\ pc' = [pc EXCEPT ![Starter] = "wait"]
    /\ UNCHANGED <<informerVars, notices, timer, pos, next, rebuildMu, published, synced, envVars>>

\* Mutant: one informer is missing from the arguments of WaitForCacheSync.
WaitForCacheSync_OneForgotten ==
    /\ pc[Starter] = "wait"
    /\ \A k \in Kinds \ {NumKinds} : HasSynced(k)
    /\ pc' = [pc EXCEPT ![Starter] = "lock"]
    /\ UNCHANGED <<informerVars, notices, timer, pos, next, rebuildMu, published, synced, envVars>>

WaitForCacheSync ==
    /\ pc[Starter] = "wait"
    /\ \A k \in Kinds : HasSynced(k)
    /\ pc' = [pc EXCEPT ![Starter] = "lock"]
    /\ UNCHANGED <<informerVars, notices, timer, pos, next, rebuildMu, published, synced, envVars>>

WaitFails ==
    /\ pc[Starter] = "wait"
    /\ cancelled
    /\ pc' = [pc EXCEPT ![Starter] = "failed"]
    /\ UNCHANGED <<informerVars, notices, timer, pos, next, rebuildMu, published, synced, envVars>>

MarkSynced ==
    /\ pc[Starter] = "mark"
    /\ synced' = TRUE
    /\ pc' = [pc EXCEPT ![Starter] = "serve"]
    /\ UNCHANGED <<informerVars, notices, timer, pos, next, rebuildMu, published, envVars>>

Return ==
    /\ pc[Starter] = "serve"
    /\ cancelled
    /\ pc' = [pc EXCEPT ![Starter] = "done"]
    /\ UNCHANGED <<informerVars, notices, timer, pos, next, rebuildMu, published, synced, envVars>>

-----------------------------------------------------------------------------
Init ==
    /\ cluster = Existing
    /\ listed = [k \in Kinds |-> Unlisted]
    /\ store = [k \in Kinds |-> 0]
    /\ notices = 0
    /\ timer = Off
    /\ pc = [t \in Threads |-> IF t = Starter THEN "boot" ELSE "idle"]
    /\ pos = [t \in Threads |-> 1]
    /\ next = [t \in Threads |-> EmptySnapshot]
    /\ rebuildMu = NoOne
    /\ published = EmptySnapshot
    /\ synced = FALSE
    /\ cancelled = FALSE
    /\ quiet = FALSE

Informer  == \E k \in Kinds : List(k) \/ Deliver(k)
Handler   == ScheduleRebuild
Timer     == Tick \/ \E w \in Workers : Expire(w)
Rebuild(t) == Lock(t) \/ ListKind(t) \/ Publish(t) \/ Unlock(t)
Start     == Boot \/ WaitForCacheSync \/ WaitFails \/ MarkSynced \/ Return
Environment == (\E k \in Kinds : Change(k)) \/ Touch \/ Quiesce \/ Cancel

Next ==
    \/ Environment \/ Informer \/ Handler \/ Timer \/ Start
    \/ \E t \in Threads : Rebuild(t)

Spec == Init /\ [][Next]_vars

\* Informers, handlers, the clock and goroutines keep running; the environment
\* need not.  Go's mutex hands itself to a goroutine that has waited too long,
\* hence strong fairness on Lock.
Fairness ==
    /\ \A k \in Kinds : WF_vars(List(k)) /\ WF_vars(Deliver(k))
    /\ WF_vars(ScheduleRebuild)
    /\ WF_vars(Tick)
    /\ WF_vars(\E w \in Workers : Expire(w))
    /\ \A t \in Threads : SF_vars(Lock(t)) /\ WF_vars(ListKind(t) \/ Publish(t) \/ Unlock(t))
    /\ WF_vars(Start)

FairSpec == Spec /\ Fairness

-----------------------------------------------------------------------------
(* Safety. *)

Phases == {"boot", "wait", "mark", "serve", "failed", "done",
           "idle", "lock", "list", "publish", "unlock"}
Snapshots == [at : [Kinds -> Nat], missing : SUBSET Kinds]

\* Types, and the one relation between them that every other part rests on:
\* a goroutine still listing has a kind left to list.
TypeOK ==
    /\ cluster \in [Kinds -> Nat]
    /\ listed \in [Kinds -> Nat \cup {Unlisted}]
    /\ store \in [Kinds -> Nat]
    /\ notices \in Nat
    /\ timer \in 0 .. Debounce \cup {Off}
    /\ pc \in [Threads -> Phases]
    /\ pos \in [Threads -> 1 .. NumKinds + 1]
    /\ next \in [Threads -> Snapshots]
    /\ rebuildMu \in Threads \cup {NoOne}
    /\ published \in Snapshots
    /\ synced \in BOOLEAN /\ cancelled \in BOOLEAN /\ quiet \in BOOLEAN
    /\ \A t \in Threads : pc[t] = "list" => pos[t] \in Kinds

\* What a snapshot p shows of kind k is complete up to version v, or the
\* snapshot says that it is not.
Shows(p, k, v) == p.at[k] >= v \/ k \in p.missing

\* Once IsReady() answers yes, the published snapshot shows every object that
\* existed when the process started (Start: sync, then rebuild, then synced).
ReadyCoversExisting ==
    synced => \A k \in Kinds : Shows(published, k, Existing[k])

RebuildIsDue == notices > 0 \/ timer # Off \/ \E t \in Threads : pc[t] = "lock"

\* A rebuild in progress will publish what the store of k holds now.
WillShow(t, k) ==
    \/ pc[t] = "list" /\ pos[t] <= k
    \/ pc[t] \in {"list", "publish"} /\ Shows(next[t], k, store[k])

\* No update is lost between the informer, the debounce timer and a rebuild
\* that has read the kind already: while the published snapshot is behind a
\* lister, a rebuild that will catch up is due or under way.
NoLostUpdate ==
    \A k \in Kinds : \/ Shows(published, k, store[k])
                     \/ RebuildIsDue
                     \/ \E t \in Threads : WillShow(t, k)

\* Readers never travel back in time: a snapshot replaces one that is not
\* newer in any kind, whichever goroutine stores it (rebuildMu is held from
\* the first List to the Store).
PublishesForward ==
    [][\A k \in Kinds : Shows(published', k, published.at[k])]_published

(* Why the three properties hold: an inductive invariant. *)

\* Between Lock and Unlock.
Building == {"list", "publish", "unlock"}

\* Start's goroutine has begun, or ended, the rebuild it makes itself.
FirstRebuild == {"list", "publish", "unlock", "mark", "serve", "done"}
FirstRebuildPublished == {"unlock", "mark", "serve", "done"}

\* Goroutine t has read the lister of k for the snapshot it is building.
HasRead(t, k) == pc[t] \in {"list", "publish"} /\ k < pos[t]

\* Exactly the goroutine inside rebuild() holds rebuildMu, and it stores only
\* after the last list.
OneBuilder ==
    \A t \in Threads : /\ pc[t] \in Building <=> rebuildMu = t
                       /\ pc[t] = "publish" => pos[t] = NumKinds + 1

\* Each stage shows a prefix of what the one before it shows.
Causal ==
    \A k \in Kinds :
        /\ published.at[k] <= store[k]
        /\ \A t \in Threads : next[t].at[k] <= store[k]
        /\ store[k] <= cluster[k]
        /\ Existing[k] <= cluster[k]
        /\ listed[k] <= cluster[k]
        /\ listed[k] # Unlisted => Existing[k] <= listed[k]

\* The snapshot being built is already as new as the published one.
BuildsForward ==
    \A t \in Threads, k \in Kinds :
        HasRead(t, k) => Shows(next[t], k, published.at[k])

\* From the moment Start has the mutex, nothing is built or, a little later,
\* published without what existed when the process started.
StartCovers ==
    /\ synced => pc[Starter] \in {"serve", "done"}
    /\ pc[Starter] \in {"lock"} \cup FirstRebuild => \A k \in Kinds : Existing[k] <= store[k]
    /\ pc[Starter] \in FirstRebuild =>
          \A t \in Threads, k \in Kinds : HasRead(t, k) => Shows(next[t], k, Existing[k])
    /\ pc[Starter] \in FirstRebuildPublished =>
          \A k \in Kinds : Shows(published, k, Existing[k])

\* A goroutine that read a lister before an update is followed by a rebuild
\* that is still due: NoLostUpdate survives its Store.
NoStaleRead ==
    \A t \in Threads, k \in Kinds :
        HasRead(t, k) => Shows(next[t], k, store[k]) \/ RebuildIsDue

\* The inductive invariant: each part is about a different pair of stages of
\* the pipeline cluster, store, next, published, synced, and none of the
\* properties above is inductive without the others.
IndInv ==
    /\ TypeOK
    /\ OneBuilder
    /\ Causal
    /\ BuildsForward
    /\ StartCovers
    /\ NoStaleRead
    /\ NoLostUpdate

-----------------------------------------------------------------------------
(* The indexer implements SnapshotRegister. *)

Register == INSTANCE SnapshotRegister WITH ready <- synced

\* Readers of Snapshot() and IsReady() see the register of SnapshotRegister.
ImplementsRegister == Register!Spec

-----------------------------------------------------------------------------
(* Liveness. *)

Converged == \A k \in Kinds : published.at[k] = cluster[k]

\* Once the cluster stops changing, the snapshot becomes equal to it and stays
\* so, unless the server is shut down.
EventuallyConverges == quiet ~> ([]Converged \/ cancelled)

\* The server becomes ready, however busy the cluster, unless it is shut down.
EventuallyReady == <>(synced \/ cancelled)
=============================================================================
