---------------------------- MODULE IndexerProofs ----------------------------
(***************************************************************************)
(* Proofs about module Indexer, for any number of kinds, of goroutines and *)
(* of changes, and about SnapshotReaders, for any number of requests.      *)
(* IndInv is shown inductive one conjunct at a time, then SystemInv on top *)
(* of it; the properties follow.                                           *)
(***************************************************************************)
EXTENDS SnapshotReaders, TLAPS

USE DEF Off, Unlisted

\* Every initial state satisfies the inductive invariant.
LEMMA InitIndInv == Init => IndInv
<1> SUFFICES ASSUME Init PROVE IndInv
  OBVIOUS
<1> USE NumKindsAssumption, ExistingAssumption, DebounceAssumption, StarterAssumption,
        NoOneAssumption DEF Init, EmptySnapshot, Kinds, Threads, Building
<1>1. TypeOK
  <2>1. EmptySnapshot \in Snapshots
    BY DEF Snapshots
  <2>2. pos \in [Threads -> 1 .. NumKinds + 1] /\ pc \in [Threads -> Phases]
    BY DEF Phases
  <2>3. \A t \in Threads : pc[t] # "list"
    OBVIOUS
  <2>4. synced \in BOOLEAN /\ cancelled \in BOOLEAN /\ quiet \in BOOLEAN
    BY Zenon
  <2> QED
    BY <2>1, <2>2, <2>3, <2>4 DEF TypeOK
<1>2. OneBuilder
  BY DEF OneBuilder
<1>3. Causal
  BY DEF Causal
<1>4. BuildsForward /\ NoStaleRead
  BY DEF BuildsForward, NoStaleRead, HasRead
<1>5. StartCovers
  BY DEF StartCovers, FirstRebuild, FirstRebuildPublished
<1>6. NoLostUpdate
  BY DEF NoLostUpdate, Shows
<1> QED
  BY <1>1, <1>2, <1>3, <1>4, <1>5, <1>6 DEF IndInv

\* Every step keeps the types.
LEMMA TypeStep == TypeOK /\ [Next]_vars => TypeOK'
<1> SUFFICES ASSUME TypeOK, [Next]_vars PROVE TypeOK'
  OBVIOUS
<1> USE NumKindsAssumption, DebounceAssumption, FallibleAssumption, StarterAssumption
    DEF TypeOK, informerVars, envVars, rebuildVars, Phases
<1>0. EmptySnapshot \in Snapshots
  BY DEF EmptySnapshot, Snapshots
<1>1. ASSUME NEW k \in Kinds, Change(k) PROVE TypeOK'
  BY <1>1 DEF Change
<1>2. ASSUME Touch \/ Quiesce \/ Cancel PROVE TypeOK'
  <2>1. synced' \in BOOLEAN /\ cancelled' \in BOOLEAN /\ quiet' \in BOOLEAN
    BY <1>2, Zenon DEF Touch, Quiesce, Cancel
  <2> QED
    BY <1>2, <2>1 DEF Touch, Quiesce, Cancel
<1>3. ASSUME NEW k \in Kinds, List(k) PROVE TypeOK'
  BY <1>3 DEF List
<1>4. ASSUME NEW k \in Kinds, Deliver(k) PROVE TypeOK'
  <2>1. PICK v \in store[k] + 1 .. (IF store[k] < listed[k] THEN listed[k] ELSE cluster[k]) :
           store' = [store EXCEPT ![k] = v]
    BY <1>4 DEF Deliver
  <2>2. v \in Nat
    BY <2>1
  <2> QED
    BY <1>4, <2>1, <2>2 DEF Deliver
<1>5. ASSUME ScheduleRebuild \/ Tick PROVE TypeOK'
  BY <1>5 DEF ScheduleRebuild, Tick
<1>6. ASSUME NEW w \in Workers, Expire(w) PROVE TypeOK'
  BY <1>6 DEF Expire, Threads
<1>7. ASSUME Start PROVE TypeOK'
  BY <1>7 DEF Start, Boot, WaitForCacheSync, WaitFails, MarkSynced, Return, Threads
<1>8. ASSUME NEW t \in Threads, Lock(t) PROVE TypeOK'
  BY <1>0, <1>8 DEF Lock, Kinds
<1>9. ASSUME NEW t \in Threads, ListKind(t) PROVE TypeOK'
  <2>1. pos[t] \in Kinds /\ pos[t] + 1 \in 1 .. NumKinds + 1
    BY <1>9 DEF ListKind, Kinds
  <2>2. next' \in [Threads -> Snapshots]
    <3>1. next[t] \in Snapshots /\ store[pos[t]] \in Nat
      BY <2>1
    <3>2. [next[t] EXCEPT !.at[pos[t]] = store[pos[t]]] \in Snapshots
      BY <2>1, <3>1 DEF Snapshots
    <3>3. [next[t] EXCEPT !.missing = @ \cup {pos[t]}] \in Snapshots
      BY <2>1, <3>1 DEF Snapshots
    <3>4. \/ next' = [next EXCEPT ![t] = [next[t] EXCEPT !.at[pos[t]] = store[pos[t]]]]
          \/ next' = [next EXCEPT ![t] = [next[t] EXCEPT !.missing = @ \cup {pos[t]}]]
      BY <1>9 DEF ListKind
    <3> QED
      BY <3>2, <3>3, <3>4
  <2>3. pos' \in [Threads -> 1 .. NumKinds + 1] /\ pc' \in [Threads -> Phases]
    BY <1>9, <2>1 DEF ListKind
  <2>4. \A u \in Threads : pc'[u] = "list" => pos'[u] \in Kinds
    BY <1>9, <2>1 DEF ListKind, Kinds
  <2> QED
    BY <1>9, <2>2, <2>3, <2>4 DEF ListKind
<1>10. ASSUME NEW t \in Threads, Publish(t) PROVE TypeOK'
  BY <1>10 DEF Publish
<1>11. ASSUME NEW t \in Threads, Unlock(t) PROVE TypeOK'
  BY <1>0, <1>11 DEF Unlock
<1>12. ASSUME UNCHANGED vars PROVE TypeOK'
  BY <1>12 DEF vars
<1> QED
  BY <1>1, <1>2, <1>3, <1>4, <1>5, <1>6, <1>7, <1>8, <1>9, <1>10, <1>11, <1>12
     DEF Next, Environment, Informer, Handler, Timer, Rebuild

\* What one List call does to the goroutine that makes it, and to no other.
LEMMA ListKindEffect ==
  ASSUME TypeOK, NEW t \in Threads, ListKind(t)
  PROVE  /\ pos[t] \in Kinds
         /\ \A k \in Kinds : k # pos[t] =>
               next'[t].at[k] = next[t].at[k] /\ (k \in next'[t].missing <=> k \in next[t].missing)
         /\ \/ next'[t].at[pos[t]] = store[pos[t]]
            \/ pos[t] \in next'[t].missing /\ next'[t].at = next[t].at
         /\ pos'[t] = pos[t] + 1
         /\ pc[t] = "list" /\ pc'[t] \in {"list", "publish"}
         /\ pc'[t] = "publish" => pos'[t] = NumKinds + 1
         /\ \A u \in Threads : u # t => next'[u] = next[u] /\ pos'[u] = pos[u] /\ pc'[u] = pc[u]
         /\ UNCHANGED <<informerVars, notices, timer, rebuildMu, published, synced, envVars>>
<1> USE NumKindsAssumption DEF TypeOK, Snapshots, ListKind
<1>1. pos[t] \in Kinds /\ pos'[t] = pos[t] + 1
  BY DEF Kinds
<1>2. \/ next' = [next EXCEPT ![t].at[pos[t]] = store[pos[t]]]
      \/ next' = [next EXCEPT ![t].missing = @ \cup {pos[t]}]
  OBVIOUS
<1>3. CASE next' = [next EXCEPT ![t].at[pos[t]] = store[pos[t]]]
  BY <1>1, <1>3
<1>4. CASE next' = [next EXCEPT ![t].missing = @ \cup {pos[t]}]
  BY <1>1, <1>4
<1> QED
  BY <1>2, <1>3, <1>4

\* The kind a List call reads is shown as the lister holds it.
LEMMA ListKindShows ==
  ASSUME TypeOK, NEW t \in Threads, ListKind(t)
  PROVE  Shows(next'[t], pos[t], store[pos[t]])
<1>1. store[pos[t]] \in Nat
  BY ListKindEffect DEF TypeOK
<1> QED
  BY <1>1, ListKindEffect DEF Shows

\* Every step keeps rebuildMu and the goroutines' places in step.
LEMMA OneBuilderStep == TypeOK /\ OneBuilder /\ [Next]_vars => OneBuilder'
<1> SUFFICES ASSUME TypeOK, OneBuilder, [Next]_vars PROVE OneBuilder'
  OBVIOUS
<1> USE NoOneAssumption, StarterAssumption DEF OneBuilder, Building, TypeOK
<1>1. CASE Environment \/ Informer \/ Handler \/ Tick \/ UNCHANGED vars
  BY <1>1 DEF Environment, Informer, Handler, Change, Touch, Quiesce, Cancel, List, Deliver,
              ScheduleRebuild, Tick, vars, rebuildVars
<1>2. ASSUME NEW w \in Workers, Expire(w) PROVE OneBuilder'
  BY <1>2 DEF Expire, Threads
<1>3. CASE Start
  BY <1>3 DEF Start, Boot, WaitForCacheSync, WaitFails, MarkSynced, Return, Threads
<1>4. ASSUME NEW t \in Threads, Lock(t) PROVE OneBuilder'
  BY <1>4 DEF Lock
<1>5. ASSUME NEW t \in Threads, ListKind(t) PROVE OneBuilder'
  <2> HIDE DEF TypeOK
  <2> QED
    BY <1>5, ListKindEffect
<1>6. ASSUME NEW t \in Threads, Publish(t) PROVE OneBuilder'
  BY <1>6 DEF Publish
<1>7. ASSUME NEW t \in Threads, Unlock(t) PROVE OneBuilder'
  BY <1>7 DEF Unlock
<1> QED
  BY <1>1, <1>2, <1>3, <1>4, <1>5, <1>6, <1>7 DEF Next, Timer, Rebuild

\* Every step keeps each stage of the pipeline behind the one that feeds it.
LEMMA CausalStep == TypeOK /\ Causal /\ [Next]_vars => Causal'
<1> SUFFICES ASSUME TypeOK, Causal, [Next]_vars PROVE Causal'
  OBVIOUS
<1> USE ExistingAssumption DEF Causal, TypeOK, informerVars, rebuildVars, Snapshots
<1>1. CASE Touch \/ Quiesce \/ Cancel \/ Handler \/ Timer \/ Start \/ UNCHANGED vars
  BY <1>1 DEF Touch, Quiesce, Cancel, Handler, ScheduleRebuild, Timer, Tick, Expire, Start, Boot,
              WaitForCacheSync, WaitFails, MarkSynced, Return, vars
<1>2. ASSUME NEW k \in Kinds, Change(k) PROVE Causal'
  BY <1>2 DEF Change
<1>3. ASSUME NEW k \in Kinds, List(k) PROVE Causal'
  BY <1>3 DEF List
<1>4. ASSUME NEW k \in Kinds, Deliver(k) PROVE Causal'
  <2>1. PICK v \in store[k] + 1 .. (IF store[k] < listed[k] THEN listed[k] ELSE cluster[k]) :
           store' = [store EXCEPT ![k] = v]
    BY <1>4 DEF Deliver
  <2>2. v \in Nat /\ store[k] < v /\ v <= cluster[k]
    BY <2>1
  <2>3. \A j \in Kinds : store[j] <= store'[j] /\ store'[j] <= cluster[j]
    BY <2>1, <2>2
  <2> QED
    BY <1>4, <2>3, <2>1, <2>2 DEF Deliver
<1>5. ASSUME NEW t \in Threads, Lock(t) \/ Unlock(t) PROVE Causal'
  <2>1. next' = [next EXCEPT ![t] = EmptySnapshot]
    BY <1>5 DEF Lock, Unlock
  <2>2. \A k \in Kinds : EmptySnapshot.at[k] = 0
    BY DEF EmptySnapshot
  <2>3. \A u \in Threads, k \in Kinds : next'[u].at[k] <= store[k]
    BY <2>1, <2>2
  <2> QED
    BY <1>5, <2>3 DEF Lock, Unlock
<1>6. ASSUME NEW t \in Threads, ListKind(t) PROVE Causal'
  <2> HIDE DEF TypeOK
  <2>1. \A u \in Threads, k \in Kinds : next'[u].at[k] <= store[k]
    <3> SUFFICES ASSUME NEW u \in Threads, NEW k \in Kinds PROVE next'[u].at[k] <= store[k]
      OBVIOUS
    <3>1. CASE u # t
      BY <1>6, <3>1, ListKindEffect
    <3>2. CASE u = t /\ k # pos[t]
      BY <1>6, <3>2, ListKindEffect
    <3>3. CASE u = t /\ k = pos[t]
      <4>1. store[k] \in Nat
        BY DEF TypeOK
      <4> QED
        BY <1>6, <3>3, <4>1, ListKindEffect
    <3> QED
      BY <3>1, <3>2, <3>3
  <2> QED
    BY <1>6, <2>1, ListKindEffect
<1>7. ASSUME NEW t \in Threads, Publish(t) PROVE Causal'
  BY <1>7 DEF Publish
<1> QED
  BY <1>1, <1>2, <1>3, <1>4, <1>5, <1>6, <1>7 DEF Next, Environment, Informer, Rebuild

\* What a goroutine has read after a step it had read before, unchanged, or it
\* reads in that step.
LEMMA ReadFrame ==
  ASSUME TypeOK, [Next]_vars, NEW u \in Threads, NEW k \in Kinds, HasRead(u, k)'
  PROVE  \/ /\ HasRead(u, k)
            /\ next'[u].at[k] = next[u].at[k]
            /\ k \in next'[u].missing <=> k \in next[u].missing
         \/ /\ Shows(next'[u], k, store[k])
            /\ pc[u] = "list" /\ pos[u] = k
            /\ UNCHANGED <<store, published, notices, timer>>
<1> DEFINE Kept == /\ HasRead(u, k)
                   /\ next'[u].at[k] = next[u].at[k]
                   /\ k \in next'[u].missing <=> k \in next[u].missing
<1> USE DEF HasRead
<1>1. CASE Environment \/ Informer \/ Handler \/ Tick \/ UNCHANGED vars
  <2>1. UNCHANGED <<pc, pos, next>>
    BY <1>1 DEF Environment, Informer, Handler, Change, Touch, Quiesce, Cancel, List, Deliver,
                ScheduleRebuild, Tick, vars, rebuildVars
  <2> QED
    BY <2>1
<1>2. ASSUME NEW w \in Workers, Expire(w) PROVE Kept
  BY <1>2 DEF Expire, TypeOK, Threads
<1>3. CASE Start
  BY <1>3 DEF Start, Boot, WaitForCacheSync, WaitFails, MarkSynced, Return, TypeOK, Threads
<1>4. ASSUME NEW t \in Threads, Lock(t) \/ Unlock(t) PROVE Kept
  <2>1. u # t
    BY <1>4 DEF Lock, Unlock, TypeOK, Kinds
  <2> QED
    BY <1>4, <2>1 DEF Lock, Unlock, TypeOK
<1>5. ASSUME NEW t \in Threads, Publish(t) PROVE Kept
  BY <1>5 DEF Publish, TypeOK
<1>6. ASSUME NEW t \in Threads, ListKind(t)
      PROVE  Kept \/ /\ Shows(next'[u], k, store[k])
                     /\ pc[u] = "list" /\ pos[u] = k
                     /\ UNCHANGED <<store, published, notices, timer>>
  <2>1. CASE u # t
    BY <1>6, <2>1, ListKindEffect
  <2>2. CASE u = t /\ k # pos[t]
    <3>1. k < pos[t]
      BY <1>6, <2>2, ListKindEffect DEF TypeOK, Kinds
    <3> QED
      BY <1>6, <2>2, <3>1, ListKindEffect
  <2>3. CASE u = t /\ k = pos[t]
    <3>1. Shows(next'[u], k, store[k])
      BY <1>6, <2>3, ListKindShows
    <3> QED
      BY <1>6, <2>3, <3>1, ListKindEffect DEF informerVars
  <2> QED
    BY <2>1, <2>2, <2>3
<1> QED
  BY <1>1, <1>2, <1>3, <1>4, <1>5, <1>6 DEF Next, Timer, Rebuild

\* Only Publish writes the snapshot that readers load, and while it does, no
\* other goroutine has read anything.
LEMMA PublishFrame ==
  ASSUME TypeOK, OneBuilder, [Next]_vars
  PROVE  \/ published' = published
         \/ \E t \in Threads :
               /\ Publish(t) /\ published' = next[t]
               /\ \A k \in Kinds : HasRead(t, k)
               /\ \A u \in Threads, k \in Kinds : ~HasRead(u, k)'
<1>1. ASSUME NEW t \in Threads, Publish(t)
      PROVE  /\ published' = next[t]
             /\ \A k \in Kinds : HasRead(t, k)
             /\ \A u \in Threads, k \in Kinds : ~HasRead(u, k)'
  <2>1. pc[t] = "publish" /\ pos[t] = NumKinds + 1 /\ pc' = [pc EXCEPT ![t] = "unlock"]
    BY <1>1 DEF Publish, OneBuilder
  <2>2. \A k \in Kinds : HasRead(t, k)
    BY <2>1, NumKindsAssumption DEF HasRead, Kinds
  <2>3. \A u \in Threads : u # t => pc[u] \notin Building
    BY <2>1 DEF OneBuilder, Building
  <2>4. \A u \in Threads : pc'[u] \notin {"list", "publish"}
    BY <2>1, <2>3 DEF TypeOK, Building
  <2> QED
    BY <1>1, <2>2, <2>4 DEF HasRead, Publish
<1>2. CASE ~\E t \in Threads : Publish(t)
  BY <1>2 DEF Next, Environment, Informer, Handler, Change, Touch, Quiesce, Cancel, List, Deliver,
              ScheduleRebuild, Timer, Tick, Expire, Start, Boot, WaitForCacheSync, WaitFails,
              MarkSynced, Return, Rebuild, Lock, ListKind, Unlock, vars, rebuildVars
<1> QED
  BY <1>1, <1>2

\* Every step keeps what is being built no older than what is published.
LEMMA BuildsForwardStep ==
  TypeOK /\ OneBuilder /\ Causal /\ BuildsForward /\ [Next]_vars => BuildsForward'
<1> SUFFICES ASSUME TypeOK, OneBuilder, Causal, BuildsForward, [Next]_vars,
                    NEW u \in Threads, NEW k \in Kinds, HasRead(u, k)'
             PROVE  Shows(next'[u], k, published'.at[k])
  BY DEF BuildsForward, Shows
<1>1. published' = published
  BY PublishFrame
<1>2. CASE /\ HasRead(u, k)
           /\ next'[u].at[k] = next[u].at[k]
           /\ k \in next'[u].missing <=> k \in next[u].missing
  BY <1>1, <1>2 DEF BuildsForward, Shows
<1>3. CASE Shows(next'[u], k, store[k])
  <2>1. published.at[k] <= store[k] /\ published.at[k] \in Nat /\ store[k] \in Nat
    BY DEF Causal, TypeOK, Snapshots
  <2>2. next'[u].at[k] \in Nat
    BY TypeStep DEF TypeOK, Snapshots
  <2> QED
    BY <1>1, <1>3, <2>1, <2>2 DEF Shows
<1> QED
  BY <1>2, <1>3, ReadFrame

\* A rebuild that is due stays due until a goroutine begins one, and at that
\* moment no goroutine has read anything.
LEMMA DueFrame ==
  ASSUME TypeOK, OneBuilder, [Next]_vars, RebuildIsDue
  PROVE  \/ RebuildIsDue'
         \/ /\ \E t \in Threads : pc'[t] = "list" /\ pos'[t] = 1
            /\ \A u \in Threads, k \in Kinds : ~HasRead(u, k)'
<1> USE DEF RebuildIsDue
<1>1. CASE Touch \/ Quiesce \/ Cancel \/ (\E k \in Kinds : Change(k)) \/ Informer \/ UNCHANGED vars
  BY <1>1 DEF Touch, Quiesce, Cancel, Change, Informer, List, Deliver, vars, rebuildVars, TypeOK
<1>2. CASE Handler
  BY <1>2, DebounceAssumption DEF Handler, ScheduleRebuild
<1>3. CASE Tick
  BY <1>3 DEF Tick, rebuildVars, TypeOK
<1>4. ASSUME NEW w \in Workers, Expire(w) PROVE RebuildIsDue'
  BY <1>4 DEF Expire, TypeOK, Threads
<1>5. CASE Start
  BY <1>5 DEF Start, Boot, WaitForCacheSync, WaitFails, MarkSynced, Return, TypeOK, Threads
<1>6. ASSUME NEW t \in Threads, Lock(t)
      PROVE  /\ pc'[t] = "list" /\ pos'[t] = 1
             /\ \A u \in Threads, k \in Kinds : ~HasRead(u, k)'
  <2>1. pc'[t] = "list" /\ pos'[t] = 1
    BY <1>6 DEF Lock, TypeOK
  <2>2. \A u \in Threads : u # t => pc'[u] \notin {"list", "publish"}
    BY <1>6, NoOneAssumption DEF Lock, OneBuilder, Building, TypeOK
  <2> QED
    BY <2>1, <2>2 DEF HasRead, Kinds
<1>7. ASSUME NEW t \in Threads, ListKind(t) \/ Publish(t) \/ Unlock(t) PROVE RebuildIsDue'
  BY <1>7 DEF ListKind, Publish, Unlock, TypeOK
<1> QED
  BY <1>1, <1>2, <1>3, <1>4, <1>5, <1>6, <1>7 DEF Next, Environment, Timer, Rebuild

\* A store that moves forward leaves a notice behind.
LEMMA StoreFrame ==
  ASSUME TypeOK, [Next]_vars, NEW k \in Kinds
  PROVE  store'[k] = store[k] \/ notices' > 0
<1>1. CASE Informer
  BY <1>1 DEF Informer, List, Deliver, TypeOK
<1>2. CASE ~Informer
  BY <1>2 DEF Next, Environment, Handler, Change, Touch, Quiesce, Cancel, ScheduleRebuild, Timer,
              Tick, Expire, Start, Boot, WaitForCacheSync, WaitFails, MarkSynced, Return, Rebuild,
              Lock, ListKind, Publish, Unlock, vars, informerVars
<1> QED
  BY <1>1, <1>2

\* Every step keeps stale reads followed by a rebuild that is due.
LEMMA NoStaleReadStep ==
  TypeOK /\ OneBuilder /\ NoStaleRead /\ [Next]_vars => NoStaleRead'
<1> SUFFICES ASSUME TypeOK, OneBuilder, NoStaleRead, [Next]_vars,
                    NEW u \in Threads, NEW k \in Kinds, HasRead(u, k)', ~RebuildIsDue'
             PROVE  Shows(next'[u], k, store'[k])
  BY DEF NoStaleRead, Shows
<1>1. store'[k] = store[k] /\ ~RebuildIsDue
  BY StoreFrame, DueFrame DEF RebuildIsDue
<1>2. CASE /\ HasRead(u, k)
           /\ next'[u].at[k] = next[u].at[k]
           /\ k \in next'[u].missing <=> k \in next[u].missing
  BY <1>1, <1>2 DEF NoStaleRead, Shows
<1>3. CASE Shows(next'[u], k, store[k])
  BY <1>1, <1>3
<1> QED
  BY <1>2, <1>3, ReadFrame

\* Every step keeps a rebuild coming while the snapshot is behind a store.
LEMMA NoLostUpdateStep ==
  TypeOK /\ OneBuilder /\ NoStaleRead /\ NoLostUpdate /\ [Next]_vars => NoLostUpdate'
<1> SUFFICES ASSUME TypeOK, OneBuilder, NoStaleRead, NoLostUpdate, [Next]_vars,
                    NEW k \in Kinds, ~RebuildIsDue'
             PROVE  Shows(published', k, store'[k]) \/ \E t \in Threads : WillShow(t, k)'
  BY DEF NoLostUpdate, Shows
<1>1. store'[k] = store[k]
  BY StoreFrame DEF RebuildIsDue
<1>2. CASE RebuildIsDue
  <2>1. PICK t \in Threads : pc'[t] = "list" /\ pos'[t] = 1
    BY <1>2, DueFrame
  <2> QED
    BY <2>1 DEF WillShow, Kinds
<1>3. CASE ~RebuildIsDue /\ Shows(published, k, store[k])
  <2>1. CASE published' = published
    BY <1>1, <1>3, <2>1
  <2>2. ASSUME NEW t \in Threads, published' = next[t], HasRead(t, k)
        PROVE  Shows(published', k, store'[k])
    BY <1>1, <1>3, <2>2 DEF NoStaleRead
  <2> QED
    BY <2>1, <2>2, PublishFrame
<1>4. ASSUME ~RebuildIsDue, NEW t \in Threads, WillShow(t, k)
      PROVE  Shows(published', k, store'[k]) \/ WillShow(t, k)'
  <2>1. pc[t] \in {"list", "publish"} /\ rebuildMu = t
    BY <1>4 DEF WillShow, OneBuilder, Building
  <2>2. CASE Publish(t)
    <3>1. Shows(next[t], k, store[k])
      BY <1>4, <2>2 DEF WillShow, Publish
    <3> QED
      BY <1>1, <2>2, <3>1 DEF Publish
  <2>3. CASE ListKind(t)
    <3>1. CASE k = pos[t]
      <4>1. Shows(next'[t], k, store[k])
        BY <2>3, <3>1, ListKindShows
      <4> QED
        BY <1>1, <2>3, <4>1, ListKindEffect DEF WillShow
    <3>2. CASE k # pos[t] /\ pos[t] <= k
      <4>1. pos'[t] <= k /\ pc'[t] = "list"
        <5>1. pos[t] \in Kinds /\ pos'[t] = pos[t] + 1 /\ pc'[t] \in {"list", "publish"}
          BY <2>3, ListKindEffect
        <5>2. pc'[t] = "publish" => pos'[t] = NumKinds + 1
          BY <2>3, ListKindEffect
        <5> QED
          BY <3>2, <5>1, <5>2, NumKindsAssumption DEF Kinds
      <4> QED
        BY <4>1 DEF WillShow
    <3>3. CASE ~(pos[t] <= k)
      <4>1. Shows(next'[t], k, store[k])
        <5>1. Shows(next[t], k, store[k])
          BY <1>4, <3>3 DEF WillShow
        <5>2. k # pos[t]
          BY <3>3 DEF TypeOK, Kinds
        <5> QED
          BY <2>3, <5>1, <5>2, ListKindEffect DEF Shows
      <4> QED
        BY <1>1, <2>3, <4>1, ListKindEffect DEF WillShow
    <3> QED
      BY <3>1, <3>2, <3>3
  <2>4. CASE ~Publish(t) /\ ~ListKind(t)
    <3>1. pc'[t] = pc[t] /\ pos'[t] = pos[t] /\ next'[t] = next[t]
      <4>1. CASE \E v \in Threads : Rebuild(v)
        <5>1. PICK v \in Threads : Rebuild(v)
          BY <4>1
        <5>2. v # t
          BY <2>1, <2>4, <5>1, NoOneAssumption DEF Rebuild, Lock, Unlock
        <5> QED
          BY <5>1, <5>2 DEF Rebuild, Lock, ListKind, Publish, Unlock, TypeOK
      <4>2. CASE Timer \/ Start
        BY <2>1, <4>2, StarterAssumption DEF Timer, Tick, Expire, Start, Boot, WaitForCacheSync, WaitFails,
              MarkSynced, Return, TypeOK, Threads, rebuildVars
      <4>3. CASE Environment \/ Informer \/ Handler \/ UNCHANGED vars
        BY <4>3 DEF Environment, Informer, Handler, Change, Touch, Quiesce, Cancel, List, Deliver,
                    ScheduleRebuild, vars, rebuildVars
      <4> QED
        BY <4>1, <4>2, <4>3 DEF Next
    <3> QED
      BY <1>1, <1>4, <3>1 DEF WillShow
  <2> QED
    BY <2>2, <2>3, <2>4
<1> QED
  BY <1>2, <1>3, <1>4 DEF NoLostUpdate

\* Every step keeps Start from publishing less than existed at the beginning.
LEMMA StartCoversStep ==
  TypeOK /\ OneBuilder /\ Causal /\ BuildsForward /\ StartCovers /\ [Next]_vars => StartCovers'
<1> SUFFICES ASSUME TypeOK, OneBuilder, Causal, BuildsForward, StartCovers, [Next]_vars
             PROVE  StartCovers'
  OBVIOUS
<1> DEFINE Locked == pc[Starter] \in {"lock"} \cup FirstRebuild
<1>1. /\ synced' => pc'[Starter] \in {"serve", "done"}
      /\ pc'[Starter] \in {"lock"} \cup FirstRebuild => Locked \/ WaitForCacheSync
      /\ pc'[Starter] \in FirstRebuild => pc[Starter] \in FirstRebuild \/ Lock(Starter)
      /\ pc'[Starter] \in FirstRebuildPublished =>
            pc[Starter] \in FirstRebuildPublished \/ Publish(Starter)
  <2> USE DEF StartCovers, FirstRebuild, FirstRebuildPublished, TypeOK
  <2>1. CASE Environment \/ Informer \/ Handler \/ Tick \/ UNCHANGED vars
    BY <2>1 DEF Environment, Informer, Handler, Change, Touch, Quiesce, Cancel, List, Deliver,
                ScheduleRebuild, Tick, vars, rebuildVars
  <2>2. ASSUME NEW w \in Workers, Expire(w) PROVE UNCHANGED <<synced, pc[Starter]>>
    BY <2>2, StarterAssumption DEF Expire, Threads
  <2>3. CASE Start
    BY <2>3 DEF Start, Boot, WaitForCacheSync, WaitFails, MarkSynced, Return, Threads
  <2>4. ASSUME NEW t \in Threads, Rebuild(t), t # Starter PROVE UNCHANGED <<synced, pc[Starter]>>
    BY <2>4 DEF Rebuild, Lock, ListKind, Publish, Unlock, Threads
  <2>5. CASE Lock(Starter)
    BY <2>5 DEF Lock, Threads
  <2>6. CASE ListKind(Starter)
    BY <2>6 DEF ListKind, Threads
  <2>7. CASE Publish(Starter)
    BY <2>7 DEF Publish, Threads
  <2>8. CASE Unlock(Starter)
    BY <2>8 DEF Unlock, Threads
  <2> QED
    BY <2>1, <2>2, <2>3, <2>4, <2>5, <2>6, <2>7, <2>8 DEF Next, Timer, Rebuild
<1>2. ASSUME NEW k \in Kinds, pc'[Starter] \in {"lock"} \cup FirstRebuild
      PROVE  Existing[k] <= store[k] /\ store[k] <= store'[k]
  <2>1. store[k] <= store'[k]
    BY DEF Next, Environment, Informer, Handler, Change, Touch, Quiesce, Cancel, List, Deliver,
           ScheduleRebuild, Timer, Tick, Expire, Start, Boot, WaitForCacheSync, WaitFails, MarkSynced,
           Return, Rebuild, Lock, ListKind, Publish, Unlock, vars, informerVars, TypeOK
  <2>2. CASE Locked
    BY <2>1, <2>2 DEF StartCovers
  <2>3. CASE WaitForCacheSync
    BY <2>1, <2>3, ExistingAssumption DEF WaitForCacheSync, HasSynced, Causal, TypeOK
  <2> QED
    BY <1>1, <1>2, <2>2, <2>3, <2>1
<1>3. ASSUME NEW u \in Threads, NEW k \in Kinds, HasRead(u, k)', pc'[Starter] \in FirstRebuild
      PROVE  Shows(next'[u], k, Existing[k])
  <2>1. CASE Lock(Starter)
    <3>1. pos'[Starter] = 1 /\ \A v \in Threads : v # Starter => pc'[v] \notin {"list", "publish"}
      BY <2>1, NoOneAssumption DEF Lock, OneBuilder, Building, TypeOK, Threads
    <3> QED
      BY <1>3, <3>1 DEF HasRead, Kinds
  <2>2. CASE /\ pc[Starter] \in FirstRebuild
             /\ HasRead(u, k)
             /\ next'[u].at[k] = next[u].at[k]
             /\ k \in next'[u].missing <=> k \in next[u].missing
    BY <2>2 DEF StartCovers, Shows
  <2>3. CASE Shows(next'[u], k, store[k])
    <3>1. Existing[k] <= store[k] /\ Existing[k] \in Nat /\ store[k] \in Nat
      BY <1>2, <1>3, ExistingAssumption DEF TypeOK
    <3>2. next'[u].at[k] \in Nat
      BY TypeStep DEF TypeOK, Snapshots
    <3> QED
      BY <2>3, <3>1, <3>2 DEF Shows
  <2> QED
    BY <1>1, <1>3, <2>1, <2>2, <2>3, ReadFrame
<1>4. ASSUME NEW k \in Kinds, pc'[Starter] \in FirstRebuildPublished
      PROVE  Shows(published', k, Existing[k])
  <2>1. CASE published' = published
    <3>1. ~Publish(Starter) \/ next[Starter] = published
      BY <2>1 DEF Publish
    <3>2. CASE pc[Starter] \in FirstRebuildPublished
      BY <2>1, <3>2 DEF StartCovers
    <3>3. CASE Publish(Starter)
      <4>1. HasRead(Starter, k) /\ pc[Starter] \in FirstRebuild
        BY <3>3, NumKindsAssumption DEF Publish, HasRead, OneBuilder, FirstRebuild, Threads, Kinds
      <4> QED
        BY <3>3, <4>1 DEF Publish, StartCovers, Threads
    <3> QED
      BY <1>1, <1>4, <3>2, <3>3
  <2>2. ASSUME NEW t \in Threads, Publish(t), published' = next[t], HasRead(t, k)
        PROVE  Shows(published', k, Existing[k])
    <3>1. pc[Starter] \in FirstRebuild
      BY <1>1, <1>4 DEF Publish, FirstRebuild, FirstRebuildPublished
    <3> QED
      BY <2>2, <3>1 DEF StartCovers
  <2> QED
    BY <2>1, <2>2, PublishFrame
<1>5. \A k \in Kinds : pc'[Starter] \in {"lock"} \cup FirstRebuild => Existing[k] <= store'[k]
  BY <1>2, TypeStep, ExistingAssumption DEF TypeOK
<1> QED
  BY <1>1, <1>3, <1>4, <1>5 DEF StartCovers, Shows

\* The conjunction of the parts is preserved by every step.
LEMMA StepIndInv == IndInv /\ [Next]_vars => IndInv'
BY TypeStep, OneBuilderStep, CausalStep, BuildsForwardStep, StartCoversStep, NoStaleReadStep,
   NoLostUpdateStep DEF IndInv

\* The inductive invariant holds in every reachable state.
THEOREM InductiveInvariant == Spec => []IndInv
<1>1. Init => IndInv
  BY InitIndInv
<1>2. IndInv /\ [Next]_vars => IndInv'
  BY StepIndInv
<1> QED
  BY <1>1, <1>2, PTL DEF Spec

\* The types of Indexer's variables are right in every reachable state.
THEOREM TypeCorrect == Spec => []TypeOK
<1>1. IndInv => TypeOK
  BY DEF IndInv
<1> QED
  BY <1>1, InductiveInvariant, PTL

\* When readyz answers yes, the published snapshot shows everything that existed
\* when the process started, for every number of kinds and of goroutines.
THEOREM ReadyIsCovered == Spec => []ReadyCoversExisting
<1>1. IndInv => ReadyCoversExisting
  BY DEF IndInv, StartCovers, ReadyCoversExisting, FirstRebuildPublished
<1> QED
  BY <1>1, InductiveInvariant, PTL

\* While the published snapshot is behind a lister, a rebuild that will catch up
\* is due or under way: the debounce timer and the mutex lose no event.
THEOREM NothingIsLost == Spec => []NoLostUpdate
<1>1. IndInv => NoLostUpdate
  BY DEF IndInv
<1> QED
  BY <1>1, InductiveInvariant, PTL

\* A Store never replaces a snapshot by an older one.
LEMMA PublishStep ==
  IndInv /\ [Next]_vars => \A k \in Kinds : Shows(published', k, published.at[k])
<1> SUFFICES ASSUME IndInv, [Next]_vars, NEW k \in Kinds
             PROVE  Shows(published', k, published.at[k])
  OBVIOUS
<1>1. published.at[k] \in Nat
  BY DEF IndInv, TypeOK, Snapshots
<1>2. CASE published' = published
  BY <1>1, <1>2 DEF Shows
<1>3. ASSUME NEW t \in Threads, published' = next[t], HasRead(t, k)
      PROVE  Shows(published', k, published.at[k])
  BY <1>3 DEF IndInv, BuildsForward
<1> QED
  BY <1>2, <1>3, PublishFrame DEF IndInv

\* Readers never travel back in time, whichever goroutine stores a snapshot.
THEOREM ReadersMoveForward == Spec => PublishesForward
<1>1. IndInv /\ [Next]_vars => [\A k \in Kinds : Shows(published', k, published.at[k])]_published
  BY PublishStep
<1> QED
  BY <1>1, InductiveInvariant, PTL DEF Spec, PublishesForward

\* Every step of the indexer is a step of the register it implements, or none.
LEMMA RegisterStep == IndInv /\ IndInv' /\ [Next]_vars => [Register!Next]_(Register!vars)
<1> SUFFICES ASSUME IndInv, IndInv', [Next]_vars
             PROVE  [Register!Next]_(Register!vars)
  OBVIOUS
<1> USE DEF Register!vars, Register!Next
<1>1. ASSUME NEW k \in Kinds, Change(k) PROVE Register!Change(k)
  BY <1>1 DEF Change, Register!Change, rebuildVars
<1>2. CASE MarkSynced
  <2>1. Register!CoversExisting(published)
    BY <1>2 DEF MarkSynced, IndInv, StartCovers, FirstRebuildPublished, Register!CoversExisting, Shows
  <2> QED
    BY <1>2, <2>1 DEF MarkSynced, Register!BecomeReady, informerVars
<1>3. ASSUME NEW t \in Threads, Publish(t) PROVE Register!Publish
  <2>1. published' \in [at : [Kinds -> Nat], missing : SUBSET Kinds]
    BY DEF IndInv, TypeOK, Snapshots
  <2>2. ASSUME NEW k \in Kinds
        PROVE  published'.at[k] <= cluster[k] /\ Register!NoOlder(published, published', k)
    <3>1. cluster' = cluster
      BY <1>3 DEF Publish, informerVars
    <3>2. /\ published'.at[k] <= store'[k] /\ store'[k] <= cluster'[k]
          /\ published'.at[k] \in Nat /\ store'[k] \in Nat /\ cluster'[k] \in Nat
      BY <2>1 DEF IndInv, Causal, TypeOK
    <3>3. Shows(published', k, published.at[k])
      BY PublishStep
    <3> QED
      BY <3>1, <3>2, <3>3 DEF Shows, Register!NoOlder
  <2>3. synced => Register!CoversExisting(published')
    <3>1. synced => \A k \in Kinds : Shows(published', k, Existing[k])
      BY <1>3 DEF Publish, IndInv, StartCovers, FirstRebuildPublished
    <3> QED
      BY <3>1 DEF Shows, Register!CoversExisting
  <2> QED
    BY <1>3, <2>1, <2>2, <2>3 DEF Publish, Register!Publish, informerVars
<1>4. CASE /\ ~\E k \in Kinds : Change(k)
           /\ ~MarkSynced
           /\ ~\E t \in Threads : Publish(t)
  <2>1. UNCHANGED <<cluster, published, synced>>
    BY <1>4 DEF Next, Environment, Informer, Handler, Touch, Quiesce, Cancel, List, Deliver,
              ScheduleRebuild, Timer, Tick, Expire, Start, Boot, WaitForCacheSync, WaitFails,
              Return, Rebuild, Lock, ListKind, Unlock, vars, informerVars, rebuildVars
  <2> QED
    BY <2>1
<1> QED
  BY <1>1, <1>2, <1>3, <1>4

\* The indexer implements the register that its readers rely on.
THEOREM RegisterIsImplemented == Spec => ImplementsRegister
<1>1. Init => Register!Init
  BY DEF Init, Register!Init, EmptySnapshot, Register!Nothing
<1>2. IndInv /\ IndInv' /\ [Next]_vars => [Register!Next]_(Register!vars)
  BY RegisterStep
<1> QED
  BY <1>1, <1>2, InductiveInvariant, PTL DEF Spec, ImplementsRegister, Register!Spec

-----------------------------------------------------------------------------
(* Requests that read the snapshot (SnapshotReaders). *)

\* A step of the whole system is a step of the indexer, or none.
LEMMA SystemStep == [SystemNext]_systemVars => [Next]_vars
BY DEF SystemNext, systemVars, Read, Arrive, LoadSnapshot, Resolve

\* No step takes a store back.
LEMMA StoreForward ==
  ASSUME TypeOK, [Next]_vars, NEW k \in Kinds
  PROVE  store[k] <= store'[k]
<1>1. ASSUME NEW j \in Kinds, Deliver(j) PROVE store[k] <= store'[k]
  <2>1. PICK v \in store[j] + 1 .. (IF store[j] < listed[j] THEN listed[j] ELSE cluster[j]) :
           store' = [store EXCEPT ![j] = v]
    BY <1>1 DEF Deliver
  <2> QED
    BY <2>1 DEF TypeOK
<1>2. CASE ~\E j \in Kinds : Deliver(j)
  <2>1. store' = store
    BY <1>2 DEF Next, Environment, Informer, Handler, Change, Touch, Quiesce, Cancel, List,
                ScheduleRebuild, Timer, Tick, Expire, Start, Boot, WaitForCacheSync, WaitFails,
                MarkSynced, Return, Rebuild, Lock, ListKind, Publish, Unlock, vars, informerVars
  <2> QED
    BY <2>1 DEF TypeOK
<1> QED
  BY <1>1, <1>2

\* An older version than one that is shown is shown.
LEMMA ShowsOlder ==
  ASSUME NEW p \in Snapshots, NEW k \in Kinds, NEW v \in Nat, NEW w \in Nat,
         w <= v, Shows(p, k, v)
  PROVE  Shows(p, k, w)
BY DEF Shows, Snapshots

\* Types of what the requests keep.
LEMMA ReaderTypeStep ==
  TypeOK /\ ReaderTypeOK /\ [SystemNext]_systemVars => ReaderTypeOK'
<1> SUFFICES ASSUME TypeOK, ReaderTypeOK, [SystemNext]_systemVars PROVE ReaderTypeOK'
  OBVIOUS
<1> USE DEF ReaderTypeOK
<1>1. EmptySnapshot \in Snapshots /\ published \in Snapshots
  BY DEF EmptySnapshot, Snapshots, TypeOK
<1>2. Newest(published) \in [Kinds -> Nat]
  BY <1>1 DEF Newest, Snapshots
<1>3. ASSUME NEW r \in Readers, Arrive(r) PROVE ReaderTypeOK'
  <2>1. assured' \in [Readers -> BOOLEAN]
    BY <1>3, Zenon DEF Arrive, TypeOK
  <2> QED
    BY <1>1, <1>3, <2>1 DEF Arrive
<1>4. ASSUME NEW r \in Readers, LoadSnapshot(r) PROVE ReaderTypeOK'
  BY <1>1, <1>2, <1>4 DEF LoadSnapshot
<1>5. ASSUME NEW r \in Readers, Resolve(r) PROVE ReaderTypeOK'
  BY <1>1, <1>2, <1>5 DEF Resolve
<1>6. CASE UNCHANGED readerVars
  BY <1>6 DEF readerVars
<1> QED
  BY <1>3, <1>4, <1>5, <1>6 DEF SystemNext, systemVars, Read

\* Whatever the indexer does, what has been read stays in sight: it is at most what the
\* store holds, so the next List of the kind shows it too, or fails and says so.
LEMMA IndexerKeepsSeen ==
  ASSUME IndInv, ReaderTypeOK, SeenStays, [Next]_vars, UNCHANGED seen
  PROVE  SeenStays'
<1> SUFFICES ASSUME NEW k \in Kinds
             PROVE  /\ seen[k] <= store'[k]
                    /\ Shows(published', k, seen[k])
                    /\ \A t \in Threads : HasRead(t, k)' => Shows(next'[t], k, seen[k])
  BY DEF SeenStays, Shows
<1>1. TypeOK /\ OneBuilder /\ TypeOK'
  BY StepIndInv DEF IndInv
<1>2. seen[k] \in Nat /\ store[k] \in Nat /\ store'[k] \in Nat /\ seen[k] <= store[k]
  BY <1>1 DEF TypeOK, ReaderTypeOK, SeenStays
<1>3. seen[k] <= store'[k]
  BY <1>1, <1>2, StoreForward
<1>4. Shows(published', k, seen[k])
  <2>1. CASE published' = published
    BY <2>1 DEF SeenStays, Shows
  <2>2. ASSUME NEW t \in Threads, published' = next[t], HasRead(t, k)
        PROVE  Shows(published', k, seen[k])
    BY <2>2 DEF SeenStays
  <2> QED
    BY <1>1, <2>1, <2>2, PublishFrame
<1>5. ASSUME NEW t \in Threads, HasRead(t, k)' PROVE Shows(next'[t], k, seen[k])
  <2>1. CASE /\ HasRead(t, k)
             /\ next'[t].at[k] = next[t].at[k]
             /\ k \in next'[t].missing <=> k \in next[t].missing
    BY <2>1 DEF SeenStays, Shows
  <2>2. CASE Shows(next'[t], k, store[k])
    BY <1>1, <1>2, <2>2, ShowsOlder DEF TypeOK
  <2> QED
    BY <1>1, <1>5, <2>1, <2>2, ReadFrame
<1> QED
  BY <1>3, <1>4, <1>5

\* Reading the published snapshot adds nothing that is not in sight already.
LEMMA ReadingKeepsSeen ==
  ASSUME IndInv, ReaderTypeOK, SeenStays, UNCHANGED vars, seen' = Newest(published)
  PROVE  SeenStays'
<1> SUFFICES ASSUME NEW k \in Kinds
             PROVE  /\ seen'[k] <= store[k]
                    /\ Shows(published, k, seen'[k])
                    /\ \A t \in Threads : HasRead(t, k) => Shows(next[t], k, seen'[k])
  BY DEF SeenStays, Shows, HasRead, vars, informerVars, rebuildVars
<1>1. seen'[k] = published.at[k] \/ seen'[k] = seen[k]
  BY DEF Newest
<1>2. CASE seen'[k] = seen[k]
  BY <1>2 DEF SeenStays
<1>3. CASE seen'[k] = published.at[k]
  <2>1. published.at[k] <= store[k] /\ published.at[k] \in Nat
    BY DEF IndInv, Causal, TypeOK, Snapshots
  <2> QED
    BY <1>3, <2>1 DEF IndInv, BuildsForward, Shows
<1> QED
  BY <1>1, <1>2, <1>3

\* SeenStays is preserved.
LEMMA SeenStaysStep ==
  ASSUME IndInv, ReaderTypeOK, SeenStays, [SystemNext]_systemVars
  PROVE  SeenStays'
<1>1. CASE UNCHANGED seen
  BY <1>1, SystemStep, IndexerKeepsSeen
<1>2. ASSUME NEW r \in Readers, LoadSnapshot(r) \/ Resolve(r) PROVE SeenStays'
  BY <1>2, ReadingKeepsSeen DEF LoadSnapshot, Resolve
<1> QED
  BY <1>1, <1>2 DEF SystemNext, systemVars, readerVars, Read, Arrive

\* A request holds nothing that is newer than what has been read.
LEMMA HeldStep ==
  ASSUME IndInv, ReaderTypeOK, HeldWasSeen, [SystemNext]_systemVars
  PROVE  HeldWasSeen'
<1> USE DEF HeldWasSeen, ReaderTypeOK
<1>1. \A k \in Kinds : published.at[k] \in Nat /\ seen[k] \in Nat
  BY DEF IndInv, TypeOK, Snapshots
<1>2. ASSUME NEW r \in Readers, Arrive(r) PROVE HeldWasSeen'
  BY <1>1, <1>2 DEF Arrive, EmptySnapshot
<1>3. ASSUME NEW r \in Readers, LoadSnapshot(r) PROVE HeldWasSeen'
  <2>1. \A k \in Kinds : published.at[k] <= seen'[k] /\ seen[k] <= seen'[k]
    BY <1>1, <1>3 DEF LoadSnapshot, Newest
  <2>2. ASSUME NEW q \in Readers, NEW k \in Kinds PROVE shown'[q].at[k] <= seen'[k]
    <3>1. CASE q = r
      BY <1>3, <2>1, <3>1 DEF LoadSnapshot
    <3>2. CASE q # r
      <4>1. shown'[q] = shown[q] /\ shown[q].at[k] \in Nat /\ seen'[k] \in Nat
        BY <1>1, <1>3, <3>2 DEF LoadSnapshot, Snapshots, Newest
      <4> QED
        BY <1>1, <2>1, <4>1
    <3> QED
      BY <3>1, <3>2
  <2> QED
    BY <2>2
<1>4. ASSUME NEW r \in Readers, Resolve(r) PROVE HeldWasSeen'
  <2>1. \A k \in Kinds : seen[k] <= seen'[k] /\ seen'[k] \in Nat
    BY <1>1, <1>4 DEF Resolve, Newest
  <2>2. \A q \in Readers, k \in Kinds : shown[q].at[k] \in Nat
    BY DEF Snapshots
  <2> QED
    BY <1>1, <1>4, <2>1, <2>2 DEF Resolve
<1>5. CASE UNCHANGED readerVars
  BY <1>5 DEF readerVars
<1> QED
  BY <1>2, <1>3, <1>4, <1>5 DEF SystemNext, systemVars, Read

\* Whatever is in the published snapshot shows what any request holds.
LEMMA PublishedShowsHeld ==
  ASSUME IndInv, ReaderTypeOK, SeenStays, HeldWasSeen, NEW r \in Readers, NEW k \in Kinds
  PROVE  Shows(published, k, shown[r].at[k])
<1>1. shown[r].at[k] \in Nat /\ seen[k] \in Nat /\ shown[r].at[k] <= seen[k]
  BY DEF ReaderTypeOK, Snapshots, HeldWasSeen
<1>2. published \in Snapshots /\ Shows(published, k, seen[k])
  BY DEF IndInv, TypeOK, SeenStays
<1> QED
  BY <1>1, <1>2, ShowsOlder

\* Permissions stay no older than what is shown with them.
LEMMA PermissionsStep ==
  ASSUME IndInv, ReaderTypeOK, SeenStays, HeldWasSeen, PermissionsAreNoOlder,
         [SystemNext]_systemVars
  PROVE  PermissionsAreNoOlder'
<1> SUFFICES ASSUME NEW q \in Readers, NEW k \in Kinds, step'[q] = "scoped"
             PROVE  Shows(grants'[q], k, shown'[q].at[k])
  BY DEF PermissionsAreNoOlder, Shows
<1> DEFINE Kept == step[q] = "scoped" /\ grants'[q] = grants[q] /\ shown'[q] = shown[q]
<1> USE DEF ReaderTypeOK
<1>1. ASSUME NEW r \in Readers, Arrive(r) \/ LoadSnapshot(r) PROVE Kept
  BY <1>1 DEF Arrive, LoadSnapshot
<1>2. ASSUME NEW r \in Readers, Resolve(r), r # q PROVE Kept
  BY <1>2 DEF Resolve
<1>3. CASE Resolve(q)
  <2>1. grants'[q] = published /\ shown'[q] = shown[q]
    BY <1>3 DEF Resolve
  <2> QED
    BY <2>1, PublishedShowsHeld DEF Shows
<1>4. CASE UNCHANGED readerVars
  BY <1>4 DEF readerVars, PermissionsAreNoOlder
<1>5. CASE Kept
  BY <1>5 DEF PermissionsAreNoOlder
<1> QED
  BY <1>1, <1>2, <1>3, <1>4, <1>5 DEF SystemNext, systemVars, Read

\* The server never stops being ready.
LEMMA ReadyStays == synced /\ [Next]_vars => synced'
BY DEF Next, Environment, Informer, Handler, Change, Touch, Quiesce, Cancel, List, Deliver,
       ScheduleRebuild, Timer, Tick, Expire, Start, Boot, WaitForCacheSync, WaitFails,
       MarkSynced, Return, Rebuild, Lock, ListKind, Publish, Unlock, vars

\* Requests of the assured stay covered.
LEMMA AssuredStep ==
  ASSUME IndInv, ReaderTypeOK, AssuredWhenReady, AssuredIsCovered, [SystemNext]_systemVars
  PROVE  AssuredWhenReady' /\ AssuredIsCovered'
<1> USE DEF ReaderTypeOK
<1>1. AssuredWhenReady'
  <2>1. ASSUME NEW r \in Readers, Read(r) PROVE AssuredWhenReady'
    <3>1. CASE Arrive(r)
      BY <3>1, Zenon DEF Arrive, AssuredWhenReady, vars
    <3>2. CASE LoadSnapshot(r) \/ Resolve(r)
      BY <3>2 DEF LoadSnapshot, Resolve, AssuredWhenReady, vars
    <3> QED
      BY <2>1, <3>1, <3>2 DEF Read
  <2>2. CASE UNCHANGED readerVars
    BY <2>2, SystemStep, ReadyStays DEF readerVars, AssuredWhenReady
  <2> QED
    BY <2>1, <2>2 DEF SystemNext, systemVars
<1>2. AssuredIsCovered'
  <2> SUFFICES ASSUME NEW q \in Readers, NEW k \in Kinds, assured'[q]
               PROVE  /\ step'[q] \in {"resolve", "answered", "scoped"} => Shows(shown'[q], k, Existing[k])
                      /\ step'[q] = "scoped" => Shows(grants'[q], k, Existing[k])
    BY DEF AssuredIsCovered, Shows
  <2>1. synced => Shows(published, k, Existing[k])
    BY DEF IndInv, StartCovers, FirstRebuildPublished
  <2> DEFINE Kept == step'[q] = step[q] /\ shown'[q] = shown[q] /\ grants'[q] = grants[q]
                     /\ assured'[q] = assured[q]
  <2>2. CASE Kept
    BY <2>2 DEF AssuredIsCovered, Shows
  <2>3. ASSUME NEW r \in Readers, Read(r), r # q PROVE Kept
    BY <2>3 DEF Read, Arrive, LoadSnapshot, Resolve
  <2>4. CASE Arrive(q)
    BY <2>4 DEF Arrive
  <2>5. CASE LoadSnapshot(q)
    <3>1. step'[q] # "scoped" /\ shown'[q] = published /\ assured[q]
      BY <2>5 DEF LoadSnapshot
    <3> QED
      BY <2>1, <3>1 DEF AssuredWhenReady, Shows
  <2>6. CASE Resolve(q)
    <3>1. shown'[q] = shown[q] /\ grants'[q] = published /\ assured[q] /\ step[q] = "resolve"
      BY <2>6 DEF Resolve
    <3> QED
      BY <2>1, <3>1 DEF AssuredWhenReady, AssuredIsCovered, Shows
  <2>7. ASSUME UNCHANGED readerVars PROVE Kept
    BY <2>7 DEF readerVars
  <2> QED
    BY <2>2, <2>3, <2>4, <2>5, <2>6, <2>7 DEF SystemNext, systemVars, Read
<1> QED
  BY <1>1, <1>2

\* The inductive invariant of the indexer and its readers holds in every reachable state.
THEOREM SystemInvariant == SystemSpec => []SystemInv
<1>1. SystemInit => SystemInv
  <2> SUFFICES ASSUME SystemInit PROVE SystemInv
    OBVIOUS
  <2> USE DEF SystemInit
  <2>1. IndInv
    BY InitIndInv
  <2>2. EmptySnapshot \in Snapshots
    BY DEF EmptySnapshot, Snapshots
  <2>3. ReaderTypeOK
    BY <2>2 DEF ReaderTypeOK
  <2>4. SeenStays
    <3>1. \A k \in Kinds : published.at[k] \in Nat /\ store[k] \in Nat
      BY <2>1 DEF IndInv, TypeOK, Snapshots
    <3>2. \A t \in Threads, k \in Kinds : next[t].at[k] \in Nat
      BY <2>1 DEF IndInv, TypeOK, Snapshots
    <3> QED
      BY <3>1, <3>2 DEF SeenStays, Shows
  <2>5. HeldWasSeen
    BY DEF HeldWasSeen, EmptySnapshot
  <2>6. AssuredWhenReady /\ PermissionsAreNoOlder /\ AssuredIsCovered
    BY DEF AssuredWhenReady, PermissionsAreNoOlder, AssuredIsCovered
  <2> QED
    BY <2>1, <2>3, <2>4, <2>5, <2>6 DEF SystemInv
<1>2. SystemInv /\ [SystemNext]_systemVars => SystemInv'
  BY SystemStep, StepIndInv, ReaderTypeStep, SeenStaysStep, HeldStep, PermissionsStep, AssuredStep
     DEF SystemInv, IndInv
<1> QED
  BY <1>1, <1>2, PTL DEF SystemSpec

\* The indexer keeps its promise to any number of requests at once: those that read it
\* do not change it.
THEOREM ReadersSeeTheRegister == SystemSpec => ImplementsRegister
<1>1. SystemInit => Init
  BY DEF SystemInit
<1>2. [SystemNext]_systemVars => [Next]_vars
  BY SystemStep
<1>3. SystemSpec => Spec
  BY <1>1, <1>2, PTL DEF SystemSpec, Spec
<1> QED
  BY <1>3, RegisterIsImplemented

\* Permissions are never older, in any kind, than what is shown with them, for any number
\* of requests and of publications, failed Lists included (rest.go:69 and local.go:68).
THEOREM PermissionsNeverOlder == SystemSpec => []PermissionsAreNoOlder
<1>1. SystemInv => PermissionsAreNoOlder
  BY DEF SystemInv
<1> QED
  BY <1>1, SystemInvariant, PTL

\* Whoever asks the readiness check first gets everything that existed at the start.
THEOREM AssuredAreCovered == SystemSpec => []AssuredIsCovered
<1>1. SystemInv => AssuredIsCovered
  BY DEF SystemInv
<1> QED
  BY <1>1, SystemInvariant, PTL

\* No request reads anything older than any request has read before it.
THEOREM ReadsNeverGoBack == SystemSpec => ReadsMoveForward
<1> DEFINE Forward ==
      \A r \in Readers, k \in Kinds :
          /\ step[r] = "load" /\ step'[r] # "load" => Shows(shown'[r], k, seen[k])
          /\ step[r] = "resolve" /\ step'[r] # "resolve" => Shows(grants'[r], k, seen[k])
<1>1. SystemInv /\ [SystemNext]_systemVars => [Forward]_systemVars
  <2> SUFFICES ASSUME SystemInv, SystemNext PROVE Forward
    BY DEF systemVars
  <2> USE DEF SystemInv, ReaderTypeOK
  <2>1. \A k \in Kinds : Shows(published, k, seen[k])
    BY DEF SeenStays
  <2>2. ASSUME NEW r \in Readers, Read(r) PROVE Forward
    BY <2>1, <2>2 DEF Read, Arrive, LoadSnapshot, Resolve, Shows
  <2>3. CASE UNCHANGED readerVars
    BY <2>3 DEF readerVars
  <2> QED
    BY <2>2, <2>3 DEF SystemNext
<1> QED
  BY <1>1, SystemInvariant, PTL DEF SystemSpec, ReadsMoveForward
=============================================================================
